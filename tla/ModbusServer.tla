----------------------------- MODULE ModbusServer -----------------------------
(***************************************************************************)
(* The select() loop of NewModbusServer, one thread that accepts Modbus    *)
(* clients and serves their requests.  It keeps three views of the         *)
(* connections: refset for select(), clientList for display, and fdmax,    *)
(* the bound of the loop over descriptors.                                 *)
(*                                                                         *)
(* The network and the other threads of the process are the environment:   *)
(* peers connect, send a request or hang up at any moment, and accept()    *)
(* returns any descriptor that is free, since the other threads open and   *)
(* close descriptors too.                                                  *)
(***************************************************************************)
EXTENDS Naturals

CONSTANTS Fds,            (* the descriptors of the process *)
          server_socket,  (* the listening one *)
          MaxBacklog      (* bound on the connections waiting for accept() *)

ASSUME FdsAssumption ==
    /\ Fds \subseteq Nat
    /\ server_socket \in Fds
    /\ MaxBacklog \in Nat

VARIABLES
    refset, clientList, fdmax,   (* the fields of NewModbusServer *)
    rdset,       (* the local copy select() reduced to the ready sockets *)
    next,        (* the loop index: sockets below it were visited *)
    looping,     (* the loop over descriptors is running *)
    conn,        (* what the kernel holds for a descriptor *)
    backlog      (* connections waiting for accept() *)

serverVars == <<refset, clientList, fdmax, rdset, next, looping>>
vars == <<serverVars, conn, backlog>>

\* "free": no connection; "idle": nothing to read; "request": a request or a
\* part of one has arrived; "hungup": the peer closed the connection.
ConnStates == {"free", "idle", "request", "hungup"}

Clients == Fds \ {server_socket}

Init ==
    /\ refset = {server_socket}
    /\ clientList = {}
    /\ fdmax = server_socket
    /\ rdset = {}
    /\ next = 0
    /\ looping = FALSE
    /\ conn = [f \in Clients |-> "free"]
    /\ backlog = 0

-------------------------------------------------------------------------------
(* The environment.                                                        *)

PeerConnects ==
    /\ backlog < MaxBacklog
    /\ backlog' = backlog + 1
    /\ UNCHANGED <<serverVars, conn>>

PeerSends(f) ==
    /\ conn[f] = "idle"
    /\ conn' = [conn EXCEPT ![f] = "request"]
    /\ UNCHANGED <<serverVars, backlog>>

PeerHangsUp(f) ==
    /\ conn[f] \in {"idle", "request"}
    /\ conn' = [conn EXCEPT ![f] = "hungup"]
    /\ UNCHANGED <<serverVars, backlog>>

-------------------------------------------------------------------------------
(* The loop.                                                               *)

\* What select() reports of the sockets it is given.
Ready(f) == IF f = server_socket THEN backlog > 0
                                 ELSE conn[f] \in {"request", "hungup"}

\* Mutant: the loop tests refset instead of the copy select() reduced.
SelectAll ==
    /\ ~looping
    /\ \E f \in refset : f <= fdmax /\ Ready(f)
    /\ rdset' = refset
    /\ next' = 0
    /\ looping' = TRUE
    /\ UNCHANGED <<refset, clientList, fdmax, conn, backlog>>

Select ==
    /\ ~looping
    /\ rdset' = {f \in refset : f <= fdmax /\ Ready(f)}
    /\ rdset' # {}
    /\ next' = 0
    /\ looping' = TRUE
    /\ UNCHANGED <<refset, clientList, fdmax, conn, backlog>>

\* The next descriptor the loop finds in rdset.
Visits(f) ==
    /\ looping
    /\ f \in rdset
    /\ next <= f /\ f <= fdmax
    /\ \A g \in rdset : next <= g => f <= g
    /\ next' = f + 1
    /\ UNCHANGED <<rdset, looping>>

\* The loop runs past fdmax.
EndPass ==
    /\ looping
    /\ \A f \in rdset : f < next \/ f > fdmax
    /\ looping' = FALSE
    /\ UNCHANGED <<refset, clientList, fdmax, rdset, next, conn, backlog>>

\* Mutant: the new socket does not raise fdmax.
HandleNewConnectionLow ==
    /\ Visits(server_socket)
    /\ \E newfd \in {f \in Clients : conn[f] = "free"} :
          /\ refset' = refset \cup {newfd}
          /\ clientList' = clientList \cup {newfd}
          /\ conn' = [conn EXCEPT ![newfd] = "idle"]
    /\ backlog' = backlog - 1
    /\ UNCHANGED fdmax

\* handleNewConnection: accept() succeeds.
HandleNewConnection ==
    /\ Visits(server_socket)
    /\ \E newfd \in {f \in Clients : conn[f] = "free"} :
          /\ refset' = refset \cup {newfd}
          /\ fdmax' = IF newfd > fdmax THEN newfd ELSE fdmax
          /\ clientList' = clientList \cup {newfd}
          /\ conn' = [conn EXCEPT ![newfd] = "idle"]
    /\ backlog' = backlog - 1

\* handleNewConnection: accept() returns -1, for want of a descriptor or because
\* the peer gave up meanwhile.
AcceptFails ==
    /\ Visits(server_socket)
    /\ backlog' \in {backlog, backlog - 1}
    /\ UNCHANGED <<refset, clientList, fdmax, conn>>

\* handleClientRequest: modbus_receive returns a request, modbus_reply answers.
AnswerRequest(f) ==
    /\ f # server_socket
    /\ Visits(f)
    /\ conn[f] = "request"
    /\ conn' = [conn EXCEPT ![f] = "idle"]
    /\ UNCHANGED <<refset, clientList, fdmax, backlog>>

\* m is findMaxSocket() when the client list is cl.
IsMaxSocket(m, cl) ==
    /\ m \in cl \cup {server_socket}
    /\ \A f \in cl \cup {server_socket} : f <= m

\* Mutant: fdmax drops to the listening socket instead of the highest client.
DropClientLowest(f) ==
    /\ f # server_socket
    /\ Visits(f)
    /\ conn[f] \in {"request", "hungup"}
    /\ clientList' = clientList \ {f}
    /\ conn' = [conn EXCEPT ![f] = "free"]
    /\ refset' = refset \ {f}
    /\ fdmax' = server_socket
    /\ UNCHANGED backlog

\* Mutant: the socket is not removed from the client list.
DropClientListed(f) ==
    /\ f # server_socket
    /\ Visits(f)
    /\ conn[f] \in {"request", "hungup"}
    /\ UNCHANGED clientList
    /\ conn' = [conn EXCEPT ![f] = "free"]
    /\ refset' = refset \ {f}
    /\ IF f = fdmax
       THEN fdmax' \in {m \in Fds : IsMaxSocket(m, clientList')}
       ELSE UNCHANGED fdmax
    /\ UNCHANGED backlog

\* handleClientRequest: modbus_receive returns -1, after a hang-up or on a
\* request that is malformed or does not arrive in time.
DropClient(f) ==
    /\ f # server_socket
    /\ Visits(f)
    /\ conn[f] \in {"request", "hungup"}
    /\ clientList' = clientList \ {f}
    /\ conn' = [conn EXCEPT ![f] = "free"]
    /\ refset' = refset \ {f}
    /\ IF f = fdmax
       THEN fdmax' \in {m \in Fds : IsMaxSocket(m, clientList')}
       ELSE UNCHANGED fdmax
    /\ UNCHANGED backlog

\* One step of the thread.  modbus_receive on an "idle" connection would block
\* it: then no step is enabled.
ServerStep ==
    \/ Select \/ EndPass \/ HandleNewConnection \/ AcceptFails
    \/ \E f \in Clients : AnswerRequest(f) \/ DropClient(f)

Next ==
    \/ ServerStep
    \/ PeerConnects
    \/ \E f \in Clients : PeerSends(f) \/ PeerHangsUp(f)

Spec == Init /\ [][Next]_vars

\* The thread runs whenever it can; peers owe the server nothing.
FairSpec == Spec /\ WF_vars(ServerStep)

-------------------------------------------------------------------------------
(* Properties.                                                             *)

\* The types of the server's fields and of the kernel's state.
TypeOK ==
    /\ refset \subseteq Fds
    /\ clientList \subseteq Clients
    /\ fdmax \in Fds
    /\ rdset \subseteq Fds
    /\ next \in Nat
    /\ looping \in BOOLEAN
    /\ conn \in [Clients -> ConnStates]
    /\ backlog \in 0..MaxBacklog

\* The three views of the connections agree with the kernel after every handler:
\* each connected client is watched and listed, and nothing else is.
ViewsAgree ==
    /\ clientList = {f \in Clients : conn[f] # "free"}
    /\ refset = clientList \cup {server_socket}

\* fdmax is the highest watched socket, so that select() and the loop miss none
\* (handleNewConnection, findMaxSocket).
FdmaxIsMax == IsMaxSocket(fdmax, clientList)

\* The loop never calls modbus_receive on a connection that has nothing to read,
\* nor accept() when no connection waits: these calls have no timeout and would
\* stop the service of every client.  A descriptor closed and reused within one
\* pass must not be visited again.
NeverBlocks ==
    looping => \A f \in rdset : next <= f => Ready(f)

\* A client's request is answered, or its connection is dropped.
RequestServed ==
    \A f \in Clients : conn[f] = "request" ~> conn[f] # "request"

===============================================================================
