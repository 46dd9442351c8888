------------------------------- MODULE Sessions -------------------------------
(***************************************************************************)
(* The connections of CrioSSLServer: one thread accepts, shakes hands and  *)
(* registers each client in m_clientIPs; a thread per client serves it,    *)
(* closes its socket and then takes it off the list; stopServer, run by    *)
(* the destructor when the process exits, joins the client threads.        *)
(*                                                                         *)
(* The accepting thread is detached: it may still add a client thread      *)
(* while stopServer walks, without a lock, over the vector of the threads, *)
(* or behind that walk; ~vector of a thread nobody joined is               *)
(* std::terminate.  The process can die elsewhere too, and `died' says of  *)
(* what.                                                                   *)
(*                                                                         *)
(* The kernel gives accept() any descriptor that is free at that moment,   *)
(* so one closed by a session can come back before that session is off     *)
(* the list.  The peers are the environment and owe nothing: one may       *)
(* stay silent in its handshake or in its session.                         *)
(***************************************************************************)

CONSTANTS Conns,          (* the connections made during a run *)
          Fds,            (* the descriptors they can get *)
          None            (* no connection, no descriptor *)

ASSUME SessionsAssumption == None \notin Conns \cup Fds

VARIABLES
    peer,        (* what each client does at its end of the connection *)
    srv,         (* where the server is with the connection *)
    fd,          (* its descriptor, kept by its thread until the end *)
    holder,      (* the kernel's table: the connection open on a descriptor *)
    ips,         (* m_clientIPs: whose address is stored for a descriptor *)
    lock,        (* clientMutex_ is held by the accepting thread *)
    armed,       (* the accepting thread read serverRunning_ and calls accept() *)
    running,     (* serverRunning_ *)
    joinable,    (* clientThreads_: the threads in it that nobody joined *)
    walk,        (* the threads the loop of stopServer still comes to *)
    stop,        (* stopServer: "no", "joining", "done"; the process: "exit" *)
    late,        (* a thread was added after stopServer began (history) *)
    died         (* what ended the process early, or "no" *)

connVars == <<peer, srv, fd, holder, ips>>
stopVars == <<running, walk, stop>>
vars == <<connVars, lock, armed, joinable, stopVars, late, died>>

PeerStates == {"out", "waiting", "ready", "request", "garbage", "gone"}

\* The accepting thread is busy with at most one connection.
Accepting == {"handshake", "register", "spawn"}
Serving   == {"loop", "read", "respond", "close", "drop"}
SrvStates == Accepting \cup Serving \cup {"none", "erase", "done", "refused"}

Init ==
    /\ peer = [k \in Conns |-> "out"]
    /\ srv = [k \in Conns |-> "none"]
    /\ fd = [k \in Conns |-> None]
    /\ holder = [f \in Fds |-> None]
    /\ ips = [f \in Fds |-> None]
    /\ lock = FALSE
    /\ armed = FALSE
    /\ running = TRUE
    /\ joinable = {} /\ walk = {}
    /\ stop = "no"
    /\ late = FALSE
    /\ died = "no"

-------------------------------------------------------------------------------
(* The clients.                                                            *)

PeerMoves(k, from, to) ==
    /\ peer[k] \in from
    /\ peer' = [peer EXCEPT ![k] = to]
    /\ UNCHANGED <<srv, fd, holder, ips, lock, armed, joinable, stopVars, late, died>>

PeerConnects(k)   == PeerMoves(k, {"out"}, "waiting")
PeerHandshakes(k) == PeerMoves(k, {"waiting"}, "ready")
PeerRequests(k)   == srv[k] \in Serving /\ PeerMoves(k, {"ready"}, "request")
\* What it sends is no TLS record.
PeerGarbles(k)    == srv[k] \in Serving /\ PeerMoves(k, {"ready"}, "garbage")
PeerHangsUp(k)    == PeerMoves(k, {"waiting", "ready", "request", "garbage"}, "gone")

-------------------------------------------------------------------------------
(* acceptClients.                                                          *)

Goto(k, l) == srv' = [srv EXCEPT ![k] = l]

\* while (serverRunning_), between two connections.
AcceptTest ==
    /\ running /\ ~armed
    /\ \A j \in Conns : srv[j] \notin Accepting
    /\ armed' = TRUE
    /\ UNCHANGED <<connVars, lock, joinable, stopVars, late, died>>

Waits(k) == srv[k] = "none" /\ peer[k] # "out"

\* accept() succeeds.
Accept(k) ==
    /\ armed /\ armed' = FALSE
    /\ Waits(k)
    /\ Goto(k, "handshake")
    /\ \E f \in Fds :
          /\ holder[f] = None
          /\ holder' = [holder EXCEPT ![f] = k]
          /\ fd' = [fd EXCEPT ![k] = f]
    /\ UNCHANGED <<peer, ips, lock, joinable, stopVars, late, died>>

\* accept() finds no connection, or no free descriptor.
AcceptFails ==
    /\ armed /\ armed' = FALSE
    /\ (\A k \in Conns : ~Waits(k)) \/ (\A f \in Fds : holder[f] # None)
    /\ UNCHANGED <<connVars, lock, joinable, stopVars, late, died>>

\* Mutant: clientMutex_ is taken before the handshake.
HandshakeLocked(k) ==
    /\ srv[k] = "handshake"
    /\ \/ /\ ~lock /\ lock' = TRUE
          /\ UNCHANGED srv
       \/ /\ lock /\ peer[k] = "ready"
          /\ lock' = FALSE
          /\ Goto(k, "register")
    /\ UNCHANGED <<peer, fd, holder, ips, armed, joinable, stopVars, late, died>>

\* SSL_accept() succeeds.  It waits for the client without a limit.
Handshake(k) ==
    /\ srv[k] = "handshake"
    /\ peer[k] = "ready"
    /\ Goto(k, "register")
    /\ UNCHANGED <<peer, fd, holder, ips, lock, armed, joinable, stopVars, late, died>>

\* SSL_new, SSL_set_fd or SSL_accept fails: the socket is closed.
HandshakeFails(k) ==
    /\ srv[k] = "handshake"
    /\ peer[k] \in {"ready", "gone"}
    /\ Goto(k, "refused")
    /\ holder' = [holder EXCEPT ![fd[k]] = None]
    /\ UNCHANGED <<peer, fd, ips, lock, armed, joinable, stopVars, late, died>>

\* Mutant: map::insert, which keeps an entry that is already there.
RegisterInsert(k) ==
    /\ srv[k] = "register"
    /\ ~lock
    /\ lock' = TRUE
    /\ ips' = IF ips[fd[k]] = None THEN [ips EXCEPT ![fd[k]] = k] ELSE ips
    /\ Goto(k, "spawn")
    /\ UNCHANGED <<peer, fd, holder, armed, joinable, stopVars, late, died>>

\* The lock is taken and the client's address is stored under its descriptor.
Register(k) ==
    /\ srv[k] = "register"
    /\ ~lock
    /\ lock' = TRUE
    /\ ips' = [ips EXCEPT ![fd[k]] = k]
    /\ Goto(k, "spawn")
    /\ UNCHANGED <<peer, fd, holder, armed, joinable, stopVars, late, died>>

\* The client's thread starts and is added to clientThreads_; the lock is
\* released at the end of the iteration.
Spawn(k) ==
    /\ srv[k] = "spawn"
    /\ lock' = FALSE
    /\ Goto(k, "loop")
    /\ joinable' = joinable \cup {k}
    /\ late' = (late \/ stop # "no")
    /\ UNCHANGED <<peer, fd, holder, ips, armed, stopVars, died>>

\* The same while stopServer walks over the vector and it has to move its
\* elements: the walk goes on over freed memory.  It meets emptied thread
\* objects, which it skips, or the process dies.
SpawnMoves(k) ==
    /\ srv[k] = "spawn" /\ stop = "joining"
    /\ lock' = FALSE
    /\ Goto(k, "loop")
    /\ joinable' = joinable \cup {k}
    /\ late' = TRUE
    /\ \/ walk' = {} /\ UNCHANGED died
       \/ died' = "vector" /\ UNCHANGED walk
    /\ UNCHANGED <<peer, fd, holder, ips, armed, running, stop>>

\* std::thread cannot create the thread: nothing catches the exception.
SpawnFails(k) ==
    /\ srv[k] = "spawn"
    /\ died' = "thread"
    /\ UNCHANGED <<connVars, lock, armed, joinable, stopVars, late>>

-------------------------------------------------------------------------------
(* handleClient and gracefulSSLShutdown.                                   *)

\* while (serverRunning_)
LoopTest(k) ==
    /\ srv[k] = "loop"
    /\ Goto(k, IF running THEN "read" ELSE "close")
    /\ UNCHANGED <<peer, fd, holder, ips, lock, armed, joinable, stopVars, late, died>>

\* SSL_read returns data; it waits for the client without a limit.
ReadRequest(k) ==
    /\ srv[k] = "read"
    /\ peer[k] = "request"
    /\ peer' = [peer EXCEPT ![k] = "ready"]
    /\ Goto(k, "respond")
    /\ UNCHANGED <<fd, holder, ips, lock, armed, joinable, stopVars, late, died>>

\* SSL_read returns no data: the client closed its end.
ReadFails(k) ==
    /\ srv[k] = "read"
    /\ peer[k] = "gone"
    /\ Goto(k, "close")
    /\ UNCHANGED <<peer, fd, holder, ips, lock, armed, joinable, stopVars, late, died>>

\* SSL_read reports a broken link or what is no TLS record: criticalError.
ReadBreaks(k) ==
    /\ srv[k] = "read"
    /\ peer[k] \in {"garbage", "gone"}
    /\ Goto(k, "drop")
    /\ UNCHANGED <<peer, fd, holder, ips, lock, armed, joinable, stopVars, late, died>>

\* The answer is written; an oversized message ends the session instead.
Respond(k) ==
    /\ srv[k] = "respond"
    /\ Goto(k, "loop") \/ Goto(k, "close")
    /\ UNCHANGED <<peer, fd, holder, ips, lock, armed, joinable, stopVars, late, died>>

\* parseRequest reads the first token of a line that has none (module Framing).
RequestKills(k) ==
    /\ srv[k] = "respond"
    /\ died' = "request"
    /\ UNCHANGED <<connVars, lock, armed, joinable, stopVars, late>>

\* A write to a client that hung up raises SIGPIPE, which the program leaves at
\* its default.
PipeKills(k) ==
    /\ srv[k] \in {"handshake", "respond", "close"}
    /\ peer[k] = "gone"
    /\ died' = "pipe"
    /\ UNCHANGED <<connVars, lock, armed, joinable, stopVars, late>>

\* Mutant: the socket is closed a second time, with the entry.
EraseTwice(k) ==
    /\ srv[k] = "erase"
    /\ ~lock
    /\ ips' = [ips EXCEPT ![fd[k]] = None]
    /\ holder' = [holder EXCEPT ![fd[k]] = None]
    /\ Goto(k, "done")
    /\ UNCHANGED <<peer, fd, lock, armed, joinable, stopVars, late, died>>

\* Mutant: the entry stays.
EraseNot(k) ==
    /\ srv[k] = "erase"
    /\ ~lock
    /\ Goto(k, "done")
    /\ UNCHANGED <<peer, fd, holder, ips, lock, armed, joinable, stopVars, late, died>>

\* SSL_shutdown, unless the error was critical, whose second call waits for the
\* client to end its side and fails when it meets data; then close(clientSocket):
\* the descriptor is free.
Close(k) ==
    /\ \/ srv[k] = "close" /\ peer[k] \in {"request", "garbage", "gone"}
       \/ srv[k] = "drop"
    /\ holder' = [holder EXCEPT ![fd[k]] = None]
    /\ Goto(k, "erase")
    /\ UNCHANGED <<peer, fd, ips, lock, armed, joinable, stopVars, late, died>>

\* The lock is taken, the entry of the descriptor is erased, the thread ends.
Erase(k) ==
    /\ srv[k] = "erase"
    /\ ~lock
    /\ ips' = [ips EXCEPT ![fd[k]] = None]
    /\ Goto(k, "done")
    /\ UNCHANGED <<peer, fd, holder, lock, armed, joinable, stopVars, late, died>>

-------------------------------------------------------------------------------
(* stopServer, called once by the destructor, when the process exits.      *)

\* Mutant: clientMutex_ is held over the joins.
StopServerLocked ==
    /\ stop = "no" /\ ~lock
    /\ running' = FALSE /\ lock' = TRUE
    /\ stop' = "joining"
    /\ walk' = joinable
    /\ UNCHANGED <<connVars, armed, joinable, late, died>>

\* Mutant: the threads are not joined.
StopServerNoJoin ==
    /\ stop = "no"
    /\ running' = FALSE
    /\ stop' = "joining"
    /\ UNCHANGED <<connVars, lock, armed, joinable, walk, late, died>>

\* The range of the loop is taken from the vector once, at its start.
StopServer ==
    /\ stop = "no"
    /\ running' = FALSE
    /\ stop' = "joining"
    /\ walk' = joinable
    /\ UNCHANGED <<connVars, lock, armed, joinable, late, died>>

\* join() returns when the session's thread has ended.
JoinThread(k) ==
    /\ stop = "joining" /\ k \in walk
    /\ srv[k] = "done"
    /\ walk' = walk \ {k}
    /\ joinable' = joinable \ {k}
    /\ UNCHANGED <<connVars, lock, armed, running, stop, late, died>>

\* The loop is over: the destructor goes on and frees the SSL context.
StopReturns ==
    /\ stop = "joining" /\ walk = {}
    /\ stop' = "done"
    /\ UNCHANGED <<connVars, lock, armed, joinable, running, walk, late, died>>

\* The destructor destroys clientThreads_, and the process exits.
Exit ==
    /\ stop = "done"
    /\ IF joinable = {} THEN stop' = "exit" /\ UNCHANGED died
                        ELSE died' = "joinable" /\ UNCHANGED stop
    /\ UNCHANGED <<connVars, lock, armed, joinable, running, walk, late>>

-------------------------------------------------------------------------------

AcceptStep ==
    \/ AcceptTest \/ AcceptFails
    \/ \E k \in Conns : \/ Accept(k) \/ Handshake(k) \/ HandshakeFails(k)
                        \/ Register(k) \/ Spawn(k)

ClientThread(k) ==
    \/ LoopTest(k) \/ ReadRequest(k) \/ ReadFails(k) \/ ReadBreaks(k)
    \/ Respond(k) \/ Close(k) \/ Erase(k)

PeerStep(k) ==
    \/ PeerConnects(k) \/ PeerHandshakes(k) \/ PeerRequests(k)
    \/ PeerGarbles(k) \/ PeerHangsUp(k)

\* What the system or the standard library may do to a thread, but need not.
Mishap(k) == SpawnMoves(k) \/ SpawnFails(k) \/ RequestKills(k) \/ PipeKills(k)

StopStep == StopReturns \/ Exit \/ \E k \in Conns : JoinThread(k)

\* The process runs.
Alive == died = "no" /\ stop # "exit"

Run(A) == Alive /\ A

Next ==
    \/ Run(AcceptStep)
    \/ \E k \in Conns : Run(ClientThread(k)) \/ Run(PeerStep(k)) \/ Run(Mishap(k))
    \/ Run(StopServer)
    \/ Run(StopStep)

Spec == Init /\ [][Next]_vars

\* The scheduler runs the server's threads; the clients and the signal that
\* ends the process have no fairness.
FairSpec ==
    /\ Spec
    /\ WF_vars(Run(AcceptStep))
    /\ WF_vars(Run(StopStep))
    /\ \A k \in Conns : WF_vars(Run(ClientThread(k)))

-------------------------------------------------------------------------------
(* Properties.                                                             *)

\* The types of the server's, the kernel's and the clients' state.
TypeOK ==
    /\ peer \in [Conns -> PeerStates]
    /\ srv \in [Conns -> SrvStates]
    /\ fd \in [Conns -> Fds \cup {None}]
    /\ holder \in [Fds -> Conns \cup {None}]
    /\ ips \in [Fds -> Conns \cup {None}]
    /\ lock \in BOOLEAN /\ running \in BOOLEAN /\ armed \in BOOLEAN
    /\ joinable \subseteq Conns /\ walk \subseteq Conns
    /\ stop \in {"no", "joining", "done", "exit"}
    /\ late \in BOOLEAN
    /\ died \in {"no", "thread", "vector", "joinable", "request", "pipe"}

\* No session loses its descriptor to another session's close (the one close of
\* gracefulSSLShutdown and the one of a failed handshake).
OwnSocket ==
    \A k \in Conns : srv[k] \in Accepting \cup Serving =>
       fd[k] # None /\ holder[fd[k]] = k

\* A session that is over leaves no entry in the client list, although the list
\* is keyed by a descriptor that was given away before
\* (CrioSSLServer.cpp:356-362).
NoStaleEntry ==
    \A k \in Conns : srv[k] \in {"done", "refused"} =>
       \A f \in Fds : ips[f] # k

\* A served client is in the list, unless an older session on the same
\* descriptor erased the entry when it ended.
MissingOnlyByReuse ==
    \A k \in Conns : srv[k] \in Serving /\ ips[fd[k]] # k =>
       \E j \in Conns \ {k} : srv[j] = "done" /\ fd[j] = fd[k]

\* "Store the client's IP address in the list", "Remove the client from the
\* list" (CrioSSLServer.cpp:263 and 361): every client being served is in it.
ServedIsListed == \A k \in Conns : srv[k] \in Serving => ips[fd[k]] = k

\* The destructor frees the SSL context and the threads only when every session
\* is over, and does not end the process in std::terminate, unless the detached
\* accepting thread added a client thread after stopServer began
\* (CrioSSLServer.cpp:40-58 and 267).
ExitIsOrderly ==
    \/ late
    \/ /\ died \notin {"vector", "joinable"}
       /\ stop \in {"done", "exit"} => \A k \in Conns : srv[k] \notin Serving \cup {"erase"}

\* "Ensure SSL context and resources are cleaned up" (CrioSSLServer.cpp:43):
\* the destructor does not free the SSL context under a session that uses it.
CleanUpIsLast ==
    stop \in {"done", "exit"} => \A k \in Conns : srv[k] \notin Serving

\* A session whose client is gone, or sent what is no TLS record, comes to its
\* end while the process lives, whatever the other clients do, a client that
\* stays silent in its handshake included.
SessionEnds ==
    \A k \in Conns : srv[k] \in Serving /\ peer[k] \in {"garbage", "gone"}
                        ~> srv[k] = "done" \/ ~Alive

\* stopServer and the destructor come to an end once the clients that are served
\* or accepted are gone, although the threads they wait for still have to take
\* clientMutex_ and to erase their entry; how the end looks is ExitIsOrderly.  A
\* client that stays connected and silent holds it up for good.
StopCompletes ==
    stop = "joining" /\ (\A k \in Conns : srv[k] # "none" => peer[k] = "gone")
       ~> ~Alive

===============================================================================
