-------------------------- MODULE ModbusServerProofs --------------------------
(***************************************************************************)
(* Proofs about ModbusServer, for any set of descriptors and any backlog.  *)
(***************************************************************************)
EXTENDS ModbusServer, TLAPS

\* The invariants of the runs are inductive together.
IInv == TypeOK /\ ViewsAgree /\ FdmaxIsMax /\ NeverBlocks

LEMMA LoopInit == Init => IInv
<1> SUFFICES ASSUME Init PROVE IInv
  OBVIOUS
<1>1. TypeOK
  <2>1. conn \in [Clients -> ConnStates]
    BY DEF Init, ConnStates
  <2>2. server_socket \in Fds /\ 0 \in 0..MaxBacklog
    BY FdsAssumption
  <2>3. QED
    BY <2>1, <2>2 DEF Init, TypeOK
<1>2. ViewsAgree
  BY DEF Init, ViewsAgree
<1>3. FdmaxIsMax
  BY FdsAssumption DEF Init, FdmaxIsMax, IsMaxSocket
<1>4. NeverBlocks
  BY DEF Init, NeverBlocks
<1>5. QED
  BY <1>1, <1>2, <1>3, <1>4 DEF IInv

\* A connection that is ready stays ready until its own handler runs, so a step
\* that only visits f, or none, keeps NeverBlocks.
LEMMA ReadyKept ==
  ASSUME IInv, TypeOK', UNCHANGED <<rdset, looping>>,
         next' >= next,
         \A g \in rdset : next' <= g /\ Ready(g) => Ready(g)'
  PROVE  NeverBlocks'
  BY FdsAssumption DEF IInv, TypeOK, NeverBlocks

LEMMA LoopStep == IInv /\ [Next]_vars => IInv'
<1> SUFFICES ASSUME IInv, [Next]_vars
             PROVE  IInv'
  OBVIOUS
<1> USE FdsAssumption
<1>1. CASE Select
  <2>1. TypeOK'
    BY <1>1 DEF Select, IInv, TypeOK
  <2>2. ViewsAgree' /\ FdmaxIsMax'
    BY <1>1 DEF Select, IInv, ViewsAgree, FdmaxIsMax, IsMaxSocket
  <2>3. NeverBlocks'
    BY <1>1 DEF Select, NeverBlocks, Ready
  <2>4. QED
    BY <2>1, <2>2, <2>3 DEF IInv
<1>2. CASE EndPass
  BY <1>2 DEF EndPass, IInv, TypeOK, ViewsAgree, FdmaxIsMax, IsMaxSocket,
     NeverBlocks
<1>3. CASE HandleNewConnection
  <2>1. PICK newfd \in {f \in Clients : conn[f] = "free"} :
          /\ refset' = refset \cup {newfd}
          /\ fdmax' = IF newfd > fdmax THEN newfd ELSE fdmax
          /\ clientList' = clientList \cup {newfd}
          /\ conn' = [conn EXCEPT ![newfd] = "idle"]
    BY <1>3 DEF HandleNewConnection
  <2>2. /\ looping /\ server_socket \in rdset /\ next <= server_socket
        /\ next' = server_socket + 1 /\ backlog' = backlog - 1
        /\ UNCHANGED <<rdset, looping>>
    BY <1>3 DEF HandleNewConnection, Visits
  <2>3. backlog > 0
    BY <2>2 DEF IInv, NeverBlocks, Ready
  <2>4. TypeOK'
    BY <2>1, <2>2, <2>3 DEF IInv, TypeOK, Clients, ConnStates
  <2>5. ViewsAgree'
    BY <2>1 DEF IInv, TypeOK, ViewsAgree
  <2>6. FdmaxIsMax'
    BY <2>1 DEF IInv, TypeOK, FdmaxIsMax, IsMaxSocket, Clients
  <2>7. \A g \in rdset : next' <= g /\ Ready(g) => Ready(g)'
    BY <2>1, <2>2 DEF IInv, TypeOK, Ready, Clients
  <2>8. NeverBlocks'
    BY <2>2, <2>4, <2>7, ReadyKept DEF IInv, TypeOK
  <2>9. QED
    BY <2>4, <2>5, <2>6, <2>8 DEF IInv
<1>4. CASE AcceptFails
  <2>1. /\ looping /\ server_socket \in rdset /\ next <= server_socket
        /\ next' = server_socket + 1 /\ backlog' \in {backlog, backlog - 1}
        /\ UNCHANGED <<rdset, looping, refset, clientList, fdmax, conn>>
    BY <1>4 DEF AcceptFails, Visits
  <2>2. backlog > 0
    BY <2>1 DEF IInv, NeverBlocks, Ready
  <2>3. TypeOK'
    BY <2>1, <2>2 DEF IInv, TypeOK
  <2>4. ViewsAgree' /\ FdmaxIsMax'
    BY <2>1 DEF IInv, ViewsAgree, FdmaxIsMax, IsMaxSocket
  <2>5. NeverBlocks'
    BY <2>1, <2>3, ReadyKept DEF IInv, TypeOK, Ready
  <2>6. QED
    BY <2>3, <2>4, <2>5 DEF IInv
<1>5. ASSUME NEW f \in Clients, AnswerRequest(f)
      PROVE  IInv'
  <2>1. /\ conn' = [conn EXCEPT ![f] = "idle"] /\ conn[f] = "request"
        /\ next' = f + 1 /\ next <= f
        /\ UNCHANGED <<rdset, looping, refset, clientList, fdmax, backlog>>
    BY <1>5 DEF AnswerRequest, Visits
  <2>2. TypeOK'
    BY <2>1 DEF IInv, TypeOK, Clients, ConnStates
  <2>3. ViewsAgree' /\ FdmaxIsMax'
    BY <2>1 DEF IInv, TypeOK, ViewsAgree, FdmaxIsMax, IsMaxSocket
  <2>4. NeverBlocks'
    BY <2>1, <2>2, ReadyKept DEF IInv, TypeOK, Ready, Clients
  <2>5. QED
    BY <2>2, <2>3, <2>4 DEF IInv
<1>6. ASSUME NEW f \in Clients, DropClient(f)
      PROVE  IInv'
  <2>1. /\ conn' = [conn EXCEPT ![f] = "free"]
        /\ clientList' = clientList \ {f} /\ refset' = refset \ {f}
        /\ next' = f + 1 /\ next <= f
        /\ UNCHANGED <<rdset, looping, backlog>>
    BY <1>6 DEF DropClient, Visits
  <2>2. IF f = fdmax THEN fdmax' \in Fds /\ IsMaxSocket(fdmax', clientList')
                     ELSE fdmax' = fdmax
    BY <1>6 DEF DropClient
  <2>3. TypeOK'
    BY <2>1, <2>2 DEF IInv, TypeOK, Clients, ConnStates
  <2>4. ViewsAgree'
    BY <2>1 DEF IInv, TypeOK, ViewsAgree, Clients
  <2>5. FdmaxIsMax'
    BY <2>1, <2>2 DEF IInv, FdmaxIsMax, IsMaxSocket
  <2>6. NeverBlocks'
    BY <2>1, <2>3, ReadyKept DEF IInv, TypeOK, Ready, Clients
  <2>7. QED
    BY <2>3, <2>4, <2>5, <2>6 DEF IInv
<1>7. CASE PeerConnects
  <2>1. TypeOK'
    BY <1>7 DEF PeerConnects, serverVars, IInv, TypeOK
  <2>2. ViewsAgree' /\ FdmaxIsMax' /\ NeverBlocks'
    BY <1>7 DEF PeerConnects, serverVars, IInv, TypeOK, ViewsAgree, FdmaxIsMax,
       IsMaxSocket, NeverBlocks, Ready
  <2>3. QED
    BY <2>1, <2>2 DEF IInv
<1>8. ASSUME NEW f \in Clients, PeerSends(f) \/ PeerHangsUp(f)
      PROVE  IInv'
  <2>1. /\ UNCHANGED <<serverVars, backlog>>
        /\ conn[f] \in {"idle", "request"}
        /\ \/ conn' = [conn EXCEPT ![f] = "request"]
           \/ conn' = [conn EXCEPT ![f] = "hungup"]
    BY <1>8 DEF PeerSends, PeerHangsUp
  <2>2. TypeOK'
    BY <2>1 DEF serverVars, IInv, TypeOK, ConnStates
  <2>3. ViewsAgree' /\ FdmaxIsMax'
    BY <2>1 DEF serverVars, IInv, TypeOK, ViewsAgree, FdmaxIsMax, IsMaxSocket
  <2>4. NeverBlocks'
    BY <2>1 DEF serverVars, IInv, TypeOK, NeverBlocks, Ready, Clients
  <2>5. QED
    BY <2>2, <2>3, <2>4 DEF IInv
<1>9. CASE UNCHANGED vars
  BY <1>9 DEF vars, serverVars, IInv, TypeOK, ViewsAgree, FdmaxIsMax,
     IsMaxSocket, NeverBlocks, Ready
<1>10. QED
  BY <1>1, <1>2, <1>3, <1>4, <1>5, <1>6, <1>7, <1>8, <1>9
     DEF Next, ServerStep

LEMMA LoopInvariant == Spec => []IInv
  BY LoopInit, LoopStep, PTL DEF Spec

\* The types of the loop's fields, the backlog that accept() takes from included.
THEOREM TypeCorrect == Spec => []TypeOK
<1>1. IInv => TypeOK
  BY DEF IInv
<1>2. QED
  BY <1>1, LoopInvariant, PTL

\* refset, clientList and the kernel's connections stay in step through every
\* accept, request and hang-up (handleNewConnection, handleClientRequest).
THEOREM ViewsStayInStep == Spec => []ViewsAgree
<1>1. IInv => ViewsAgree
  BY DEF IInv
<1>2. QED
  BY <1>1, LoopInvariant, PTL

\* fdmax is always the highest watched socket (findMaxSocket).
THEOREM FdmaxStaysMax == Spec => []FdmaxIsMax
<1>1. IInv => FdmaxIsMax
  BY DEF IInv
<1>2. QED
  BY <1>1, LoopInvariant, PTL

\* The loop never enters a call that would block it (runServer).
THEOREM LoopNeverBlocks == Spec => []NeverBlocks
<1>1. IInv => NeverBlocks
  BY DEF IInv
<1>2. QED
  BY <1>1, LoopInvariant, PTL

===============================================================================
