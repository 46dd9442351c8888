---------------------------- MODULE SessionsProofs ----------------------------
(***************************************************************************)
(* Proofs about Sessions, for any set of connections and descriptors.      *)
(***************************************************************************)
EXTENDS Sessions, TLAPS

Open == Accepting \cup Serving

\* The kernel's table and the sessions' descriptors agree.
HolderInv ==
    /\ \A k \in Conns : srv[k] # "none" => fd[k] \in Fds
    /\ \A k \in Conns : srv[k] \in Open => holder[fd[k]] = k
    /\ \A f \in Fds, k \in Conns : holder[f] = k => srv[k] \in Open /\ fd[k] = f

\* An entry belongs to a session that is registered and not yet over.
EntryInv ==
    \A f \in Fds, k \in Conns : ips[f] = k =>
       fd[k] = f /\ srv[k] \in Serving \cup {"spawn", "erase"}

\* A registered session whose entry is gone lost it to a session that is over.
MissingInv ==
    \A k \in Conns : srv[k] \in Serving \cup {"spawn"} /\ ips[fd[k]] # k =>
       \E j \in Conns \ {k} : srv[j] = "done" /\ fd[j] = fd[k]

IInv == TypeOK /\ HolderInv /\ EntryInv /\ MissingInv

LEMMA SessionInit == Init => IInv
<1> SUFFICES ASSUME Init PROVE IInv
  OBVIOUS
<1>1. TypeOK
  <2>1. /\ peer \in [Conns -> PeerStates]
        /\ srv \in [Conns -> SrvStates]
        /\ fd \in [Conns -> Fds \cup {None}]
        /\ holder \in [Fds -> Conns \cup {None}]
        /\ ips \in [Fds -> Conns \cup {None}]
    BY DEF Init, PeerStates, SrvStates
  <2>2. QED
    BY <2>1 DEF Init, TypeOK
<1>2. HolderInv /\ EntryInv /\ MissingInv
  BY SessionsAssumption DEF Init, HolderInv, EntryInv, MissingInv, Open,
     Accepting, Serving
<1>3. QED
  BY <1>1, <1>2 DEF IInv

\* A step that changes neither the kernel's table, nor the descriptors, nor the
\* list, and moves at most one session, which stays open and stays registered
\* or unregistered.
LEMMA SessionMoves ==
  ASSUME IInv, TypeOK', UNCHANGED <<fd, holder, ips>>, NEW k \in Conns,
         \A j \in Conns \ {k} : srv'[j] = srv[j],
         srv[k] \in Open, srv'[k] \in Open,
         srv'[k] \in Serving \cup {"spawn"} <=> srv[k] \in Serving \cup {"spawn"}
  PROVE  IInv'
<1>1. HolderInv'
  BY DEF IInv, HolderInv, Open, Accepting, Serving
<1>2. EntryInv'
  BY DEF IInv, EntryInv, Open, Accepting, Serving
<1>3. MissingInv'
  BY DEF IInv, MissingInv, Open, Accepting, Serving
<1>4. QED
  BY <1>1, <1>2, <1>3 DEF IInv

LEMMA SessionStep == IInv /\ [Next]_vars => IInv'
<1> SUFFICES ASSUME IInv, [Next]_vars
             PROVE  IInv'
  OBVIOUS
<1> USE SessionsAssumption DEF Goto, connVars, stopVars, Run
<1>1. ASSUME NEW k \in Conns, Accept(k)
      PROVE  IInv'
  <2>1. PICK f \in Fds : /\ holder[f] = None
                         /\ holder' = [holder EXCEPT ![f] = k]
                         /\ fd' = [fd EXCEPT ![k] = f]
    BY <1>1 DEF Accept
  <2>2. /\ srv[k] = "none" /\ srv' = [srv EXCEPT ![k] = "handshake"]
        /\ UNCHANGED <<peer, ips, lock, joinable, stopVars, late, died>> /\ armed' = FALSE
    BY <1>1 DEF Accept, Waits
  <2>3. TypeOK'
    BY <2>1, <2>2 DEF IInv, TypeOK, SrvStates, Accepting
  <2>4. HolderInv'
    BY <2>1, <2>2 DEF IInv, TypeOK, HolderInv, Open, Accepting, Serving
  <2>5. EntryInv'
    BY <2>1, <2>2 DEF IInv, TypeOK, EntryInv, Serving
  <2>6. MissingInv'
    BY <2>1, <2>2 DEF IInv, TypeOK, MissingInv, Serving
  <2>7. QED
    BY <2>3, <2>4, <2>5, <2>6 DEF IInv
<1>2. ASSUME NEW k \in Conns, Handshake(k)
      PROVE  IInv'
  <2>1. TypeOK'
    BY <1>2 DEF Handshake, IInv, TypeOK, SrvStates, Accepting
  <2>2. QED
    BY <1>2, <2>1, SessionMoves
       DEF Handshake, IInv, TypeOK, Open, Accepting, Serving
<1>3. ASSUME NEW k \in Conns, HandshakeFails(k)
      PROVE  IInv'
  <2>1. /\ srv[k] = "handshake" /\ srv' = [srv EXCEPT ![k] = "refused"]
        /\ holder' = [holder EXCEPT ![fd[k]] = None]
        /\ UNCHANGED <<peer, fd, ips, lock, armed, joinable, stopVars, late, died>>
    BY <1>3 DEF HandshakeFails
  <2>2. TypeOK'
    BY <2>1 DEF IInv, TypeOK, SrvStates, Accepting
  <2>3. HolderInv'
    BY <2>1 DEF IInv, TypeOK, HolderInv, Open, Accepting, Serving
  <2>4. EntryInv' /\ MissingInv'
    BY <2>1 DEF IInv, TypeOK, EntryInv, MissingInv, Serving
  <2>5. QED
    BY <2>2, <2>3, <2>4 DEF IInv
<1>4. ASSUME NEW k \in Conns, Register(k)
      PROVE  IInv'
  <2>1. /\ srv[k] = "register" /\ srv' = [srv EXCEPT ![k] = "spawn"]
        /\ ips' = [ips EXCEPT ![fd[k]] = k] /\ lock' = TRUE
        /\ UNCHANGED <<peer, fd, holder, armed, joinable, stopVars, late, died>>
    BY <1>4 DEF Register
  <2>2. fd[k] \in Fds /\ holder[fd[k]] = k
    BY <2>1 DEF IInv, HolderInv, Open, Accepting
  <2>3. TypeOK'
    BY <2>1 DEF IInv, TypeOK, SrvStates, Accepting
  <2>4. HolderInv'
    BY <2>1 DEF IInv, TypeOK, HolderInv, Open, Accepting, Serving
  <2>5. EntryInv'
    BY <2>1, <2>2 DEF IInv, TypeOK, EntryInv, Serving
  <2>6. MissingInv'
    <3>1. \A j \in Conns \ {k} : srv[j] \in Open => fd[j] # fd[k]
      BY <2>2 DEF IInv, HolderInv
    <3>2. \A j \in Conns \ {k} : srv[j] \in Open /\ fd[j] \in Fds =>
             ips'[fd[j]] = ips[fd[j]]
      BY <2>1, <3>1 DEF IInv, TypeOK
    <3>3. ips'[fd'[k]] = k
      BY <2>1, <2>2 DEF IInv, TypeOK
    <3>4. QED
      BY <2>1, <3>2, <3>3
         DEF IInv, TypeOK, HolderInv, MissingInv, Open, Accepting, Serving
  <2>7. QED
    BY <2>3, <2>4, <2>5, <2>6 DEF IInv
<1>5. ASSUME NEW k \in Conns, Spawn(k) \/ SpawnMoves(k)
      PROVE  IInv'
  <2>1. /\ srv[k] = "spawn" /\ srv' = [srv EXCEPT ![k] = "loop"]
        /\ joinable' = joinable \cup {k} /\ lock' = FALSE /\ late' \in BOOLEAN
        /\ walk' \in {walk, {}} /\ died' \in {died, "vector"}
        /\ UNCHANGED <<peer, fd, holder, ips, armed, running, stop>>
    BY <1>5 DEF Spawn, SpawnMoves, IInv, TypeOK
  <2>2. TypeOK'
    BY <2>1 DEF IInv, TypeOK, SrvStates, Serving
  <2>3. QED
    BY <2>1, <2>2, SessionMoves DEF IInv, TypeOK, Open, Accepting, Serving
<1>6. ASSUME NEW k \in Conns, LoopTest(k) \/ Respond(k)
      PROVE  IInv'
  <2>1. TypeOK'
    BY <1>6 DEF LoopTest, Respond, IInv, TypeOK, SrvStates, Serving
  <2>2. QED
    BY <1>6, <2>1, SessionMoves
       DEF LoopTest, Respond, IInv, TypeOK, Open, Accepting, Serving
<1>7. ASSUME NEW k \in Conns, ReadRequest(k) \/ ReadFails(k) \/ ReadBreaks(k)
      PROVE  IInv'
  <2>1. TypeOK'
    BY <1>7
       DEF ReadRequest, ReadFails, ReadBreaks, IInv, TypeOK, SrvStates, Serving, PeerStates
  <2>2. QED
    BY <1>7, <2>1, SessionMoves
       DEF ReadRequest, ReadFails, ReadBreaks, IInv, TypeOK, Open, Accepting, Serving
<1>8. ASSUME NEW k \in Conns, Close(k)
      PROVE  IInv'
  <2>1. /\ srv[k] \in {"close", "drop"} /\ srv' = [srv EXCEPT ![k] = "erase"]
        /\ holder' = [holder EXCEPT ![fd[k]] = None]
        /\ UNCHANGED <<peer, fd, ips, lock, armed, joinable, stopVars, late, died>>
    BY <1>8 DEF Close
  <2>2. TypeOK'
    BY <2>1 DEF IInv, TypeOK, SrvStates
  <2>3. HolderInv'
    BY <2>1 DEF IInv, TypeOK, HolderInv, Open, Accepting, Serving
  <2>4. EntryInv' /\ MissingInv'
    BY <2>1 DEF IInv, TypeOK, EntryInv, MissingInv, Serving
  <2>5. QED
    BY <2>2, <2>3, <2>4 DEF IInv
<1>9. ASSUME NEW k \in Conns, Erase(k)
      PROVE  IInv'
  <2>1. /\ srv[k] = "erase" /\ srv' = [srv EXCEPT ![k] = "done"]
        /\ ips' = [ips EXCEPT ![fd[k]] = None]
        /\ UNCHANGED <<peer, fd, holder, lock, armed, joinable, stopVars, late, died>>
    BY <1>9 DEF Erase
  <2>2. fd[k] \in Fds
    BY <2>1 DEF IInv, HolderInv
  <2>3. TypeOK'
    BY <2>1 DEF IInv, TypeOK, SrvStates
  <2>4. HolderInv'
    BY <2>1 DEF IInv, TypeOK, HolderInv, Open, Accepting, Serving
  <2>5. EntryInv'
    BY <2>1, <2>2 DEF IInv, TypeOK, EntryInv, Serving
  <2>6. MissingInv'
    <3>1. \A j \in Conns \ {k} : fd[j] \in Fds /\ fd[j] # fd[k] =>
             ips'[fd[j]] = ips[fd[j]]
      BY <2>1 DEF IInv, TypeOK
    <3>2. srv'[k] = "done" /\ \A j \in Conns \ {k} : srv'[j] = srv[j]
      BY <2>1 DEF IInv, TypeOK
    <3>3. QED
      BY <2>1, <3>1, <3>2 DEF IInv, HolderInv, MissingInv, Serving
  <2>7. QED
    BY <2>3, <2>4, <2>5, <2>6 DEF IInv
<1>10. ASSUME UNCHANGED <<srv, fd, holder, ips>>, TypeOK'
       PROVE  IInv'
  BY <1>10 DEF IInv, HolderInv, EntryInv, MissingInv
<1>11. ASSUME NEW k \in Conns, PeerStep(k)
       PROVE  IInv'
  <2>1. /\ UNCHANGED <<srv, fd, holder, ips, lock, armed, joinable, stopVars, late, died>>
        /\ \E to \in PeerStates : peer' = [peer EXCEPT ![k] = to]
    BY <1>11 DEF PeerStep, PeerConnects, PeerHandshakes, PeerRequests,
       PeerGarbles, PeerHangsUp, PeerMoves, PeerStates
  <2>2. TypeOK'
    BY <2>1 DEF IInv, TypeOK
  <2>3. QED
    BY <1>10, <2>1, <2>2
<1>12. CASE AcceptTest \/ AcceptFails
  BY <1>10, <1>12 DEF AcceptTest, AcceptFails, IInv, TypeOK
<1>13. ASSUME NEW k \in Conns, SpawnFails(k) \/ RequestKills(k) \/ PipeKills(k)
       PROVE  IInv'
  BY <1>10, <1>13 DEF SpawnFails, RequestKills, PipeKills, IInv, TypeOK
<1>14. CASE StopServer \/ StopStep
  <2>1. UNCHANGED connVars
    BY <1>14 DEF StopServer, StopStep, StopReturns, Exit, JoinThread
  <2>2. TypeOK'
    BY <1>14 DEF StopServer, StopStep, StopReturns, Exit, JoinThread, IInv, TypeOK
  <2>3. QED
    BY <1>10, <2>1, <2>2
<1>15. CASE UNCHANGED vars
  BY <1>10, <1>15 DEF vars, IInv, TypeOK
<1>16. QED
  BY <1>1, <1>2, <1>3, <1>4, <1>5, <1>6, <1>7, <1>8, <1>9, <1>11, <1>12, <1>13, <1>14, <1>15
     DEF Next, AcceptStep, ClientThread, Mishap

LEMMA SessionInvariant == Spec => []IInv
  BY SessionInit, SessionStep, PTL DEF Spec

\* The types of the sessions, the list and the kernel's table.
THEOREM TypeCorrect == Spec => []TypeOK
<1>1. IInv => TypeOK
  BY DEF IInv
<1>2. QED
  BY <1>1, SessionInvariant, PTL

\* A session never loses its socket to another session's close, however the
\* descriptors are reused (acceptClients, gracefulSSLShutdown).
THEOREM SocketsAreOwned == Spec => []OwnSocket
<1>1. IInv => OwnSocket
  BY SessionsAssumption
     DEF IInv, HolderInv, OwnSocket, Open, Accepting, Serving
<1>2. QED
  BY <1>1, SessionInvariant, PTL

\* A session that is over is not in the client list (gracefulSSLShutdown).
THEOREM ListIsNotStale == Spec => []NoStaleEntry
<1>1. IInv => NoStaleEntry
  BY DEF IInv, EntryInv, NoStaleEntry, Serving
<1>2. QED
  BY <1>1, SessionInvariant, PTL

\* A served client is missing from the list only when an older session on the
\* same descriptor ended after it was registered (gracefulSSLShutdown).
THEOREM EntryIsLostOnlyByReuse == Spec => []MissingOnlyByReuse
<1>1. IInv => MissingOnlyByReuse
  BY DEF IInv, MissingInv, MissingOnlyByReuse, Serving
<1>2. QED
  BY <1>1, SessionInvariant, PTL

-------------------------------------------------------------------------------
(* The exit of the process.                                                *)

\* As long as no thread is added late, the loop of stopServer still comes to
\* every thread that nobody joined, and those include the running ones.
ExitInv ==
    \/ late
    \/ /\ died \notin {"vector", "joinable"}
       /\ \A k \in Conns : srv[k] \in Serving \cup {"erase"} => k \in joinable
       /\ stop # "no" => walk = joinable
       /\ stop \in {"done", "exit"} => walk = {}

LEMMA ExitStep == TypeOK /\ ExitInv /\ [Next]_vars => ExitInv'
<1> SUFFICES ASSUME TypeOK, ExitInv, [Next]_vars
             PROVE  ExitInv'
  OBVIOUS
<1> USE DEF Goto, connVars, stopVars, Run
\* The threads that run, and what the end of the process depends on.
<1> DEFINE exitVars == <<joinable, walk, stop, late, died>>
           Runs(k) == srv[k] \in Serving \cup {"erase"}
<1>1. ASSUME UNCHANGED exitVars, \A k \in Conns : Runs(k)' => Runs(k)
      PROVE  ExitInv'
  BY <1>1 DEF ExitInv
<1>2. ASSUME NEW k \in Conns, Accept(k) \/ Handshake(k) \/ HandshakeFails(k) \/ Register(k)
      PROVE  ExitInv'
  <2>1. UNCHANGED exitVars
    BY <1>2 DEF Accept, Handshake, HandshakeFails, Register
  <2>2. \A j \in Conns : Runs(j)' => Runs(j)
    BY <1>2 DEF Accept, Handshake, HandshakeFails, Register, TypeOK, Serving
  <2>3. QED
    BY <1>1, <2>1, <2>2
<1>3. ASSUME NEW k \in Conns, Spawn(k)
      PROVE  ExitInv'
  <2>1. CASE stop # "no"
    BY <1>3, <2>1 DEF Spawn, ExitInv
  <2>2. CASE stop = "no"
    <3>1. UNCHANGED <<walk, stop, late, died>> /\ joinable' = joinable \cup {k}
      BY <1>3, <2>2 DEF Spawn, TypeOK
    <3>2. \A j \in Conns \ {k} : Runs(j)' => Runs(j)
      BY <1>3 DEF Spawn, TypeOK
    <3>3. QED
      BY <2>2, <3>1, <3>2 DEF ExitInv
  <2>3. QED
    BY <2>1, <2>2
<1>4. ASSUME NEW k \in Conns, ClientThread(k)
      PROVE  ExitInv'
  <2>1. UNCHANGED exitVars
    BY <1>4 DEF ClientThread, LoopTest, ReadRequest, ReadFails, ReadBreaks, Respond, Close, Erase
  <2>2. \A j \in Conns : Runs(j)' => Runs(j)
    BY <1>4 DEF ClientThread, LoopTest, ReadRequest, ReadFails, ReadBreaks, Respond, Close,
       Erase, TypeOK, Serving
  <2>3. QED
    BY <1>1, <2>1, <2>2
<1>5. ASSUME NEW k \in Conns, PeerStep(k)
      PROVE  ExitInv'
  BY <1>1, <1>5 DEF PeerStep, PeerConnects, PeerHandshakes, PeerRequests, PeerGarbles,
     PeerHangsUp, PeerMoves
<1>6. ASSUME NEW k \in Conns, Mishap(k)
      PROVE  ExitInv'
  <2>1. CASE SpawnMoves(k)
    BY <2>1 DEF SpawnMoves, ExitInv
  <2>2. CASE SpawnFails(k) \/ RequestKills(k) \/ PipeKills(k)
    BY <2>2 DEF SpawnFails, RequestKills, PipeKills, ExitInv
  <2>3. QED
    BY <1>6, <2>1, <2>2 DEF Mishap
<1>7. CASE AcceptTest \/ AcceptFails
  BY <1>1, <1>7 DEF AcceptTest, AcceptFails
<1>8. CASE StopServer
  BY <1>8 DEF StopServer, ExitInv
<1>9. ASSUME NEW k \in Conns, JoinThread(k)
      PROVE  ExitInv'
  BY <1>9 DEF JoinThread, ExitInv, Serving
<1>10. CASE StopReturns \/ Exit
  BY <1>10 DEF StopReturns, Exit, ExitInv
<1>11. CASE UNCHANGED vars
  BY <1>1, <1>11 DEF vars
<1>12. QED
  BY <1>2, <1>3, <1>4, <1>5, <1>6, <1>7, <1>8, <1>9, <1>10, <1>11
     DEF Next, AcceptStep, StopStep

\* The destructor ends in order, with every session over and every thread joined,
\* unless a client thread was added after stopServer began (stopServer,
\* acceptClients).
THEOREM ExitsInOrder == Spec => []ExitIsOrderly
<1>1. Init => ExitInv
  BY DEF Init, ExitInv, Serving
<1>2. ExitInv => ExitIsOrderly
  BY DEF ExitInv, ExitIsOrderly
<1>3. QED
  BY <1>1, <1>2, ExitStep, TypeCorrect, PTL DEF Spec

===============================================================================
