----------------------------- MODULE BridgeProofs -----------------------------
(***************************************************************************)
(* Proofs about Bridge, for any set of client threads.                     *)
(***************************************************************************)
EXTENDS Bridge, TLAPS

LEMMA TypeInit == Init => TypeOK
<1> SUFFICES ASSUME Init PROVE TypeOK
  OBVIOUS
<1>1. active \in [Timers -> BOOLEAN] /\ aborted \in BOOLEAN
  BY DEF Init
<1>2. thr \in [Slots -> LiveAt \cup {"none", "ended"}]
  BY DEF Init
<1>3. pc \in [Clients -> PCs] /\ cmd \in [Clients -> Commands]
  BY DEF Init, PCs, Commands
<1>4. reply \in [Clients -> {"none", "ACK", "NACK"}]
  BY DEF Init
<1>5. QED
  BY <1>1, <1>2, <1>3, <1>4 DEF Init, TypeOK

LEMMA TypeStep == TypeOK /\ [Next]_vars => TypeOK'
<1> SUFFICES ASSUME TypeOK, [Next]_vars
             PROVE  TypeOK'
  OBVIOUS
<1> USE DEF TypeOK, At, Goto, Answer, Runs, Move, LiveAt, PCs, historyVars
<1>1. ASSUME NEW c \in Clients, ReceiveCommand(c)
      PROVE  TypeOK'
  BY <1>1 DEF ReceiveCommand, Commands, Starts
<1>2. ASSUME NEW c \in Clients, CheckActive(c)
      PROVE  TypeOK'
  BY <1>2 DEF CheckActive
<1>3. ASSUME NEW c \in Clients, ResizeLine(c)
      PROVE  TypeOK'
  BY <1>3 DEF ResizeLine
<1>4. ASSUME NEW c \in Clients, ClearFlag(c)
      PROVE  TypeOK'
  BY <1>4 DEF ClearFlag
<1>5. ASSUME NEW c \in Clients, CheckJoinable(c)
      PROVE  TypeOK'
  BY <1>5 DEF CheckJoinable, StopReturns
<1>6. ASSUME NEW c \in Clients, Join(c)
      PROVE  TypeOK'
  BY <1>6 DEF Join, Throw
<1>7. ASSUME NEW c \in Clients, Joined(c)
      PROVE  TypeOK'
  BY <1>7 DEF Joined, StopReturns
<1>8. ASSUME NEW c \in Clients, SetActive(c)
      PROVE  TypeOK'
  BY <1>8 DEF SetActive
<1>9. ASSUME NEW c \in Clients, Spawn(c)
      PROVE  TypeOK'
  BY <1>9 DEF Spawn
<1>10. ASSUME NEW c \in Clients, SpawnFails(c)
       PROVE  TypeOK'
  BY <1>10 DEF SpawnFails, Throw, StartTarget, Timers
<1>11. ASSUME NEW c \in Clients, Assign(c)
       PROVE  TypeOK'
  BY <1>11 DEF Assign, Slots, Timers, StartTarget
<1>12. ASSUME NEW s \in Slots, TimerStep(s)
       PROVE  TypeOK'
  BY <1>12 DEF TimerStep, LoopTest, Wake, RunSlot, TimerOf, StartTarget, Timers
<1>13. CASE UNCHANGED vars
  BY <1>13 DEF vars
<1>14. QED
  BY <1>1, <1>2, <1>3, <1>4, <1>5, <1>6, <1>7, <1>8, <1>9, <1>10, <1>11,
     <1>12, <1>13 DEF Next, ClientStep

\* The values of the variables stay in their types, with any number of clients
\* and overlapping commands (SimpleTimer, NItoModbusBridge and parseRequest).
THEOREM TypeCorrect == Spec => []TypeOK
  BY TypeInit, TypeStep, PTL DEF Spec

-------------------------------------------------------------------------------
(* The inductive invariant says what each position of a command has           *)
(* established about the two timers, as long as no two commands interfered.   *)

Preparing(c) == pc[c] \in {"resize", "clearFlag", "joinable", "join", "joining"}
Stopping(c)  == pc[c] \in {"joinable", "join", "joining"}
Starting(c)  == pc[c] \in {"setActive", "spawn", "assign"}
Busy(c)      == pc[c] # "idle"

\* A client holds a new thread exactly between its creation and its move.
PendingInv == \A c \in Clients : thr[c] # "none" <=> pc[c] = "assign"

\* The positions that only a start command reaches.
PlaceInv ==
    \A c \in Clients :
       /\ pc[c] \in {"check", "resize"} \/ Starting(c) => cmd[c] \in Starts
       /\ pc[c] = "resize" => cmd[c] = "startAcq"

\* No two clients wait for the same thread.
JoinInv ==
    \A c, d \in Clients : c # d /\ pc[c] = "joining" /\ pc[d] = "joining" =>
       StopTarget(cmd[c]) # StopTarget(cmd[d])

\* Next to a start there are only stops of the timer that it stops too.
Apart ==
    \A c, d \in Clients : c # d /\ Busy(c) /\ Busy(d) /\ cmd[c] \in Starts =>
       cmd[d] \notin Starts /\ StopTarget(cmd[d]) = StopTarget(cmd[c])

\* One timer at most is active or has a thread; a thread belongs to an active
\* timer or is being stopped, and one that has ended to an inactive timer.
HeldInv ==
    \A t \in Timers :
       /\ thr[t] # "none" \/ active[t] =>
             \A u \in Timers \ {t} : thr[u] = "none" /\ ~active[u]
       /\ thr[t] # "none" =>
             active[t] \/ \E c \in Clients : Stopping(c) /\ StopTarget(cmd[c]) = t
       /\ thr[t] = "ended" => ~active[t]

\* An active timer has a thread, will get it, or could not create it.
ActiveInv ==
    \A t \in Timers : active[t] =>
       \/ thr[t] # "none" \/ t \in failed
       \/ \E c \in Clients : pc[c] \in {"spawn", "assign"} /\ StartTarget(cmd[c]) = t

\* What the position of a command tells about the timers.
CommandInv ==
    \A c \in Clients :
       /\ Preparing(c) /\ cmd[c] \in Starts =>
             ~active[StartTarget(cmd[c])] /\ thr[StartTarget(cmd[c])] = "none"
       /\ Stopping(c) \/ Starting(c) => ~active[StopTarget(cmd[c])]
       /\ pc[c] = "joining" => thr[StopTarget(cmd[c])] # "none"
       /\ Starting(c) => \A t \in Timers : thr[t] = "none"
       /\ pc[c] \in {"spawn", "assign"} => active[StartTarget(cmd[c])]
       /\ thr[c] # "ended"

Control == TypeOK /\ PendingInv /\ PlaceInv /\ JoinInv
Orderly == ~aborted /\ Apart /\ HeldInv /\ ActiveInv /\ CommandInv

IInv == Control /\ (overlapped \/ Orderly)

LEMMA Targets ==
  ASSUME NEW m \in Commands
  PROVE  /\ StartTarget(m) \in Timers /\ StopTarget(m) \in Timers
         /\ m \in Starts => StartTarget(m) # StopTarget(m)
         /\ m \in Starts => \A t \in Timers : t = StartTarget(m) \/ t = StopTarget(m)
BY DEF StartTarget, StopTarget, Timers, Starts, Commands

\* Where the invariants speak of slots: a timer is no client.
LEMMA SlotFacts ==
  /\ \A t \in Timers : t \in Slots /\ t \notin Clients
  /\ \A c \in Clients : c \in Slots /\ c \notin Timers
BY ClientsAssumption DEF Slots

LEMMA SafeInit == Init => IInv
<1> SUFFICES ASSUME Init PROVE IInv
  OBVIOUS
<1>1. TypeOK
  BY TypeInit
<1>2. PendingInv /\ PlaceInv /\ JoinInv
  BY DEF Init, PendingInv, PlaceInv, JoinInv, Starting, Slots
<1>3. ~aborted /\ Apart /\ HeldInv /\ ActiveInv
  BY DEF Init, Apart, Busy, HeldInv, ActiveInv, Slots
<1>4. CommandInv
  BY SlotFacts DEF Init, CommandInv, Preparing, Stopping, Starting
<1>5. QED
  BY <1>1, <1>2, <1>3, <1>4 DEF IInv, Control, Orderly

\* The positions of the commands and the threads being created.
LEMMA ControlStep == Control /\ [Next]_vars => Control'
<1> SUFFICES ASSUME Control, [Next]_vars
             PROVE  Control'
  OBVIOUS
<1> USE DEF At, Goto, Answer, Runs, Move, historyVars
<1>0. TypeOK'
  BY TypeStep DEF Control
<1>1. ASSUME NEW c \in Clients, ReceiveCommand(c)
      PROVE  Control'
  <2>1. PendingInv'
    BY <1>1, SlotFacts, Targets DEF ReceiveCommand, Control, TypeOK, PendingInv, PlaceInv, Starting
  <2>2. PlaceInv'
    BY <1>1 DEF ReceiveCommand, Control, TypeOK, PlaceInv, Starting, Starts, Commands
  <2>3. JoinInv'
    BY <1>1 DEF ReceiveCommand, Control, TypeOK, JoinInv, JoinTaken
  <2>4. QED
    BY <1>0, <2>1, <2>2, <2>3 DEF Control
<1>2. ASSUME NEW c \in Clients, CheckActive(c)
      PROVE  Control'
  <2>1. PendingInv'
    BY <1>2, SlotFacts, Targets DEF CheckActive, Control, TypeOK, PendingInv, PlaceInv, Starting
  <2>2. PlaceInv'
    BY <1>2 DEF CheckActive, Control, TypeOK, PlaceInv, Starting, Starts, Commands
  <2>3. JoinInv'
    BY <1>2 DEF CheckActive, Control, TypeOK, JoinInv, JoinTaken
  <2>4. QED
    BY <1>0, <2>1, <2>2, <2>3 DEF Control
<1>3. ASSUME NEW c \in Clients, ResizeLine(c)
      PROVE  Control'
  <2>1. PendingInv'
    BY <1>3, SlotFacts, Targets DEF ResizeLine, Control, TypeOK, PendingInv, PlaceInv, Starting
  <2>2. PlaceInv'
    BY <1>3 DEF ResizeLine, Control, TypeOK, PlaceInv, Starting, Starts, Commands
  <2>3. JoinInv'
    BY <1>3 DEF ResizeLine, Control, TypeOK, JoinInv, JoinTaken
  <2>4. QED
    BY <1>0, <2>1, <2>2, <2>3 DEF Control
<1>4. ASSUME NEW c \in Clients, ClearFlag(c)
      PROVE  Control'
  <2>1. PendingInv'
    BY <1>4, SlotFacts, Targets DEF ClearFlag, Control, TypeOK, PendingInv, PlaceInv, Starting
  <2>2. PlaceInv'
    BY <1>4 DEF ClearFlag, Control, TypeOK, PlaceInv, Starting, Starts, Commands
  <2>3. JoinInv'
    BY <1>4 DEF ClearFlag, Control, TypeOK, JoinInv, JoinTaken
  <2>4. QED
    BY <1>0, <2>1, <2>2, <2>3 DEF Control
<1>5. ASSUME NEW c \in Clients, CheckJoinable(c)
      PROVE  Control'
  <2>1. PendingInv'
    BY <1>5, SlotFacts, Targets DEF CheckJoinable, StopReturns, Control, TypeOK, PendingInv, PlaceInv, Starting
  <2>2. PlaceInv'
    BY <1>5 DEF CheckJoinable, StopReturns, Control, TypeOK, PlaceInv, Starting, Starts, Commands
  <2>3. JoinInv'
    BY <1>5 DEF CheckJoinable, StopReturns, Control, TypeOK, JoinInv, JoinTaken
  <2>4. QED
    BY <1>0, <2>1, <2>2, <2>3 DEF Control
<1>6. ASSUME NEW c \in Clients, Join(c)
      PROVE  Control'
  <2>1. PendingInv'
    BY <1>6, SlotFacts, Targets DEF Join, JoinTaken, Throw, Control, TypeOK, PendingInv, PlaceInv, Starting
  <2>2. PlaceInv'
    BY <1>6 DEF Join, JoinTaken, Throw, Control, TypeOK, PlaceInv, Starting, Starts, Commands
  <2>3. JoinInv'
    BY <1>6 DEF Join, JoinTaken, Throw, Control, TypeOK, JoinInv
  <2>4. QED
    BY <1>0, <2>1, <2>2, <2>3 DEF Control
<1>7. ASSUME NEW c \in Clients, Joined(c)
      PROVE  Control'
  <2>1. PendingInv'
    BY <1>7, SlotFacts, Targets DEF Joined, StopReturns, Control, TypeOK, PendingInv, PlaceInv, Starting
  <2>2. PlaceInv'
    BY <1>7 DEF Joined, StopReturns, Control, TypeOK, PlaceInv, Starting, Starts, Commands
  <2>3. JoinInv'
    BY <1>7 DEF Joined, StopReturns, Control, TypeOK, JoinInv, JoinTaken
  <2>4. QED
    BY <1>0, <2>1, <2>2, <2>3 DEF Control
<1>8. ASSUME NEW c \in Clients, SetActive(c)
      PROVE  Control'
  <2>1. PendingInv'
    BY <1>8, SlotFacts, Targets DEF SetActive, Control, TypeOK, PendingInv, PlaceInv, Starting
  <2>2. PlaceInv'
    BY <1>8 DEF SetActive, Control, TypeOK, PlaceInv, Starting, Starts, Commands
  <2>3. JoinInv'
    BY <1>8 DEF SetActive, Control, TypeOK, JoinInv, JoinTaken
  <2>4. QED
    BY <1>0, <2>1, <2>2, <2>3 DEF Control
<1>9. ASSUME NEW c \in Clients, Spawn(c)
      PROVE  Control'
  <2>1. PendingInv'
    BY <1>9, SlotFacts, Targets DEF Spawn, Control, TypeOK, PendingInv, PlaceInv, Starting
  <2>2. PlaceInv'
    BY <1>9 DEF Spawn, Control, TypeOK, PlaceInv, Starting, Starts, Commands
  <2>3. JoinInv'
    BY <1>9 DEF Spawn, Control, TypeOK, JoinInv, JoinTaken
  <2>4. QED
    BY <1>0, <2>1, <2>2, <2>3 DEF Control
<1>10. ASSUME NEW c \in Clients, SpawnFails(c)
      PROVE  Control'
  <2>1. PendingInv'
    BY <1>10, SlotFacts, Targets DEF SpawnFails, Throw, Control, TypeOK, PendingInv, PlaceInv, Starting
  <2>2. PlaceInv'
    BY <1>10 DEF SpawnFails, Throw, Control, TypeOK, PlaceInv, Starting, Starts, Commands
  <2>3. JoinInv'
    BY <1>10 DEF SpawnFails, Throw, Control, TypeOK, JoinInv, JoinTaken
  <2>4. QED
    BY <1>0, <2>1, <2>2, <2>3 DEF Control
<1>11. ASSUME NEW c \in Clients, Assign(c)
      PROVE  Control'
  <2>1. PendingInv'
    BY <1>11, SlotFacts, Targets DEF Assign, Throw, Control, TypeOK, PendingInv, PlaceInv, Starting
  <2>2. PlaceInv'
    BY <1>11 DEF Assign, Throw, Control, TypeOK, PlaceInv, Starting, Starts, Commands
  <2>3. JoinInv'
    BY <1>11 DEF Assign, Throw, Control, TypeOK, JoinInv, JoinTaken
  <2>4. QED
    BY <1>0, <2>1, <2>2, <2>3 DEF Control
<1>12. ASSUME NEW s \in Slots, TimerStep(s)
      PROVE  Control'
  <2>1. UNCHANGED <<pc, cmd>>
    BY <1>12 DEF TimerStep, LoopTest, Wake, RunSlot
  <2>2. \A r \in Slots : thr'[r] = "none" <=> thr[r] = "none"
    BY <1>12 DEF TimerStep, LoopTest, Wake, RunSlot, Control, TypeOK
  <2>3. QED
    BY <1>0, <2>1, <2>2, SlotFacts DEF Control, PendingInv, PlaceInv, JoinInv, Starting
<1>13. CASE UNCHANGED vars
  BY <1>0, <1>13 DEF vars, Control, PendingInv, PlaceInv, JoinInv, Starting
<1>14. QED
  BY <1>1, <1>2, <1>3, <1>4, <1>5, <1>6, <1>7, <1>8, <1>9, <1>10, <1>11, <1>12, <1>13 DEF Next, ClientStep

\* What a command finds about the timers stays so, as long as no command that
\* interferes comes.
LEMMA OrderlyStep == Control /\ Orderly /\ [Next]_vars => overlapped' \/ Orderly'
<1> SUFFICES ASSUME Control, Orderly, [Next]_vars, ~overlapped'
             PROVE  Orderly'
  OBVIOUS
<1> USE DEF At, Goto, Answer, Runs, Move, historyVars
<1>0. Control'
  BY ControlStep
<1>targets. \A c \in Clients :
           /\ StartTarget(cmd[c]) \in Timers /\ StopTarget(cmd[c]) \in Timers
           /\ cmd[c] \in Starts => StartTarget(cmd[c]) # StopTarget(cmd[c])
           /\ cmd[c] \in Starts =>
                 \A t \in Timers : t = StartTarget(cmd[c]) \/ t = StopTarget(cmd[c])
  BY Targets DEF Control, TypeOK
<1>1. ASSUME NEW c \in Clients, ReceiveCommand(c)
      PROVE  Orderly'
  <2>1. ~aborted' /\ Apart'
    <3>1. PICK m \in Commands : /\ cmd' = [cmd EXCEPT ![c] = m]
                               /\ \A d \in Clients : Busy(d) => ~Interfere(m, cmd[d])
      BY <1>1 DEF ReceiveCommand, Busy
    <3>2. /\ pc[c] = "idle" /\ Busy(c)' /\ \A d \in Clients \ {c} : Busy(d)' <=> Busy(d)
          /\ aborted' = aborted
      BY <1>1 DEF ReceiveCommand, Busy, Control, TypeOK
    <3>3. \A d \in Clients \ {c} : cmd'[d] = cmd[d] /\ cmd'[c] = m
      BY <3>1 DEF Control, TypeOK
    <3>4. ASSUME NEW d \in Clients \ {c}, Busy(d)
          PROVE  /\ m \in Starts => cmd[d] \notin Starts /\ StopTarget(cmd[d]) = StopTarget(m)
                 /\ cmd[d] \in Starts => m \notin Starts /\ StopTarget(m) = StopTarget(cmd[d])
      <4>1. ~Interfere(m, cmd[d])
        BY <3>1, <3>4
      <4>2. QED
        BY <4>1, <1>targets, Targets DEF Interfere, Concerns, Control, TypeOK, StartTarget, StopTarget, Starts, Commands
    <3>5. QED
      BY <3>2, <3>3, <3>4 DEF Apart, Orderly
  <2>2. HeldInv'
    BY <1>1, <1>targets, SlotFacts DEF ReceiveCommand, Control, TypeOK, Orderly, Apart, Busy,
       PlaceInv, JoinInv, HeldInv, CommandInv, Preparing, Stopping, Starting
  <2>3. ActiveInv'
    BY <1>1, <1>targets, SlotFacts DEF ReceiveCommand, Control, TypeOK, Orderly, Apart, Busy,
       PlaceInv, ActiveInv, CommandInv, Preparing, Stopping, Starting
  <2>4. CommandInv'
    BY <1>1, <1>targets, SlotFacts DEF ReceiveCommand, Control, TypeOK, Orderly, Apart, Busy,
       PendingInv, PlaceInv, JoinInv, HeldInv, CommandInv, Preparing, Stopping, Starting
  <2>5. QED
    BY <2>1, <2>2, <2>3, <2>4 DEF Orderly
<1>2. ASSUME NEW c \in Clients, CheckActive(c)
      PROVE  Orderly'
  <2>1. ~aborted' /\ Apart'
    BY <1>2 DEF CheckActive, Control, TypeOK, Orderly, Apart, Busy, CommandInv, Starting
  <2>2. HeldInv'
    BY <1>2, <1>targets, SlotFacts DEF CheckActive, Control, TypeOK, Orderly, Apart, Busy,
       PlaceInv, JoinInv, HeldInv, CommandInv, Preparing, Stopping, Starting
  <2>3. ActiveInv'
    BY <1>2, <1>targets, SlotFacts DEF CheckActive, Control, TypeOK, Orderly, Apart, Busy,
       PlaceInv, ActiveInv, CommandInv, Preparing, Stopping, Starting
  <2>4. CommandInv'
    <3>1. ASSUME NEW d \in Clients, ~active[StartTarget(cmd[c])], Stopping(d)
          PROVE  StopTarget(cmd[d]) # StartTarget(cmd[c])
      BY <1>2, <1>targets, <3>1 DEF CheckActive, Orderly, Apart, Busy, Stopping, Control, PlaceInv
    <3>2. ~active[StartTarget(cmd[c])] => thr[StartTarget(cmd[c])] = "none"
      BY <1>targets, <3>1 DEF Orderly, HeldInv
    <3>3. QED
      BY <1>2, <1>targets, <3>2, SlotFacts DEF CheckActive, Control, TypeOK, Orderly,
         CommandInv, Preparing, Stopping, Starting
  <2>5. QED
    BY <2>1, <2>2, <2>3, <2>4 DEF Orderly
<1>3. ASSUME NEW c \in Clients, ResizeLine(c)
      PROVE  Orderly'
  <2>1. ~aborted' /\ Apart'
    BY <1>3 DEF ResizeLine, Control, TypeOK, Orderly, Apart, Busy, CommandInv, Starting
  <2>2. HeldInv'
    BY <1>3, <1>targets, SlotFacts DEF ResizeLine, Control, TypeOK, Orderly, Apart, Busy,
       PlaceInv, JoinInv, HeldInv, CommandInv, Preparing, Stopping, Starting
  <2>3. ActiveInv'
    BY <1>3, <1>targets, SlotFacts DEF ResizeLine, Control, TypeOK, Orderly, Apart, Busy,
       PlaceInv, ActiveInv, CommandInv, Preparing, Stopping, Starting
  <2>4. CommandInv'
    BY <1>3, <1>targets, SlotFacts DEF ResizeLine, Control, TypeOK, Orderly, Apart, Busy,
       PendingInv, PlaceInv, JoinInv, HeldInv, CommandInv, Preparing, Stopping, Starting
  <2>5. QED
    BY <2>1, <2>2, <2>3, <2>4 DEF Orderly
<1>4. ASSUME NEW c \in Clients, ClearFlag(c)
      PROVE  Orderly'
  <2>1. ~aborted' /\ Apart'
    BY <1>4 DEF ClearFlag, Control, TypeOK, Orderly, Apart, Busy, CommandInv, Starting
  <2>2. HeldInv'
    BY <1>4, <1>targets, SlotFacts DEF ClearFlag, Control, TypeOK, Orderly, Apart, Busy,
       PlaceInv, JoinInv, HeldInv, CommandInv, Preparing, Stopping, Starting
  <2>3. ActiveInv'
    BY <1>4, <1>targets, SlotFacts DEF ClearFlag, Control, TypeOK, Orderly, Apart, Busy,
       PlaceInv, ActiveInv, CommandInv, Preparing, Stopping, Starting
  <2>4. CommandInv'
    <3>1. ASSUME NEW d \in Clients, pc[d] \in {"spawn", "assign"}
          PROVE  StartTarget(cmd[d]) # StopTarget(cmd[c])
      BY <1>4, <1>targets, <3>1 DEF ClearFlag, Orderly, Apart, Busy, Starting, Control, PlaceInv
    <3>2. QED
      BY <1>4, <1>targets, <3>1, SlotFacts DEF ClearFlag, Control, TypeOK, Orderly,
         CommandInv, Preparing, Stopping, Starting
  <2>5. QED
    BY <2>1, <2>2, <2>3, <2>4 DEF Orderly
<1>5. ASSUME NEW c \in Clients, CheckJoinable(c)
      PROVE  Orderly'
  <2>1. ~aborted' /\ Apart'
    BY <1>5 DEF CheckJoinable, StopReturns, Control, TypeOK, Orderly, Apart, Busy, CommandInv, Starting
  <2>2. HeldInv'
    BY <1>5, <1>targets, SlotFacts DEF CheckJoinable, StopReturns, Control, TypeOK, Orderly, Apart, Busy,
       PlaceInv, JoinInv, HeldInv, CommandInv, Preparing, Stopping, Starting
  <2>3. ActiveInv'
    BY <1>5, <1>targets, SlotFacts DEF CheckJoinable, StopReturns, Control, TypeOK, Orderly, Apart, Busy,
       PlaceInv, ActiveInv, CommandInv, Preparing, Stopping, Starting
  <2>4. CommandInv'
    <3>1. CASE pc'[c] = "setActive"
      <4>1. \A t \in Timers : thr[t] = "none"
        BY <1>5, <1>targets, <3>1 DEF CheckJoinable, StopReturns, Control, TypeOK, Orderly,
           CommandInv, Preparing
      <4>2. QED
        BY <1>5, <1>targets, <3>1, <4>1, SlotFacts DEF CheckJoinable, Control, TypeOK, Orderly,
           StopReturns, CommandInv, Preparing, Stopping, Starting
    <3>2. CASE pc'[c] # "setActive"
      BY <1>5, <1>targets, <3>2, SlotFacts DEF CheckJoinable, StopReturns, Control, TypeOK,
         Orderly, CommandInv, Preparing, Stopping, Starting
    <3>3. QED
      BY <3>1, <3>2
  <2>5. QED
    BY <2>1, <2>2, <2>3, <2>4 DEF Orderly
<1>6. ASSUME NEW c \in Clients, Join(c)
      PROVE  Orderly'
  <2>1. ~aborted' /\ Apart'
    BY <1>6 DEF Join, JoinTaken, Throw, Control, TypeOK, Orderly, Apart, Busy, CommandInv, Starting
  <2>2. HeldInv'
    BY <1>6, <1>targets, SlotFacts DEF Join, JoinTaken, Throw, Control, TypeOK, Orderly, Apart, Busy,
       PlaceInv, JoinInv, HeldInv, CommandInv, Preparing, Stopping, Starting
  <2>3. ActiveInv'
    BY <1>6, <1>targets, SlotFacts DEF Join, JoinTaken, Throw, Control, TypeOK, Orderly, Apart, Busy,
       PlaceInv, ActiveInv, CommandInv, Preparing, Stopping, Starting
  <2>4. CommandInv'
    BY <1>6, <1>targets, SlotFacts DEF Join, JoinTaken, Throw, Control, TypeOK, Orderly, Apart, Busy,
       PendingInv, PlaceInv, JoinInv, HeldInv, CommandInv, Preparing, Stopping, Starting
  <2>5. QED
    BY <2>1, <2>2, <2>3, <2>4 DEF Orderly
<1>7. ASSUME NEW c \in Clients, Joined(c)
      PROVE  Orderly'
  <2>1. ~aborted' /\ Apart'
    BY <1>7 DEF Joined, StopReturns, Control, TypeOK, Orderly, Apart, Busy, CommandInv, Starting
  <2>2. HeldInv'
    BY <1>7, <1>targets, SlotFacts DEF Joined, StopReturns, Control, TypeOK, Orderly, Apart, Busy,
       PlaceInv, JoinInv, HeldInv, CommandInv, Preparing, Stopping, Starting
  <2>3. ActiveInv'
    BY <1>7, <1>targets, SlotFacts DEF Joined, StopReturns, Control, TypeOK, Orderly, Apart, Busy,
       PlaceInv, ActiveInv, CommandInv, Preparing, Stopping, Starting
  <2>4. CommandInv'
    <3>1. /\ thr' = [thr EXCEPT ![StopTarget(cmd[c])] = "none"]
          /\ UNCHANGED <<cmd, active>>
          /\ pc' = [pc EXCEPT ![c] = IF cmd[c] \in Starts THEN "setActive" ELSE "idle"]
          /\ pc[c] = "joining"
      BY <1>7 DEF Joined, StopReturns
    <3>2. \A r \in Slots : thr'[r] = IF r = StopTarget(cmd[c]) THEN "none" ELSE thr[r]
      BY <3>1 DEF Control, TypeOK
    <3>3. ASSUME NEW d \in Clients, d # c
          PROVE  /\ pc'[d] = pc[d]
                 /\ pc[d] = "joining" => StopTarget(cmd[d]) # StopTarget(cmd[c])
      BY <3>1, <3>3 DEF Control, TypeOK, JoinInv
    <3>4. cmd[c] \in Starts => \A t \in Timers : thr'[t] = "none"
      BY <1>targets, <3>1, <3>2, SlotFacts DEF Orderly, CommandInv, Preparing
    <3>5. ~active[StopTarget(cmd[c])]
      BY <3>1 DEF Orderly, CommandInv, Stopping
    <3>6. \A t \in Timers : thr[t] = "none" => thr'[t] = "none"
      BY <3>2, SlotFacts
    <3>7. pc'[c] = IF cmd[c] \in Starts THEN "setActive" ELSE "idle"
      BY <3>1 DEF Control, TypeOK
    <3>8. \A d \in Clients : thr'[d] = thr[d]
      BY <1>targets, <3>2, SlotFacts
    <3>9. \A d \in Clients \ {c} : pc[d] = "joining" => thr'[StopTarget(cmd[d])] # "none"
      BY <1>targets, <3>2, <3>3, SlotFacts DEF Orderly, CommandInv
    <3>10. QED
      BY <1>targets, <3>1, <3>3, <3>4, <3>5, <3>6, <3>7, <3>8, <3>9
         DEF Orderly, CommandInv, Preparing, Stopping, Starting
  <2>5. QED
    BY <2>1, <2>2, <2>3, <2>4 DEF Orderly
<1>8. ASSUME NEW c \in Clients, SetActive(c)
      PROVE  Orderly'
  <2>1. ~aborted' /\ Apart'
    BY <1>8 DEF SetActive, Control, TypeOK, Orderly, Apart, Busy, CommandInv, Starting
  <2>2. HeldInv'
    <3>1. /\ \A t \in Timers : thr[t] = "none"
          /\ cmd[c] \in Starts /\ ~active[StopTarget(cmd[c])]
      BY <1>8 DEF SetActive, Control, PlaceInv, Orderly, CommandInv, Starting
    <3>2. \A t \in Timers : active'[t] <=> t = StartTarget(cmd[c])
      BY <1>8, <1>targets, <3>1 DEF SetActive, Control, TypeOK
    <3>3. QED
      BY <1>8, <3>1, <3>2 DEF SetActive, HeldInv
  <2>3. ActiveInv'
    BY <1>8, <1>targets, SlotFacts DEF SetActive, Control, TypeOK, Orderly, Apart, Busy,
       PlaceInv, ActiveInv, CommandInv, Preparing, Stopping, Starting
  <2>4. CommandInv'
    <3>1. /\ \A t \in Timers : thr[t] = "none"
          /\ cmd[c] \in Starts /\ ~active[StopTarget(cmd[c])]
      BY <1>8 DEF SetActive, Control, PlaceInv, Orderly, CommandInv, Starting
    <3>2. \A t \in Timers : active'[t] <=> t = StartTarget(cmd[c])
      BY <1>8, <1>targets, <3>1 DEF SetActive, Control, TypeOK
    <3>3. UNCHANGED <<thr, cmd>> /\ pc[c] = "setActive" /\ pc'[c] = "spawn"
      BY <1>8 DEF SetActive, Control, TypeOK
    <3>4. ASSUME NEW d \in Clients, d # c
          PROVE  /\ pc'[d] = pc[d]
                 /\ Busy(d) => cmd[d] \notin Starts /\ StopTarget(cmd[d]) = StopTarget(cmd[c])
      BY <1>8, <3>1, <3>4 DEF SetActive, Control, TypeOK, Orderly, Apart, Busy
    <3>5. ASSUME NEW d \in Clients, d # c
          PROVE  ~Starting(d)
      BY <3>4, <3>5 DEF Starting, Busy, Control, PlaceInv
    <3>6. QED
      BY <1>targets, <3>1, <3>2, <3>3, <3>4, <3>5
         DEF Orderly, CommandInv, Preparing, Stopping, Starting, Busy
  <2>5. QED
    BY <2>1, <2>2, <2>3, <2>4 DEF Orderly
<1>9. ASSUME NEW c \in Clients, Spawn(c)
      PROVE  Orderly'
  <2>1. ~aborted' /\ Apart'
    BY <1>9 DEF Spawn, Control, TypeOK, Orderly, Apart, Busy, CommandInv, Starting
  <2>2. HeldInv'
    BY <1>9, <1>targets, SlotFacts DEF Spawn, Control, TypeOK, Orderly, Apart, Busy,
       PlaceInv, JoinInv, HeldInv, CommandInv, Preparing, Stopping, Starting
  <2>3. ActiveInv'
    BY <1>9, <1>targets, SlotFacts DEF Spawn, Control, TypeOK, Orderly, Apart, Busy,
       PlaceInv, ActiveInv, CommandInv, Preparing, Stopping, Starting
  <2>4. CommandInv'
    BY <1>9, <1>targets, SlotFacts DEF Spawn, Control, TypeOK, Orderly, Apart, Busy,
       PendingInv, PlaceInv, JoinInv, HeldInv, CommandInv, Preparing, Stopping, Starting
  <2>5. QED
    BY <2>1, <2>2, <2>3, <2>4 DEF Orderly
<1>10. ASSUME NEW c \in Clients, SpawnFails(c)
      PROVE  Orderly'
  <2>1. ~aborted' /\ Apart'
    BY <1>10 DEF SpawnFails, Throw, Control, TypeOK, Orderly, Apart, Busy, CommandInv, Starting
  <2>2. HeldInv'
    BY <1>10, <1>targets, SlotFacts DEF SpawnFails, Throw, Control, TypeOK, Orderly, Apart, Busy,
       PlaceInv, JoinInv, HeldInv, CommandInv, Preparing, Stopping, Starting
  <2>3. ActiveInv'
    BY <1>10, <1>targets, SlotFacts DEF SpawnFails, Throw, Control, TypeOK, Orderly, Apart, Busy,
       PlaceInv, ActiveInv, CommandInv, Preparing, Stopping, Starting
  <2>4. CommandInv'
    BY <1>10, <1>targets, SlotFacts DEF SpawnFails, Throw, Control, TypeOK, Orderly, Apart, Busy,
       PendingInv, PlaceInv, JoinInv, HeldInv, CommandInv, Preparing, Stopping, Starting
  <2>5. QED
    BY <2>1, <2>2, <2>3, <2>4 DEF Orderly
<1>11. ASSUME NEW c \in Clients, Assign(c)
      PROVE  Orderly'
  <2>1. ~aborted' /\ Apart'
    <3>1. thr[StartTarget(cmd[c])] = "none"
      BY <1>11, <1>targets DEF Assign, Orderly, CommandInv, Starting
    <3>2. QED
      BY <1>11, <3>1 DEF Assign, Control, TypeOK, Orderly, Apart, Busy
  <2>2. HeldInv'
    BY <1>11, <1>targets, SlotFacts DEF Assign, Throw, Control, TypeOK, Orderly, Apart, Busy,
       PlaceInv, JoinInv, HeldInv, CommandInv, Preparing, Stopping, Starting
  <2>3. ActiveInv'
    <3>1. /\ pc[c] = "assign" /\ thr[StartTarget(cmd[c])] = "none"
          /\ active[StartTarget(cmd[c])] /\ ~active[StopTarget(cmd[c])] /\ cmd[c] \in Starts
      BY <1>11, <1>targets DEF Assign, Orderly, CommandInv, Starting, Control, PlaceInv
    <3>2. thr'[StartTarget(cmd[c])] # "none" /\ UNCHANGED active
      BY <1>11, <1>targets, <3>1, SlotFacts DEF Assign, Control, TypeOK, PendingInv
    <3>3. QED
      BY <1>targets, <3>1, <3>2 DEF ActiveInv
  <2>4. CommandInv'
    <3>1. /\ pc[c] = "assign" /\ thr[StartTarget(cmd[c])] = "none" /\ cmd[c] \in Starts
          /\ active[StartTarget(cmd[c])]
      BY <1>11, <1>targets DEF Assign, Orderly, CommandInv, Starting, Control, PlaceInv
    <3>2. /\ UNCHANGED <<cmd, active>> /\ pc'[c] = "idle"
          /\ \A t \in Timers : t # StartTarget(cmd[c]) => thr'[t] = thr[t]
          /\ \A d \in Clients : d # c => pc'[d] = pc[d] /\ thr'[d] = thr[d]
          /\ thr'[c] = "none"
      BY <1>11, <1>targets, <3>1, SlotFacts DEF Assign, Control, TypeOK
    <3>3. ASSUME NEW d \in Clients, d # c
          PROVE  /\ ~Starting(d)
                 /\ Busy(d) => cmd[d] \notin Starts /\ StopTarget(cmd[d]) = StopTarget(cmd[c])
      BY <3>1, <3>3 DEF Orderly, Apart, Busy, Starting, Control, PlaceInv
    <3>4. QED
      BY <1>targets, <3>1, <3>2, <3>3
         DEF Orderly, CommandInv, Preparing, Stopping, Starting, Busy
  <2>5. QED
    BY <2>1, <2>2, <2>3, <2>4 DEF Orderly
<1>12. ASSUME NEW s \in Slots, TimerStep(s)
       PROVE  Orderly'
  <2>1. UNCHANGED <<pc, cmd, active, aborted, failed>>
    BY <1>12 DEF TimerStep, LoopTest, Wake, RunSlot, historyVars
  <2>2. /\ \A r \in Slots : thr'[r] = "none" <=> thr[r] = "none"
        /\ \A r \in Slots : thr'[r] = "ended" => thr[r] = "ended" \/ ~active[TimerOf(r)]
    BY <1>12 DEF TimerStep, LoopTest, Wake, RunSlot, Control, TypeOK
  <2>3. ~aborted' /\ Apart'
    BY <2>1 DEF Orderly, Apart, Busy
  <2>4. HeldInv' /\ ActiveInv'
    BY <2>1, <2>2, SlotFacts DEF Orderly, HeldInv, ActiveInv, Stopping, TimerOf
  <2>5. ASSUME NEW c \in Clients PROVE thr'[c] # "ended"
    <3>1. CASE thr'[c] = "none"
      BY <3>1
    <3>2. CASE thr'[c] # "none"
      <4>1. pc[c] = "assign" /\ active[TimerOf(c)]
        BY <2>2, <3>2, SlotFacts DEF Control, PendingInv, Orderly, CommandInv, TimerOf
      <4>2. QED
        BY <2>2, <4>1, SlotFacts DEF Orderly, CommandInv
    <3>3. QED
      BY <3>1, <3>2
  <2>6. CommandInv'
    <3>1. /\ \A t \in Timers : thr'[t] = "none" <=> thr[t] = "none"
          /\ \A c \in Clients : thr'[c] # "ended"
      BY <2>2, <2>5, SlotFacts
    <3>2. QED
      BY <1>targets, <2>1, <3>1 DEF Orderly, CommandInv, Preparing, Stopping, Starting
  <2>7. QED
    BY <2>3, <2>4, <2>6 DEF Orderly
<1>13. CASE UNCHANGED vars
  BY <1>13 DEF vars, Orderly, Apart, Busy, HeldInv, ActiveInv, CommandInv, Preparing,
     Stopping, Starting
<1>14. QED
  BY <1>1, <1>2, <1>3, <1>4, <1>5, <1>6, <1>7, <1>8, <1>9, <1>10, <1>11, <1>12, <1>13 DEF Next, ClientStep

\* Once commands have interfered, that stays recorded.
LEMMA LostStays == overlapped /\ [Next]_vars => overlapped'
<1> SUFFICES ASSUME overlapped, Next PROVE overlapped'
  BY DEF vars, historyVars
<1>1. ASSUME NEW c \in Clients, ReceiveCommand(c) PROVE overlapped'
  BY <1>1 DEF ReceiveCommand
<1>2. ASSUME NEW c \in Clients, ClientStep(c) PROVE overlapped'
  BY <1>2 DEF ClientStep, CheckActive, ResizeLine, ClearFlag, CheckJoinable, Join, Joined,
     SetActive, Spawn, SpawnFails, Assign, historyVars
<1>3. ASSUME NEW s \in Slots, TimerStep(s) PROVE overlapped'
  BY <1>3 DEF TimerStep, LoopTest, Wake, RunSlot, historyVars
<1>4. QED
  BY <1>1, <1>2, <1>3 DEF Next

LEMMA SafeInvariant == Spec => []IInv
<1>1. IInv /\ [Next]_vars => IInv'
  BY LostStays, ControlStep, OrderlyStep DEF IInv
<1>2. QED
  BY SafeInit, <1>1, PTL DEF Spec

-------------------------------------------------------------------------------
(* What the positions of the commands mean for the sources, the line and the  *)
(* answers.                                                                   *)

\* No two threads exist at once.
LEMMA AliveOnce ==
  ASSUME Control, Orderly, NEW r \in Slots, NEW s \in Slots,
         thr[r] # "none", thr[s] # "none"
  PROVE  r = s
<1>1. CASE r \in Timers /\ s \in Timers
  BY <1>1 DEF Orderly, HeldInv
<1>2. \A c \in Clients : thr[c] # "none" => Starting(c) /\ Busy(c) /\ cmd[c] \in Starts
  BY DEF Control, PendingInv, PlaceInv, Starting, Busy
<1>3. CASE r \in Clients /\ s \in Clients
  BY <1>2, <1>3 DEF Orderly, Apart
<1>4. CASE r \in Clients /\ s \in Timers
  BY <1>2, <1>4 DEF Orderly, CommandInv
<1>5. CASE r \in Timers /\ s \in Clients
  BY <1>2, <1>5 DEF Orderly, CommandInv
<1>6. QED
  BY <1>1, <1>3, <1>4, <1>5 DEF Slots

\* A simulation thread and an acquisition thread are alive together only after
\* commands overlapped that interfere (startModbusSimulation, startAcquisition).
THEOREM SourcesAreExclusive == Spec => []SourcesExclude
<1>1. IInv => SourcesExclude
  <2> SUFFICES ASSUME IInv, ~overlapped, NEW r \in Slots, NEW s \in Slots,
                      TimerOf(r) = "sim", thr[r] \in LiveAt,
                      TimerOf(s) = "acq", thr[s] \in LiveAt
               PROVE  FALSE
    BY DEF SourcesExclude, Alive
  <2>1. r = s
    BY AliveOnce DEF LiveAt, IInv
  <2>2. QED
    BY <2>1
<1>2. QED
  BY <1>1, SafeInvariant, PTL

\* start() ends the process in std::terminate only after commands overlapped that
\* interfere; whatever else overlaps or fails (SimpleTimer::start).
THEOREM NeverAborts == Spec => []NoAbort
<1>1. IInv => NoAbort
  BY DEF IInv, Orderly, NoAbort
<1>2. QED
  BY <1>1, SafeInvariant, PTL

\* startAcquisition resizes the register line under a running acquisition slot
\* only after commands overlapped that interfere.
THEOREM LineIsNotRaced == Spec => []NoLineRace
<1>1. IInv => NoLineRace
  <2> SUFFICES ASSUME IInv, ~overlapped, NEW c \in Clients, NEW s \in Slots,
                      pc[c] = "resize", thr[s] = "slot", TimerOf(s) = "acq"
               PROVE  FALSE
    BY DEF NoLineRace
  <2>1. cmd[c] = "startAcq" /\ thr["acq"] = "none"
    BY DEF IInv, Control, PlaceInv, Orderly, CommandInv, Preparing, StartTarget, Starts
  <2>2. s \notin Timers
    BY <2>1 DEF TimerOf
  <2>3. s \in Clients /\ pc[s] = "assign"
    BY <2>2 DEF Slots, IInv, Control, PendingInv
  <2>4. s # c /\ Busy(s) /\ Busy(c) /\ cmd[s] \in Starts /\ cmd[c] \in Starts
    BY <2>1, <2>3 DEF Busy, Starting, IInv, Control, PlaceInv, Starts
  <2>5. QED
    BY <2>3, <2>4 DEF IInv, Orderly, Apart
<1>2. QED
  BY <1>1, SafeInvariant, PTL

\* A step in which c is answered is a step of c's command that can answer it.
LEMMA AnswerStep ==
  ASSUME Control, [Next]_vars, NEW c \in Clients, NEW r, Answers(c, r)
  PROVE  \/ CheckActive(c) \/ CheckJoinable(c) \/ Join(c) \/ Joined(c)
         \/ SpawnFails(c) \/ Assign(c)
<1> USE DEF At, Goto, Answer, Runs, Move
<1>1. pc[c] # "idle" /\ pc'[c] = "idle"
  BY DEF Answers
<1>2. ASSUME NEW d \in Clients, ReceiveCommand(d) PROVE FALSE
  BY <1>1, <1>2 DEF ReceiveCommand, Control, TypeOK, Starts
<1>3. ASSUME NEW s \in Slots, TimerStep(s) PROVE FALSE
  BY <1>1, <1>3 DEF TimerStep, LoopTest, Wake, RunSlot
<1>4. ASSUME NEW d \in Clients, ClientStep(d) PROVE c = d
  BY <1>1, <1>4 DEF ClientStep, CheckActive, ResizeLine, ClearFlag, CheckJoinable, Join,
     Joined, SetActive, Spawn, SpawnFails, Assign, StopReturns, Throw, Control, TypeOK
<1>5. ClientStep(c)
  BY <1>1, <1>2, <1>3, <1>4 DEF Next, vars
<1>6. ~ResizeLine(c) /\ ~ClearFlag(c) /\ ~SetActive(c) /\ ~Spawn(c)
  BY <1>1 DEF ResizeLine, ClearFlag, SetActive, Spawn, Control, TypeOK
<1>7. QED
  BY <1>5, <1>6 DEF ClientStep

\* Behind an acknowledged stop the timer is inactive and its thread is gone or
\* being joined by another client (stopModbusSimulation, stopAcquisition).
THEOREM StopIsComplete == Spec => StopHolds
<1>1. IInv /\ [Next]_vars =>
        [\A c \in Clients : Answers(c, "ACK") /\ cmd[c] \notin Starts =>
           \/ overlapped
           \/ /\ ~active'[StopTarget(cmd[c])]
              /\ \/ thr'[StopTarget(cmd[c])] = "none"
                 \/ \E d \in Clients \ {c} :
                       /\ pc'[d] = "joining"
                       /\ StopTarget(cmd'[d]) = StopTarget(cmd[c])]_vars
  <2> SUFFICES ASSUME IInv, [Next]_vars, ~overlapped, NEW c \in Clients,
                      Answers(c, "ACK"), cmd[c] \notin Starts
               PROVE  /\ ~active'[StopTarget(cmd[c])]
                      /\ \/ thr'[StopTarget(cmd[c])] = "none"
                         \/ \E d \in Clients \ {c} :
                               /\ pc'[d] = "joining"
                               /\ StopTarget(cmd'[d]) = StopTarget(cmd[c])
    OBVIOUS
  <2> USE DEF At, Goto, Answer
  <2>1. pc[c] # "idle" /\ pc'[c] = "idle"
    BY DEF Answers
  <2>2. Control /\ Orderly
    BY DEF IInv
  <2>3. CheckJoinable(c) \/ Join(c) \/ Joined(c)
    <3>1. ~CheckActive(c) /\ ~SpawnFails(c) /\ ~Assign(c)
      BY <2>2 DEF CheckActive, SpawnFails, Assign, Control, PlaceInv, Starting
    <3>2. QED
      BY <2>2, <3>1, AnswerStep
  <2>4. ~active[StopTarget(cmd[c])] /\ UNCHANGED <<active, cmd>>
    BY <2>2, <2>3 DEF CheckJoinable, Join, Joined, Stopping, Orderly, CommandInv
  <2>5. StopTarget(cmd[c]) \in Slots /\ cmd[c] \in Commands
    BY <2>2, Targets, SlotFacts DEF Control, TypeOK
  <2>6. CASE CheckJoinable(c)
    BY <2>1, <2>2, <2>4, <2>6 DEF CheckJoinable, Control, TypeOK
  <2>7. CASE Joined(c)
    BY <2>2, <2>4, <2>5, <2>7 DEF Joined, Control, TypeOK
  <2>8. CASE Join(c)
    <3>1. thr[StopTarget(cmd[c])] = "none" \/ JoinTaken(c)
      BY <2>1, <2>2, <2>8 DEF Join, Control, TypeOK
    <3>2. UNCHANGED thr /\ \A d \in Clients \ {c} : pc'[d] = pc[d]
      BY <2>2, <2>8 DEF Join, Throw, Control, TypeOK
    <3>3. QED
      BY <2>4, <3>1, <3>2 DEF JoinTaken
  <2>9. QED
    BY <2>3, <2>6, <2>7, <2>8
<1>2. QED
  BY <1>1, SafeInvariant, PTL DEF Spec, StopHolds

\* Behind an acknowledged start the other timer is inactive without a thread and
\* its own is active with a running one, unless its last start could not create
\* a thread (startModbusSimulation, startAcquisition, parseRequest).
THEOREM StartIsComplete == Spec => StartHolds
<1>1. IInv /\ [Next]_vars =>
        [\A c \in Clients : Answers(c, "ACK") /\ cmd[c] \in Starts =>
           \/ overlapped
           \/ /\ ~active'[StopTarget(cmd[c])] /\ thr'[StopTarget(cmd[c])] = "none"
              /\ active'[StartTarget(cmd[c])]
              /\ thr'[StartTarget(cmd[c])] \in LiveAt \/ StartTarget(cmd[c]) \in failed]_vars
  <2> SUFFICES ASSUME IInv, [Next]_vars, ~overlapped, NEW c \in Clients,
                      Answers(c, "ACK"), cmd[c] \in Starts
               PROVE  /\ ~active'[StopTarget(cmd[c])] /\ thr'[StopTarget(cmd[c])] = "none"
                      /\ active'[StartTarget(cmd[c])]
                      /\ thr'[StartTarget(cmd[c])] \in LiveAt \/ StartTarget(cmd[c]) \in failed
    OBVIOUS
  <2> DEFINE start == StartTarget(cmd[c])
             stop  == StopTarget(cmd[c])
  <2> USE DEF At, Goto, Answer
  <2>1. pc[c] # "idle" /\ pc'[c] = "idle" /\ reply'[c] = "ACK"
    BY DEF Answers
  <2>2. Control /\ Orderly
    BY DEF IInv
  <2>3. /\ start \in Timers /\ stop \in Timers /\ start # stop
        /\ start \in Slots /\ stop \in Slots /\ c \in Slots /\ c \notin Timers
    BY <2>2, Targets, SlotFacts DEF Control, TypeOK
  <2>4. CheckActive(c) \/ Assign(c)
    <3>1. ~CheckJoinable(c) /\ ~Joined(c)
      BY <2>1, <2>2 DEF CheckJoinable, Joined, StopReturns, Control, TypeOK
    <3>2. ~Join(c) /\ ~SpawnFails(c)
      BY <2>1, <2>2 DEF Join, SpawnFails, Throw, Control, TypeOK
    <3>3. QED
      BY <2>2, <3>1, <3>2, AnswerStep
  <2>5. CASE CheckActive(c)
    <3>1. pc[c] = "check" /\ active[start] /\ UNCHANGED <<active, thr>>
      BY <2>1, <2>2, <2>5 DEF CheckActive, Control, TypeOK
    <3>2. ~active[stop] /\ thr[stop] = "none"
      BY <2>2, <2>3, <3>1 DEF Orderly, HeldInv
    <3>3. ASSUME NEW d \in Clients, pc[d] \in {"spawn", "assign"} PROVE FALSE
      BY <2>2, <3>1, <3>3 DEF Control, PlaceInv, Starting, Orderly, Apart, Busy
    <3>4. thr[start] # "none" \/ start \in failed
      BY <2>2, <2>3, <3>1, <3>3 DEF Orderly, ActiveInv
    <3>5. thr[start] # "ended" /\ thr[start] \in LiveAt \cup {"none", "ended"}
      BY <2>2, <2>3, <3>1 DEF Control, TypeOK, Orderly, HeldInv
    <3>6. QED
      BY <3>1, <3>2, <3>4, <3>5
  <2>6. CASE Assign(c)
    <3>1. Starting(c) /\ pc[c] = "assign" /\ UNCHANGED active
      BY <2>6 DEF Assign, Starting
    <3>2. active[start] /\ ~active[stop] /\ thr[stop] = "none" /\ thr[start] = "none"
      BY <2>2, <2>3, <3>1 DEF Orderly, CommandInv
    <3>3. thr'[stop] = "none" /\ thr'[start] = thr[c]
      BY <2>2, <2>3, <2>6, <3>2 DEF Assign, Control, TypeOK
    <3>4. thr[c] \in LiveAt
      BY <2>2, <2>3, <3>1 DEF Control, TypeOK, PendingInv, Orderly, CommandInv
    <3>5. QED
      BY <3>1, <3>2, <3>3, <3>4
  <2>7. QED
    BY <2>4, <2>5, <2>6
<1>2. QED
  BY <1>1, SafeInvariant, PTL DEF Spec, StartHolds

-------------------------------------------------------------------------------
(* The refinement.                                                         *)

LEMMA AliveKept ==
  ASSUME \A t \in Timers : Alive(t)' <=> Alive(t)
  PROVE  Source' = Source
  BY DEF Source, Timers

LEMMA SourceOf ==
  ASSUME Control, Orderly, NEW s \in Slots, thr[s] \in LiveAt
  PROVE  Source = TimerOf(s) /\ TimerOf(s) \in Timers
<1>1. TimerOf(s) \in Timers
  BY DEF TimerOf, StartTarget, Timers
<1>2. \A r \in Slots : thr[r] \in LiveAt => r = s
  BY AliveOnce DEF LiveAt
<1>3. Alive(TimerOf(s)) /\ \A t \in Timers : Alive(t) => t = TimerOf(s)
  BY <1>2 DEF Alive
<1>4. QED
  BY <1>1, <1>3 DEF Source, Timers

\* A step that moves no thread keeps the source.
LEMMA ThreadsKept ==
  ASSUME UNCHANGED <<thr>>,
         \A c \in Clients : thr[c] # "none" => cmd'[c] = cmd[c]
  PROVE  Source' = Source
<1>1. \A s \in Slots : thr[s] \in LiveAt => TimerOf(s)' = TimerOf(s)
  BY DEF Slots, TimerOf, LiveAt
<1>2. QED
  BY <1>1, AliveKept DEF Alive

LEMMA ModeStep ==
  ASSUME Control, Orderly, ~overlapped, ~overlapped', [Next]_vars
  PROVE  [Modes!ModeNext]_(Modes!vars)
<1> USE DEF At, Goto, Answer, Runs, Move, historyVars
<1> DEFINE Same == Source' = Source /\ published' = published
<1>0. ASSUME Same PROVE UNCHANGED Modes!vars
  BY <1>0, TypeStep DEF Modes!vars, Control, TypeOK
<1>1. ASSUME NEW c \in Clients, ReceiveCommand(c) PROVE Same
  <2>1. \A d \in Clients : thr[d] # "none" => cmd'[d] = cmd[d]
    BY <1>1 DEF ReceiveCommand, Control, TypeOK, PendingInv
  <2>2. QED
    BY <1>1, <2>1, ThreadsKept DEF ReceiveCommand
<1>2. ASSUME NEW c \in Clients,
             \/ CheckActive(c) \/ ResizeLine(c) \/ ClearFlag(c)
             \/ CheckJoinable(c) \/ Join(c) \/ SetActive(c) \/ SpawnFails(c)
      PROVE  Same
  <2>1. UNCHANGED <<thr, cmd, published>>
    BY <1>2 DEF CheckActive, ResizeLine, ClearFlag, CheckJoinable, Join,
       SetActive, SpawnFails
  <2>2. QED
    BY <2>1, ThreadsKept
<1>3. ASSUME NEW c \in Clients, Joined(c) PROVE Same
  <2>1. \A s \in Slots : thr'[s] \in LiveAt <=> thr[s] \in LiveAt
    BY <1>3 DEF Joined, Control, TypeOK, LiveAt, StopTarget, Slots, Timers
  <2>2. UNCHANGED <<cmd, published>>
    BY <1>3 DEF Joined
  <2>3. QED
    BY <2>1, <2>2, AliveKept DEF Alive, TimerOf
<1>4. ASSUME NEW c \in Clients, Spawn(c) PROVE Modes!ModeNext
  <2>1. pc[c] = "spawn" /\ cmd[c] \in Starts
    BY <1>4 DEF Spawn, Control, PlaceInv, Starting
  <2>2. \A t \in Timers : thr[t] = "none"
    BY <2>1 DEF Orderly, CommandInv, Starting
  <2>3. ASSUME NEW d \in Clients PROVE thr[d] = "none"
    BY <2>1 DEF Control, PendingInv, PlaceInv, Orderly, Apart, Busy, Starting
  <2>4. \A s \in Slots : thr[s] = "none"
    BY <2>2, <2>3 DEF Slots
  <2>5. Source = "none"
    BY <2>4 DEF Source, Alive, LiveAt
  <2>6. \A s \in Slots : thr'[s] \in LiveAt <=> s = c
    BY <1>4, <2>4 DEF Spawn, Control, TypeOK, LiveAt, Slots
  <2>7. UNCHANGED <<cmd, published>>
    BY <1>4 DEF Spawn
  <2>8. TimerOf(c)' = StartTarget(cmd[c])
    BY <2>7, ClientsAssumption DEF TimerOf
  <2>9. Source' = StartTarget(cmd[c])
    <3>1. \A t \in Timers : Alive(t)' <=> t = StartTarget(cmd[c])
      BY <2>6, <2>8 DEF Alive, Slots
    <3>2. QED
      BY <3>1 DEF Source, Timers, StartTarget
  <2>10. QED
    BY <2>5, <2>7, <2>9
       DEF Modes!ModeNext, Modes!Keep, Modes!Engage, Timers, StartTarget
<1>5. ASSUME NEW c \in Clients, Assign(c) PROVE Same
  <2> DEFINE t0 == StartTarget(cmd[c])
  <2>1. thr[t0] = "none" /\ thr[c] # "none" /\ t0 \in Timers
    BY <1>5 DEF Assign, Control, Orderly, CommandInv, PendingInv, Starting, StartTarget,
       Timers
  <2>2. /\ thr' = [thr EXCEPT ![t0] = thr[c], ![c] = "none"]
        /\ UNCHANGED <<cmd, published>>
    BY <1>5, <2>1 DEF Assign
  <2>3. TimerOf(c) = t0 /\ TimerOf(t0) = t0
    BY <2>1, ClientsAssumption DEF TimerOf
  <2>4. \A s \in Slots : TimerOf(s)' = TimerOf(s)
    BY <2>2 DEF TimerOf
  <2>5. \A s \in Slots : thr[s] # "none" => s = c
    BY <2>1, AliveOnce DEF Slots
  <2>6. t0 \in Slots /\ c \in Slots /\ t0 # c
    BY <2>1, ClientsAssumption DEF Slots
  <2>7. /\ thr'[t0] = thr[c]
        /\ \A s \in Slots : s # t0 => thr'[s] = "none"
    BY <2>2, <2>5, <2>6 DEF Control, TypeOK
  <2>8. \A t \in Timers : Alive(t) <=> t = t0 /\ thr[c] \in LiveAt
    BY <2>3, <2>5, <2>6 DEF Alive, LiveAt
  <2>9. \A t \in Timers : Alive(t)' <=> t = t0 /\ thr[c] \in LiveAt
    BY <2>3, <2>4, <2>6, <2>7 DEF Alive, LiveAt
  <2>10. QED
    BY <2>2, <2>8, <2>9, AliveKept
<1>6. ASSUME NEW s \in Slots, TimerStep(s) PROVE Same \/ Modes!ModeNext
  <2>1. UNCHANGED <<cmd>> /\ thr[s] \in LiveAt
    BY <1>6 DEF TimerStep, LoopTest, Wake, RunSlot, LiveAt
  <2>2. \A r \in Slots : TimerOf(r)' = TimerOf(r)
    BY <2>1 DEF TimerOf
  <2>3. Source = TimerOf(s) /\ TimerOf(s) \in Timers
    BY <2>1, SourceOf
  <2>4. ASSUME thr'[s] \in LiveAt PROVE Source' = Source
    <3>1. \A r \in Slots : thr'[r] \in LiveAt <=> thr[r] \in LiveAt
      BY <1>6, <2>1, <2>4
         DEF TimerStep, LoopTest, Wake, RunSlot, Control, TypeOK
    <3>2. QED
      BY <3>1, <2>2, AliveKept DEF Alive
  <2>5. CASE RunSlot(s)
    <3>1. published' = Source /\ Source # "none" /\ Source' = Source
      BY <2>3, <2>4, <2>5 DEF RunSlot, LiveAt, Timers, Control, TypeOK
    <3>2. QED
      BY <3>1 DEF Modes!ModeNext, Modes!Keep, Modes!Publish
  <2>6. CASE Wake(s) \/ (LoopTest(s) /\ active[TimerOf(s)])
    BY <2>4, <2>6 DEF Wake, LoopTest, LiveAt, Control, TypeOK
  <2>7. CASE LoopTest(s) /\ ~active[TimerOf(s)]
    <3>1. \A r \in Slots : thr'[r] \notin LiveAt
      BY <2>1, <2>7, AliveOnce DEF LoopTest, LiveAt, Control, TypeOK
    <3>2. Source' = "none"
      BY <3>1 DEF Source, Alive
    <3>3. Source # "none" /\ published' = published
      BY <2>3, <2>7 DEF LoopTest, Timers
    <3>4. QED
      BY <3>2, <3>3 DEF Modes!ModeNext, Modes!Keep, Modes!Disengage
  <2>8. QED
    BY <1>6, <2>5, <2>6, <2>7 DEF TimerStep
<1>7. CASE UNCHANGED vars
  BY <1>7, ThreadsKept, <1>0 DEF vars
<1>8. QED
  BY <1>0, <1>1, <1>2, <1>3, <1>4, <1>5, <1>6, <1>7 DEF Next, ClientStep

\* The bridge implements ModeSwitch: until commands overlap that interfere, one
\* source at a time publishes, and the source changes through "none".
THEOREM BridgeImplementsModes == Spec => ImplementsModes
<1>1. Init => Modes!ModeInit
  BY DEF Init, Modes!ModeInit, Source, Alive, Slots, LiveAt
<1>2. IInv /\ [Next]_vars => [Modes!ModeNext]_(Modes!vars)
  <2> SUFFICES ASSUME IInv, [Next]_vars PROVE [Modes!ModeNext]_(Modes!vars)
    OBVIOUS
  <2>1. CASE overlapped'
    BY <2>1 DEF Modes!ModeNext, Modes!Lose
  <2>2. CASE ~overlapped'
    BY <2>2, LostStays, ModeStep DEF IInv
  <2>3. QED
    BY <2>1, <2>2
<1>3. QED
  BY <1>1, <1>2, SafeInvariant, PTL DEF Spec, ImplementsModes, Modes!ModeSpec

===============================================================================
