-------------------------------- MODULE Bridge --------------------------------
(***************************************************************************)
(* The control of NItoModbusBridge: two SimpleTimers, one that publishes   *)
(* simulated values and one that publishes acquired values, started and    *)
(* stopped by the threads that serve the clients of the command server.    *)
(*                                                                         *)
(* Every step that another thread can see is an action of its own: the     *)
(* test of m_active, its two stores, the test of joinable(), the call of   *)
(* join(), the creation of the thread and its move into m_timerThread.     *)
(* No mutex protects m_timerThread.  pthread_join on a thread that another *)
(* thread is joining, or on the empty thread object, makes std::thread     *)
(* throw; moving a thread into a joinable object is std::terminate.        *)
(*                                                                         *)
(* The server serialises nothing, so commands overlap here in every way.   *)
(* What still holds is said with a history variable: `overlapped' becomes  *)
(* TRUE at the first command that meets, in progress, another one on a     *)
(* timer that one of the two starts.                                       *)
(***************************************************************************)

CONSTANTS Clients,        (* the threads running CrioSSLServer::handleClient *)
          SpawnMayFail    (* TRUE when creating a thread may throw *)

Timers == {"sim", "acq"}  \* m_simulateTimer and m_dataAcquTimer

ASSUME ClientsAssumption ==
    /\ Clients \cap Timers = {}
    /\ SpawnMayFail \in BOOLEAN

VARIABLES
    active,      (* m_active of each timer *)
    thr,         (* thr[t]: where the thread held by m_timerThread of timer t
                    is; thr[c]: the thread client c created and has not yet
                    moved into m_timerThread *)
    pc, cmd,     (* what each client thread does, for which command *)
    reply,       (* the answer to the client's last command *)
    published,   (* the timer whose slot wrote the registers last *)
    aborted,     (* std::terminate was called *)
    failed,      (* the timers whose last start() could not create a thread,
                    until they are stopped (history) *)
    overlapped   (* a command met one it interferes with (history) *)

historyVars == <<failed, overlapped>>
vars == <<active, thr, pc, cmd, reply, published, aborted, historyVars>>

Commands == {"startSim", "startAcq", "stopSim", "stopAcq"}
Starts   == {"startSim", "startAcq"}

\* The timer a start command starts.
StartTarget(m) == IF m = "startSim" THEN "sim" ELSE "acq"

\* The timer a command stops: a start command stops the other timer first.
StopTarget(m) == IF m \in {"startSim", "stopAcq"} THEN "acq" ELSE "sim"

\* Commands m and n concern one timer, and one of the two starts it.  A stop
\* interferes neither with another stop nor with the start of the other timer,
\* which stops the same one.
Concerns(m) == {StopTarget(m)} \cup IF m \in Starts THEN {StartTarget(m)} ELSE {}

Interfere(m, n) ==
    \/ m \in Starts /\ StartTarget(m) \in Concerns(n)
    \/ n \in Starts /\ StartTarget(n) \in Concerns(m)

Slots    == Timers \cup Clients
LiveAt   == {"check", "sleep", "slot"}
TimerOf(s) == IF s \in Timers THEN s ELSE StartTarget(cmd[s])

PCs == {"idle", "check", "resize", "clearFlag", "joinable", "join",
        "joining", "setActive", "spawn", "assign"}

Init ==
    /\ active = [t \in Timers |-> FALSE]
    /\ thr = [s \in Slots |-> "none"]
    /\ pc = [c \in Clients |-> "idle"]
    /\ cmd = [c \in Clients |-> "stopSim"]
    /\ reply = [c \in Clients |-> "none"]
    /\ published = "none"
    /\ aborted = FALSE
    /\ failed = {}
    /\ overlapped = FALSE

-------------------------------------------------------------------------------
(* The client threads.                                                     *)

At(c, l) == ~aborted /\ pc[c] = l

Goto(c, l) == pc' = [pc EXCEPT ![c] = l]

\* The command is over and its answer is sent.
Answer(c, r) ==
    /\ Goto(c, "idle")
    /\ reply' = [reply EXCEPT ![c] = r]

\* parseRequest recognises one of the four timer commands.
ReceiveCommand(c) ==
    /\ At(c, "idle")
    /\ \E m \in Commands :
          /\ cmd' = [cmd EXCEPT ![c] = m]
          /\ Goto(c, IF m \in Starts THEN "check" ELSE "clearFlag")
          /\ overlapped' =
                (overlapped \/ \E d \in Clients : pc[d] # "idle" /\ Interfere(m, cmd[d]))
    /\ reply' = [reply EXCEPT ![c] = "none"]
    /\ UNCHANGED <<active, thr, published, aborted, failed>>

\* Mutant: startAcquisition forgets to stop the simulation.
CheckActiveNoStop(c) ==
    /\ At(c, "check")
    /\ \/ /\ active[StartTarget(cmd[c])]
          /\ Answer(c, "ACK")
       \/ /\ ~active[StartTarget(cmd[c])]
          /\ Goto(c, IF cmd[c] = "startAcq" THEN "setActive" ELSE "clearFlag")
          /\ UNCHANGED reply
    /\ UNCHANGED <<active, thr, cmd, published, aborted, historyVars>>

\* Mutant: a start command does not test isActive().
CheckActiveNever(c) ==
    /\ At(c, "check")
    /\ Goto(c, IF cmd[c] = "startAcq" THEN "resize" ELSE "clearFlag")
    /\ UNCHANGED <<active, thr, cmd, reply, published, aborted, historyVars>>

\* isActive(), tested by parseRequest and again by the bridge: both answer ACK.
CheckActive(c) ==
    /\ At(c, "check")
    /\ \/ /\ active[StartTarget(cmd[c])]
          /\ Answer(c, "ACK")
       \/ /\ ~active[StartTarget(cmd[c])]
          /\ Goto(c, IF cmd[c] = "startAcq" THEN "resize" ELSE "clearFlag")
          /\ UNCHANGED reply
    /\ UNCHANGED <<active, thr, cmd, published, aborted, historyVars>>

\* startAcquisition clears and resizes m_realDataBufferLine, which the slot of
\* the acquisition timer writes, before it stops the simulation.
ResizeLine(c) ==
    /\ At(c, "resize")
    /\ Goto(c, "clearFlag")
    /\ UNCHANGED <<active, thr, cmd, reply, published, aborted, historyVars>>

\* Mutant: stop() joins without clearing m_active.
ClearFlagNot(c) ==
    /\ At(c, "clearFlag")
    /\ Goto(c, "joinable")
    /\ UNCHANGED <<active, thr, cmd, reply, published, aborted, historyVars>>

\* stop(): m_active.store(false)
ClearFlag(c) ==
    /\ At(c, "clearFlag")
    /\ active' = [active EXCEPT ![StopTarget(cmd[c])] = FALSE]
    /\ Goto(c, "joinable")
    /\ failed' = failed \ {StopTarget(cmd[c])}
    /\ UNCHANGED <<thr, cmd, reply, published, aborted, overlapped>>

\* stop() returns: a start command goes on to start(), a stop command is over.
StopReturns(c) ==
    IF cmd[c] \in Starts
    THEN Goto(c, "setActive") /\ UNCHANGED reply
    ELSE Answer(c, "ACK")

\* Mutant: stop() does not wait for the thread.
CheckJoinableNoWait(c) ==
    /\ At(c, "joinable")
    /\ StopReturns(c)
    /\ UNCHANGED <<active, thr, cmd, published, aborted, historyVars>>

\* stop(): if (m_timerThread.joinable())
CheckJoinable(c) ==
    /\ At(c, "joinable")
    /\ \/ /\ thr[StopTarget(cmd[c])] # "none"
          /\ Goto(c, "join")
          /\ UNCHANGED reply
       \/ /\ thr[StopTarget(cmd[c])] = "none"
          /\ StopReturns(c)
    /\ UNCHANGED <<active, thr, cmd, published, aborted, historyVars>>

\* Another client is already blocked in join() on the same thread.
JoinTaken(c) ==
    \E d \in Clients \ {c} :
        pc[d] = "joining" /\ StopTarget(cmd[d]) = StopTarget(cmd[c])

\* An exception leaves stop() or start().  The start commands answer NACK; the
\* stop commands swallow it in the bridge and parseRequest answers ACK.
Throw(c) == Answer(c, IF cmd[c] \in Starts THEN "NACK" ELSE "ACK")

Join(c) ==
    /\ At(c, "join")
    /\ IF thr[StopTarget(cmd[c])] = "none" \/ JoinTaken(c)
       THEN Throw(c)
       ELSE Goto(c, "joining") /\ UNCHANGED reply
    /\ UNCHANGED <<active, thr, cmd, published, aborted, historyVars>>

\* join() returns when the thread has ended and empties the thread object.
Joined(c) ==
    /\ At(c, "joining")
    /\ thr[StopTarget(cmd[c])] = "ended"
    /\ thr' = [thr EXCEPT ![StopTarget(cmd[c])] = "none"]
    /\ StopReturns(c)
    /\ UNCHANGED <<active, cmd, published, aborted, historyVars>>

\* start(): m_active = true
SetActive(c) ==
    /\ At(c, "setActive")
    /\ active' = [active EXCEPT ![StartTarget(cmd[c])] = TRUE]
    /\ Goto(c, "spawn")
    /\ UNCHANGED <<thr, cmd, reply, published, aborted, historyVars>>

\* start(): the new thread runs before it is moved into m_timerThread.
Spawn(c) ==
    /\ At(c, "spawn")
    /\ thr' = [thr EXCEPT ![c] = "check"]
    /\ Goto(c, "assign")
    /\ UNCHANGED <<active, cmd, reply, published, aborted, historyVars>>

\* start(): std::thread cannot create the thread; m_active stays true.
SpawnFails(c) ==
    /\ At(c, "spawn")
    /\ SpawnMayFail
    /\ Throw(c)
    /\ failed' = failed \cup {StartTarget(cmd[c])}
    /\ UNCHANGED <<active, thr, cmd, published, aborted, overlapped>>

\* start(): the move into m_timerThread.
Assign(c) ==
    /\ At(c, "assign")
    /\ IF thr[StartTarget(cmd[c])] # "none"
       THEN aborted' = TRUE /\ UNCHANGED <<thr, pc, reply>>
       ELSE /\ thr' = [thr EXCEPT ![StartTarget(cmd[c])] = thr[c],
                                  ![c] = "none"]
            /\ Answer(c, "ACK")
            /\ UNCHANGED aborted
    /\ UNCHANGED <<active, cmd, published, historyVars>>

-------------------------------------------------------------------------------
(* The timer threads.                                                      *)

Runs(s, l) == ~aborted /\ thr[s] = l

Move(s, l) == thr' = [thr EXCEPT ![s] = l]

\* while (m_active.load())
LoopTest(s) ==
    /\ Runs(s, "check")
    /\ Move(s, IF active[TimerOf(s)] THEN "sleep" ELSE "ended")
    /\ UNCHANGED <<active, pc, cmd, reply, published, aborted, historyVars>>

\* sleep_for(m_interval) returns and m_active is tested again.
Wake(s) ==
    /\ Runs(s, "sleep")
    /\ Move(s, IF active[TimerOf(s)] THEN "slot" ELSE "check")
    /\ UNCHANGED <<active, pc, cmd, reply, published, aborted, historyVars>>

\* m_slotFunction(): onSimulationTimerTimeOut or onDataAcquisitionTimerTimeOut
\* writes the registers and returns; every exception is caught inside it.
RunSlot(s) ==
    /\ Runs(s, "slot")
    /\ Move(s, "check")
    /\ published' = TimerOf(s)
    /\ UNCHANGED <<active, pc, cmd, reply, aborted, historyVars>>

-------------------------------------------------------------------------------

\* Every step of a client's command after it was received.
ClientStep(c) ==
    \/ CheckActive(c) \/ ResizeLine(c) \/ ClearFlag(c) \/ CheckJoinable(c)
    \/ Join(c) \/ Joined(c) \/ SetActive(c) \/ Spawn(c) \/ SpawnFails(c)
    \/ Assign(c)

TimerStep(s) == LoopTest(s) \/ Wake(s) \/ RunSlot(s)

Next ==
    \/ \E c \in Clients : ReceiveCommand(c) \/ ClientStep(c)
    \/ \E s \in Slots : TimerStep(s)

Spec == Init /\ [][Next]_vars

\* The scheduler runs every thread that can run; a client may send no more
\* commands, so ReceiveCommand has no fairness.
Fairness ==
    /\ \A c \in Clients : WF_vars(ClientStep(c))
    /\ \A s \in Slots : WF_vars(TimerStep(s))

FairSpec == Spec /\ Fairness

-------------------------------------------------------------------------------
(* Properties.                                                             *)

\* The types of the variables of the two timers and their clients.
TypeOK ==
    /\ active \in [Timers -> BOOLEAN]
    /\ thr \in [Slots -> LiveAt \cup {"none", "ended"}]
    /\ pc \in [Clients -> PCs]
    /\ cmd \in [Clients -> Commands]
    /\ reply \in [Clients -> {"none", "ACK", "NACK"}]
    /\ published \in Timers \cup {"none"}
    /\ aborted \in BOOLEAN
    /\ failed \subseteq Timers /\ overlapped \in BOOLEAN

Alive(t) == \E s \in Slots : TimerOf(s) = t /\ thr[s] \in LiveAt

\* A simulation thread and an acquisition thread are alive together only after
\* commands overlapped that interfere: the start of one timer stops the other
\* "to avoid conflicts" (niToModbusBridge.cpp:263 and 325).
SourcesExclude == overlapped \/ ~(Alive("sim") /\ Alive("acq"))

\* Once no command is in progress, one of the timers at most is active (the
\* comments "to avoid conflicts" at niToModbusBridge.cpp:263 and 325).
SettledExclude ==
    (\A c \in Clients : pc[c] = "idle") => ~(active["sim"] /\ active["acq"])

\* start() moves a new thread into a timer whose thread object is still joinable,
\* which ends the whole process (simpleTimer.h:30), only after commands overlapped
\* that interfere.  Stops that overlap, and a stop during the start of the other
\* timer, never lead there, not even with the exceptions and failures they meet.
NoAbort == aborted => overlapped

\* "Return false to indicate that simulation start failed" and the same of data
\* acquisition (niToModbusBridge.cpp:280 and 339): a start that fails returns, and
\* does not end the process.
FailedStartReturns == ~aborted

\* startAcquisition clears and resizes the register line while the acquisition
\* slot writes it (niToModbusBridge.cpp:320-323 and 655) only after commands
\* overlapped that interfere.
NoLineRace ==
    \A c \in Clients, s \in Slots :
        pc[c] = "resize" /\ thr[s] = "slot" /\ TimerOf(s) = "acq" => overlapped

\* c answers r to its command in this step.
Answers(c, r) == pc[c] # "idle" /\ pc'[c] = "idle" /\ reply'[c] = r

\* A stop command answers ACK only when the timer is inactive and its thread is
\* gone, or when another command, at this very moment, waits for that thread: then
\* join() threw and the exception was swallowed (niToModbusBridge.cpp:287-300).
StopHolds ==
    [][\A c \in Clients : Answers(c, "ACK") /\ cmd[c] \notin Starts =>
          \/ overlapped
          \/ /\ ~active'[StopTarget(cmd[c])]
             /\ \/ thr'[StopTarget(cmd[c])] = "none"
                \/ \E d \in Clients \ {c} :
                      /\ pc'[d] = "joining"
                      /\ StopTarget(cmd'[d]) = StopTarget(cmd[c])]_vars

\* "Stop the simulation timer", "Stop the data acquisition timer"
\* (niToModbusBridge.cpp:291 and 349): behind the ACK of a stop command the
\* timer has no thread that could publish once more.
AckedStopIsOver ==
    [][\A c \in Clients : Answers(c, "ACK") /\ cmd[c] \notin Starts =>
          overlapped \/ thr'[StopTarget(cmd[c])] = "none"]_vars

\* A start command answers ACK only when the other timer is inactive without a
\* thread and its own is active with a thread that runs, unless its last start
\* could not create one (CrioSSLServer.cpp:448-476 and 498-526, simpleTimer.h:29).
StartHolds ==
    [][\A c \in Clients : Answers(c, "ACK") /\ cmd[c] \in Starts =>
          \/ overlapped
          \/ /\ ~active'[StopTarget(cmd[c])] /\ thr'[StopTarget(cmd[c])] = "none"
             /\ active'[StartTarget(cmd[c])]
             /\ thr'[StartTarget(cmd[c])] \in LiveAt \/ StartTarget(cmd[c]) \in failed]_vars

\* "Simulation is already running, return true", "Data acquisition is already
\* running, return true" (niToModbusBridge.cpp:258 and 308): behind the ACK of a
\* start command the thread of the timer runs.
AckedStartRuns ==
    [][\A c \in Clients : Answers(c, "ACK") /\ cmd[c] \in Starts =>
          overlapped \/ thr'[StartTarget(cmd[c])] \in LiveAt]_vars

\* Every command is answered, unless commands overlapped that interfere: join()
\* waits for at most the rest of a sleep and one slot (simpleTimer.h:41-48), as
\* long as no start sets the flag again.
CommandReturns == \A c \in Clients : pc[c] # "idle" ~> pc[c] = "idle" \/ overlapped

\* The bridge implements ModeSwitch: the source is the timer whose thread is
\* alive, and the promise ends where commands overlap that interfere.
Source == IF Alive("sim") THEN "sim" ELSE IF Alive("acq") THEN "acq" ELSE "none"

Modes == INSTANCE ModeSwitch WITH Sources <- Timers, source <- Source, lost <- overlapped

ImplementsModes == Modes!ModeSpec

===============================================================================
