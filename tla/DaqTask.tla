-------------------------------- MODULE DaqTask --------------------------------
(***************************************************************************)
(* The life of a DAQmx task in QNiDaqWrapper: create, configure, start,    *)
(* read or write, stop, clear, with the error branch of every driver call  *)
(* and the retries.  The timer threads and the operators' threads call     *)
(* these functions at the same time; readCurrent and readVoltage hold a    *)
(* mutex each from the first call to the last, the others hold none.       *)
(*                                                                         *)
(* The driver is the environment: any call may fail, a task handle may be  *)
(* given out again once its task was cleared, and a failed DAQmxCreateTask *)
(* leaves the caller's handle as it was or zeroes it.                      *)
(***************************************************************************)
EXTENDS Naturals, Sequences

CONSTANTS Callers,        (* the threads that call the wrapper *)
          Handles,        (* the driver's task handles *)
          None,
          AnalogRetries,  (* maxRetries of the analog reads: 50 and 10 *)
          CounterRetries  (* maxRetries of readCounter by name *)

ASSUME DaqTaskAssumption ==
    /\ None \notin Callers \cup Handles
    /\ AnalogRetries \in Nat \ {0}
    /\ CounterRetries \in Nat

\* The driver calls of each function.
CurrentCalls == <<"create", "register", "channel", "start", "read", "stop", "clear">>
VoltageCalls == <<"create", "register", "channel", "timing", "start", "read", "stop", "clear">>
CounterCalls == <<"create", "channel", "start", "read", "clear">>
ResetCalls   == <<"create", "channel", "clear">>
RelayCalls   == <<"create", "channel", "start", "write", "clear">>

\* "reset" is resetCounter, which DigitalReader calls after readCounter.
Calls == [current |-> CurrentCalls, voltage |-> VoltageCalls, counter |-> CounterCalls,
          reset |-> ResetCalls, relay |-> RelayCalls]

Locked == {"current", "voltage"}

VARIABLES
    op, at,      (* what each caller does; its next call, 0 before the lock *)
    handle,      (* its taskHandle *)
    retries,     (* its retryCount *)
    result,      (* how its last operation ended *)
    mutex,       (* who holds currentMutex and voltageMutex *)
    tasks,       (* the driver's live tasks: who created the one of a handle *)
    stolen       (* the callers whose task another one cleared (history) *)

callers == <<op, at, handle, retries, result>>
vars == <<callers, mutex, tasks, stolen>>

Init ==
    /\ op = [c \in Callers |-> "none"]
    /\ at = [c \in Callers |-> 0]
    /\ handle = [c \in Callers |-> None]
    /\ retries = [c \in Callers |-> 0]
    /\ result = [c \in Callers |-> "none"]
    /\ mutex = [k \in Locked |-> None]
    /\ tasks = [h \in Handles |-> None]
    /\ stolen = {}

-------------------------------------------------------------------------------

\* The operation c is in, and its next driver call.
Doing(c, k) == op[c] = k
NextCall(c, call) == op[c] # "none" /\ at[c] # 0 /\ Calls[op[c]][at[c]] = call

\* AnalogicReader, DigitalReader or DigitalWriter calls the wrapper.
Begin(c) ==
    /\ op[c] = "none"
    /\ \E k \in {"current", "voltage", "counter", "relay"} :
          /\ op' = [op EXCEPT ![c] = k]
          /\ at' = [at EXCEPT ![c] = IF k \in Locked THEN 0 ELSE 1]
    /\ handle' = [handle EXCEPT ![c] = None]
    /\ retries' = [retries EXCEPT ![c] = 0]
    /\ result' = [result EXCEPT ![c] = "none"]
    /\ stolen' = stolen \ {c}
    /\ UNCHANGED <<mutex, tasks>>

\* Mutant: the mutex is not taken.
LockNot(c) ==
    /\ op[c] \in Locked /\ at[c] = 0
    /\ at' = [at EXCEPT ![c] = 1]
    /\ UNCHANGED <<op, handle, retries, result, mutex, tasks, stolen>>

\* The lock_guard of readCurrent and readVoltage.
Lock(c) ==
    /\ op[c] \in Locked /\ at[c] = 0
    /\ mutex[op[c]] = None
    /\ mutex' = [mutex EXCEPT ![op[c]] = c]
    /\ at' = [at EXCEPT ![c] = 1]
    /\ UNCHANGED <<op, handle, retries, result, tasks, stolen>>

\* The function returns or throws; the lock_guard releases the mutex.
Return(c, r) ==
    /\ op' = [op EXCEPT ![c] = "none"]
    /\ at' = [at EXCEPT ![c] = 0]
    /\ result' = [result EXCEPT ![c] = r]
    /\ mutex' = [k \in Locked |-> IF k = op[c] THEN None ELSE mutex[k]]

Goto(c, n) ==
    /\ at' = [at EXCEPT ![c] = n]
    /\ UNCHANGED <<op, result, mutex>>

\* DAQmxClearTask(h): whatever task the handle designates now is gone.
Clear(c, h) ==
    /\ tasks' = [t \in Handles |-> IF t = h THEN None ELSE tasks[t]]
    /\ stolen' = stolen \cup
                 {d \in Callers \ {c} : h # None /\ tasks[h] = d}

\* readCounter tests retryCount before each attempt.
MayTry(c) == Doing(c, "counter") /\ at[c] = 1 => retries[c] < CounterRetries

CreateTask(c) ==
    /\ NextCall(c, "create")
    /\ MayTry(c)
    /\ \E h \in Handles :
          /\ tasks[h] = None
          /\ tasks' = [tasks EXCEPT ![h] = c]
          /\ handle' = [handle EXCEPT ![c] = h]
    /\ Goto(c, 2)
    /\ UNCHANGED <<retries, stolen>>

\* A call between create and clear succeeds: its handle designates a task.
CallSucceeds(c) ==
    /\ op[c] # "none" /\ at[c] # 0
    /\ ~NextCall(c, "create") /\ ~NextCall(c, "clear")
    /\ handle[c] # None /\ tasks[handle[c]] # None
    /\ Goto(c, at[c] + 1)
    /\ UNCHANGED <<handle, retries, tasks, stolen>>

\* The failures after which the function tries again from the start.
Retried(c) ==
    \/ op[c] \in Locked /\ NextCall(c, "channel") /\ retries[c] + 1 < AnalogRetries
    \/ Doing(c, "counter")

\* taskHandle after the failed call.
HandleAfterFailure(c) ==
    IF NextCall(c, "create") THEN {handle[c], None} ELSE {handle[c]}

Fails(c) ==
    /\ op[c] \notin {"none", "reset"} /\ at[c] # 0
    /\ ~NextCall(c, "clear")
    /\ MayTry(c)

\* Mutant: a failure that is retried does not clean the task.
CallFailsNoClean(c) ==
    /\ Fails(c)
    /\ \E h \in HandleAfterFailure(c) :
          /\ handle' = [handle EXCEPT ![c] = h]
          /\ IF Retried(c) THEN UNCHANGED <<tasks, stolen>> ELSE Clear(c, h)
    /\ IF Retried(c)
       THEN /\ retries' = [retries EXCEPT ![c] = @ + 1]
            /\ Goto(c, 1)
       ELSE /\ UNCHANGED retries
            /\ Return(c, "error")

\* Mutant: taskHandle is not initialised.
CallFailsUninitialised(c) ==
    /\ Fails(c)
    /\ \E h \in IF handle[c] = None THEN Handles ELSE HandleAfterFailure(c) :
          /\ handle' = [handle EXCEPT ![c] = h]
          /\ Clear(c, h)
    /\ IF Retried(c)
       THEN /\ retries' = [retries EXCEPT ![c] = @ + 1]
            /\ Goto(c, 1)
       ELSE /\ UNCHANGED retries
            /\ Return(c, "error")

\* Mutant: the number of retries is not tested.
CallFailsForever(c) ==
    /\ Fails(c)
    /\ retries[c] <= AnalogRetries
    /\ \E h \in HandleAfterFailure(c) :
          /\ handle' = [handle EXCEPT ![c] = h]
          /\ Clear(c, h)
    /\ retries' = [retries EXCEPT ![c] = @ + 1]
    /\ Goto(c, 1)

\* Mutant: a retry is not counted.
CallFailsUncounted(c) ==
    /\ Fails(c)
    /\ \E h \in HandleAfterFailure(c) :
          /\ handle' = [handle EXCEPT ![c] = h]
          /\ Clear(c, h)
    /\ UNCHANGED retries
    /\ IF Retried(c) THEN Goto(c, 1) ELSE Return(c, "error")

\* A call fails: handleErrorAndCleanTask stops and clears taskHandle, then the
\* function starts again (after 100 ms, or at once in readCounter) or throws.
CallFails(c) ==
    /\ Fails(c)
    /\ \E h \in HandleAfterFailure(c) :
          /\ handle' = [handle EXCEPT ![c] = h]
          /\ Clear(c, h)
    /\ IF Retried(c)
       THEN /\ retries' = [retries EXCEPT ![c] = @ + 1]
            /\ Goto(c, 1)
       ELSE /\ UNCHANGED retries
            /\ Return(c, "error")

\* readCounter leaves its loop without a value: it clears taskHandle once more
\* and throws.
GiveUp(c) ==
    /\ Doing(c, "counter") /\ at[c] = 1
    /\ retries[c] >= CounterRetries
    /\ Clear(c, handle[c])
    /\ Return(c, "error")
    /\ UNCHANGED <<handle, retries>>

\* resetCounter by name ignores the errors of its calls and does not initialise
\* counterTask: after a failed create it may hold any value.
ResetIgnores(c) ==
    /\ Doing(c, "reset")
    /\ ~NextCall(c, "clear")
    /\ handle' \in {[handle EXCEPT ![c] = h] : h \in
           IF NextCall(c, "create") THEN Handles \cup {None} ELSE {handle[c]}}
    /\ Goto(c, at[c] + 1)
    /\ UNCHANGED <<retries, tasks, stolen>>

\* The last call.  DigitalReader drops what readCounter returns, resets the
\* counter and returns its own variable, which is still 0.
ClearTask(c) ==
    /\ NextCall(c, "clear")
    /\ Clear(c, handle[c])
    /\ IF Doing(c, "counter")
       THEN /\ op' = [op EXCEPT ![c] = "reset"]
            /\ at' = [at EXCEPT ![c] = 1]
            /\ handle' = [handle EXCEPT ![c] = None]
            /\ UNCHANGED <<result, mutex>>
       ELSE /\ Return(c, IF Doing(c, "reset") THEN "zero" ELSE "done")
            /\ UNCHANGED handle
    /\ UNCHANGED retries

\* A step of a thread that is inside the wrapper.
WrapperStep(c) ==
    \/ Lock(c) \/ CreateTask(c) \/ CallSucceeds(c) \/ CallFails(c)
    \/ GiveUp(c) \/ ResetIgnores(c) \/ ClearTask(c)

Next == \E c \in Callers : Begin(c) \/ WrapperStep(c)

Spec == Init /\ [][Next]_vars

\* Every driver call comes back, the reads after at most their 10 s; a thread
\* need not call the wrapper again.
FairSpec == Spec /\ \A c \in Callers : WF_vars(WrapperStep(c))

-------------------------------------------------------------------------------
(* Properties.                                                             *)

Operations == DOMAIN Calls

\* The types, and the bound on the retries.
TypeOK ==
    /\ op \in [Callers -> Operations \cup {"none"}]
    /\ at \in [Callers -> 0..8]
    /\ handle \in [Callers -> Handles \cup {None}]
    /\ retries \in [Callers -> Nat]
    /\ \A c \in Callers :
          retries[c] <= IF op[c] \in Locked THEN AnalogRetries - 1
                                            ELSE AnalogRetries + CounterRetries
    /\ result \in [Callers -> {"none", "error", "zero", "done"}]
    /\ mutex \in [Locked -> Callers \cup {None}]
    /\ tasks \in [Handles -> Callers \cup {None}]
    /\ stolen \subseteq Callers

\* No error branch leaks a task: every live task is the one its creator still
\* works on (the cleanups of readCurrent, readVoltage, readCounter,
\* setRelayState).
NoLeak ==
    \A h \in Handles : tasks[h] # None =>
       LET c == tasks[h] IN op[c] # "none" /\ handle[c] = h

\* Two threads never have an analog task of the same kind at once, retries and
\* errors included (currentMutex, voltageMutex).
AnalogSerial ==
    \A g, h \in Handles : g # h /\ tasks[g] # None /\ tasks[h] # None =>
       ~(op[tasks[g]] \in Locked /\ op[tasks[g]] = op[tasks[h]])

Moves(c) == <<op[c], at[c], retries[c]>> # <<op'[c], at'[c], retries'[c]>>

\* A call clears the task of another thread only with a handle it kept from an
\* attempt it already cleaned up, when its own task was taken first, or in
\* resetCounter, whose handle is not initialised (handleErrorAndCleanTask tests
\* that the handle is not 0, not that it is its own).
StealsOnlyWhenStale ==
    [][\A d \in stolen' \ stolen :
          \E c \in Callers \ {d} :
             Moves(c) /\ (retries[c] > 0 \/ c \in stolen \/ op[c] = "reset")]_vars

\* A mutex is released, however the driver calls end.
MutexReleased ==
    \A k \in Locked, c \in Callers : mutex[k] = c ~> mutex[k] # c

\* "Attempt to read the counter value", "assign it to returnedValue"
\* (digitalReader.cpp:73 and 76): a counter read fails only after a driver call
\* failed.
CounterRead ==
    [][\A c \in Callers : Doing(c, "counter") /\ op'[c] = "none" => retries[c] > 0]_vars

===============================================================================
