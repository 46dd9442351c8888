---------------------------- MODULE DaqTaskProofs ----------------------------
(***************************************************************************)
(* Proofs about DaqTask, for any threads, handles and numbers of retries.  *)
(***************************************************************************)
EXTENDS DaqTask, TLAPS

-------------------------------------------------------------------------------
(* The inductive invariant.                                                *)

\* A thread inside a function is at one of its calls; only a function with a
\* mutex has a step before its first call.
AtCall ==
    \A c \in Callers : op[c] # "none" =>
       /\ at[c] <= Len(Calls[op[c]])
       /\ op[c] \notin Locked => at[c] # 0

\* The retries of readCounter, tested before each attempt only.
CounterBound ==
    \A c \in Callers :
       /\ op[c] \in {"counter", "reset"} => retries[c] <= CounterRetries
       /\ op[c] = "counter" /\ at[c] > 1 => retries[c] < CounterRetries

\* A thread past the lock holds its mutex.
Held ==
    \A c \in Callers : op[c] \in Locked /\ at[c] # 0 => mutex[op[c]] = c

\* A live task belongs to a thread past its create call, which has its handle.
Owned ==
    \A h \in Handles : tasks[h] # None =>
       /\ op[tasks[h]] # "none" /\ at[tasks[h]] > 1
       /\ handle[tasks[h]] = h

IInv == TypeOK /\ AtCall /\ CounterBound /\ Held /\ Owned

-------------------------------------------------------------------------------
(* Lemmas.                                                                 *)

\* Every function creates its task first and clears it last.
LEMMA CreateFirstClearLast ==
  ASSUME NEW k \in Operations
  PROVE  /\ Len(Calls[k]) \in 3..8
         /\ Calls[k][1] = "create"
         /\ \A n \in 1..Len(Calls[k]) : Calls[k][n] = "create" => n = 1
         /\ Calls[k][Len(Calls[k])] = "clear"
<1>1. k \in {"current", "voltage", "counter", "reset", "relay"}
  BY DEF Operations, Calls
<1>2. CASE k = "current"
  BY <1>2 DEF Calls, CurrentCalls
<1>3. CASE k = "voltage"
  BY <1>3 DEF Calls, VoltageCalls
<1>4. CASE k = "counter"
  BY <1>4 DEF Calls, CounterCalls
<1>5. CASE k = "reset"
  BY <1>5 DEF Calls, ResetCalls
<1>6. CASE k = "relay"
  BY <1>6 DEF Calls, RelayCalls
<1>7. QED
  BY <1>1, <1>2, <1>3, <1>4, <1>5, <1>6

LEMMA OperationNames ==
  /\ Operations = {"current", "voltage", "counter", "reset", "relay"}
  /\ Locked \subseteq Operations
  BY DEF Operations, Calls, Locked

LEMMA TaskInit == Init => IInv
<1> SUFFICES ASSUME Init PROVE IInv
  OBVIOUS
<1>1. TypeOK
  BY DaqTaskAssumption DEF Init, TypeOK, Locked
<1>2. AtCall /\ CounterBound /\ Held /\ Owned
  BY DEF Init, AtCall, CounterBound, Held, Owned, Locked
<1>3. QED
  BY <1>1, <1>2 DEF IInv

\* A thread that returns or goes on leaves the mutexes of the others alone.
LEMMA ReturnKeepsHeld ==
  ASSUME IInv, NEW c \in Callers, NEW r \in {"error", "zero", "done"},
         op[c] # "none", at[c] # 0, Return(c, r)
  PROVE  /\ Held'
         /\ op' \in [Callers -> Operations \cup {"none"}]
         /\ at' \in [Callers -> 0..8]
         /\ result' \in [Callers -> {"none", "error", "zero", "done"}]
         /\ mutex' \in [Locked -> Callers \cup {None}]
         /\ op'[c] = "none" /\ at'[c] = 0
         /\ \A d \in Callers \ {c} : op'[d] = op[d] /\ at'[d] = at[d]
<1>1. /\ op \in [Callers -> Operations \cup {"none"}]
      /\ at \in [Callers -> 0..8]
      /\ result \in [Callers -> {"none", "error", "zero", "done"}]
      /\ mutex \in [Locked -> Callers \cup {None}]
  BY DEF IInv, TypeOK
<1>2. /\ op' = [op EXCEPT ![c] = "none"]
      /\ at' = [at EXCEPT ![c] = 0]
      /\ result' = [result EXCEPT ![c] = r]
      /\ mutex' = [k \in Locked |-> IF k = op[c] THEN None ELSE mutex[k]]
  BY DEF Return
<1>3. "none" \notin Locked
  BY DEF Locked
<1>4. ASSUME NEW d \in Callers, op'[d] \in Locked, at'[d] # 0
      PROVE  mutex'[op'[d]] = d
  <2>1. d # c /\ op'[d] = op[d] /\ at'[d] = at[d]
    BY <1>1, <1>2, <1>3, <1>4
  <2>2. mutex[op[d]] = d
    BY <1>4, <2>1 DEF IInv, Held
  <2>3. op[d] = op[c] => mutex[op[d]] = c
    BY <1>4, <2>1 DEF IInv, Held
  <2>4. op[d] # op[c]
    BY <2>1, <2>2, <2>3
  <2>5. QED
    BY <1>2, <1>4, <2>1, <2>2, <2>4
<1>5. Held'
  BY <1>4 DEF Held
<1>6. QED
  BY <1>1, <1>2, <1>5

\* A step of c that clears h and after which c owns nothing keeps the other
\* tasks with their owners.
LEMMA ClearKeepsOwned ==
  ASSUME IInv, NEW c \in Callers, NEW h \in Handles \cup {None}, Clear(c, h),
         \A g \in Handles : tasks[g] = c => g = h,
         \A d \in Callers \ {c} :
            op'[d] = op[d] /\ at'[d] = at[d] /\ handle'[d] = handle[d]
  PROVE  /\ Owned'
         /\ tasks' \in [Handles -> Callers \cup {None}]
         /\ stolen' \subseteq Callers
<1>1. /\ tasks \in [Handles -> Callers \cup {None}]
      /\ stolen \subseteq Callers /\ None \notin Callers
  BY DaqTaskAssumption DEF IInv, TypeOK
<1>2. /\ tasks' = [t \in Handles |-> IF t = h THEN None ELSE tasks[t]]
      /\ stolen' \subseteq Callers
  BY <1>1 DEF Clear
<1>3. ASSUME NEW g \in Handles, tasks'[g] # None
      PROVE  /\ op'[tasks'[g]] # "none" /\ at'[tasks'[g]] > 1
             /\ handle'[tasks'[g]] = g
  <2>1. g # h /\ tasks'[g] = tasks[g]
    BY <1>2, <1>3
  <2>2. tasks[g] \in Callers \ {c}
    BY <1>1, <1>3, <2>1
  <2>3. QED
    BY <1>3, <2>1, <2>2 DEF IInv, Owned
<1>4. Owned'
  BY <1>3 DEF Owned
<1>5. QED
  BY <1>1, <1>2, <1>4

-------------------------------------------------------------------------------
(* One lemma per action.                                                   *)

LEMMA BeginStep ==
  ASSUME IInv, NEW c \in Callers, Begin(c)
  PROVE  IInv'
<1>1. PICK k \in {"current", "voltage", "counter", "relay"} :
         /\ op' = [op EXCEPT ![c] = k]
         /\ at' = [at EXCEPT ![c] = IF k \in Locked THEN 0 ELSE 1]
  BY DEF Begin
<1>2. /\ op[c] = "none"
      /\ handle' = [handle EXCEPT ![c] = None]
      /\ retries' = [retries EXCEPT ![c] = 0]
      /\ result' = [result EXCEPT ![c] = "none"]
      /\ stolen' = stolen \ {c} /\ mutex' = mutex /\ tasks' = tasks
  BY DEF Begin
<1>3. k \in Operations /\ Len(Calls[k]) >= 1
  BY OperationNames, CreateFirstClearLast
<1>4. TypeOK'
  <2>1. /\ op' \in [Callers -> Operations \cup {"none"}]
        /\ at' \in [Callers -> 0..8]
    BY <1>1, <1>3 DEF IInv, TypeOK
  <2>2. ASSUME NEW d \in Callers
        PROVE  retries'[d] <= IF op'[d] \in Locked THEN AnalogRetries - 1
                                                    ELSE AnalogRetries + CounterRetries
    <3>1. CASE d = c
      <4>1. retries'[d] = 0
        BY <1>2, <3>1 DEF IInv, TypeOK
      <4>2. QED
        BY <4>1, DaqTaskAssumption
    <3>2. CASE d # c
      <4>1. retries'[d] = retries[d] /\ op'[d] = op[d]
        BY <1>1, <1>2, <3>2 DEF IInv, TypeOK
      <4>2. QED
        BY <4>1 DEF IInv, TypeOK
    <3>3. QED
      BY <3>1, <3>2
  <2>3. QED
    BY <1>2, <2>1, <2>2 DEF IInv, TypeOK
<1>5. AtCall'
  BY <1>1, <1>2, <1>3, OperationNames, CreateFirstClearLast DEF IInv, TypeOK, AtCall
<1>6. CounterBound'
  <2> SUFFICES ASSUME NEW d \in Callers
               PROVE  /\ op'[d] \in {"counter", "reset"} => retries'[d] <= CounterRetries
                      /\ op'[d] = "counter" /\ at'[d] > 1 => retries'[d] < CounterRetries
    BY DEF CounterBound
  <2>1. CASE d = c
    <3>1. retries'[d] = 0 /\ at'[d] \in {0, 1}
      BY <1>1, <1>2, <2>1 DEF IInv, TypeOK
    <3>2. QED
      BY <3>1, DaqTaskAssumption
  <2>2. CASE d # c
    BY <1>1, <1>2, <2>2 DEF IInv, TypeOK, CounterBound
  <2>3. QED
    BY <2>1, <2>2
<1>7. Held'
  BY <1>1, <1>2 DEF IInv, TypeOK, Held
<1>8. Owned'
  BY <1>1, <1>2 DEF IInv, TypeOK, Owned
<1>9. QED
  BY <1>4, <1>5, <1>6, <1>7, <1>8 DEF IInv

LEMMA LockStep ==
  ASSUME IInv, NEW c \in Callers, Lock(c)
  PROVE  IInv'
<1>1. /\ op[c] \in Locked /\ at[c] = 0 /\ mutex[op[c]] = None
      /\ mutex' = [mutex EXCEPT ![op[c]] = c]
      /\ at' = [at EXCEPT ![c] = 1]
      /\ UNCHANGED <<op, handle, retries, result, tasks, stolen>>
  BY DEF Lock
<1>2. op[c] \in Operations /\ Len(Calls[op[c]]) >= 1
  <2>1. op[c] \in Operations
    BY <1>1, OperationNames
  <2>2. QED
    BY <2>1, CreateFirstClearLast
<1>3. TypeOK'
  BY <1>1 DEF IInv, TypeOK
<1>4. AtCall'
  BY <1>1, <1>2 DEF IInv, TypeOK, AtCall
<1>5. CounterBound'
  BY <1>1 DEF IInv, TypeOK, CounterBound
<1>6. Held'
  <2> SUFFICES ASSUME NEW d \in Callers, op[d] \in Locked, at'[d] # 0
               PROVE  mutex'[op[d]] = d
    BY <1>1 DEF Held
  <2>1. CASE d = c
    BY <1>1, <2>1 DEF IInv, TypeOK
  <2>2. CASE d # c
    <3>1. mutex[op[d]] = d
      BY <1>1, <2>2 DEF IInv, TypeOK, Held
    <3>2. op[d] # op[c]
      BY <1>1, <3>1, DaqTaskAssumption
    <3>3. QED
      BY <1>1, <3>1, <3>2 DEF IInv, TypeOK
  <2>3. QED
    BY <2>1, <2>2
<1>7. Owned'
  BY <1>1 DEF IInv, TypeOK, Owned
<1>8. QED
  BY <1>3, <1>4, <1>5, <1>6, <1>7 DEF IInv

\* Before its create call a thread owns nothing.
LEMMA NothingBeforeCreate ==
  ASSUME IInv, NEW c \in Callers, op[c] # "none", at[c] <= 1
  PROVE  \A g \in Handles : tasks[g] # c
  BY DaqTaskAssumption DEF IInv, TypeOK, Owned

\* The create call is the first one.
LEMMA CreateIsFirst ==
  ASSUME IInv, NEW c \in Callers, NextCall(c, "create")
  PROVE  at[c] = 1 /\ op[c] \in Operations
<1>1. op[c] \in Operations /\ at[c] \in 1..8 /\ at[c] <= Len(Calls[op[c]])
  BY DEF IInv, TypeOK, AtCall, NextCall
<1>2. QED
  BY <1>1, CreateFirstClearLast DEF NextCall

LEMMA CreateStep ==
  ASSUME IInv, NEW c \in Callers, CreateTask(c)
  PROVE  IInv'
<1>1. PICK h \in Handles :
         /\ tasks[h] = None
         /\ tasks' = [tasks EXCEPT ![h] = c]
         /\ handle' = [handle EXCEPT ![c] = h]
  BY DEF CreateTask
<1>2. /\ NextCall(c, "create") /\ MayTry(c)
      /\ at' = [at EXCEPT ![c] = 2]
      /\ UNCHANGED <<op, result, mutex, retries, stolen>>
  BY DEF CreateTask, Goto
<1>3. at[c] = 1 /\ op[c] \in Operations /\ Len(Calls[op[c]]) >= 2
  BY <1>2, CreateIsFirst, CreateFirstClearLast
<1>4. op[c] # "none"
  BY <1>3, OperationNames
<1>5. TypeOK'
  BY <1>1, <1>2 DEF IInv, TypeOK
<1>6. AtCall'
  BY <1>2, <1>3 DEF IInv, TypeOK, AtCall
<1>7. CounterBound'
  BY <1>2, <1>3 DEF IInv, TypeOK, CounterBound, MayTry, Doing
<1>8. Held'
  BY <1>2, <1>3 DEF IInv, TypeOK, Held
<1>9. Owned'
  <2> SUFFICES ASSUME NEW g \in Handles, tasks'[g] # None
               PROVE  /\ op[tasks'[g]] # "none" /\ at'[tasks'[g]] > 1
                      /\ handle'[tasks'[g]] = g
    BY <1>2 DEF Owned
  <2>1. CASE g = h
    BY <1>1, <1>2, <1>4, <2>1 DEF IInv, TypeOK
  <2>2. CASE g # h
    <3>1. tasks[g] # c
      BY <1>3, <1>4, NothingBeforeCreate
    <3>2. tasks'[g] = tasks[g] /\ tasks[g] \in Callers \ {c}
      BY <1>1, <2>2, <3>1 DEF IInv, TypeOK
    <3>3. QED
      BY <1>1, <1>2, <3>2 DEF IInv, TypeOK, Owned
  <2>3. QED
    BY <2>1, <2>2
<1>10. QED
  BY <1>5, <1>6, <1>7, <1>8, <1>9 DEF IInv

LEMMA SucceedsStep ==
  ASSUME IInv, NEW c \in Callers, CallSucceeds(c)
  PROVE  IInv'
<1>1. /\ op[c] # "none" /\ at[c] # 0
      /\ ~NextCall(c, "create") /\ ~NextCall(c, "clear")
      /\ at' = [at EXCEPT ![c] = at[c] + 1]
      /\ UNCHANGED <<op, result, mutex, handle, retries, tasks, stolen>>
  BY DEF CallSucceeds, Goto
<1>2. /\ op[c] \in Operations /\ at[c] \in 1..8 /\ at[c] <= Len(Calls[op[c]])
      /\ Calls[op[c]][at[c]] # "clear"
  BY <1>1 DEF IInv, TypeOK, AtCall, NextCall
<1>3. at[c] > 1
  BY <1>1, <1>2, CreateFirstClearLast DEF NextCall
<1>4. at[c] + 1 <= Len(Calls[op[c]]) /\ at[c] + 1 \in 0..8
  BY SMTT(30), <1>2, CreateFirstClearLast
<1>5. TypeOK'
  BY <1>1, <1>4 DEF IInv, TypeOK
<1>6. AtCall'
  <2> SUFFICES ASSUME NEW d \in Callers, op[d] # "none"
               PROVE  /\ at'[d] <= Len(Calls[op[d]])
                      /\ op[d] \notin Locked => at'[d] # 0
    BY <1>1 DEF AtCall
  <2>1. CASE d = c
    BY <1>1, <1>2, <1>4, <2>1 DEF IInv, TypeOK
  <2>2. CASE d # c
    BY <1>1, <2>2 DEF IInv, TypeOK, AtCall
  <2>3. QED
    BY <2>1, <2>2
<1>7. CounterBound'
  BY <1>1, <1>3 DEF IInv, TypeOK, CounterBound
<1>8. Held'
  BY <1>1 DEF IInv, TypeOK, Held
<1>9. Owned'
  BY <1>1, <1>3 DEF IInv, TypeOK, Owned
<1>10. QED
  BY <1>5, <1>6, <1>7, <1>8, <1>9 DEF IInv

LEMMA ResetStep ==
  ASSUME IInv, NEW c \in Callers, ResetIgnores(c)
  PROVE  IInv'
<1>1. PICK h \in Handles \cup {None} :
         /\ handle' = [handle EXCEPT ![c] = h]
         /\ NextCall(c, "create") \/ h = handle[c]
  BY DEF ResetIgnores, IInv, TypeOK
<1>2. /\ op[c] = "reset" /\ ~NextCall(c, "clear")
      /\ at' = [at EXCEPT ![c] = at[c] + 1]
      /\ UNCHANGED <<op, result, mutex, retries, tasks, stolen>>
  BY DEF ResetIgnores, Doing, Goto
<1>3. /\ op[c] \in Operations /\ op[c] # "none" /\ op[c] \notin Locked
      /\ at[c] \in 1..8 /\ at[c] <= Len(Calls[op[c]])
  BY <1>2, OperationNames DEF IInv, TypeOK, AtCall, Locked
<1>4. at[c] + 1 <= Len(Calls[op[c]]) /\ at[c] + 1 \in 0..8
  BY SMTT(30), <1>2, <1>3, CreateFirstClearLast DEF NextCall
<1>5. TypeOK'
  BY <1>1, <1>2, <1>4 DEF IInv, TypeOK
<1>6. AtCall'
  <2> SUFFICES ASSUME NEW d \in Callers, op[d] # "none"
               PROVE  /\ at'[d] <= Len(Calls[op[d]])
                      /\ op[d] \notin Locked => at'[d] # 0
    BY <1>2 DEF AtCall
  <2>1. CASE d = c
    BY <1>2, <1>3, <1>4, <2>1 DEF IInv, TypeOK
  <2>2. CASE d # c
    BY <1>2, <2>2 DEF IInv, TypeOK, AtCall
  <2>3. QED
    BY <2>1, <2>2
<1>7. CounterBound'
  BY <1>2 DEF IInv, TypeOK, CounterBound
<1>8. Held'
  BY <1>2, <1>3 DEF IInv, TypeOK, Held
<1>9. Owned'
  <2> SUFFICES ASSUME NEW g \in Handles, tasks[g] # None
               PROVE  /\ op[tasks[g]] # "none" /\ at'[tasks[g]] > 1
                      /\ handle'[tasks[g]] = g
    BY <1>2 DEF Owned
  <2>1. CASE tasks[g] = c
    <3>1. at[c] > 1 /\ handle[c] = g
      BY <2>1, DaqTaskAssumption DEF IInv, Owned
    <3>2. ~NextCall(c, "create")
      BY <3>1, CreateIsFirst
    <3>3. QED
      BY <1>1, <1>2, <1>3, <2>1, <3>1, <3>2 DEF IInv, TypeOK
  <2>2. CASE tasks[g] # c
    BY <1>1, <1>2, <2>2 DEF IInv, TypeOK, Owned
  <2>3. QED
    BY <2>1, <2>2
<1>10. QED
  BY <1>5, <1>6, <1>7, <1>8, <1>9 DEF IInv

\* After a return the thread is outside the wrapper: what ReturnKeepsHeld and
\* ClearKeepsOwned leave to show.
LEMMA AfterReturn ==
  ASSUME IInv, NEW c \in Callers, NEW r \in {"error", "zero", "done"},
         NEW h \in Handles \cup {None},
         op[c] # "none", at[c] # 0, Return(c, r), Clear(c, h),
         \A g \in Handles : tasks[g] = c => g = h,
         handle' \in [Callers -> Handles \cup {None}],
         \A d \in Callers \ {c} : handle'[d] = handle[d],
         UNCHANGED retries
  PROVE  IInv'
<1>1. /\ Held'
      /\ op' \in [Callers -> Operations \cup {"none"}]
      /\ at' \in [Callers -> 0..8]
      /\ result' \in [Callers -> {"none", "error", "zero", "done"}]
      /\ mutex' \in [Locked -> Callers \cup {None}]
      /\ op'[c] = "none" /\ at'[c] = 0
      /\ \A d \in Callers \ {c} : op'[d] = op[d] /\ at'[d] = at[d]
  BY ReturnKeepsHeld
<1>2. /\ Owned'
      /\ tasks' \in [Handles -> Callers \cup {None}]
      /\ stolen' \subseteq Callers
  BY <1>1, ClearKeepsOwned
<1>3. ASSUME NEW d \in Callers
      PROVE  retries'[d] <= IF op'[d] \in Locked THEN AnalogRetries - 1
                                                  ELSE AnalogRetries + CounterRetries
  <2>1. CASE d = c
    BY <1>1, <2>1, DaqTaskAssumption DEF IInv, TypeOK, Locked
  <2>2. CASE d # c
    BY <1>1, <2>2 DEF IInv, TypeOK
  <2>3. QED
    BY <2>1, <2>2
<1>4. TypeOK'
  BY <1>1, <1>2, <1>3 DEF IInv, TypeOK
<1>5. AtCall' /\ CounterBound'
  BY <1>1 DEF IInv, AtCall, CounterBound
<1>6. QED
  BY <1>1, <1>2, <1>4, <1>5 DEF IInv

LEMMA FailsStep ==
  ASSUME IInv, NEW c \in Callers, CallFails(c)
  PROVE  IInv'
<1>1. /\ op[c] \notin {"none", "reset"} /\ at[c] # 0
      /\ ~NextCall(c, "clear") /\ MayTry(c)
  BY DEF CallFails, Fails
<1>2. PICK h \in HandleAfterFailure(c) :
         handle' = [handle EXCEPT ![c] = h] /\ Clear(c, h)
  BY DEF CallFails
<1>3. /\ h \in Handles \cup {None}
      /\ NextCall(c, "create") \/ h = handle[c]
      /\ handle' \in [Callers -> Handles \cup {None}]
      /\ \A d \in Callers \ {c} : handle'[d] = handle[d]
  BY <1>2 DEF HandleAfterFailure, IInv, TypeOK
<1>4. ASSUME NEW g \in Handles, tasks[g] = c
      PROVE  g = h
  <2>1. at[c] > 1 /\ handle[c] = g
    BY <1>4, DaqTaskAssumption DEF IInv, Owned
  <2>2. QED
    BY <1>3, <2>1, CreateIsFirst
<1>5. CASE Retried(c)
  <2>1. /\ retries' = [retries EXCEPT ![c] = retries[c] + 1]
        /\ at' = [at EXCEPT ![c] = 1]
        /\ UNCHANGED <<op, result, mutex>>
    BY <1>5 DEF CallFails, Goto
  <2>2. op[c] \in Operations /\ op[c] # "none" /\ Len(Calls[op[c]]) >= 1
    <3>1. op[c] \in Operations
      BY <1>1 DEF IInv, TypeOK
    <3>2. QED
      BY <1>1, <3>1, CreateFirstClearLast
  <2>3. /\ Owned'
        /\ tasks' \in [Handles -> Callers \cup {None}]
        /\ stolen' \subseteq Callers
    <3>1. \A d \in Callers \ {c} : op'[d] = op[d] /\ at'[d] = at[d]
      BY <2>1 DEF IInv, TypeOK
    <3>2. QED
      BY <1>2, <1>3, <1>4, <3>1, ClearKeepsOwned
  <2>4. \/ op[c] \in Locked /\ retries[c] + 1 < AnalogRetries
        \/ op[c] = "counter" /\ retries[c] < CounterRetries
    <3>1. CASE op[c] \in Locked
      BY <1>5, <3>1 DEF Retried, Doing, Locked
    <3>2. CASE op[c] \notin Locked
      <4>1. op[c] = "counter"
        BY <1>5, <3>2 DEF Retried, Doing
      <4>2. at[c] = 1 \/ at[c] > 1
        BY <1>1 DEF IInv, TypeOK
      <4>3. QED
        BY <1>1, <4>1, <4>2 DEF IInv, CounterBound, MayTry, Doing
    <3>3. QED
      BY <3>1, <3>2
  <2>5. ASSUME NEW d \in Callers
        PROVE  retries'[d] <= IF op[d] \in Locked THEN AnalogRetries - 1
                                                   ELSE AnalogRetries + CounterRetries
    <3>1. CASE d = c
      BY <2>1, <2>4, <3>1, DaqTaskAssumption DEF IInv, TypeOK, Locked
    <3>2. CASE d # c
      BY <2>1, <3>2 DEF IInv, TypeOK
    <3>3. QED
      BY <3>1, <3>2
  <2>6. TypeOK'
    BY <1>3, <2>1, <2>3, <2>5 DEF IInv, TypeOK
  <2>7. AtCall'
    BY <2>1, <2>2 DEF IInv, TypeOK, AtCall
  <2>8. CounterBound'
    <3> SUFFICES ASSUME NEW d \in Callers
                 PROVE  /\ op[d] \in {"counter", "reset"} => retries'[d] <= CounterRetries
                        /\ op[d] = "counter" /\ at'[d] > 1 => retries'[d] < CounterRetries
      BY <2>1 DEF CounterBound
    <3>1. CASE d = c
      BY <1>1, <2>1, <2>4, <3>1, DaqTaskAssumption DEF IInv, TypeOK, Locked
    <3>2. CASE d # c
      BY <2>1, <3>2 DEF IInv, TypeOK, CounterBound
    <3>3. QED
      BY <3>1, <3>2
  <2>9. Held'
    BY <1>1, <2>1 DEF IInv, TypeOK, Held
  <2>10. QED
    BY <2>3, <2>6, <2>7, <2>8, <2>9 DEF IInv
<1>6. CASE ~Retried(c)
  <2>1. Return(c, "error") /\ UNCHANGED retries
    BY <1>6 DEF CallFails
  <2>2. QED
    BY <1>1, <1>2, <1>3, <1>4, <2>1, AfterReturn
<1>7. QED
  BY <1>5, <1>6

LEMMA GiveUpStep ==
  ASSUME IInv, NEW c \in Callers, GiveUp(c)
  PROVE  IInv'
<1>1. /\ op[c] = "counter" /\ at[c] = 1
      /\ Clear(c, handle[c]) /\ Return(c, "error")
      /\ UNCHANGED <<handle, retries>>
  BY DEF GiveUp, Doing
<1>2. \A g \in Handles : tasks[g] # c
  BY <1>1, NothingBeforeCreate
<1>3. handle \in [Callers -> Handles \cup {None}]
  BY DEF IInv, TypeOK
<1>4. QED
  BY <1>1, <1>2, <1>3, AfterReturn

LEMMA ClearStep ==
  ASSUME IInv, NEW c \in Callers, ClearTask(c)
  PROVE  IInv'
<1>1. /\ op[c] # "none" /\ at[c] # 0
      /\ Clear(c, handle[c]) /\ UNCHANGED retries
  BY DEF ClearTask, NextCall
<1>2. handle \in [Callers -> Handles \cup {None}]
  BY DEF IInv, TypeOK
<1>3. ASSUME NEW g \in Handles, tasks[g] = c
      PROVE  g = handle[c]
  BY <1>3, DaqTaskAssumption DEF IInv, Owned
<1>4. CASE Doing(c, "counter")
  <2>1. /\ op' = [op EXCEPT ![c] = "reset"]
        /\ at' = [at EXCEPT ![c] = 1]
        /\ handle' = [handle EXCEPT ![c] = None]
        /\ UNCHANGED <<result, mutex>>
    BY <1>4 DEF ClearTask
  <2>2. /\ "reset" \in Operations /\ "reset" \notin Locked
        /\ Len(Calls["reset"]) >= 1 /\ op[c] = "counter"
    BY <1>4, OperationNames, CreateFirstClearLast DEF Locked, Doing
  <2>3. /\ Owned'
        /\ tasks' \in [Handles -> Callers \cup {None}]
        /\ stolen' \subseteq Callers
    <3>1. \A d \in Callers \ {c} :
             op'[d] = op[d] /\ at'[d] = at[d] /\ handle'[d] = handle[d]
      BY <2>1 DEF IInv, TypeOK
    <3>2. handle[c] \in Handles \cup {None}
      BY <1>2
    <3>3. QED
      BY <1>1, <1>3, <3>1, <3>2, ClearKeepsOwned
  <2>4. TypeOK'
    BY <1>1, <2>1, <2>2, <2>3, DaqTaskAssumption DEF IInv, TypeOK, Locked
  <2>5. AtCall'
    BY <2>1, <2>2 DEF IInv, TypeOK, AtCall
  <2>6. CounterBound'
    BY <1>1, <2>1, <2>2 DEF IInv, TypeOK, CounterBound
  <2>7. Held'
    BY <2>1, <2>2 DEF IInv, TypeOK, Held
  <2>8. QED
    BY <2>3, <2>4, <2>5, <2>6, <2>7 DEF IInv
<1>5. CASE ~Doing(c, "counter")
  <2>1. PICK r \in {"zero", "done"} : Return(c, r)
    BY <1>5 DEF ClearTask
  <2>2. UNCHANGED handle
    BY <1>5 DEF ClearTask
  <2>3. QED
    BY <1>1, <1>2, <1>3, <2>1, <2>2, AfterReturn
<1>6. QED
  BY <1>4, <1>5

LEMMA TaskStep == IInv /\ [Next]_vars => IInv'
<1> SUFFICES ASSUME IInv, [Next]_vars
             PROVE  IInv'
  OBVIOUS
<1>1. ASSUME NEW c \in Callers, Begin(c) \/ WrapperStep(c)
      PROVE  IInv'
  BY <1>1, BeginStep, LockStep, CreateStep, SucceedsStep, FailsStep, GiveUpStep,
     ResetStep, ClearStep DEF WrapperStep
<1>2. CASE UNCHANGED vars
  BY <1>2 DEF vars, callers, IInv, TypeOK, AtCall, CounterBound, Held, Owned
<1>3. QED
  BY <1>1, <1>2 DEF Next

-------------------------------------------------------------------------------
(* The theorems.                                                           *)

LEMMA Invariant == Spec => []IInv
  BY TaskInit, TaskStep, PTL DEF Spec

\* The types, and the bound on the retries of every function: AnalogRetries for
\* the analog reads, CounterRetries for readCounter.
THEOREM TypeCorrect == Spec => []TypeOK
<1>1. IInv => TypeOK
  BY DEF IInv
<1>2. QED
  BY <1>1, Invariant, PTL

\* No error branch leaks a task, for any number of threads that call the wrapper
\* at once and any handles the driver gives.
THEOREM TasksAreNotLeaked == Spec => []NoLeak
<1>1. IInv => NoLeak
  BY DEF IInv, Owned, NoLeak
<1>2. QED
  BY <1>1, Invariant, PTL

\* currentMutex and voltageMutex keep analog tasks of one kind apart.
THEOREM AnalogReadsAreSerial == Spec => []AnalogSerial
<1>1. IInv => AnalogSerial
  <2> SUFFICES ASSUME IInv, NEW g \in Handles, NEW h \in Handles, g # h,
                      tasks[g] # None, tasks[h] # None,
                      op[tasks[g]] \in Locked, op[tasks[g]] = op[tasks[h]]
               PROVE  FALSE
    BY DEF AnalogSerial
  <2>1. /\ tasks[g] \in Callers /\ tasks[h] \in Callers
        /\ at[tasks[g]] # 0 /\ at[tasks[h]] # 0
        /\ handle[tasks[g]] = g /\ handle[tasks[h]] = h
    BY DEF IInv, TypeOK, Owned
  <2>2. mutex[op[tasks[g]]] = tasks[g] /\ mutex[op[tasks[h]]] = tasks[h]
    BY <2>1 DEF IInv, Held
  <2>3. QED
    BY <2>1, <2>2
<1>2. QED
  BY <1>1, Invariant, PTL

-------------------------------------------------------------------------------
(* Whose task a call may clear.                                            *)

\* In its first attempt, and while no other thread has cleared its task, a thread
\* has no handle or the handle of its own task.
FreshOf(c) ==
    op[c] \notin {"none", "reset"} /\ retries[c] = 0 /\ c \notin stolen =>
       \/ handle[c] = None
       \/ handle[c] \in Handles /\ tasks[handle[c]] = c

Fresh == \A c \in Callers : FreshOf(c)

\* What the property allows a step that clears another thread's task.
Excused ==
    \A d \in stolen' \ stolen :
       \E c \in Callers \ {d} :
          Moves(c) /\ (retries[c] > 0 \/ c \in stolen \/ op[c] = "reset")

\* A thread that the clear of another one does not rob stays fresh.
LEMMA ClearKeepsFresh ==
  ASSUME IInv, Fresh, NEW c \in Callers, NEW h, Clear(c, h),
         NEW d \in Callers \ {c},
         op'[d] = op[d], retries'[d] = retries[d], handle'[d] = handle[d]
  PROVE  FreshOf(d)'
<1> SUFFICES ASSUME op[d] \notin {"none", "reset"}, retries[d] = 0, d \notin stolen',
                    handle[d] # None
             PROVE  handle[d] \in Handles /\ tasks'[handle[d]] = d
  BY DEF FreshOf
<1>1. /\ stolen' = stolen \cup {e \in Callers \ {c} : h # None /\ tasks[h] = e}
      /\ tasks' = [t \in Handles |-> IF t = h THEN None ELSE tasks[t]]
  BY DEF Clear
<1>2. handle[d] \in Handles /\ tasks[handle[d]] = d
  BY <1>1 DEF Fresh, FreshOf
<1>3. handle[d] # h
  BY <1>1, <1>2
<1>4. QED
  BY <1>1, <1>2, <1>3

\* A thread in its first attempt whose task is its own clears no other's.
LEMMA ClearIsExcused ==
  ASSUME IInv, Fresh, NEW c \in Callers, op[c] # "none", Moves(c),
         NEW h, h = None \/ h = handle[c], Clear(c, h)
  PROVE  Excused
<1> SUFFICES ASSUME NEW d \in stolen' \ stolen
             PROVE  /\ d # c
                    /\ retries[c] > 0 \/ c \in stolen \/ op[c] = "reset"
  BY DEF Excused
<1>1. /\ d \in Callers \ {c}
      /\ h # None /\ tasks[h] = d
  BY DEF Clear
<1>2. ~(handle[c] \in Handles /\ tasks[handle[c]] = c)
  BY <1>1
<1>3. retries[c] \in Nat
  BY DEF IInv, TypeOK
<1>4. QED
  BY <1>1, <1>2, <1>3 DEF Fresh, FreshOf

LEMMA BeginFresh ==
  ASSUME IInv, Fresh, NEW c \in Callers, Begin(c)
  PROVE  Excused /\ Fresh'
<1>1. /\ stolen' = stolen \ {c}
      /\ handle' = [handle EXCEPT ![c] = None]
      /\ retries' = [retries EXCEPT ![c] = 0]
      /\ UNCHANGED tasks
      /\ op[c] = "none" /\ \A d \in Callers \ {c} : op'[d] = op[d]
  BY DEF Begin, IInv, TypeOK
<1>2. Excused
  BY <1>1 DEF Excused
<1>3. ASSUME NEW d \in Callers
      PROVE  FreshOf(d)'
  <2>1. CASE d = c
    BY <1>1, <2>1 DEF FreshOf, IInv, TypeOK
  <2>2. CASE d # c
    BY <1>1, <2>2 DEF Fresh, FreshOf, IInv, TypeOK
  <2>3. QED
    BY <2>1, <2>2
<1>4. QED
  BY <1>2, <1>3 DEF Fresh

\* The steps that leave the tasks and the retries alone, but for c's handle.
LEMMA QuietFresh ==
  ASSUME IInv, Fresh, NEW c \in Callers, Lock(c) \/ CallSucceeds(c) \/ ResetIgnores(c)
  PROVE  Excused /\ Fresh'
<1>1. /\ UNCHANGED <<op, retries, tasks, stolen>>
      /\ \A d \in Callers : op[d] # "reset" => handle'[d] = handle[d]
  <2>1. CASE Lock(c) \/ CallSucceeds(c)
    BY <2>1 DEF Lock, CallSucceeds, Goto
  <2>2. CASE ResetIgnores(c)
    <3>1. PICK h : handle' = [handle EXCEPT ![c] = h]
      BY <2>2 DEF ResetIgnores
    <3>2. op[c] = "reset" /\ UNCHANGED <<op, retries, tasks, stolen>>
      BY <2>2 DEF ResetIgnores, Doing, Goto
    <3>3. QED
      BY <3>1, <3>2 DEF IInv, TypeOK
  <2>3. QED
    BY <2>1, <2>2
<1>2. QED
  BY <1>1 DEF Excused, Fresh, FreshOf

LEMMA CreateFresh ==
  ASSUME IInv, Fresh, NEW c \in Callers, CreateTask(c)
  PROVE  Excused /\ Fresh'
<1>1. PICK h \in Handles :
         /\ tasks[h] = None
         /\ tasks' = [tasks EXCEPT ![h] = c]
         /\ handle' = [handle EXCEPT ![c] = h]
  BY DEF CreateTask
<1>2. UNCHANGED <<op, retries, stolen>>
  BY DEF CreateTask, Goto
<1>3. ASSUME NEW d \in Callers
      PROVE  FreshOf(d)'
  <2>1. CASE d = c
    BY <1>1, <1>2, <2>1 DEF FreshOf, IInv, TypeOK
  <2>2. CASE d # c
    BY <1>1, <1>2, <2>2, DaqTaskAssumption DEF Fresh, FreshOf, IInv, TypeOK
  <2>3. QED
    BY <2>1, <2>2
<1>4. QED
  BY <1>2, <1>3 DEF Excused, Fresh

LEMMA FailsFresh ==
  ASSUME IInv, Fresh, NEW c \in Callers, CallFails(c)
  PROVE  Excused /\ Fresh'
<1>1. PICK h \in HandleAfterFailure(c) :
         handle' = [handle EXCEPT ![c] = h] /\ Clear(c, h)
  BY DEF CallFails
<1>2. h = None \/ h = handle[c]
  BY <1>1 DEF HandleAfterFailure
<1>3. /\ op[c] # "none"
      /\ \/ retries' = [retries EXCEPT ![c] = retries[c] + 1] /\ UNCHANGED op
         \/ UNCHANGED retries /\ op' = [op EXCEPT ![c] = "none"]
  BY DEF CallFails, Fails, Goto, Return
<1>4. Moves(c)
  BY <1>3 DEF Moves, IInv, TypeOK
<1>5. Excused
  BY <1>1, <1>2, <1>3, <1>4, ClearIsExcused
<1>6. ASSUME NEW d \in Callers
      PROVE  FreshOf(d)'
  <2>1. CASE d = c
    BY <1>3, <2>1 DEF FreshOf, IInv, TypeOK
  <2>2. CASE d # c
    <3>1. op'[d] = op[d] /\ retries'[d] = retries[d] /\ handle'[d] = handle[d]
      BY <1>1, <1>3, <2>2 DEF IInv, TypeOK
    <3>2. QED
      BY <1>1, <2>2, <3>1, ClearKeepsFresh
  <2>3. QED
    BY <2>1, <2>2
<1>7. QED
  BY <1>5, <1>6 DEF Fresh

LEMMA ClearFresh ==
  ASSUME IInv, Fresh, NEW c \in Callers, GiveUp(c) \/ ClearTask(c)
  PROVE  Excused /\ Fresh'
<1>1. /\ Clear(c, handle[c]) /\ op[c] # "none"
      /\ UNCHANGED retries
      /\ \A d \in Callers \ {c} : op'[d] = op[d] /\ handle'[d] = handle[d]
      /\ \/ op'[c] = "none"
         \/ op[c] = "counter" /\ op'[c] = "reset"
  BY DEF GiveUp, ClearTask, NextCall, Doing, Return, IInv, TypeOK
<1>2. Moves(c)
  BY <1>1 DEF Moves
<1>3. Excused
  BY <1>1, <1>2, ClearIsExcused
<1>4. ASSUME NEW d \in Callers
      PROVE  FreshOf(d)'
  <2>1. CASE d = c
    BY <1>1, <2>1 DEF FreshOf
  <2>2. CASE d # c
    BY <1>1, <2>2, ClearKeepsFresh
  <2>3. QED
    BY <2>1, <2>2
<1>5. QED
  BY <1>3, <1>4 DEF Fresh

LEMMA FreshInit == Init => Fresh
  BY DEF Init, Fresh, FreshOf

LEMMA FreshStep == IInv /\ Fresh /\ [Next]_vars => [Excused]_vars /\ Fresh'
<1> SUFFICES ASSUME IInv, Fresh, [Next]_vars
             PROVE  [Excused]_vars /\ Fresh'
  OBVIOUS
<1>1. ASSUME NEW c \in Callers, Begin(c) \/ WrapperStep(c)
      PROVE  Excused /\ Fresh'
  BY <1>1, BeginFresh, QuietFresh, CreateFresh, FailsFresh, ClearFresh DEF WrapperStep
<1>2. CASE UNCHANGED vars
  BY <1>2 DEF vars, callers, Fresh, FreshOf
<1>3. QED
  BY <1>1, <1>2 DEF Next

\* A thread clears another's task only after a failed attempt of its own, after its
\* own task was cleared by another, or in resetCounter.
THEOREM OnlyStaleHandlesSteal == Spec => StealsOnlyWhenStale
<1>1. Excused <=>
        \A d \in stolen' \ stolen :
           \E c \in Callers \ {d} :
              Moves(c) /\ (retries[c] > 0 \/ c \in stolen \/ op[c] = "reset")
  BY DEF Excused
<1>2. Spec => [][Excused]_vars
  BY Invariant, FreshInit, FreshStep, PTL DEF Spec
<1>3. QED
  BY <1>1, <1>2, PTL DEF StealsOnlyWhenStale

===============================================================================
