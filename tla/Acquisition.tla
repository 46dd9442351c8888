------------------------------ MODULE Acquisition ------------------------------
(***************************************************************************)
(* The passes of NItoModbusBridge and the registers they publish.          *)
(*                                                                         *)
(* One timer thread at a time runs a pass (Bridge shows why): acquireData  *)
(* goes through the mapping row by row into m_realDataBufferLine and then  *)
(* copies the line to the Modbus registers; onSimulationTimerTimeOut fills *)
(* a line of its own and copies that.  The copy holds mb_mapping_mutex and *)
(* writes one register after the other; the select loop's modbus_reply     *)
(* reads them one after the other and holds no mutex.  A simulated pass    *)
(* then switches the relays of the digital output rows, one per pass.      *)
(*                                                                         *)
(* A value is abstracted to the pass that produced it: n for the n-th pass *)
(* if it acquired, -n if it simulated, 0 for a register never written.     *)
(***************************************************************************)
EXTENDS Integers, Sequences, FiniteSets

CONSTANTS NbRows,         (* rows of mapping.csv that loadMapping accepted *)
          Analog, Counter, Output, (* the rows of these types *)
          NbRelays,       (* length of simulateRelays' array *)
          Channel,        (* modbusChannel of each row *)
          LineSize,       (* getSRUMappingSizeWithoutAlarms() *)
          SimSize,        (* size of the simulated line: one more in SRU mode *)
          NbRegisters,    (* MODBUS_MAX_READ_REGISTERS *)
          ReplySize,      (* registers a Modbus request reads, from register 0 *)
          MaxPasses       (* bound on the passes of a behaviour *)

Rows == 1..NbRows

\* The registers of a row: one, or frequency, high and low word of a counter.
RegsOf(r) == IF r \in Counter THEN Channel[r]..(Channel[r] + 2) ELSE {Channel[r]}

\* modbusChannel is not tested by the code: a mapping whose rows lie in the line
\* and apart from each other is an assumption on the file.
ASSUME MappingAssumption ==
    /\ NbRows \in Nat /\ MaxPasses \in Nat
    /\ LineSize \in Nat /\ SimSize \in Nat /\ NbRegisters \in Nat
    /\ LineSize <= NbRegisters
    /\ ReplySize \in 0..LineSize
    /\ NbRelays \in Nat \ {0}
    /\ Analog \cup Counter \cup Output \subseteq Rows
    /\ Analog \cap Counter = {} /\ (Analog \cup Counter) \cap Output = {}
    /\ \A r \in Analog \cup Counter : RegsOf(r) \subseteq 0..(LineSize - 1)
    /\ \A r, s \in Analog \cup Counter : r # s => RegsOf(r) \cap RegsOf(s) = {}

VARIABLES
    unknown,     (* the rows whose module alias is not plugged: fixed at start *)
    source,      (* the timer that runs *)
    pc, row,     (* where the pass is *)
    pass,        (* number of the current or last pass *)
    line,        (* m_realDataBufferLine *)
    index,       (* next register the copy writes *)
    regs,        (* tab_input_registers *)
    alarm,       (* m_simulatedAlarmStepCounter *)
    count,       (* the output rows simulateRelays has met *)
    relay,       (* state of the relay of each output row *)
    wrote,       (* history: the output rows whose last write succeeded *)
    reply        (* what modbus_reply has read for the current request *)

relayVars == <<alarm, count, relay, wrote>>
passVars == <<source, pc, row, pass, line, index>>
vars == <<unknown, passVars, regs, relayVars, reply>>

Registers == 0..(NbRegisters - 1)
Zeros == [i \in 0..(LineSize - 1) |-> 0]

Init ==
    /\ unknown \in SUBSET (Analog \cup Counter)
    /\ source = "none"
    /\ pc = "idle" /\ row = 0
    /\ pass = 0
    /\ line = Zeros
    /\ index = 0
    /\ regs = [i \in Registers |-> 0]
    /\ alarm = 0 /\ count = 0
    /\ relay = [r \in Output |-> FALSE] /\ wrote = {}
    /\ reply = <<>>

-------------------------------------------------------------------------------
(* The timers.                                                             *)

\* startAcquisition: the line is cleared and zeroed; the other timer is stopped
\* and its thread joined, so no pass is under way.
StartAcquisition ==
    /\ pc = "idle" /\ source # "acq"
    /\ source' = "acq"
    /\ line' = Zeros
    /\ UNCHANGED <<unknown, pc, row, pass, index, regs, relayVars, reply>>

StartSimulation ==
    /\ pc = "idle" /\ source # "sim"
    /\ source' = "sim"
    /\ UNCHANGED <<unknown, pc, row, pass, line, index, regs, relayVars, reply>>

\* A stop command, its thread joined; the registers keep the last values.
StopTimer ==
    /\ pc = "idle" /\ source # "none"
    /\ source' = "none"
    /\ UNCHANGED <<unknown, pc, row, pass, line, index, regs, relayVars, reply>>

\* The slot of the running timer is called.
TimeOut ==
    /\ pc = "idle" /\ source # "none" /\ pass < MaxPasses
    /\ pass' = pass + 1
    /\ IF source = "acq"
       THEN pc' = "rows" /\ row' = 1
       ELSE pc' = "copy" /\ UNCHANGED row
    /\ index' = 0
    /\ UNCHANGED <<unknown, source, line, regs, relayVars, reply>>

-------------------------------------------------------------------------------
(* acquireData.                                                            *)

\* The line with the registers of the rows in R written by this pass.
Written(R) ==
    [i \in DOMAIN line |-> IF \E r \in R : i \in RegsOf(r) THEN pass ELSE line[i]]

NextRow ==
    /\ row' = row + 1
    /\ UNCHANGED <<unknown, source, pc, pass, index, regs, relayVars, reply>>

\* A driver error inside AnalogicReader still yields a value for the register.
AnalogRow ==
    /\ pc = "rows" /\ row \in Analog \ unknown
    /\ line' = Written({row})
    /\ NextRow

\* Mutant: the row that throws is skipped.
AnalogRowSkipped ==
    /\ pc = "rows" /\ row \in Analog \cap unknown
    /\ UNCHANGED line
    /\ NextRow

\* getModuleByAlias throws: the exception leaves the loop and the pass.
AnalogRowThrows ==
    /\ pc = "rows" /\ row \in Analog \cap unknown
    /\ pc' = "idle"
    /\ UNCHANGED <<unknown, source, row, pass, line, index, regs, relayVars, reply>>

\* Mutant: an exception leaves the high and low words of the counter it met to
\* the next pass.
CounterRowHalf ==
    /\ pc = "rows" /\ row \in Counter
    /\ LET reached == {r \in Counter : \A s \in Counter \cap unknown : r < s}
           met == {r \in Counter \cap unknown : \A s \in Counter \cap unknown : r <= s}
       IN line' = [Written(reached) EXCEPT ![Channel[row]] =
                      IF row \in met THEN pass ELSE @]
    /\ NextRow

\* acquireCounters: every counter row up to the first whose alias is unknown;
\* its exception is caught there and the pass goes on.
CounterRow ==
    /\ pc = "rows" /\ row \in Counter
    /\ line' = Written({r \in Counter : \A s \in Counter \cap unknown : r < s})
    /\ NextRow

\* Rows of the other types.
OtherRow ==
    /\ pc = "rows" /\ row \in Rows \ (Analog \cup Counter)
    /\ UNCHANGED line
    /\ NextRow

LastRow ==
    /\ pc = "rows" /\ row > NbRows
    /\ pc' = "copy"
    /\ UNCHANGED <<unknown, source, row, pass, line, index, regs, relayVars, reply>>

-------------------------------------------------------------------------------
(* reMapInputRegisterValuesForAnalogics, called by both slots.             *)

Size  == LET n == IF source = "acq" THEN LineSize ELSE SimSize
         IN IF n < NbRegisters THEN n ELSE NbRegisters
Value == IF source = "acq" THEN line[index] ELSE -pass

\* Mutant: the copy skips the zeros of the line.
CopyRegisterNonZero ==
    /\ pc = "copy" /\ index < Size
    /\ regs' = [regs EXCEPT ![index] = IF Value = 0 THEN @ ELSE Value]
    /\ index' = index + 1
    /\ UNCHANGED <<unknown, source, pc, row, pass, line, relayVars, reply>>

CopyRegister ==
    /\ pc = "copy" /\ index < Size
    /\ regs' = [regs EXCEPT ![index] = Value]
    /\ index' = index + 1
    /\ UNCHANGED <<unknown, source, pc, row, pass, line, relayVars, reply>>

\* A simulated pass goes on to the relays.
AfterCopy ==
    /\ IF source = "sim" THEN pc' = "relays" /\ row' = 1 /\ count' = 0
                         ELSE pc' = "idle" /\ UNCHANGED <<row, count>>
    /\ UNCHANGED <<unknown, source, pass, line, index, regs, alarm, relay, wrote, reply>>

\* Mutant: the end of the copy is never met.
CopyEndsNever ==
    /\ pc = "copy" /\ index > Size
    /\ AfterCopy

CopyEnds ==
    /\ pc = "copy" /\ index = Size
    /\ AfterCopy

-------------------------------------------------------------------------------
(* simulateRelays.                                                         *)

NextRelayRow ==
    /\ row' = row + 1
    /\ UNCHANGED <<unknown, source, pc, pass, line, index, regs, alarm, reply>>

\* The array has one element per step; behind its end lies whatever the stack
\* holds.
RelayRow ==
    /\ pc = "relays" /\ row \in Output
    /\ \E on \in IF count < NbRelays THEN {alarm = count} ELSE BOOLEAN :
          relay' = [relay EXCEPT ![row] = on]
    /\ count' = count + 1
    /\ wrote' = wrote \cup {row}
    /\ NextRelayRow

\* Mutant: the row is counted behind the write that failed.
RelayRowFailsUncounted ==
    /\ pc = "relays" /\ row \in Output
    /\ wrote' = wrote \ {row}
    /\ UNCHANGED <<relay, count>>
    /\ NextRelayRow

\* The module is unknown or its driver fails: the relay stays as it is.
RelayRowFails ==
    /\ pc = "relays" /\ row \in Output
    /\ count' = count + 1
    /\ wrote' = wrote \ {row}
    /\ UNCHANGED relay
    /\ NextRelayRow

NoRelayRow ==
    /\ pc = "relays" /\ row \in Rows \ Output
    /\ UNCHANGED <<count, relay, wrote>>
    /\ NextRelayRow

\* Mutant: the step goes one beyond the array.
RelaysEndPast ==
    /\ pc = "relays" /\ row > NbRows
    /\ pc' = "idle"
    /\ alarm' = IF alarm = NbRelays THEN 0 ELSE alarm + 1
    /\ UNCHANGED <<unknown, source, row, pass, line, index, regs, count, relay, wrote, reply>>

RelaysEnd ==
    /\ pc = "relays" /\ row > NbRows
    /\ pc' = "idle"
    /\ alarm' = IF alarm = NbRelays - 1 THEN 0 ELSE alarm + 1
    /\ UNCHANGED <<unknown, source, row, pass, line, index, regs, count, relay, wrote, reply>>

-------------------------------------------------------------------------------
(* modbus_reply to a request for the first ReplySize registers.             *)

ReadRegister ==
    /\ Len(reply) < ReplySize
    /\ reply' = Append(reply, regs[Len(reply)])
    /\ UNCHANGED <<unknown, passVars, regs, relayVars>>

ReplySent ==
    /\ Len(reply) = ReplySize
    /\ reply' = <<>>
    /\ UNCHANGED <<unknown, passVars, regs, relayVars>>

-------------------------------------------------------------------------------

PassStep ==
    \/ AnalogRow \/ AnalogRowThrows \/ CounterRow \/ OtherRow \/ LastRow
    \/ CopyRegister \/ CopyEnds
    \/ RelayRow \/ RelayRowFails \/ NoRelayRow \/ RelaysEnd

Next ==
    \/ StartAcquisition \/ StartSimulation \/ StopTimer \/ TimeOut
    \/ PassStep
    \/ ReadRegister \/ ReplySent

Spec == Init /\ [][Next]_vars

\* A pass that began runs to its end.
FairSpec == Spec /\ WF_vars(PassStep)

-------------------------------------------------------------------------------
(* Properties.                                                             *)

\* The types of the pass, the line and the registers.
TypeOK ==
    /\ unknown \subseteq Analog \cup Counter
    /\ source \in {"none", "acq", "sim"}
    /\ pc \in {"idle", "rows", "copy", "relays"}
    /\ row \in 0..(NbRows + 1)
    /\ pass \in 0..MaxPasses
    /\ line \in [0..(LineSize - 1) -> 0..MaxPasses]
    /\ index \in 0..NbRegisters
    /\ regs \in [Registers -> -MaxPasses..MaxPasses]
    /\ alarm \in 0..(NbRelays - 1) /\ count \in Nat
    /\ relay \in [Output -> BOOLEAN] /\ wrote \subseteq Output
    /\ reply \in Seq(-MaxPasses..MaxPasses) /\ Len(reply) <= ReplySize

\* The counter rows acquireCounters never reaches.
Behind == {r \in Counter : \E s \in Counter \cap unknown : s <= r}

\* The rows both lines reach: with analog outputs configured the acquired line is
\* the longer one, and its last registers are out of reach of a simulation.
InBoth == {r \in Analog \cup Counter : RegsOf(r) \subseteq 0..(SimSize - 1)}

\* Between two copies the registers of all rows in both lines come from one pass,
\* whatever passes were cut short by an exception; only counters behind one whose
\* module is unknown may be older (acquireData's catch lies outside its loop, that
\* of acquireCounters inside the pass).
PassIsWhole ==
    pc # "copy" =>
       \A r, s \in InBoth \ Behind :
          \A i \in RegsOf(r), j \in RegsOf(s) : regs[i] = regs[j]

\* Between two copies the frequency, high and low word of a counter come from one
\* reading, even when a later counter's exception cut acquireCounters short.
CounterIsWhole ==
    pc # "copy" =>
       \A r \in Counter \cap InBoth : \A i, j \in RegsOf(r) : regs[i] = regs[j]

\* A row whose analog module is unknown keeps every register from being acquired:
\* no pass is published in part.
NoPartialPass ==
    Analog \cap unknown # {} => \A i \in Registers : regs[i] <= 0

\* Acquired and simulated values stand side by side only behind the end of the line
\* that did not write last: the simulated ones in the leading register's worth of
\* the SRU mode, the acquired ones in the registers of the analog outputs.
LeftoverOnlyInTail ==
    pc # "copy" =>
       \A i, j \in Registers :
          regs[i] < 0 /\ regs[j] > 0 => i >= LineSize \/ j >= SimSize

\* Position of an output row among them.
Position(r) == Cardinality({o \in Output : o < r})

\* Between two passes the relay that is on among those the array has a state for
\* is that of the last step, for every row whose last write went through: a row
\* that fails does not shift the rows behind it, and the relays stay in step over
\* stops, acquisitions and new starts.
RelaysInStep ==
    pc # "relays" =>
       \A r \in wrote : Position(r) < NbRelays =>
          (relay[r] <=> Position(r) = IF alarm = 0 THEN NbRelays - 1 ELSE alarm - 1)

\* A pass ends, and an acquisition whose analog modules are all known reaches the
\* registers.
PassEnds ==
    /\ pc # "idle" ~> pc = "idle"
    /\ pc = "rows" /\ Analog \cap unknown = {} ~> pc = "copy"

\* "Mutex for thread-safe access to mb_mapping" (NewModbusServer.h:40): the values
\* of one reply come from one pass.
ReplyIsWhole ==
    Len(reply) = ReplySize =>
       \A r, s \in Analog : Channel[r] < ReplySize /\ Channel[s] < ReplySize =>
          reply[Channel[r] + 1] = reply[Channel[s] + 1]

===============================================================================
