--------------------------- MODULE AcquisitionProofs ---------------------------
(***************************************************************************)
(* Proofs about Acquisition, for any mapping that meets its assumptions,   *)
(* any set of unknown modules and any number of passes.                    *)
(***************************************************************************)
EXTENDS Acquisition, FiniteSetTheorems, TLAPS

-------------------------------------------------------------------------------
(* The inductive invariant.                                                *)

Mapped == Analog \cup Counter

\* Only an acquisition goes through the rows, and an index of the copy is one
\* the copy has reached.
Phase ==
    /\ pc = "rows" => source = "acq"
    /\ pc = "copy" => source \in {"acq", "sim"} /\ index <= Size
    /\ pc = "relays" => source = "sim"

\* The copy starts at the first register.
RowsAtZero == pc = "rows" => index = 0

\* What the copy has done so far.
Copied ==
    pc = "copy" =>
       \A i \in 0..(index - 1) : regs[i] = IF source = "acq" THEN line[i] ELSE -pass

\* An analog row of an unknown module is never passed.
Gate ==
    /\ pc = "rows" => \A r \in Analog \cap unknown : row <= r
    /\ pc = "copy" /\ source = "acq" => Analog \cap unknown = {}

\* The registers of a counter change together in the line.
LineIsWhole == \A r \in Counter : \A i, j \in RegsOf(r) : line[i] = line[j]

\* The rows behind the current one hold values of this pass.
Fresh ==
    source = "acq" =>
       \A r \in Mapped \ Behind :
          (pc = "rows" /\ r < row) \/ pc = "copy" =>
             \A i \in RegsOf(r) : line[i] = pass

IInv ==
    /\ TypeOK /\ Phase /\ RowsAtZero /\ Copied /\ Gate /\ LineIsWhole /\ Fresh
    /\ PassIsWhole /\ CounterIsWhole /\ NoPartialPass /\ LeftoverOnlyInTail

-------------------------------------------------------------------------------
(* Lemmas.                                                                 *)

LEMMA MappingFacts ==
  /\ NbRows \in Nat /\ MaxPasses \in Nat /\ ReplySize \in Nat
  /\ LineSize \in Nat /\ SimSize \in Nat /\ NbRegisters \in Nat
  /\ LineSize <= NbRegisters /\ NbRelays \in Nat \ {0}
  /\ Output \subseteq 1..NbRows /\ Mapped \subseteq 1..NbRows /\ Analog \cap Counter = {}
  /\ \A r \in Mapped : RegsOf(r) \subseteq 0..(LineSize - 1)
  /\ \A r, s \in Mapped : r # s => RegsOf(r) \cap RegsOf(s) = {}
  BY MappingAssumption DEF Mapped, Rows

\* No line leaves the table.
LEMMA SizeFacts == Size \in Nat /\ Size <= NbRegisters
  BY MappingFacts DEF Size

LEMMA AcqSize == source = "acq" => Size = LineSize
  BY MappingFacts DEF Size

LEMMA SimSizeFacts ==
  source # "acq" => \A i \in Registers : i < Size <=> i < SimSize
  BY MappingFacts DEF Size, Registers

LEMMA AcquisitionInit == Init => IInv
<1> SUFFICES ASSUME Init PROVE IInv
  OBVIOUS
<1>1. TypeOK
  BY MappingFacts DEF Init, TypeOK, Registers, Zeros
<1>2. Phase /\ RowsAtZero /\ Copied /\ Gate /\ Fresh
  BY DEF Init, Phase, Copied, Gate, Fresh, RowsAtZero
<1>3. \A i \in Registers : regs[i] = 0
  BY DEF Init
<1>4. \A r \in Mapped : RegsOf(r) \subseteq Registers /\ RegsOf(r) \subseteq 0..(LineSize - 1)
  BY MappingFacts DEF Registers
<1>5. LineIsWhole
  BY <1>4 DEF Init, LineIsWhole, Zeros, Mapped
<1>6. PassIsWhole /\ CounterIsWhole /\ NoPartialPass /\ LeftoverOnlyInTail
  BY <1>3, <1>4 DEF PassIsWhole, CounterIsWhole, NoPartialPass, LeftoverOnlyInTail,
     InBoth, Mapped
<1>7. QED
  BY <1>1, <1>2, <1>5, <1>6 DEF IInv

\* Outside the copy a step that leaves the registers alone keeps what is said of
\* them.
LEMMA RegistersKept ==
  ASSUME IInv, pc # "copy", UNCHANGED <<unknown, regs>>
  PROVE  /\ PassIsWhole' /\ CounterIsWhole' /\ NoPartialPass'
         /\ LeftoverOnlyInTail'
  BY DEF IInv, PassIsWhole, CounterIsWhole, NoPartialPass, LeftoverOnlyInTail,
     Behind

\* Writing whole rows keeps the line's type and its counters whole, and what this
\* pass has written stays.
LEMMA RowsWritten ==
  ASSUME IInv, NEW R \in SUBSET Mapped, line' = Written(R)
  PROVE  /\ line' \in [0..(LineSize - 1) -> 0..MaxPasses]
         /\ LineIsWhole'
         /\ \A i \in 0..(LineSize - 1) : line[i] = pass => line'[i] = pass
         /\ \A r \in R : \A i \in RegsOf(r) : line'[i] = pass
<1>1. /\ line \in [0..(LineSize - 1) -> 0..MaxPasses]
      /\ pass \in 0..MaxPasses
  BY DEF IInv, TypeOK
<1>2. line' = [i \in 0..(LineSize - 1) |->
                  IF \E r \in R : i \in RegsOf(r) THEN pass ELSE line[i]]
  BY <1>1 DEF Written
<1>3. ASSUME NEW q \in Counter, NEW i \in RegsOf(q), NEW j \in RegsOf(q)
      PROVE  line'[i] = line'[j]
  <2>1. q \in Mapped /\ i \in 0..(LineSize - 1) /\ j \in 0..(LineSize - 1)
    BY MappingFacts DEF Mapped
  <2>2. CASE q \in R
    BY <1>2, <2>1, <2>2
  <2>3. CASE q \notin R
    <3>1. \A r \in R : i \notin RegsOf(r) /\ j \notin RegsOf(r)
      BY <2>1, <2>3, MappingFacts
    <3>2. line'[i] = line[i] /\ line'[j] = line[j]
      BY <1>2, <2>1, <3>1
    <3>3. QED
      BY <3>2 DEF IInv, LineIsWhole
  <2>4. QED
    BY <2>2, <2>3
<1>4. LineIsWhole'
  BY <1>3 DEF LineIsWhole, RegsOf
<1>5. \A r \in R : \A i \in RegsOf(r) : i \in 0..(LineSize - 1)
  BY MappingFacts
<1>6. QED
  BY <1>1, <1>2, <1>4, <1>5

-------------------------------------------------------------------------------
(* One lemma per group of actions.                                         *)

LEMMA TimerStep ==
  ASSUME IInv, StartAcquisition \/ StartSimulation \/ StopTimer \/ TimeOut
  PROVE  IInv'
<1>1. /\ pc = "idle" /\ UNCHANGED <<unknown, regs, relayVars, reply>>
      /\ line' = Zeros \/ line' = line
      /\ \/ pc' = "idle" /\ UNCHANGED <<row, pass, index>>
         \/ /\ pc' = "rows" /\ row' = 1 /\ source = "acq"
            /\ index' = 0 /\ pass' = pass + 1 /\ pass < MaxPasses
            /\ UNCHANGED source
         \/ /\ pc' = "copy" /\ UNCHANGED row /\ source = "sim"
            /\ index' = 0 /\ pass' = pass + 1 /\ pass < MaxPasses
            /\ UNCHANGED source
      /\ source' \in {"none", "acq", "sim"}
  BY DEF StartAcquisition, StartSimulation, StopTimer, TimeOut, IInv, TypeOK
<1>2. TypeOK'
  BY SMTT(30), <1>1, MappingFacts DEF IInv, TypeOK, Zeros, relayVars
<1>3. Phase' /\ RowsAtZero'
  BY <1>1, SizeFacts DEF Phase, Size, RowsAtZero
<1>4. Copied'
  BY <1>1 DEF Copied
<1>5. Gate'
  BY <1>1, MappingFacts DEF Gate, Mapped
<1>6. LineIsWhole'
  <2>1. CASE line' = Zeros
    BY <2>1, MappingFacts DEF LineIsWhole, Zeros, Mapped, RegsOf
  <2>2. CASE line' = line
    BY <2>2 DEF IInv, LineIsWhole, RegsOf
  <2>3. QED
    BY <1>1, <2>1, <2>2
<1>7. Fresh'
  BY <1>1, MappingFacts DEF Fresh, Mapped, Behind
<1>8. PassIsWhole' /\ CounterIsWhole' /\ NoPartialPass' /\ LeftoverOnlyInTail'
  BY <1>1, RegistersKept
<1>9. QED
  BY <1>2, <1>3, <1>4, <1>5, <1>6, <1>7, <1>8 DEF IInv

LEMMA ReplyStep ==
  ASSUME IInv, ReadRegister \/ ReplySent
  PROVE  IInv'
<1>1. UNCHANGED <<unknown, source, pc, row, pass, line, index, regs, relayVars>>
  BY DEF ReadRegister, ReplySent, passVars
<1>2. /\ reply' \in Seq(-MaxPasses..MaxPasses)
      /\ Len(reply') <= ReplySize
  <2>1. CASE ReadRegister
    <3>1. regs[Len(reply)] \in -MaxPasses..MaxPasses
      BY <2>1, MappingAssumption DEF ReadRegister, IInv, TypeOK, Registers
    <3>2. QED
      BY <2>1, <3>1, MappingFacts DEF ReadRegister, IInv, TypeOK
  <2>2. CASE ReplySent
    BY <2>2, MappingFacts DEF ReplySent
  <2>3. QED
    BY <2>1, <2>2
<1>3. TypeOK'
  BY <1>1, <1>2 DEF IInv, TypeOK, relayVars
<1>4. QED
  BY <1>1, <1>3 DEF IInv, Phase, RowsAtZero, Size, Copied, Gate, LineIsWhole, Fresh, Behind,
     PassIsWhole, CounterIsWhole, NoPartialPass, LeftoverOnlyInTail, RegsOf

\* The row that ends with the next row: R are the rows it wrote.
LEMMA RowStep ==
  ASSUME IInv, NEW R \in SUBSET Mapped, line' = Written(R), NextRow,
         pc = "rows", row \in Rows, row \notin Analog \cap unknown,
         row \in Mapped \ Behind => row \in R
  PROVE  IInv'
<1>1. /\ row' = row + 1 /\ pc' = "rows" /\ source' = "acq" /\ source = "acq"
      /\ UNCHANGED <<unknown, source, pc, pass, index, regs, relayVars, reply>>
  BY DEF NextRow, IInv, Phase
<1>2. /\ line' \in [0..(LineSize - 1) -> 0..MaxPasses]
      /\ LineIsWhole'
      /\ \A i \in 0..(LineSize - 1) : line[i] = pass => line'[i] = pass
      /\ \A r \in R : \A i \in RegsOf(r) : line'[i] = pass
  BY RowsWritten
<1>3. TypeOK'
  BY <1>1, <1>2, MappingFacts DEF IInv, TypeOK, Rows, relayVars
<1>4. Phase' /\ RowsAtZero' /\ Copied'
  BY <1>1 DEF IInv, Phase, RowsAtZero, Copied
<1>5. Gate'
  BY <1>1, MappingFacts DEF IInv, Gate, Mapped, Rows
<1>6. Fresh'
  <2> SUFFICES ASSUME NEW r \in Mapped \ Behind, r < row + 1, NEW i \in RegsOf(r)
               PROVE  line'[i] = pass
    BY <1>1 DEF Fresh, Behind, RegsOf
  <2>1. CASE r = row
    BY <1>2, <2>1
  <2>2. CASE r < row
    <3>1. line[i] = pass /\ i \in 0..(LineSize - 1)
      BY <1>1, <2>2, MappingFacts DEF IInv, Fresh
    <3>2. QED
      BY <1>2, <3>1
  <2>3. QED
    BY <2>1, <2>2, MappingFacts DEF Rows
<1>7. PassIsWhole' /\ CounterIsWhole' /\ NoPartialPass' /\ LeftoverOnlyInTail'
  BY <1>1, RegistersKept
<1>8. QED
  BY <1>1, <1>2, <1>3, <1>4, <1>5, <1>6, <1>7 DEF IInv

LEMMA RowsStep ==
  ASSUME IInv, AnalogRow \/ CounterRow \/ OtherRow
  PROVE  IInv'
<1>1. CASE AnalogRow
  <2>1. line' = Written({row}) /\ {row} \in SUBSET Mapped /\ NextRow /\ pc = "rows"
    BY <1>1 DEF AnalogRow, Mapped
  <2>2. row \in Rows /\ row \notin Analog \cap unknown /\ row \in {row}
    BY <1>1, <2>1, MappingFacts DEF AnalogRow, Rows
  <2>3. QED
    BY <2>1, <2>2, RowStep
<1>2. CASE CounterRow
  <2> DEFINE R == {r \in Counter : \A s \in Counter \cap unknown : r < s}
  <2>1. line' = Written(R) /\ R \in SUBSET Mapped /\ NextRow /\ pc = "rows"
    BY <1>2 DEF CounterRow, Mapped
  <2>2. row \in Counter /\ row \in Mapped /\ row \in Rows /\ row \notin Analog
    BY <1>2, MappingFacts DEF CounterRow, Mapped, Rows
  <2>3. row \notin Behind => row \in R
    BY <2>2, MappingFacts DEF Behind, Mapped
  <2>4. QED
    BY <2>1, <2>2, <2>3, RowStep
<1>3. CASE OtherRow
  <2>1. line' = Written({})
    <3>1. Written({}) = [i \in DOMAIN line |-> line[i]]
      BY DEF Written
    <3>2. QED
      BY <1>3, <3>1 DEF OtherRow, IInv, TypeOK
  <2>2. NextRow /\ pc = "rows" /\ row \in Rows /\ row \notin Mapped
    BY <1>3 DEF OtherRow, Mapped
  <2>3. QED
    BY <2>1, <2>2, RowStep DEF Mapped
<1>4. QED
  BY <1>1, <1>2, <1>3

LEMMA ThrowStep ==
  ASSUME IInv, AnalogRowThrows
  PROVE  IInv'
<1>1. /\ pc = "rows" /\ pc' = "idle"
      /\ UNCHANGED <<unknown, source, row, pass, line, index, regs, relayVars, reply>>
  BY DEF AnalogRowThrows
<1>2. PassIsWhole' /\ CounterIsWhole' /\ NoPartialPass' /\ LeftoverOnlyInTail'
  BY <1>1, RegistersKept
<1>3. QED
  BY <1>1, <1>2 DEF IInv, TypeOK, Phase, Copied, Gate, LineIsWhole, Fresh, RegsOf,
     RowsAtZero, relayVars

LEMMA LastRowStep ==
  ASSUME IInv, LastRow
  PROVE  IInv'
<1>1. /\ pc = "rows" /\ row > NbRows /\ pc' = "copy" /\ source = "acq"
      /\ UNCHANGED <<unknown, source, row, pass, line, index, regs, relayVars, reply>>
  BY DEF LastRow, IInv, Phase
<1>2. index = 0
  BY <1>1 DEF IInv, RowsAtZero
<1>3. TypeOK' /\ LineIsWhole'
  BY <1>1 DEF IInv, TypeOK, LineIsWhole, RegsOf, relayVars
<1>4. Phase' /\ Copied'
  BY <1>1, <1>2, MappingFacts DEF Phase, Copied, Size
<1>5. Gate'
  BY <1>1, MappingFacts DEF IInv, TypeOK, Gate, Mapped
<1>6. Fresh'
  <2> SUFFICES ASSUME NEW r \in Mapped \ Behind, NEW i \in RegsOf(r)
               PROVE  line[i] = pass
    BY <1>1 DEF Fresh, Behind, RegsOf
  <2>1. r < row
    BY <1>1, MappingFacts DEF IInv, TypeOK
  <2>2. QED
    BY <1>1, <2>1 DEF IInv, Fresh
<1>7. PassIsWhole' /\ CounterIsWhole' /\ NoPartialPass' /\ LeftoverOnlyInTail'
  BY <1>1, RegistersKept
<1>8. QED
  BY <1>1, <1>3, <1>4, <1>5, <1>6, <1>7 DEF IInv, RowsAtZero

LEMMA CopyStep ==
  ASSUME IInv, CopyRegister
  PROVE  IInv'
<1>1. /\ pc = "copy" /\ index < Size
      /\ regs' = [regs EXCEPT ![index] = Value]
      /\ index' = index + 1
      /\ UNCHANGED <<unknown, source, pc, row, pass, line, relayVars, reply>>
  BY DEF CopyRegister
<1>2. /\ regs \in [Registers -> -MaxPasses..MaxPasses]
      /\ index \in Registers /\ index \in Nat
      /\ source = "acq" => index \in 0..(LineSize - 1)
  BY <1>1, SizeFacts, AcqSize, MappingFacts DEF IInv, TypeOK, Registers
<1>3. /\ Value \in -MaxPasses..MaxPasses
      /\ source = "acq" => Value = line[index] /\ Value >= 0
      /\ source # "acq" => Value = -pass /\ Value <= 0
  <2>1. /\ MaxPasses \in Nat /\ pass \in 0..MaxPasses
        /\ line \in [0..(LineSize - 1) -> 0..MaxPasses]
    BY MappingFacts DEF IInv, TypeOK
  <2>2. CASE source = "acq"
    <3>1. Value = line[index] /\ line[index] \in 0..MaxPasses
      BY <1>2, <2>1, <2>2 DEF Value
    <3>2. QED
      BY <2>1, <2>2, <3>1
  <2>3. CASE source # "acq"
    <3>1. Value = -pass
      BY <2>3 DEF Value
    <3>2. QED
      BY <2>1, <2>3, <3>1
  <2>4. QED
    BY <2>2, <2>3
<1>4. TypeOK'
  <2>1. regs' \in [Registers -> -MaxPasses..MaxPasses]
    BY <1>1, <1>2, <1>3
  <2>2. index' \in 0..NbRegisters
    BY <1>1, <1>2, MappingFacts DEF Registers
  <2>3. QED
    BY <1>1, <2>1, <2>2 DEF IInv, TypeOK, relayVars
<1>5. Phase' /\ Gate' /\ LineIsWhole' /\ Fresh'
  <2>1. Size' = Size
    BY <1>1 DEF Size
  <2>2. QED
    BY <1>1, <1>2, <2>1, SizeFacts DEF IInv, Phase, Gate, LineIsWhole, Fresh, Behind, RegsOf
<1>6. Copied'
  BY <1>1, <1>2, <1>3 DEF IInv, Copied, Registers
<1>7. PassIsWhole' /\ CounterIsWhole' /\ LeftoverOnlyInTail'
  BY <1>1 DEF PassIsWhole, CounterIsWhole, LeftoverOnlyInTail
<1>8. NoPartialPass'
  BY <1>1, <1>2, <1>3, MappingFacts DEF IInv, Gate, NoPartialPass
<1>9. QED
  BY <1>1, <1>4, <1>5, <1>6, <1>7, <1>8 DEF IInv, RowsAtZero

LEMMA EndStep ==
  ASSUME IInv, CopyEnds
  PROVE  IInv'
<1>1. /\ pc = "copy" /\ index = Size
      /\ IF source = "sim" THEN pc' = "relays" /\ row' = 1 /\ count' = 0
                           ELSE pc' = "idle" /\ UNCHANGED <<row, count>>
      /\ UNCHANGED <<unknown, source, pass, line, index, regs, alarm, relay, wrote, reply>>
  BY DEF CopyEnds, AfterCopy
<1>2. \A i \in 0..(Size - 1) :
         /\ i \in Registers
         /\ regs[i] = IF source = "acq" THEN line[i] ELSE -pass
  BY <1>1, SizeFacts, MappingFacts DEF IInv, Copied, Registers
<1>3. \A r \in InBoth : \A i \in RegsOf(r) : i \in 0..(Size - 1) /\ i \in 0..(LineSize - 1)
  <2> SUFFICES ASSUME NEW r \in InBoth, NEW i \in RegsOf(r)
               PROVE  i \in 0..(Size - 1) /\ i \in 0..(LineSize - 1)
    OBVIOUS
  <2>1. i \in 0..(LineSize - 1) /\ i \in 0..(SimSize - 1)
    BY MappingFacts DEF InBoth, Mapped
  <2>2. QED
    BY <2>1, SizeFacts, MappingFacts DEF Size
<1>4. PassIsWhole'
  <2> SUFFICES ASSUME NEW r \in InBoth \ Behind, NEW s \in InBoth \ Behind,
                      NEW i \in RegsOf(r), NEW j \in RegsOf(s)
               PROVE  regs[i] = regs[j]
    BY <1>1 DEF PassIsWhole, Behind, RegsOf, InBoth
  <2>1. CASE source = "acq"
    <3>1. line[i] = pass /\ line[j] = pass
      BY <1>1, <2>1 DEF IInv, Fresh, InBoth, Mapped
    <3>2. QED
      BY <1>2, <1>3, <2>1, <3>1
  <2>2. CASE source # "acq"
    BY <1>2, <1>3, <2>2
  <2>3. QED
    BY <2>1, <2>2
<1>5. CounterIsWhole'
  <2> SUFFICES ASSUME NEW r \in Counter \cap InBoth, NEW i \in RegsOf(r), NEW j \in RegsOf(r)
               PROVE  regs[i] = regs[j]
    BY <1>1 DEF CounterIsWhole, RegsOf, InBoth
  <2>1. line[i] = line[j]
    BY DEF IInv, LineIsWhole
  <2>2. QED
    BY <1>2, <1>3, <2>1
<1>6. LeftoverOnlyInTail'
  <2> SUFFICES ASSUME NEW i \in Registers, regs[i] < 0,
                      NEW j \in Registers, regs[j] > 0
               PROVE  i >= LineSize \/ j >= SimSize
    BY <1>1 DEF LeftoverOnlyInTail
  <2>1. i \in Nat /\ j \in Nat
    BY MappingFacts DEF Registers
  <2>2. CASE source = "acq"
    <3>1. SUFFICES ASSUME i < LineSize PROVE FALSE
      BY <2>1, MappingFacts
    <3>2. i \in 0..(Size - 1) /\ i \in 0..(LineSize - 1)
      BY <2>1, <2>2, <3>1, AcqSize, MappingFacts
    <3>3. regs[i] = line[i] /\ line[i] \in 0..MaxPasses
      BY <1>2, <2>2, <3>2 DEF IInv, TypeOK
    <3>4. QED
      BY <3>3, MappingFacts
  <2>3. CASE source # "acq"
    <3>1. SUFFICES ASSUME j < SimSize PROVE FALSE
      BY <2>1, MappingFacts
    <3>2. j \in 0..(Size - 1)
      BY <2>1, <2>3, <3>1, SimSizeFacts, SizeFacts
    <3>3. regs[j] = -pass /\ pass \in 0..MaxPasses
      BY <1>2, <2>3, <3>2 DEF IInv, TypeOK
    <3>4. QED
      BY <3>3, MappingFacts
  <2>4. QED
    BY <2>2, <2>3
<1>7. NoPartialPass'
  BY <1>1 DEF IInv, NoPartialPass
<1>8. TypeOK'
  BY <1>1, MappingFacts DEF IInv, TypeOK
<1>9. Phase' /\ Copied' /\ Gate' /\ LineIsWhole' /\ Fresh' /\ RowsAtZero'
  BY <1>1 DEF IInv, Phase, Copied, Gate, LineIsWhole, Fresh, RegsOf, RowsAtZero
<1>10. QED
  BY <1>4, <1>5, <1>6, <1>7, <1>8, <1>9 DEF IInv

LEMMA RelaysStep ==
  ASSUME IInv, RelayRow \/ RelayRowFails \/ NoRelayRow \/ RelaysEnd
  PROVE  IInv'
<1>1. /\ pc = "relays" /\ pc' \in {"relays", "idle"}
      /\ row' \in 0..(NbRows + 1)
      /\ UNCHANGED <<unknown, source, pass, line, index, regs, reply>>
  BY MappingFacts DEF RelayRow, RelayRowFails, NoRelayRow, RelaysEnd, NextRelayRow,
     IInv, TypeOK, Rows
<1>2. /\ alarm' \in 0..(NbRelays - 1) /\ count' \in Nat
      /\ relay' \in [Output -> BOOLEAN] /\ wrote' \subseteq Output
  <2>1. CASE RelayRow
    <3>1. PICK on \in BOOLEAN : relay' = [relay EXCEPT ![row] = on]
      BY <2>1 DEF RelayRow
    <3>2. row \in Output /\ count' = count + 1 /\ wrote' = wrote \cup {row} /\ alarm' = alarm
      BY <2>1 DEF RelayRow, NextRelayRow
    <3>3. relay' \in [Output -> BOOLEAN]
      BY <3>1 DEF IInv, TypeOK
    <3>4. QED
      BY <3>2, <3>3 DEF IInv, TypeOK
  <2>2. CASE RelayRowFails \/ NoRelayRow
    BY <2>2 DEF RelayRowFails, NoRelayRow, NextRelayRow, IInv, TypeOK
  <2>3. CASE RelaysEnd
    BY <2>3, MappingFacts DEF RelaysEnd, IInv, TypeOK
  <2>4. QED
    BY <2>1, <2>2, <2>3
<1>3. TypeOK'
  BY <1>1, <1>2 DEF IInv, TypeOK
<1>4. PassIsWhole' /\ CounterIsWhole' /\ NoPartialPass' /\ LeftoverOnlyInTail'
  BY <1>1, RegistersKept
<1>5. QED
  BY <1>1, <1>3, <1>4 DEF IInv, Phase, Copied, Gate, LineIsWhole, Fresh, RegsOf, RowsAtZero

LEMMA AcquisitionStep == IInv /\ [Next]_vars => IInv'
<1> SUFFICES ASSUME IInv, [Next]_vars
             PROVE  IInv'
  OBVIOUS
<1>1. CASE Next
  BY <1>1, TimerStep, ReplyStep, RowsStep, ThrowStep, LastRowStep, CopyStep, EndStep,
     RelaysStep
     DEF Next, PassStep
<1>2. CASE UNCHANGED vars
  BY <1>2 DEF vars, passVars, relayVars, IInv, TypeOK, Phase, RowsAtZero, Size, Copied, Gate,
     LineIsWhole, Fresh, Behind, PassIsWhole, CounterIsWhole, NoPartialPass,
     LeftoverOnlyInTail, RegsOf
<1>3. QED
  BY <1>1, <1>2

-------------------------------------------------------------------------------
(* The relays.                                                             *)

Before(a) == IF a = 0 THEN NbRelays - 1 ELSE a - 1

\* The count of the rows met is the position of the row that is next, and the rows
\* behind it already show the step of this pass.
RelayInv ==
    /\ pc = "relays" => count = Position(row)
    /\ \A r \in wrote : Position(r) < NbRelays =>
          (relay[r] <=> Position(r) = IF pc = "relays" /\ r < row THEN alarm ELSE Before(alarm))

\* Positions count the output rows one by one.
LEMMA Positions ==
  /\ Position(1) = 0
  /\ \A r \in Rows : Position(r + 1) = IF r \in Output THEN Position(r) + 1 ELSE Position(r)
  /\ \A r \in Int : Position(r) \in Nat
<1>1. Output \subseteq 1..NbRows /\ NbRows \in Nat
  BY MappingFacts
<1>2. IsFiniteSet(Output)
  <2>1. IsFiniteSet(1..NbRows)
    BY <1>1, FS_Interval
  <2>2. QED
    BY <1>1, <2>1, FS_Subset
<1>3. \A r \in Int : IsFiniteSet({o \in Output : o < r})
  <2> TAKE r \in Int
  <2>1. {o \in Output : o < r} \subseteq Output
    OBVIOUS
  <2>2. QED
    BY <1>2, <2>1, FS_Subset
<1>4. Position(1) = 0
  <2>1. {o \in Output : o < 1} = {}
    <3>1. \A o \in Output : ~(o < 1)
      BY <1>1
    <3>2. QED
      BY <3>1
  <2>2. QED
    BY <2>1, FS_EmptySet DEF Position
<1>5. ASSUME NEW r \in Rows
      PROVE  Position(r + 1) = IF r \in Output THEN Position(r) + 1 ELSE Position(r)
  <2> DEFINE S == {o \in Output : o < r}
  <2>1. r \in Int /\ \A o \in Output : o < r + 1 <=> o < r \/ o = r
    BY <1>1 DEF Rows
  <2>2. CASE r \in Output
    <3>1. {o \in Output : o < r + 1} = S \cup {r}
      BY <2>1, <2>2
    <3>2. r \notin S /\ IsFiniteSet(S)
      BY <1>3, <2>1
    <3>3. Cardinality(S \cup {r}) = Cardinality(S) + 1
      BY <3>2, FS_AddElement
    <3>4. QED
      BY <2>2, <3>1, <3>3 DEF Position
  <2>3. CASE r \notin Output
    <3>1. {o \in Output : o < r + 1} = S
      BY <2>1, <2>3
    <3>2. QED
      BY <2>3, <3>1 DEF Position
  <2>4. QED
    BY <2>2, <2>3
<1>6. \A r \in Int : Position(r) \in Nat
  BY <1>3, FS_CardinalityType DEF Position
<1>7. QED
  BY <1>4, <1>5, <1>6

LEMMA RelayStep ==
  ASSUME IInv, RelayInv, [Next]_vars
  PROVE  RelayInv'
<1>1. /\ wrote \subseteq Output /\ Output \subseteq 1..NbRows /\ NbRows \in Nat
      /\ relay \in [Output -> BOOLEAN] /\ row \in 0..(NbRows + 1)
      /\ alarm \in 0..(NbRelays - 1) /\ NbRelays \in Nat \ {0}
  BY MappingFacts DEF IInv, TypeOK
<1>2. CASE /\ UNCHANGED relayVars
           /\ pc # "relays" /\ pc' # "relays"
  BY <1>2 DEF relayVars, RelayInv, Position
<1>3. CASE CopyEnds
  <2>1. /\ pc = "copy" /\ UNCHANGED <<alarm, relay, wrote>>
        /\ pc' = "relays" => row' = 1 /\ count' = 0
    BY <1>3 DEF CopyEnds, AfterCopy
  <2>2. \A r \in wrote : ~(r < 1)
    BY <1>1
  <2>3. QED
    BY <2>1, <2>2, Positions DEF RelayInv, Position
<1>4. CASE RelayRow \/ RelayRowFails \/ NoRelayRow
  <2>1. /\ pc = "relays" /\ pc' = "relays" /\ row \in Rows /\ row' = row + 1
        /\ alarm' = alarm
        /\ count' = IF row \in Output THEN count + 1 ELSE count
    BY <1>1, <1>4 DEF RelayRow, RelayRowFails, NoRelayRow, NextRelayRow, Rows
  <2>2. count = Position(row) /\ count' = Position(row')
    BY <2>1, Positions DEF RelayInv
  <2>3. ASSUME NEW r \in wrote', Position(r) < NbRelays
        PROVE  relay'[r] <=> Position(r) = IF r < row' THEN alarm ELSE Before(alarm)
    <3>1. CASE r = row
      <4>1. RelayRow
        BY <1>1, <1>4, <2>1, <2>3, <3>1 DEF RelayRowFails, NoRelayRow
      <4>2. count < NbRelays
        BY <2>2, <2>3, <3>1
      <4>3. row \in Output /\ relay' = [relay EXCEPT ![row] = (alarm = count)]
        BY <4>1, <4>2 DEF RelayRow
      <4>4. relay'[r] <=> (alarm = count)
        BY <1>1, <3>1, <4>3
      <4>5. r < row'
        BY <2>1, <3>1 DEF Rows
      <4>6. QED
        BY <2>2, <3>1, <4>4, <4>5
    <3>2. CASE r # row
      <4>1. r \in wrote /\ relay'[r] = relay[r]
        BY <1>1, <1>4, <2>3, <3>2 DEF RelayRow, RelayRowFails, NoRelayRow
      <4>2. r \in Int /\ row \in Int
        BY <1>1, <4>1
      <4>3. r < row' <=> r < row
        BY <2>1, <3>2, <4>2
      <4>4. relay[r] <=> Position(r) = IF r < row THEN alarm ELSE Before(alarm)
        BY <2>1, <2>3, <4>1 DEF RelayInv
      <4>5. QED
        BY <4>1, <4>3, <4>4
    <3>3. QED
      BY <3>1, <3>2
  <2>4. QED
    BY <2>1, <2>2, <2>3 DEF RelayInv, Position, Before
<1>5. CASE RelaysEnd
  <2>1. /\ pc = "relays" /\ pc' = "idle" /\ row > NbRows
        /\ alarm' = IF alarm = NbRelays - 1 THEN 0 ELSE alarm + 1
        /\ UNCHANGED <<relay, wrote>>
    BY <1>5 DEF RelaysEnd
  <2>2. \A r \in wrote : r < row
    BY <1>1, <2>1
  <2>3. Before(alarm') = alarm
    BY <1>1, <2>1 DEF Before
  <2>4. \A r \in wrote : Position(r) < NbRelays => (relay[r] <=> Position(r) = alarm)
    BY <2>1, <2>2 DEF RelayInv
  <2>5. QED
    BY <2>1, <2>3, <2>4 DEF RelayInv, Position, Before
<1>6. CASE UNCHANGED <<pc, row, relayVars>>
  BY <1>6 DEF relayVars, RelayInv, Position, Before
<1>7. CASE \/ StartAcquisition \/ StartSimulation \/ StopTimer \/ TimeOut
           \/ AnalogRow \/ AnalogRowThrows \/ CounterRow \/ OtherRow \/ LastRow
           \/ CopyRegister
  BY <1>2, <1>7 DEF StartAcquisition, StartSimulation, StopTimer, TimeOut, AnalogRow,
     AnalogRowThrows, CounterRow, OtherRow, LastRow, CopyRegister, NextRow
<1>8. CASE ReadRegister \/ ReplySent \/ UNCHANGED vars
  BY <1>6, <1>8 DEF ReadRegister, ReplySent, vars, passVars
<1>9. QED
  BY <1>3, <1>4, <1>5, <1>7, <1>8 DEF Next, PassStep

-------------------------------------------------------------------------------
(* The theorems.                                                           *)

LEMMA Invariant == Spec => []IInv
  BY AcquisitionInit, AcquisitionStep, PTL DEF Spec

\* The types, the bounds of the line and of the copy included.
THEOREM TypeCorrect == Spec => []TypeOK
<1>1. IInv => TypeOK
  BY DEF IInv
<1>2. QED
  BY <1>1, Invariant, PTL

\* Between two copies the registers of all rows in both lines but the counters behind
\* an unknown one come from one pass, for every mapping and every set of unknown modules.
THEOREM PassesAreWhole == Spec => []PassIsWhole
<1>1. IInv => PassIsWhole
  BY DEF IInv
<1>2. QED
  BY <1>1, Invariant, PTL

\* Between two copies the three registers of a counter come from one reading.
THEOREM CountersAreWhole == Spec => []CounterIsWhole
<1>1. IInv => CounterIsWhole
  BY DEF IInv
<1>2. QED
  BY <1>1, Invariant, PTL

\* One analog row of an unknown module keeps every acquired value from the
\* registers.
THEOREM NothingInPart == Spec => []NoPartialPass
<1>1. IInv => NoPartialPass
  BY DEF IInv
<1>2. QED
  BY <1>1, Invariant, PTL

\* Simulated and acquired values stand side by side only where one of the two lines
\* does not reach, whichever is the longer.
THEOREM LeftoversStayInTail == Spec => []LeftoverOnlyInTail
<1>1. IInv => LeftoverOnlyInTail
  BY DEF IInv
<1>2. QED
  BY <1>1, Invariant, PTL

\* The relays are in step with the passes whatever rows fail, for any number of
\* output rows and relays.
THEOREM RelaysStayInStep == Spec => []RelaysInStep
<1>1. Init => RelayInv
  BY DEF Init, RelayInv
<1>2. RelayInv => RelaysInStep
  BY DEF RelayInv, RelaysInStep, Before
<1>3. IInv /\ RelayInv /\ [Next]_vars => RelayInv'
  BY RelayStep
<1>4. QED
  BY <1>1, <1>2, <1>3, Invariant, PTL DEF Spec

===============================================================================
