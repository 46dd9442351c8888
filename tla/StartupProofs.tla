----------------------------- MODULE StartupProofs -----------------------------
(***************************************************************************)
(* Proofs about Startup, for any modules, files, tables and crashes.       *)
(***************************************************************************)
EXTENDS Startup, IniFileProofs

Limits == {ChanMax, ChanMin, CountingMax, CountingMin}

\* Where main is while it starts.
PlaceInv ==
    /\ cur \in Nat /\ step \in Nat \ {0}
    /\ Starting => cur <= Len(Modules)
    /\ phase = "save" => cur > 0
    /\ rewrite # NoRewrite => phase = "load" /\ (cur = 0 => step <= 5)

\* Every object holds a value for each key of its class, and its limits are numbers.
ShapeInv ==
    /\ held \in Int
    /\ ram = [f \in Files |-> [scalar |-> ram[f].scalar, names |-> ram[f].names]]
    /\ \A f \in Files : ram[f].scalar = [k \in Scalars(f) |-> ram[f].scalar[k]]
    /\ \A f \in Files \ {Server} : \A k \in Limits : ram[f].scalar[k] \in Int

Whole(r) == Len(r) >= 9 /\ \A i \in NumberFields : r[i] = "number"

\* A mapping m holds the whole rows before row n, in order.
Mapped(m, rows, n) ==
    /\ {m[i] : i \in DOMAIN m} = {i \in 1..(n - 1) : Whole(rows[i])}
    /\ \A i, j \in DOMAIN m : i < j => m[i] < m[j]
    /\ \A i \in 1..(n - 1) : ~Throws(rows[i])

MapInv ==
    /\ csv = Missing \/ csv \in Seq(Seq(Tokens))
    /\ mapping \in Seq(Nat)
    /\ phase = "load" /\ cur = 0 => mapping = <<>>
    /\ phase = "map" => step <= Len(Rows) + 1 /\ Mapped(mapping, Rows, step)
    /\ phase \in {"load", "save"} /\ cur > 0 => Mapped(mapping, Rows, Len(Rows) + 1)

IInv == PlaceInv /\ ShapeInv /\ MapInv /\ LimitsOrdered

-------------------------------------------------------------------------------
(* The keys.                                                               *)

LEMMA LimitKeys ==
  /\ \A k \in Limits : ~IsName(k) /\ k \notin CountKeys \cup TextKeys \cup FlagKeys
  /\ {CountingMax, CountingMin} \subseteq UnsignedKeys
  /\ ChanMax \notin UnsignedKeys /\ ChanMin \notin UnsignedKeys
  /\ ChanMax # ChanMin /\ ChanMax # CountingMax /\ ChanMax # CountingMin
  /\ ChanMin # CountingMax /\ ChanMin # CountingMin /\ CountingMax # CountingMin
  /\ \A f \in Files \ {Server} : Limits \subseteq Scalars(f)
  BY DEF Limits, ChanMax, ChanMin, CountingMax, CountingMin, Key, IsName, Lists, CountKeys,
     CountKey, Plural, TextKeys, FlagKeys, Name, Alias, ServerKeys, UnsignedKeys, Scalars

LEMMA ServerKeyFacts ==
  /\ Len(ServerKeys) = 5
  /\ \A i \in 1..5 : ~IsName(ServerKeys[i]) /\ ServerKeys[i] \notin Limits
  BY DEF Limits, ChanMax, ChanMin, CountingMax, CountingMin, Key, IsName, Lists, ServerKeys

-------------------------------------------------------------------------------
(* The limits.                                                             *)

LEMMA DefaultFacts ==
  ASSUME NEW f \in Files
  PROVE  /\ Default[f] = [k \in Scalars(f) |-> Default[f][k]]
         /\ f # Server => /\ \A k \in Limits : Default[f][k] \in Int
                          /\ Default[f][ChanMin] < Default[f][ChanMax]
                          /\ Default[f][CountingMin] < Default[f][CountingMax]
<1>1. Default[f] = [k \in Scalars(f) |-> Default[f][k]]
  BY ValuesAssumption
<1>2. ASSUME f # Server
      PROVE  /\ \A k \in Limits : Default[f][k] \in Int
             /\ Default[f][ChanMin] < Default[f][ChanMax]
             /\ Default[f][CountingMin] < Default[f][CountingMax]
  <2>1. PICK i \in 1..Len(Modules) : f = Modules[i]
    BY <1>2 DEF Files
  <2>2. QED
    BY <2>1, ClassAssumption, ValuesAssumption DEF Limits
<1>3. QED
  BY <1>1, <1>2

\* A value that is read for a limit is a number, whatever the file holds.
LEMMA LimitIsNumber ==
  ASSUME NEW k \in Limits, NEW v, NEW d \in Int
  PROVE  Parsed(k, v, d) \in Int
<1>1. CASE ~Readable(k, v)
  BY <1>1 DEF Parsed
<1>2. CASE Readable(k, v)
  <2>1. v \in Int /\ k \notin FlagKeys
    BY <1>2, LimitKeys DEF Readable
  <2>2. v % UintSize \in Int
    BY <2>1, ValuesAssumption, ClassAssumption
  <2>3. Word(v) = v
    BY <2>1, ValuesAssumption DEF Word
  <2>4. QED
    BY <1>2, <2>1, <2>2, <2>3 DEF Parsed
<1>3. QED
  BY <1>1, <1>2

\* Whatever number is read for one limit, both ranges stay in order.
LEMMA LimitsKept ==
  ASSUME NEW K, NEW s, s = [k \in K |-> s[k]], Limits \subseteq K,
         \A k \in Limits : s[k] \in Int,
         s[ChanMin] < s[ChanMax], s[CountingMin] < s[CountingMax],
         held \in Int, NEW v \in Int, NEW key \in {ChanMax, ChanMin, CountingMin},
         NEW t, t = WithLimits(s, key, v)
  PROVE  /\ t = [k \in K |-> t[k]]
         /\ \A k \in Limits : t[k] \in Int
         /\ t[ChanMin] < t[ChanMax] /\ t[CountingMin] < t[CountingMax]
<1> USE LimitKeys
<1>1. CASE key = ChanMax
  <2>1. t = IF v > s[ChanMin] THEN [s EXCEPT ![ChanMax] = v] ELSE s
    BY <1>1 DEF WithLimits
  <2>2. QED
    BY <2>1 DEF Limits
<1>2. CASE key = ChanMin
  <2>1. t = IF v < s[ChanMax] THEN [s EXCEPT ![ChanMin] = v] ELSE s
    BY <1>2 DEF WithLimits
  <2>2. QED
    BY <2>1 DEF Limits
<1>3. CASE key = CountingMin
  <2> DEFINE u == IF held > s[CountingMin] THEN [s EXCEPT ![CountingMax] = held] ELSE s
  <2>1. t = IF v > held THEN s
            ELSE IF v < u[CountingMax] THEN [u EXCEPT ![CountingMin] = v] ELSE u
    BY <1>3 DEF WithLimits
  <2>2. /\ u = [k \in K |-> u[k]] /\ \A k \in Limits : u[k] \in Int
        /\ u[ChanMin] < u[ChanMax] /\ u[CountingMin] < u[CountingMax]
    BY DEF Limits
  <2>3. QED
    BY <2>1, <2>2 DEF Limits
<1>4. QED
  BY <1>1, <1>2, <1>3

-------------------------------------------------------------------------------
(* Loading a file.                                                         *)

LEMMA FileFacts ==
  ASSUME PlaceInv, Starting
  PROVE  /\ File \in Files /\ (File = Server <=> cur = 0)
         /\ cur > 0 => cur \in 1..Len(Modules) /\ File = Modules[cur]
<1>1. Len(Modules) \in Nat /\ cur \in 0..Len(Modules)
  BY ValuesAssumption DEF PlaceInv
<1>2. QED
  BY <1>1, ClassAssumption DEF File, Files

\* A key that is read is one of the server's, or a module is loaded.
LEMMA ReadFacts ==
  ASSUME IInv, phase = "load", cur = 0 => step <= 5
  PROVE  /\ cur = 0 => ~IsName(Current)
         /\ Current \in Limits => File \in Files \ {Server} /\ DefaultValue \in Int
<1>1. File \in Files /\ (File = Server <=> cur = 0)
  BY FileFacts DEF IInv, Starting
<1>2. ASSUME cur = 0
      PROVE  ~IsName(Current) /\ Current \notin Limits
  <2>1. step \in 1..5 /\ Current = ServerKeys[step]
    BY <1>2 DEF IInv, PlaceInv, Current, Plan
  <2>2. QED
    BY <2>1, ServerKeyFacts
<1>3. ASSUME Current \in Limits
      PROVE  File \in Files \ {Server} /\ DefaultValue \in Int
  <2>1. File \in Files \ {Server}
    BY <1>1, <1>2, <1>3
  <2>2. ~Overruns /\ ~IsName(Current)
    BY <1>3, LimitKeys DEF Overruns
  <2>3. DefaultValue = Default[File][Current]
    BY <2>2 DEF DefaultValue
  <2>4. QED
    BY <1>3, <2>1, <2>3, DefaultFacts
<1>4. QED
  BY <1>2, <1>3

\* One object with new values and names, the limits among them in order.
LEMMA ObjectUpdated ==
  ASSUME IInv, File \in Files, held' \in Int,
         NEW s, NEW n, ram' = [ram EXCEPT ![File] = [scalar |-> s, names |-> n]],
         s = [k \in Scalars(File) |-> s[k]],
         File # Server => /\ \A k \in Limits : s[k] \in Int
                          /\ s[ChanMin] < s[ChanMax] /\ s[CountingMin] < s[CountingMax]
  PROVE  ShapeInv' /\ LimitsOrdered'
<1>1. ram = [f \in Files |-> [scalar |-> ram[f].scalar, names |-> ram[f].names]]
  BY DEF IInv, ShapeInv
<1>2. ram' = [f \in Files |-> IF f = File THEN [scalar |-> s, names |-> n] ELSE ram[f]]
  BY <1>1
<1>3. \A f \in Files : ram'[f].scalar = IF f = File THEN s ELSE ram[f].scalar
  BY <1>2
<1>4. ram' = [f \in Files |-> [scalar |-> ram'[f].scalar, names |-> ram'[f].names]]
  <2>1. \A f \in Files : ram'[f] = [scalar |-> ram'[f].scalar, names |-> ram'[f].names]
    BY <1>1, <1>2
  <2>2. QED
    BY <1>2, <2>1
<1>5. \A f \in Files : ram'[f].scalar = [k \in Scalars(f) |-> ram'[f].scalar[k]]
  BY <1>3 DEF IInv, ShapeInv
<1>6. \A f \in Files \ {Server} : \A k \in Limits : ram'[f].scalar[k] \in Int
  BY <1>3 DEF IInv, ShapeInv
<1>7. \A f \in Files \ {Server} :
         /\ ram'[f].scalar[ChanMin] < ram'[f].scalar[ChanMax]
         /\ ram'[f].scalar[CountingMin] < ram'[f].scalar[CountingMax]
  BY <1>3 DEF IInv, LimitsOrdered
<1>8. ShapeInv'
  BY <1>4, <1>5, <1>6 DEF ShapeInv
<1>9. QED
  BY <1>7, <1>8 DEF LimitsOrdered

LEMMA ObjectKept ==
  ASSUME IInv, ram' = ram, held' = held
  PROVE  ShapeInv' /\ LimitsOrdered'
  BY DEF IInv, ShapeInv, LimitsOrdered

\* Whatever key is taken, the limits stay in order.
LEMMA TakeKeepsLimits ==
  ASSUME IInv, phase = "load", cur = 0 => step <= 5,
         NEW v, Current \in Limits => v \in Int, Take(v)
  PROVE  ShapeInv' /\ LimitsOrdered'
<1> DEFINE r == ram[File]
<1>1. File \in Files
  BY FileFacts DEF IInv, Starting
<1>2. /\ r = [scalar |-> r.scalar, names |-> r.names]
      /\ r.scalar = [k \in Scalars(File) |-> r.scalar[k]]
      /\ File # Server => /\ \A k \in Limits : r.scalar[k] \in Int
                          /\ r.scalar[ChanMin] < r.scalar[ChanMax]
                          /\ r.scalar[CountingMin] < r.scalar[CountingMax]
  BY <1>1 DEF IInv, ShapeInv, LimitsOrdered
<1>0. \A a : /\ [ram EXCEPT ![File].scalar = a] = [ram EXCEPT ![File] = [scalar |-> a, names |-> r.names]]
             /\ [ram EXCEPT ![File].names = a] = [ram EXCEPT ![File] = [scalar |-> r.scalar, names |-> a]]
  <2>1. TAKE a
  <2>2. ram[File] = [scalar |-> ram[File].scalar, names |-> ram[File].names]
    BY <1>2
  <2>3. /\ [ram[File] EXCEPT !.scalar = a] = [scalar |-> a, names |-> r.names]
        /\ [ram[File] EXCEPT !.names = a] = [scalar |-> r.scalar, names |-> a]
    BY <2>2
  <2>4. /\ [ram EXCEPT ![File].scalar = a]
              = [ram EXCEPT ![File] = [ram[File] EXCEPT !.scalar = a]]
        /\ [ram EXCEPT ![File].names = a]
              = [ram EXCEPT ![File] = [ram[File] EXCEPT !.names = a]]
    OBVIOUS
  <2>5. QED
    BY <2>3, <2>4
<1>3. held' \in Int
  <2>1. held' = IF Current = CountingMax THEN v ELSE held
    BY DEF Take
  <2>2. QED
    BY <2>1 DEF IInv, ShapeInv, Limits
<1>4. CASE IsName(Current)
  <2> DEFINE l == Current.id[1]
             n == [r.names EXCEPT ![l] = Append(r.names[l], v)]
  <2>1. ram' = [ram EXCEPT ![File].names = n]
    BY <1>4 DEF Take
  <2>2. ram' = [ram EXCEPT ![File] = [scalar |-> r.scalar, names |-> n]]
    BY <1>0, <2>1
  <2>3. QED
    BY <1>1, <1>2, <1>3, <2>2, ObjectUpdated
<1>5. CASE ~IsName(Current) /\ Current \in CountKeys
  <2> DEFINE s == [r.scalar EXCEPT ![Current] = v]
             n == [r.names EXCEPT ![ListOf(Current)] =
                      IF files'[File] = Missing THEN r.names[ListOf(Current)] ELSE <<>>]
  <2>1. ram' = [ram EXCEPT ![File] = [scalar |-> s, names |-> n]]
    <3>1. ram' = [[ram EXCEPT ![File].scalar[Current] = v] EXCEPT
                     ![File].names[ListOf(Current)] =
                        IF files'[File] = Missing THEN @ ELSE <<>>]
      BY <1>5 DEF Take
    <3> DEFINE R == [ram EXCEPT ![File] = [scalar |-> s, names |-> r.names]]
    <3>2. [ram EXCEPT ![File].scalar[Current] = v] = [ram EXCEPT ![File].scalar = s]
      OBVIOUS
    <3>3. [ram EXCEPT ![File].scalar[Current] = v] = R
      BY <1>0, <3>2
    <3>4. R[File] = [scalar |-> s, names |-> r.names] /\ DOMAIN R = Files
      BY <1>1 DEF IInv, ShapeInv
    <3>5. ram' = [R EXCEPT ![File].names = n]
      BY <3>1, <3>3, <3>4
    <3>6. R[File] = [scalar |-> R[File].scalar, names |-> R[File].names]
      BY <3>4
    <3>7. ram' = [R EXCEPT ![File] = [scalar |-> s, names |-> n]]
      <4> HIDE DEF R, s, n
      <4>1. [R[File] EXCEPT !.names = n] = [scalar |-> s, names |-> n]
        BY <3>4, <3>6
      <4>2. [R EXCEPT ![File].names = n] = [R EXCEPT ![File] = [R[File] EXCEPT !.names = n]]
        OBVIOUS
      <4>3. QED
        BY <3>5, <4>1, <4>2
    <3>8. [R EXCEPT ![File] = [scalar |-> s, names |-> n]]
             = [ram EXCEPT ![File] = [scalar |-> s, names |-> n]]
      BY <1>1 DEF IInv, ShapeInv
    <3>9. QED
      BY <3>7, <3>8
  <2>2. s = [k \in Scalars(File) |-> s[k]] /\ \A k \in Limits : s[k] = r.scalar[k]
    BY <1>2, <1>5, LimitKeys
  <2>3. ChanMin \in Limits /\ ChanMax \in Limits /\ CountingMin \in Limits /\ CountingMax \in Limits
    BY DEF Limits
  <2>4. QED
    BY <1>1, <1>2, <1>3, <2>1, <2>2, <2>3, ObjectUpdated
<1>6. CASE Current = CountingMax
  <2>1. ram' = ram
    BY <1>6, LimitKeys DEF Take, Limits
  <2>2. QED
    BY <1>3, <2>1 DEF IInv, ShapeInv, LimitsOrdered
<1>7. CASE Current \in {ChanMax, ChanMin, CountingMin}
  <2> DEFINE s == WithLimits(r.scalar, Current, v)
  <2>1. Current \in Limits /\ Current # CountingMax
    BY <1>7, LimitKeys DEF Limits
  <2>2. ram' = [ram EXCEPT ![File].scalar = s]
    BY <1>7, <2>1, LimitKeys DEF Take
  <2>3. ram' = [ram EXCEPT ![File] = [scalar |-> s, names |-> r.names]]
    BY <1>0, <2>2
  <2>4. File # Server /\ v \in Int /\ Limits \subseteq Scalars(File)
    BY <1>1, <2>1, ReadFacts, LimitKeys
  <2>5. held \in Int
    BY DEF IInv, ShapeInv
  <2>6. /\ s = [k \in Scalars(File) |-> s[k]]
        /\ \A k \in Limits : s[k] \in Int
        /\ s[ChanMin] < s[ChanMax] /\ s[CountingMin] < s[CountingMax]
    BY <1>2, <1>7, <2>4, <2>5, LimitsKept
  <2>7. QED
    BY <1>1, <1>3, <2>3, <2>6, ObjectUpdated
<1>8. CASE ~IsName(Current) /\ Current \notin CountKeys /\ Current \notin Limits
  <2> DEFINE s == [r.scalar EXCEPT ![Current] = v]
  <2>1. ram' = [ram EXCEPT ![File].scalar = s]
    BY <1>8 DEF Take, Limits
  <2>2. ram' = [ram EXCEPT ![File] = [scalar |-> s, names |-> r.names]]
    BY <1>0, <2>1
  <2>3. s = [k \in Scalars(File) |-> s[k]] /\ \A k \in Limits : s[k] = r.scalar[k]
    BY <1>2, <1>8
  <2>4. ChanMin \in Limits /\ ChanMax \in Limits /\ CountingMin \in Limits /\ CountingMax \in Limits
    BY DEF Limits
  <2>5. QED
    BY <1>1, <1>2, <1>3, <2>2, <2>3, <2>4, ObjectUpdated
<1>9. QED
  BY <1>4, <1>5, <1>6, <1>7, <1>8 DEF Limits

-------------------------------------------------------------------------------
(* One lemma per group of actions.                                         *)

LEMMA StartInit == Init => IInv
<1> SUFFICES ASSUME Init PROVE IInv
  OBVIOUS
<1>1. PlaceInv
  BY ValuesAssumption DEF Init, PlaceInv, Starting
<1>2. \A f \in Files : ram[f] = [scalar |-> Default[f], names |-> Names[f]]
  BY DEF Init, Fresh
<1>3. ShapeInv /\ LimitsOrdered
  <2>1. \A f \in Files : ram[f].scalar = Default[f]
    <3> SUFFICES ASSUME NEW f \in Files PROVE ram[f].scalar = Default[f]
      OBVIOUS
    <3>1. ram[f] = [scalar |-> Default[f], names |-> Names[f]]
      BY <1>2
    <3>2. QED
      BY <3>1
  <2>2. ram = [f \in Files |-> [scalar |-> ram[f].scalar, names |-> ram[f].names]]
    <3>1. ASSUME NEW f \in Files
          PROVE  ram[f] = [scalar |-> ram[f].scalar, names |-> ram[f].names]
      <4>1. ram[f] = [scalar |-> Default[f], names |-> Names[f]]
        BY <1>2
      <4>2. QED
        BY <4>1
    <3>2. QED
      BY <3>1 DEF Init, Fresh
  <2>3. \A f \in Files : ram[f].scalar = [k \in Scalars(f) |-> ram[f].scalar[k]]
    BY <2>1, DefaultFacts
  <2>4. \A f \in Files \ {Server} : \A k \in Limits : ram[f].scalar[k] \in Int
    BY <2>1, DefaultFacts
  <2>5. ShapeInv
    BY <2>2, <2>3, <2>4 DEF Init, ShapeInv
  <2>6. QED
    BY <2>1, <2>5, DefaultFacts DEF LimitsOrdered
<1>4. MapInv
  BY DEF Init, MapInv
<1>5. QED
  BY <1>1, <1>3, <1>4 DEF IInv

LEMMA BootStep ==
  ASSUME IInv, Boot
  PROVE  IInv'
<1>1. PlaceInv'
  <2>1. rewrite = NoRewrite
    BY DEF Boot, IInv, PlaceInv
  <2>2. Len(Modules) \in Nat
    BY ValuesAssumption
  <2>3. QED
    BY <2>1, <2>2 DEF Boot, PlaceInv, Starting
<1>2. \A f \in Files : ram'[f] = [scalar |-> Default[f], names |-> Names[f]]
  BY DEF Boot, Fresh
<1>3. ShapeInv' /\ LimitsOrdered'
  <2>1. \A f \in Files : ram'[f].scalar = Default[f]
    <3> SUFFICES ASSUME NEW f \in Files PROVE ram'[f].scalar = Default[f]
      OBVIOUS
    <3>1. ram'[f] = [scalar |-> Default[f], names |-> Names[f]]
      BY <1>2
    <3>2. QED
      BY <3>1
  <2>2. ram' = [f \in Files |-> [scalar |-> ram'[f].scalar, names |-> ram'[f].names]]
    <3>1. ASSUME NEW f \in Files
          PROVE  ram'[f] = [scalar |-> ram'[f].scalar, names |-> ram'[f].names]
      <4>1. ram'[f] = [scalar |-> Default[f], names |-> Names[f]]
        BY <1>2
      <4>2. QED
        BY <4>1
    <3>2. QED
      BY <3>1 DEF Boot, Fresh
  <2>3. held' \in Int
    BY DEF Boot, IInv, ShapeInv
  <2>4. ShapeInv'
    BY <2>1, <2>2, <2>3, DefaultFacts DEF ShapeInv
  <2>5. QED
    BY <2>1, <2>4, DefaultFacts DEF LimitsOrdered
<1>4. MapInv'
  BY DEF Boot, disk, IInv, MapInv
<1>5. QED
  BY <1>1, <1>3, <1>4 DEF IInv

LEMMA RowsKept == csv' = csv => Rows' = Rows
  BY DEF Rows

\* A step of a load keeps what is said of the mapping.
LEMMA LoadKeepsMapping ==
  ASSUME IInv, phase = "load", phase' \in {"load", "save", "dead", "off"}, cur' = cur,
         phase' = "save" => cur > 0, csv' = csv, mapping' = mapping
  PROVE  MapInv'
<1>1. cur \in Nat /\ Rows' = Rows
  BY RowsKept DEF IInv, PlaceInv
<1>2. QED
  BY <1>1 DEF IInv, MapInv

LEMMA LoadStep ==
  ASSUME IInv, ReadPresent \/ ReadUnwritable \/ Fill
  PROVE  IInv'
<1>1. /\ phase = "load" /\ (cur = 0 => step <= 5)
      /\ \E v : Take(v) /\ (Current \in Limits => v \in Int)
      /\ rewrite' = NoRewrite
  <2>1. CASE ReadPresent \/ ReadUnwritable
    <3>1. phase = "load" /\ rewrite' = NoRewrite /\ step <= Len(Plan)
      BY <2>1 DEF ReadPresent, ReadUnwritable, Reading
    <3>2. cur = 0 => step <= 5
      BY <3>1, ServerKeyFacts DEF Plan
    <3>3. CASE ReadPresent
      <4>1. Take(Parsed(Current, Stored, DefaultValue))
        BY <3>3 DEF ReadPresent
      <4>2. Current \in Limits => Parsed(Current, Stored, DefaultValue) \in Int
        BY <3>1, <3>2, ReadFacts, LimitIsNumber
      <4>3. QED
        BY <3>1, <3>2, <4>1, <4>2
    <3>4. CASE ReadUnwritable
      <4>1. Take(DefaultValue)
        BY <3>4 DEF ReadUnwritable
      <4>2. QED
        BY <3>1, <3>2, <4>1, ReadFacts
    <3>5. QED
      BY <2>1, <3>3, <3>4
  <2>2. CASE Fill
    <3>1. phase = "load" /\ Take(DefaultValue) /\ rewrite' = NoRewrite /\ (cur = 0 => step <= 5)
      BY <2>2 DEF Fill, IInv, PlaceInv
    <3>2. QED
      BY <3>1, ReadFacts
  <2>3. QED
    BY <2>1, <2>2
<1>2. PICK v : Take(v) /\ (Current \in Limits => v \in Int)
  BY <1>1
<1>3. step' = step + 1 /\ UNCHANGED <<csv, mapping, phase, cur>>
  BY <1>2 DEF Take
<1>4. ShapeInv' /\ LimitsOrdered'
  BY <1>1, <1>2, TakeKeepsLimits
<1>5. PlaceInv'
  BY <1>1, <1>3 DEF IInv, PlaceInv, Starting
<1>6. MapInv'
  BY <1>1, <1>3, LoadKeepsMapping
<1>7. QED
  BY <1>4, <1>5, <1>6 DEF IInv

LEMMA TruncateStep ==
  ASSUME IInv, Truncate
  PROVE  IInv'
<1>1. /\ phase = "load" /\ step <= Len(Plan)
      /\ UNCHANGED <<csv, ram, mapping, phase, cur, step, held>>
  BY DEF Truncate, Reading
<1>2. PlaceInv'
  BY <1>1, ServerKeyFacts DEF IInv, PlaceInv, Starting, Plan
<1>3. ShapeInv' /\ LimitsOrdered'
  BY <1>1, ObjectKept
<1>4. MapInv'
  BY <1>1, LoadKeepsMapping
<1>5. QED
  BY <1>2, <1>3, <1>4 DEF IInv

LEMMA LoadEndsStep ==
  ASSUME IInv, OverrunDies \/ OverrunThrows \/ LoadMissing \/ EndLoad
  PROVE  IInv'
<1>1. /\ phase = "load" /\ UNCHANGED <<csv, ram, mapping, cur, rewrite, held>>
      /\ rewrite = NoRewrite
      /\ step' \in {step, 1}
  BY DEF OverrunDies, OverrunThrows, LoadMissing, EndLoad, disk, Reading
<1>2. ShapeInv' /\ LimitsOrdered'
  BY <1>1, ObjectKept
<1>3. /\ phase' \in {"dead", "save"} => step' = step
      /\ phase' = "save" => cur > 0
      /\ phase' \in {"dead", "save"} \/ (phase' = "map" /\ cur = 0 /\ step' = 1)
  <2>1. CASE OverrunDies \/ LoadMissing \/ EndLoad
    <3>1. cur \in Nat
      BY DEF IInv, PlaceInv
    <3>2. QED
      BY <2>1, <3>1 DEF OverrunDies, LoadMissing, EndLoad
  <2>2. CASE OverrunThrows
    <3>1. step <= Len(Plan) /\ IsName(Current) /\ phase' = "save" /\ step' = step
      BY <2>2 DEF OverrunThrows, Reading, Overruns
    <3>2. cur = 0 => step <= 5
      BY <3>1, ServerKeyFacts DEF Plan
    <3>3. cur # 0
      BY <1>1, <3>1, <3>2, ReadFacts
    <3>4. QED
      BY <3>1, <3>3 DEF IInv, PlaceInv
  <2>3. QED
    BY <2>1, <2>2
<1>4. PlaceInv'
  BY <1>1, <1>3 DEF IInv, PlaceInv, Starting
<1>5. MapInv'
  <2>1. CASE phase' \in {"dead", "save"}
    BY <1>1, <1>3, <2>1, LoadKeepsMapping
  <2>2. CASE phase' = "map" /\ cur = 0 /\ step' = 1
    <3>1. mapping = <<>> /\ mapping' = <<>>
      BY <1>1, <2>2 DEF IInv, MapInv
    <3>2. csv' = Missing \/ csv' \in Seq(Seq(Tokens))
      BY <1>1 DEF IInv, MapInv
    <3>3. Len(Rows') \in Nat
      BY <3>2 DEF Rows
    <3>4. Mapped(mapping', Rows', 1)
      BY <3>1 DEF Mapped
    <3>5. QED
      BY <1>1, <2>2, <3>1, <3>2, <3>3, <3>4 DEF MapInv
  <2>3. QED
    BY <1>3, <2>1, <2>2
<1>6. QED
  BY <1>2, <1>4, <1>5 DEF IInv

\* The next module, with the mapping complete.
LEMMA AdvanceStep ==
  ASSUME IInv, Starting, Advance, rewrite = NoRewrite, Mapped(mapping, Rows, Len(Rows) + 1),
         UNCHANGED <<csv, ram, mapping, rewrite, held>>
  PROVE  IInv'
<1>1. ShapeInv' /\ LimitsOrdered'
  BY ObjectKept
<1>2. Len(Modules) \in Nat /\ cur \in 0..Len(Modules)
  BY ValuesAssumption DEF IInv, PlaceInv
<1>3. PlaceInv'
  BY <1>2 DEF Advance, PlaceInv, Starting
<1>4. MapInv'
  <2>1. Rows' = Rows /\ cur' > 0 /\ phase' \in {"load", "run"}
    BY <1>2, RowsKept DEF Advance
  <2>2. QED
    BY <2>1 DEF IInv, MapInv
<1>5. QED
  BY <1>1, <1>3, <1>4 DEF IInv

LEMMA SaveStep ==
  ASSUME IInv, Save
  PROVE  IInv'
<1>1. Mapped(mapping, Rows, Len(Rows) + 1) /\ Starting /\ rewrite = NoRewrite
  BY DEF Save, IInv, PlaceInv, MapInv, Starting
<1>2. QED
  BY <1>1, AdvanceStep DEF Save

LEMMA RowFacts ==
  ASSUME MapInv
  PROVE  /\ Rows \in Seq(Seq(Tokens)) /\ Len(Rows) \in Nat
         /\ \A n \in 1..Len(Rows) :
               /\ Whole(Rows[n]) <=> BadFields(Rows[n]) = {}
               /\ Throws(Rows[n]) => BadFields(Rows[n]) # {}
<1>1. Rows \in Seq(Seq(Tokens)) /\ Len(Rows) \in Nat
  BY DEF MapInv, Rows
<1>2. ASSUME NEW r \in Seq(Tokens)
      PROVE  Whole(r) <=> BadFields(r) = {}
  <2>1. Len(r) \in Nat /\ 9 \in NumberFields
    BY DEF NumberFields
  <2>2. ASSUME Whole(r), NEW i \in 1..9
        PROVE  ~(i > Len(r)) /\ (i \in NumberFields => r[i] = "number")
    BY <2>1, <2>2 DEF Whole
  <2>3. ASSUME BadFields(r) = {}
        PROVE  Whole(r)
    <3>1. \A i \in 1..9 : ~(i > Len(r)) /\ (i \in NumberFields => r[i] = "number")
      BY <2>3 DEF BadFields
    <3>2. ~(9 > Len(r))
      BY <3>1
    <3>3. QED
      BY <2>1, <3>1, <3>2 DEF Whole, NumberFields
  <2>4. QED
    BY <2>2, <2>3 DEF BadFields
<1>3. \A n \in 1..Len(Rows) : Rows[n] \in Seq(Tokens)
  BY <1>1
<1>4. QED
  BY <1>1, <1>2, <1>3 DEF Throws

LEMMA MapStep ==
  ASSUME IInv, MapRow \/ MapRowSkipped \/ MapRowThrows \/ MapEnds
  PROVE  IInv'
<1>1. phase = "map" /\ Mapped(mapping, Rows, step) /\ step \in Nat \ {0} /\ step <= Len(Rows) + 1
  BY DEF MapRow, MapRowSkipped, MapRowThrows, MapEnds, IInv, MapInv, PlaceInv
<1>2. Len(Rows) \in Nat /\ rewrite = NoRewrite
  BY <1>1, RowFacts DEF IInv, PlaceInv
<1>3. CASE MapRow \/ MapRowSkipped
  <2>1. /\ step <= Len(Rows) /\ step' = step + 1 /\ ~Throws(Rows[step])
        /\ UNCHANGED <<csv, ram, phase, cur, rewrite, held>>
        /\ \/ Whole(Rows[step]) /\ mapping' = Append(mapping, step)
           \/ ~Whole(Rows[step]) /\ mapping' = mapping
    <3>1. step \in 1..Len(Rows)
      BY <1>1, <1>2, <1>3 DEF MapRow, MapRowSkipped
    <3>2. /\ Whole(Rows[step]) <=> BadFields(Rows[step]) = {}
          /\ Throws(Rows[step]) => BadFields(Rows[step]) # {}
      BY <3>1, RowFacts DEF IInv
    <3>3. QED
      BY <1>3, <3>1, <3>2 DEF MapRow, MapRowSkipped, disk
  <2>2. PlaceInv' /\ ShapeInv' /\ LimitsOrdered'
    <3>1. PlaceInv'
      BY <2>1, <1>1, <1>2 DEF IInv, PlaceInv, Starting
    <3>2. QED
      BY <2>1, <1>1, <1>2, <3>1, ObjectKept
  <2>3. mapping \in Seq(Nat) /\ mapping' \in Seq(Nat)
    BY <1>1, <2>1, SMTT(30) DEF IInv, MapInv
  <2>4. \A i \in DOMAIN mapping : mapping[i] \in 1..(step - 1)
    BY <1>1, <2>3 DEF Mapped
  <2>5. Mapped(mapping', Rows', step + 1)
    <3>1. CASE Whole(Rows[step]) /\ mapping' = Append(mapping, step)
      <4>1. /\ DOMAIN mapping' = 1..(Len(mapping) + 1) /\ Len(mapping) \in Nat
            /\ DOMAIN mapping = 1..Len(mapping)
            /\ \A i \in DOMAIN mapping : mapping'[i] = mapping[i]
            /\ mapping'[Len(mapping) + 1] = step
        BY <1>1, <2>3, <3>1
      <4>2. {mapping'[i] : i \in DOMAIN mapping'} = {mapping[i] : i \in DOMAIN mapping} \cup {step}
        BY <4>1
      <4>3. {i \in 1..step : Whole(Rows[i])} = {i \in 1..(step - 1) : Whole(Rows[i])} \cup {step}
        BY <1>1, <3>1
      <4>4. ASSUME NEW i \in DOMAIN mapping', NEW j \in DOMAIN mapping', i < j
            PROVE  mapping'[i] < mapping'[j]
        BY <1>1, <2>4, <4>1, <4>4 DEF Mapped
      <4>5. \A i \in 1..step : ~Throws(Rows[i])
        BY <1>1, <2>1 DEF Mapped
      <4>6. /\ {mapping'[i] : i \in DOMAIN mapping'} = {i \in 1..step : Whole(Rows[i])}
            /\ \A i, j \in DOMAIN mapping' : i < j => mapping'[i] < mapping'[j]
        BY <1>1, <4>2, <4>3, <4>4 DEF Mapped
      <4>7. ASSUME NEW m, NEW n, m = mapping', n = step + 1
            PROVE  Mapped(m, Rows, n)
        <5>1. n - 1 = step
          BY <1>1, <4>7
        <5>2. {m[i] : i \in DOMAIN m} = {i \in 1..(n - 1) : Whole(Rows[i])}
          BY <4>6, <4>7, <5>1
        <5>3. \A i, j \in DOMAIN m : i < j => m[i] < m[j]
          BY <4>6, <4>7
        <5>4. \A i \in 1..(n - 1) : ~Throws(Rows[i])
          BY <4>5, <5>1
        <5>5. QED
          BY <5>2, <5>3, <5>4 DEF Mapped
      <4>8. Rows' = Rows
        BY <2>1, RowsKept
      <4>9. QED
        BY <4>7, <4>8
    <3>2. CASE ~Whole(Rows[step]) /\ mapping' = mapping
      <4>1. {i \in 1..step : Whole(Rows[i])} = {i \in 1..(step - 1) : Whole(Rows[i])}
        BY <1>1, <3>2
      <4>2. \A i \in 1..step : ~Throws(Rows[i])
        BY <1>1, <2>1 DEF Mapped
      <4>3. step + 1 - 1 = step /\ Rows' = Rows
        BY <1>1, <2>1 DEF Rows
      <4>4. QED
        BY <1>1, <3>2, <4>1, <4>2, <4>3 DEF Mapped
    <3>3. QED
      BY <2>1, <3>1, <3>2
  <2>6. MapInv'
    <3>1. Rows' = Rows /\ step + 1 <= Len(Rows) + 1
      BY <1>1, <1>2, <2>1 DEF Rows
    <3>2. QED
      BY <1>1, <2>1, <2>3, <2>5, <3>1 DEF IInv, MapInv
  <2>7. QED
    BY <2>2, <2>6 DEF IInv
<1>4. CASE MapRowThrows
  <2>1. phase' = "dead" /\ UNCHANGED <<csv, ram, mapping, cur, step, rewrite, held>>
    BY <1>4 DEF MapRowThrows, disk
  <2>2. PlaceInv' /\ ShapeInv' /\ LimitsOrdered'
    <3>1. PlaceInv'
      BY <1>2, <2>1 DEF IInv, PlaceInv, Starting
    <3>2. QED
      BY <1>2, <2>1, <3>1, ObjectKept
  <2>3. MapInv'
    BY <2>1 DEF IInv, MapInv
  <2>4. QED
    BY <2>2, <2>3 DEF IInv
<1>5. CASE MapEnds
  <2>1. step = Len(Rows) + 1 /\ Starting
    BY <1>1, <1>2, <1>5 DEF MapEnds, Starting
  <2>2. QED
    BY <1>1, <1>2, <1>5, <2>1, AdvanceStep DEF MapEnds, disk
<1>6. QED
  BY <1>3, <1>4, <1>5

LEMMA EnvironmentStep ==
  ASSUME IInv, Crash \/ EditFile \/ EditTable
  PROVE  IInv'
<1>1. /\ UNCHANGED <<ram, mapping, cur, step, held>>
      /\ phase' \in {"off", "dead", "run"}
      /\ rewrite' = NoRewrite
      /\ csv' = csv \/ csv' \in Tables
  BY DEF Crash, EditFile, EditTable, IInv, PlaceInv
<1>2. PlaceInv' /\ ShapeInv' /\ LimitsOrdered'
  <2>1. PlaceInv'
    BY <1>1 DEF IInv, PlaceInv, Starting
  <2>2. QED
    BY <1>1, <2>1, ObjectKept
<1>3. MapInv'
  BY <1>1, ValuesAssumption DEF IInv, MapInv
<1>4. QED
  BY <1>2, <1>3 DEF IInv

LEMMA StartupStep == IInv /\ [Next]_vars => IInv'
<1> SUFFICES ASSUME IInv, [Next]_vars
             PROVE  IInv'
  OBVIOUS
<1>1. CASE Next
  BY <1>1, BootStep, LoadStep, TruncateStep, LoadEndsStep, SaveStep, MapStep,
     EnvironmentStep DEF Next, StartStep
<1>2. CASE UNCHANGED vars
  <2>1. PlaceInv' /\ ShapeInv' /\ LimitsOrdered'
    <3>1. PlaceInv'
      BY <1>2 DEF vars, IInv, PlaceInv, Starting
    <3>2. QED
      BY <1>2, <3>1, ObjectKept DEF vars
  <2>2. MapInv'
    <3>1. Rows' = Rows
      BY <1>2, RowsKept DEF vars, disk
    <3>2. QED
      BY <1>2, <3>1 DEF vars, disk, IInv, MapInv
  <2>3. QED
    BY <2>1, <2>2 DEF IInv
<1>3. QED
  BY <1>1, <1>2

-------------------------------------------------------------------------------
(* The limits and the mapping.                                             *)

LEMMA Invariant == Spec => []IInv
  BY StartInit, StartupStep, PTL DEF Spec

\* Whatever the files hold, however often and wherever a start is cut, no module
\* works with an empty range (the setters of NIDeviceModule, loadCounters).
THEOREM LimitsStayOrdered == Spec => []LimitsOrdered
<1>1. IInv => LimitsOrdered
  BY DEF IInv
<1>2. QED
  BY <1>1, Invariant, PTL

\* For every table, the modules are loaded with the mapping of exactly its whole
\* rows, in order (loadMapping).
THEOREM MappingsAreWhole == Spec => []MappingIsWhole
<1>1. IInv => MappingIsWhole
  <2> SUFFICES ASSUME IInv, phase \in {"load", "save"}, cur > 0
               PROVE  /\ {mapping[i] : i \in DOMAIN mapping} = {i \in DOMAIN Rows : Whole(Rows[i])}
                      /\ \A i, j \in DOMAIN mapping : i < j => mapping[i] < mapping[j]
                      /\ \A i \in DOMAIN Rows : ~Throws(Rows[i])
    BY DEF MappingIsWhole, Whole
  <2>1. Mapped(mapping, Rows, Len(Rows) + 1)
    BY DEF IInv, MapInv
  <2>2. Len(Rows) + 1 - 1 = Len(Rows) /\ DOMAIN Rows = 1..Len(Rows)
    BY RowFacts DEF IInv
  <2>3. QED
    BY <2>1, <2>2 DEF Mapped
<1>2. QED
  BY <1>1, Invariant, PTL

-------------------------------------------------------------------------------
(* The keys a load reads.                                                  *)

NameKeysOf(f) ==
    IF f = Server THEN {}
    ELSE UNION {{Key(Plural[l], l, i) : i \in 0..(UintSize - 2)} : l \in Lists}

Id == Idents \X Nat

LEMMA KeyIs ==
  ASSUME NEW s, NEW n, NEW i
  PROVE  /\ Key(s, n, i).sec = s /\ Key(s, n, i).id = <<n, i>>
         /\ Key(s, n, i).id[1] = n /\ Key(s, n, i).id[2] = i
         /\ KeyRecord(Key(s, n, i))
         /\ n \in Idents /\ i \in Nat => Key(s, n, i).id \in Id
  BY DEF Key, KeyRecord, Id

LEMMA ScalarFacts ==
  ASSUME NEW f \in Files, NEW k \in Scalars(f)
  PROVE  /\ KeyRecord(k) /\ k.id \in Id /\ k.sec \in Idents
         /\ ~IsName(k) /\ k \in Watched[f]
<1>1. \E s, n : n \notin Lists /\ k = Key(s, n, 0)
  <2>1. CASE f = Server
    <3>1. PICK i \in 1..5 : k = ServerKeys[i]
      BY <2>1 DEF Scalars
    <3>2. CASE i = 1
      BY <3>1, <3>2 DEF ServerKeys, Lists
    <3>3. CASE i \in 2..5
      <4>1. \E n \in {"nbanalogsin", "nbanalogsout", "nbcounters", "nbalarms"} :
              k = Key("exlogmapping", n, 0)
        BY <3>1, <3>3 DEF ServerKeys
      <4>2. QED
        BY <4>1 DEF Lists
    <3>4. QED
      BY <3>2, <3>3
  <2>2. CASE f # Server
    <3>1. CASE k \in CountKeys
      BY <3>1 DEF CountKeys, CountKey, Lists
    <3>2. CASE k \in {Shunt[i] : i \in 1..3}
      <4>1. \E n \in {"shuntLocation", "shuntValue", "terminalConfig"} : k = Key("modules", n, 0)
        BY <3>2 DEF Shunt
      <4>2. QED
        BY <4>1 DEF Lists
    <3>3. CASE k \in {Type, Name, Alias}
      <4>1. \E n \in {"type", "moduleName", "alias"} : k = Key("modules", n, 0)
        BY <3>3 DEF Type, Name, Alias
      <4>2. QED
        BY <4>1 DEF Lists
    <3>4. CASE k \in {ChanMax, ChanMin}
      <4>1. \E n \in {"max", "min"} : k = Key("channels", n, 0)
        BY <3>4 DEF ChanMax, ChanMin
      <4>2. QED
        BY <4>1 DEF Lists
    <3>5. CASE k \in {Edge, Direction, CountingMax, CountingMin}
      <4>1. \E n \in {"edgeCountingMode", "countingDirection", "countingMax", "countingMin"} :
               k = Key("counters", n, 0)
        BY <3>5 DEF Edge, Direction, CountingMax, CountingMin
      <4>2. QED
        BY <4>1 DEF Lists
    <3>6. QED
      BY <2>2, <3>1, <3>2, <3>3, <3>4, <3>5 DEF Scalars
  <2>3. QED
    BY <2>1, <2>2
<1>2. PICK s, n : n \notin Lists /\ k = Key(s, n, 0)
  BY <1>1
<1>3. k.sec = s /\ k.id = <<n, 0>> /\ k.id[1] = n /\ KeyRecord(k)
  BY <1>2, KeyIs
<1>4. s \in Idents /\ n \in Idents
  BY <1>3, FilesAssumption
<1>5. k.id \in Id
  BY <1>2, <1>4, KeyIs
<1>6. QED
  BY <1>2, <1>3, <1>4, <1>5 DEF Watched, IsName

\* The section of a list is the section of its count.
LEMMA PluralFacts ==
  ASSUME NEW f \in Files, f # Server, NEW l \in Lists
  PROVE  /\ l \in Idents /\ Plural[l] \in Idents
         /\ CountKey(l) \in Scalars(f) /\ ListOf(CountKey(l)) = l
<1>1. CountKey(l) \in Scalars(f)
  BY DEF Scalars, CountKeys
<1>2. CountKey(l).sec = Plural[l]
  BY DEF CountKey, Key
<1>3. ListOf(CountKey(l)) = l
  BY <1>2 DEF ListOf, Plural, Lists
<1>4. QED
  BY <1>1, <1>2, <1>3, FilesAssumption

LEMMA NameFacts ==
  ASSUME NEW f \in Files, NEW k \in NameKeysOf(f)
  PROVE  /\ KeyRecord(k) /\ k.id \in Id /\ k.sec \in Idents
         /\ IsName(k) /\ k \in Watched[f]
         /\ \E l \in Lists : \E i \in 0..(UintSize - 2) : k = Key(Plural[l], l, i) /\ k.id = <<l, i>>
<1>1. f # Server
  BY DEF NameKeysOf
<1>2. PICK l \in Lists : \E i \in 0..(UintSize - 2) : k = Key(Plural[l], l, i)
  BY <1>1 DEF NameKeysOf
<1>3. PICK i \in 0..(UintSize - 2) : k = Key(Plural[l], l, i)
  BY <1>2
<1>4. i \in Nat /\ l \in Idents /\ Plural[l] \in Idents
  <2>1. UintSize \in Nat
    BY ValuesAssumption
  <2>2. i \in Nat
    BY <2>1
  <2>3. QED
    BY <2>2, <1>1, PluralFacts
<1>5. /\ k.sec = Plural[l] /\ k.id = <<l, i>> /\ KeyRecord(k)
      /\ k.id \in Id /\ k.id[1] = l
  BY <1>3, <1>4, KeyIs
<1>6. k.id \in Id /\ IsName(k)
  BY <1>5 DEF IsName
<1>7. k \in Watched[f]
  BY <1>1, <1>2, <1>3 DEF Watched
<1>8. QED
  BY <1>3, <1>4, <1>5, <1>6, <1>7

LEMMA WatchedFacts ==
  ASSUME NEW f \in Files, NEW k \in Watched[f]
  PROVE  KeyRecord(k) /\ k.id \in Id /\ k.sec \in Idents
<1>1. \/ k \in Scalars(f) \/ k \in NameKeysOf(f) \/ k = Key("notes", "note", 0)
  BY DEF Watched, NameKeysOf
<1>2. CASE k = Key("notes", "note", 0)
  <2>1. 0 \in Nat /\ "notes" \in Idents /\ "note" \in Idents
    BY FilesAssumption
  <2>2. QED
    BY <1>2, <2>1, KeyIs
<1>3. QED
  BY <1>1, <1>2, ScalarFacts, NameFacts

\* The reads of a module whose shunt begins behind the first a keys, with n, m and p
\* names of channels, counters and outputs.
ReadOf(a, n, m, p) ==
    << Type, Name, Alias >> \o (IF a = 3 THEN <<>> ELSE Shunt)
    \o << CountKey("channel"), ChanMax, ChanMin >>
    \o [i \in 1..n |-> Key(Plural["channel"], "channel", i - 1)]
    \o << CountKey("counter") >> \o [i \in 1..m |-> Key(Plural["counter"], "counter", i - 1)]
    \o << Edge, Direction, CountingMax, CountingMin >>
    \o << CountKey("output") >> \o [i \in 1..p |-> Key(Plural["output"], "output", i - 1)]

\* The key at place j.
KeyAt(a, n, m, p, j) ==
    IF j = 1 THEN Type ELSE IF j = 2 THEN Name ELSE IF j = 3 THEN Alias
    ELSE IF j <= a THEN Shunt[j - 3]
    ELSE IF j = a + 1 THEN CountKey("channel")
    ELSE IF j = a + 2 THEN ChanMax
    ELSE IF j = a + 3 THEN ChanMin
    ELSE IF j <= a + 3 + n THEN Key("channels", "channel", j - a - 4)
    ELSE IF j = a + 4 + n THEN CountKey("counter")
    ELSE IF j <= a + 4 + n + m THEN Key("counters", "counter", j - a - n - 5)
    ELSE IF j = a + 5 + n + m THEN Edge
    ELSE IF j = a + 6 + n + m THEN Direction
    ELSE IF j = a + 7 + n + m THEN CountingMax
    ELSE IF j = a + 8 + n + m THEN CountingMin
    ELSE IF j = a + 9 + n + m THEN CountKey("output")
    ELSE Key("outputs", "output", j - a - n - m - 10)

LEMMA Joined2 ==
  ASSUME NEW T, NEW X \in Seq(T), NEW Y \in Seq(T), NEW x \in Nat, NEW y \in Nat,
         Len(X) = x, Len(Y) = y
  PROVE  /\ X \o Y \in Seq(T) /\ Len(X \o Y) = x + y
         /\ \A j \in 1..(x + y) : (X \o Y)[j] = IF j <= x THEN X[j] ELSE Y[j - x]
  OBVIOUS

LEMMA ReadOfIs ==
  ASSUME NEW a \in {3, 6}, NEW n \in Nat, NEW m \in Nat, NEW p \in Nat
  PROVE  /\ Len(ReadOf(a, n, m, p)) = a + 9 + n + m + p
         /\ \A j \in 1..(a + 9 + n + m + p) : ReadOf(a, n, m, p)[j] = KeyAt(a, n, m, p, j)
<1> DEFINE T == {Type, Name, Alias, ChanMax, ChanMin, Edge, Direction, CountingMax, CountingMin}
                 \cup {Shunt[i] : i \in 1..3} \cup CountKeys
                 \cup {Key(Plural[l], l, i) : l \in Lists, i \in Int}
           S  == IF a = 3 THEN <<>> ELSE Shunt
           B1 == << Type, Name, Alias >>
           B3 == << CountKey("channel"), ChanMax, ChanMin >>
           N1 == [i \in 1..n |-> Key(Plural["channel"], "channel", i - 1)]
           B5 == << CountKey("counter") >>
           N2 == [i \in 1..m |-> Key(Plural["counter"], "counter", i - 1)]
           B7 == << Edge, Direction, CountingMax, CountingMin >>
           B8 == << CountKey("output") >>
           N3 == [i \in 1..p |-> Key(Plural["output"], "output", i - 1)]
<1>1. Plural["channel"] = "channels" /\ Plural["counter"] = "counters" /\ Plural["output"] = "outputs"
  BY DEF Plural, Lists
<1>2. /\ B1 \in Seq(T) /\ Len(B1) = 3
      /\ S \in Seq(T) /\ Len(S) = a - 3
      /\ B3 \in Seq(T) /\ Len(B3) = 3 /\ B5 \in Seq(T) /\ Len(B5) = 1
      /\ B7 \in Seq(T) /\ Len(B7) = 4 /\ B8 \in Seq(T) /\ Len(B8) = 1
  <2>1. \A l \in Lists : CountKey(l) \in T
    BY DEF CountKeys
  <2>2. {"channel", "counter", "output"} = Lists
    BY DEF Lists
  <2>3. Shunt \in Seq(T) /\ Len(Shunt) = 3
    <3>1. Shunt[1] \in T /\ Shunt[2] \in T /\ Shunt[3] \in T
      OBVIOUS
    <3> HIDE DEF T
    <3>2. PICK x, y, z : Shunt = <<x, y, z>>
      BY DEF Shunt
    <3>3. QED
      BY <3>1, <3>2
  <2>4. /\ Type \in T /\ Name \in T /\ Alias \in T /\ ChanMax \in T /\ ChanMin \in T
        /\ Edge \in T /\ Direction \in T /\ CountingMax \in T /\ CountingMin \in T
    OBVIOUS
  <2> HIDE DEF T
  <2>5. S \in Seq(T) /\ Len(S) = a - 3
    <3>1. CASE a = 3
      BY <3>1
    <3>2. CASE a = 6
      BY <3>2, <2>3
    <3>3. QED
      BY <3>1, <3>2
  <2>6. /\ B1 \in Seq(T) /\ Len(B1) = 3 /\ B3 \in Seq(T) /\ Len(B3) = 3
    BY <2>1, <2>2, <2>4
  <2>7. /\ B5 \in Seq(T) /\ Len(B5) = 1 /\ B7 \in Seq(T) /\ Len(B7) = 4
        /\ B8 \in Seq(T) /\ Len(B8) = 1
    BY <2>1, <2>2, <2>4
  <2>8. QED
    BY <2>5, <2>6, <2>7
<1>3. /\ N1 \in Seq(T) /\ Len(N1) = n /\ N2 \in Seq(T) /\ Len(N2) = m
      /\ N3 \in Seq(T) /\ Len(N3) = p
  <2>1. \A l \in Lists, i \in Int : Key(Plural[l], l, i) \in T
    OBVIOUS
  <2> HIDE DEF T
  <2>2. {"channel", "counter", "output"} = Lists
    BY DEF Lists
  <2>3. /\ \A i \in 1..n : Key(Plural["channel"], "channel", i - 1) \in T
        /\ \A i \in 1..m : Key(Plural["counter"], "counter", i - 1) \in T
        /\ \A i \in 1..p : Key(Plural["output"], "output", i - 1) \in T
    BY <2>1, <2>2
  <2>4. QED
    BY <2>3
<1>4. /\ \A j \in 1..3 : B1[j] = KeyAt(a, n, m, p, j)
      /\ \A j \in 4..a : S[j - 3] = KeyAt(a, n, m, p, j)
      /\ \A j \in (a + 1)..(a + 3) : B3[j - a] = KeyAt(a, n, m, p, j)
      /\ \A j \in (a + 4)..(a + 3 + n) : N1[j - (a + 3)] = KeyAt(a, n, m, p, j)
      /\ B5[1] = KeyAt(a, n, m, p, a + 4 + n)
      /\ \A j \in (a + 5 + n)..(a + 4 + n + m) : N2[j - (a + 4 + n)] = KeyAt(a, n, m, p, j)
      /\ \A j \in (a + 5 + n + m)..(a + 8 + n + m) : B7[j - (a + 4 + n + m)] = KeyAt(a, n, m, p, j)
      /\ B8[1] = KeyAt(a, n, m, p, a + 9 + n + m)
      /\ \A j \in (a + 10 + n + m)..(a + 9 + n + m + p) :
            N3[j - (a + 9 + n + m)] = KeyAt(a, n, m, p, j)
  <2>1. \A j \in 1..3 : B1[j] = KeyAt(a, n, m, p, j)
    BY DEF KeyAt
  <2>2. \A j \in 4..a : S[j - 3] = KeyAt(a, n, m, p, j)
    BY DEF KeyAt
  <2>3. \A j \in (a + 1)..(a + 3) : B3[j - a] = KeyAt(a, n, m, p, j)
    BY DEF KeyAt
  <2>4. \A j \in (a + 4)..(a + 3 + n) : N1[j - (a + 3)] = KeyAt(a, n, m, p, j)
    <3> SUFFICES ASSUME NEW j \in (a + 4)..(a + 3 + n)
                 PROVE  N1[j - (a + 3)] = KeyAt(a, n, m, p, j)
      OBVIOUS
    <3>1. j - (a + 3) \in 1..n /\ j - (a + 3) - 1 = j - a - 4
      OBVIOUS
    <3>2. N1[j - (a + 3)] = Key("channels", "channel", j - a - 4)
      BY <1>1, <3>1
    <3>3. QED
      BY <3>2 DEF KeyAt
  <2>5. B5[1] = KeyAt(a, n, m, p, a + 4 + n)
    BY DEF KeyAt
  <2>6. \A j \in (a + 5 + n)..(a + 4 + n + m) : N2[j - (a + 4 + n)] = KeyAt(a, n, m, p, j)
    <3> SUFFICES ASSUME NEW j \in (a + 5 + n)..(a + 4 + n + m)
                 PROVE  N2[j - (a + 4 + n)] = KeyAt(a, n, m, p, j)
      OBVIOUS
    <3>1. j - (a + 4 + n) \in 1..m /\ j - (a + 4 + n) - 1 = j - a - n - 5
      OBVIOUS
    <3>2. N2[j - (a + 4 + n)] = Key("counters", "counter", j - a - n - 5)
      BY <1>1, <3>1
    <3>3. QED
      BY <3>2 DEF KeyAt
  <2>7. \A j \in (a + 5 + n + m)..(a + 8 + n + m) : B7[j - (a + 4 + n + m)] = KeyAt(a, n, m, p, j)
    BY DEF KeyAt
  <2>8. B8[1] = KeyAt(a, n, m, p, a + 9 + n + m)
    BY DEF KeyAt
  <2>9. \A j \in (a + 10 + n + m)..(a + 9 + n + m + p) :
            N3[j - (a + 9 + n + m)] = KeyAt(a, n, m, p, j)
    <3> SUFFICES ASSUME NEW j \in (a + 10 + n + m)..(a + 9 + n + m + p)
                 PROVE  N3[j - (a + 9 + n + m)] = KeyAt(a, n, m, p, j)
      OBVIOUS
    <3>1. j - (a + 9 + n + m) \in 1..p /\ j - (a + 9 + n + m) - 1 = j - a - n - m - 10
      OBVIOUS
    <3>2. N3[j - (a + 9 + n + m)] = Key("outputs", "output", j - a - n - m - 10)
      BY <1>1, <3>1
    <3>3. /\ ~(j <= a) /\ j # 1 /\ j # 2 /\ j # 3 /\ j # a + 1 /\ j # a + 2 /\ j # a + 3
          /\ ~(j <= a + 3 + n) /\ j # a + 4 + n /\ ~(j <= a + 4 + n + m)
          /\ j # a + 5 + n + m /\ j # a + 6 + n + m /\ j # a + 7 + n + m
          /\ j # a + 8 + n + m /\ j # a + 9 + n + m
      OBVIOUS
    <3>4. KeyAt(a, n, m, p, j) = Key("outputs", "output", j - a - n - m - 10)
      BY ONLY <3>3 DEF KeyAt
    <3>5. QED
      BY <3>2, <3>4
  <2>10. QED
    BY <2>1, <2>2, <2>3, <2>4, <2>5, <2>6, <2>7, <2>8, <2>9
<1>5. ReadOf(a, n, m, p) = B1 \o S \o B3 \o N1 \o B5 \o N2 \o B7 \o B8 \o N3
  BY DEF ReadOf
<1> HIDE DEF T, S, B1, B3, N1, B5, N2, B7, B8, N3
<1> DEFINE C2 == B1 \o S
           C3 == C2 \o B3
           C4 == C3 \o N1
           C5 == C4 \o B5
           C6 == C5 \o N2
           C7 == C6 \o B7
           C8 == C7 \o B8
           C9 == C8 \o N3
           Fit(C, c) == C \in Seq(T) /\ Len(C) = c /\ \A j \in 1..c : C[j] = KeyAt(a, n, m, p, j)
<1>6. ASSUME NEW C, NEW D \in Seq(T), NEW c \in Nat, NEW d \in Nat, Fit(C, c), Len(D) = d,
             \A j \in (c + 1)..(c + d) : D[j - c] = KeyAt(a, n, m, p, j)
      PROVE  Fit(C \o D, c + d)
  <2>1. /\ C \o D \in Seq(T) /\ Len(C \o D) = c + d
        /\ \A j \in 1..(c + d) : (C \o D)[j] = IF j <= c THEN C[j] ELSE D[j - c]
    BY <1>6, Joined2
  <2>2. ASSUME NEW j \in 1..(c + d)
        PROVE  (C \o D)[j] = KeyAt(a, n, m, p, j)
    <3>1. CASE j <= c
      BY <1>6, <2>1, <3>1
    <3>2. CASE ~(j <= c)
      <4>1. j \in (c + 1)..(c + d)
        BY <3>2
      <4>2. QED
        BY <1>6, <2>1, <3>2, <4>1
    <3>3. QED
      BY <3>1, <3>2
  <2>3. QED
    BY <2>1, <2>2
<1>7. Fit(B1, 3)
  BY <1>2, <1>4
<1> HIDE DEF Fit
<1>8. Fit(C2, a)
  <2>1. a - 3 \in Nat /\ 3 + (a - 3) = a /\ 3 + 1 = 4
    OBVIOUS
  <2>2. \A j \in (3 + 1)..(3 + (a - 3)) : S[j - 3] = KeyAt(a, n, m, p, j)
    BY <1>4, <2>1
  <2>3. Fit(B1 \o S, 3 + (a - 3))
    BY <1>2, <1>6, <1>7, <2>1, <2>2
  <2>4. QED
    BY <2>1, <2>3
<1>9. Fit(C3, a + 3)
  <2> HIDE DEF C2
  <2>1. \A j \in (a + 1)..(a + 3) : B3[j - a] = KeyAt(a, n, m, p, j)
    BY <1>4
  <2>2. QED
    BY <1>2, <1>6, <1>8, <2>1
<1>10. Fit(C4, a + 3 + n)
  <2>1. a + 3 \in Nat /\ a + 3 + 1 = a + 4
    OBVIOUS
  <2> HIDE DEF C3
  <2>2. \A j \in (a + 3 + 1)..(a + 3 + n) : N1[j - (a + 3)] = KeyAt(a, n, m, p, j)
    BY <1>4, <2>1
  <2>3. QED
    BY <1>3, <1>6, <1>9, <2>1, <2>2
<1>11. Fit(C5, a + 4 + n)
  <2>1. a + 3 + n \in Nat /\ a + 3 + n + 1 = a + 4 + n
    OBVIOUS
  <2> HIDE DEF C4
  <2>2. \A j \in (a + 3 + n + 1)..(a + 3 + n + 1) : j = a + 4 + n /\ j - (a + 3 + n) = 1
    OBVIOUS
  <2>4. \A j \in (a + 3 + n + 1)..(a + 3 + n + 1) : B5[j - (a + 3 + n)] = KeyAt(a, n, m, p, j)
    BY <1>4, <2>2
  <2>3. Fit(C5, a + 3 + n + 1)
    BY <1>2, <1>6, <1>10, <2>1, <2>4
  <2>5. QED
    BY <2>1, <2>3
<1>12. Fit(C6, a + 4 + n + m)
  <2>1. a + 4 + n \in Nat /\ a + 4 + n + 1 = a + 5 + n
    OBVIOUS
  <2> HIDE DEF C5
  <2>2. \A j \in (a + 4 + n + 1)..(a + 4 + n + m) : N2[j - (a + 4 + n)] = KeyAt(a, n, m, p, j)
    BY <1>4, <2>1
  <2>3. QED
    BY <1>3, <1>6, <1>11, <2>1, <2>2
<1>13. Fit(C7, a + 8 + n + m)
  <2>1. /\ a + 4 + n + m \in Nat /\ a + 4 + n + m + 1 = a + 5 + n + m
        /\ a + 4 + n + m + 4 = a + 8 + n + m
    OBVIOUS
  <2> HIDE DEF C6
  <2>2. \A j \in (a + 4 + n + m + 1)..(a + 4 + n + m + 4) : B7[j - (a + 4 + n + m)] = KeyAt(a, n, m, p, j)
    BY <1>4, <2>1
  <2>3. Fit(C7, a + 4 + n + m + 4)
    BY <1>2, <1>6, <1>12, <2>1, <2>2
  <2>4. QED
    BY <2>1, <2>3
<1>14. Fit(C8, a + 9 + n + m)
  <2>1. a + 8 + n + m \in Nat /\ a + 8 + n + m + 1 = a + 9 + n + m
    OBVIOUS
  <2> HIDE DEF C7
  <2>2. \A j \in (a + 8 + n + m + 1)..(a + 8 + n + m + 1) : j = a + 9 + n + m /\ j - (a + 8 + n + m) = 1
    OBVIOUS
  <2>4. \A j \in (a + 8 + n + m + 1)..(a + 8 + n + m + 1) : B8[j - (a + 8 + n + m)] = KeyAt(a, n, m, p, j)
    BY <1>4, <2>2
  <2>3. Fit(C8, a + 8 + n + m + 1)
    BY <1>2, <1>6, <1>13, <2>1, <2>4
  <2>5. QED
    BY <2>1, <2>3
<1>15. Fit(C9, a + 9 + n + m + p)
  <2>1. a + 9 + n + m \in Nat /\ a + 9 + n + m + 1 = a + 10 + n + m
    OBVIOUS
  <2> HIDE DEF C8
  <2>2. \A j \in (a + 9 + n + m + 1)..(a + 9 + n + m + p) : N3[j - (a + 9 + n + m)] = KeyAt(a, n, m, p, j)
    BY <1>4, <2>1
  <2>3. QED
    BY <1>3, <1>6, <1>14, <2>1, <2>2
<1>16. C9 = ReadOf(a, n, m, p)
  BY <1>5
<1>17. QED
  BY <1>15, <1>16 DEF Fit

-------------------------------------------------------------------------------
(* What is stored, and what a load has read so far.                        *)

CountOf(l) == IF files[File] = Missing THEN 0 ELSE ram[File].scalar[CountKey(l)]
First == IF ram[File].scalar[Alias] = Empty THEN 3 ELSE 6

\* The types of what the objects hold.
TypeInv ==
    /\ phase \in {"off", "load", "map", "save", "run", "dead"}
    /\ cur \in 0..(Len(Modules) + 1) /\ writable \in BOOLEAN /\ aborted \in BOOLEAN
    /\ \A f \in Files : ram[f].scalar \in [Scalars(f) -> Values]
    /\ \A f \in Files \ {Server} : \A l \in Lists :
          ram[f].scalar[CountKey(l)] \in 0..(UintSize - 1)

\* The files; the one that is rewritten is empty, and a load that can write has
\* written the file behind its first key.
DiskInv ==
    /\ files \in [Files -> {Missing} \cup IniFiles]
    /\ intent \in [Files -> {Missing} \cup IniFiles]
    /\ rewrite = NoRewrite \/ rewrite \in IniFiles
    /\ rewrite # NoRewrite => files[File] = <<>> /\ step <= Len(Plan)
    /\ phase = "map" => cur = 0
    /\ writable /\ phase = "load" /\ step > 1 => files[File] # Missing

StoreInv == IInv /\ TypeInv /\ DiskInv

LEMMA CountFacts ==
  ASSUME IInv, TypeInv, Starting, cur # 0
  PROVE  /\ File \in Files \ {Server} /\ First \in {3, 6}
         /\ \A l \in Lists : CountOf(l) \in 0..(UintSize - 1) /\ CountOf(l) \in Nat
<1>1. File \in Files \ {Server}
  BY FileFacts DEF IInv
<1>2. UintSize \in Nat /\ UintSize > 1
  BY ValuesAssumption
<1>3. ASSUME NEW l \in Lists
      PROVE  CountOf(l) \in 0..(UintSize - 1) /\ CountOf(l) \in Nat
  <2>1. ram[File].scalar[CountKey(l)] \in 0..(UintSize - 1)
    BY <1>1 DEF TypeInv
  <2>2. QED
    BY <1>2, <2>1 DEF CountOf
<1>4. QED
  BY <1>1, <1>3 DEF First

LEMMA PlanIs ==
  ASSUME IInv, TypeInv, Starting, cur # 0,
         NEW a, a = First,
         NEW n, n = CountOf("channel"), NEW m, m = CountOf("counter"), NEW p, p = CountOf("output")
  PROVE  Plan = ReadOf(a, n, m, p)
<1>1. "channel" \in Lists /\ "counter" \in Lists /\ "output" \in Lists
  BY DEF Lists
<1>2. \A l \in Lists : CountOf(l) \in Nat
  BY CountFacts
<1>3. ASSUME NEW l \in Lists
      PROVE  NameKeys(File, l) = [i \in 1..CountOf(l) |-> Key(Plural[l], l, i - 1)]
  <2>1. CASE files[File] = Missing
    <3>1. CountOf(l) = 0 /\ NameKeys(File, l) = <<>>
      BY <2>1 DEF CountOf, NameKeys
    <3>2. 1..0 = {}
      OBVIOUS
    <3>3. QED
      BY <3>1, <3>2
  <2>2. CASE files[File] # Missing
    BY <2>2 DEF CountOf, NameKeys
  <2>3. QED
    BY <2>1, <2>2
<1>4. (IF ram[File].scalar[Alias] = Empty THEN <<>> ELSE Shunt) = IF a = 3 THEN <<>> ELSE Shunt
  BY DEF First
<1>5. QED
  BY <1>1, <1>3, <1>4 DEF Plan, ReadOf

\* Every key that is read is a value of the class or a name.
LEMMA KeyAtIs ==
  ASSUME NEW f \in Files \ {Server}, NEW a \in {3, 6},
         NEW n \in 0..(UintSize - 1), NEW m \in 0..(UintSize - 1), NEW p \in 0..(UintSize - 1),
         NEW j \in 1..(a + 9 + n + m + p)
  PROVE  KeyAt(a, n, m, p, j) \in Scalars(f) \cup NameKeysOf(f)
<1>1. UintSize \in Nat /\ UintSize > 1
  BY ValuesAssumption
<1>2. n \in Nat /\ m \in Nat /\ p \in Nat
  BY <1>1
<1>3. \A l \in Lists : CountKey(l) \in Scalars(f)
  BY PluralFacts
<1>4. "channel" \in Lists /\ "counter" \in Lists /\ "output" \in Lists
  BY DEF Lists
<1>5. Plural["channel"] = "channels" /\ Plural["counter"] = "counters" /\ Plural["output"] = "outputs"
  BY DEF Plural, Lists
<1>6. \A l \in Lists : \A i \in 0..(UintSize - 2) : Key(Plural[l], l, i) \in NameKeysOf(f)
  BY DEF NameKeysOf
<1>7. /\ \A i \in 0..(UintSize - 2) : Key("channels", "channel", i) \in NameKeysOf(f)
      /\ \A i \in 0..(UintSize - 2) : Key("counters", "counter", i) \in NameKeysOf(f)
      /\ \A i \in 0..(UintSize - 2) : Key("outputs", "output", i) \in NameKeysOf(f)
  BY <1>4, <1>5, <1>6
<1>8. /\ {Type, Name, Alias, ChanMax, ChanMin, Edge, Direction, CountingMax, CountingMin} \subseteq Scalars(f)
      /\ \A i \in 1..3 : Shunt[i] \in Scalars(f)
  BY DEF Scalars
<1>9. CASE j <= a + 3
  BY <1>2, <1>3, <1>4, <1>8, <1>9 DEF KeyAt
<1>10. CASE a + 3 < j /\ j <= a + 3 + n
  <2>1. j - a - 4 \in 0..(UintSize - 2)
    BY <1>1, <1>2, <1>10
  <2>2. KeyAt(a, n, m, p, j) = Key("channels", "channel", j - a - 4)
    BY <1>2, <1>10 DEF KeyAt
  <2>3. QED
    BY <1>7, <2>1, <2>2
<1>11. CASE j = a + 4 + n
  <2>1. KeyAt(a, n, m, p, j) = CountKey("counter")
    BY <1>2, <1>11 DEF KeyAt
  <2>2. QED
    BY <1>3, <1>4, <2>1
<1>12. CASE a + 4 + n < j /\ j <= a + 4 + n + m
  <2>1. j - a - n - 5 \in 0..(UintSize - 2)
    BY <1>1, <1>2, <1>12
  <2>2. KeyAt(a, n, m, p, j) = Key("counters", "counter", j - a - n - 5)
    BY <1>2, <1>12 DEF KeyAt
  <2>3. QED
    BY <1>7, <2>1, <2>2
<1>13. CASE a + 4 + n + m < j /\ j <= a + 9 + n + m
  <2>1. KeyAt(a, n, m, p, j) \in {Edge, Direction, CountingMax, CountingMin, CountKey("output")}
    BY <1>2, <1>13 DEF KeyAt
  <2>2. QED
    BY <1>3, <1>4, <1>8, <2>1
<1>14. CASE a + 9 + n + m < j
  <2>1. j - a - n - m - 10 \in 0..(UintSize - 2)
    BY <1>1, <1>2, <1>14
  <2>2. KeyAt(a, n, m, p, j) = Key("outputs", "output", j - a - n - m - 10)
    BY <1>2, <1>14 DEF KeyAt
  <2>3. QED
    BY <1>7, <2>1, <2>2
<1>15. QED
  BY <1>2, <1>9, <1>10, <1>11, <1>12, <1>13, <1>14

LEMMA PlanFacts ==
  ASSUME IInv, TypeInv, phase = "load"
  PROVE  /\ Len(Plan) \in Nat /\ Len(Plan) >= 1
         /\ \A j \in 1..Len(Plan) : Plan[j] \in Scalars(File) \cup NameKeysOf(File)
<1>0. File \in Files /\ (File = Server <=> cur = 0) /\ Starting
  BY FileFacts DEF IInv, Starting
<1>1. CASE cur = 0
  <2>1. Plan = ServerKeys /\ Len(Plan) = 5 /\ Scalars(File) = {ServerKeys[i] : i \in 1..5}
    BY <1>0, <1>1, ServerKeyFacts DEF Plan, Scalars
  <2>2. QED
    BY <2>1
<1>2. CASE cur # 0
  <2>1. PICK a, n, m, p : /\ a = First /\ n = CountOf("channel")
                          /\ m = CountOf("counter") /\ p = CountOf("output")
    OBVIOUS
  <2>2. "channel" \in Lists /\ "counter" \in Lists /\ "output" \in Lists
    BY DEF Lists
  <2>3. /\ File \in Files \ {Server} /\ a \in {3, 6}
        /\ n \in 0..(UintSize - 1) /\ m \in 0..(UintSize - 1) /\ p \in 0..(UintSize - 1)
        /\ n \in Nat /\ m \in Nat /\ p \in Nat
    BY <1>0, <1>2, <2>1, <2>2, CountFacts
  <2>4. Plan = ReadOf(a, n, m, p)
    BY <1>0, <1>2, <2>1, PlanIs
  <2>5. /\ Len(Plan) = a + 9 + n + m + p
        /\ \A j \in 1..(a + 9 + n + m + p) : Plan[j] = KeyAt(a, n, m, p, j)
    BY <2>3, <2>4, ReadOfIs, ZenonT(30)
  <2>6. \A j \in 1..(a + 9 + n + m + p) : KeyAt(a, n, m, p, j) \in Scalars(File) \cup NameKeysOf(File)
    BY <2>3, KeyAtIs
  <2>7. QED
    BY <2>3, <2>5, <2>6
<1>3. QED
  BY <1>1, <1>2

-------------------------------------------------------------------------------
(* The object behind one read.                                             *)

ScalarAfter(s, k, v) ==
    IF IsName(k) \/ k = CountingMax THEN s
    ELSE IF k \in {ChanMax, ChanMin, CountingMin} THEN WithLimits(s, k, v)
    ELSE [s EXCEPT ![k] = v]

NamesAfter(n, k, v, there) ==
    IF IsName(k) THEN [n EXCEPT ![k.id[1]] = Append(@, v)]
    ELSE IF k \in CountKeys THEN [n EXCEPT ![ListOf(k)] = IF there THEN <<>> ELSE @]
    ELSE n

LEMMA TakeIs ==
  ASSUME IInv, Starting, NEW v, Take(v), NEW f, f = File
  PROVE  /\ ram' = [ram EXCEPT ![f] =
                      [scalar |-> ScalarAfter(ram[f].scalar, Current, v),
                       names |-> NamesAfter(ram[f].names, Current, v, files'[f] # Missing)]]
         /\ held' = IF Current = CountingMax THEN v ELSE held
         /\ step' = step + 1 /\ UNCHANGED <<csv, writable, intent, mapping, phase, cur, aborted, bounds>>
<1> DEFINE r == ram[File]
<1>1. File \in Files
  BY FileFacts DEF IInv
<1>2. r = [scalar |-> r.scalar, names |-> r.names] /\ DOMAIN ram = Files
  BY <1>1 DEF IInv, ShapeInv
<1>0. \A a : /\ [ram EXCEPT ![File].scalar = a] = [ram EXCEPT ![File] = [scalar |-> a, names |-> r.names]]
             /\ [ram EXCEPT ![File].names = a] = [ram EXCEPT ![File] = [scalar |-> r.scalar, names |-> a]]
  <2>1. TAKE a
  <2>2. ram[File] = [scalar |-> ram[File].scalar, names |-> ram[File].names]
    BY <1>2
  <2>3. /\ [ram[File] EXCEPT !.scalar = a] = [scalar |-> a, names |-> r.names]
        /\ [ram[File] EXCEPT !.names = a] = [scalar |-> r.scalar, names |-> a]
    BY <2>2
  <2>4. /\ [ram EXCEPT ![File].scalar = a]
              = [ram EXCEPT ![File] = [ram[File] EXCEPT !.scalar = a]]
        /\ [ram EXCEPT ![File].names = a]
              = [ram EXCEPT ![File] = [ram[File] EXCEPT !.names = a]]
    OBVIOUS
  <2>5. QED
    BY <2>3, <2>4
<1>3. ram' = [ram EXCEPT ![File] =
                      [scalar |-> ScalarAfter(r.scalar, Current, v),
                       names |-> NamesAfter(r.names, Current, v, files'[File] # Missing)]]
  <2>1. CASE IsName(Current)
    <3> DEFINE n == [r.names EXCEPT ![Current.id[1]] = Append(@, v)]
    <3>1. ram' = [ram EXCEPT ![File].names = n]
      BY <2>1 DEF Take
    <3>2. ram' = [ram EXCEPT ![File] = [scalar |-> r.scalar, names |-> n]]
      BY <1>0, <3>1
    <3>3. QED
      BY <2>1, <3>2 DEF ScalarAfter, NamesAfter
  <2>2. CASE ~IsName(Current) /\ Current \in CountKeys
    <3> DEFINE s == [r.scalar EXCEPT ![Current] = v]
               l == ListOf(Current)
               n == [r.names EXCEPT ![l] = IF files'[File] = Missing THEN r.names[l] ELSE <<>>]
               R == [ram EXCEPT ![File] = [scalar |-> s, names |-> r.names]]
    <3>1. ram' = [[ram EXCEPT ![File].scalar[Current] = v] EXCEPT
                     ![File].names[l] = IF files'[File] = Missing THEN @ ELSE <<>>]
      BY <2>2 DEF Take
    <3>2. [ram EXCEPT ![File].scalar[Current] = v] = [ram EXCEPT ![File].scalar = s]
      OBVIOUS
    <3>3. [ram EXCEPT ![File].scalar[Current] = v] = R
      BY <1>0, <3>2
    <3>4. R[File] = [scalar |-> s, names |-> r.names] /\ DOMAIN R = Files
      BY <1>1, <1>2
    <3>5. ram' = [R EXCEPT ![File].names = n]
      BY <3>1, <3>3, <3>4
    <3>6. R[File] = [scalar |-> R[File].scalar, names |-> R[File].names]
      BY <3>4
    <3>7. ram' = [R EXCEPT ![File] = [scalar |-> s, names |-> n]]
      <4> HIDE DEF R, s, n
      <4>1. [R[File] EXCEPT !.names = n] = [scalar |-> s, names |-> n]
        BY <3>4, <3>6
      <4>2. [R EXCEPT ![File].names = n] = [R EXCEPT ![File] = [R[File] EXCEPT !.names = n]]
        OBVIOUS
      <4>3. QED
        BY <3>5, <4>1, <4>2
    <3>8. ram' = [ram EXCEPT ![File] = [scalar |-> s, names |-> n]]
      BY <1>1, <1>2, <3>7
    <3>9. Current \notin Limits
      BY <2>2, LimitKeys
    <3>10. s = ScalarAfter(r.scalar, Current, v)
      BY <2>2, <3>9 DEF ScalarAfter, Limits
    <3>11. n = NamesAfter(r.names, Current, v, files'[File] # Missing)
      BY <2>2 DEF NamesAfter
    <3>12. QED
      BY <3>8, <3>10, <3>11
  <2>3. CASE Current = CountingMax
    <3>1. ~IsName(Current) /\ Current \notin CountKeys
      BY <2>3, LimitKeys DEF Limits
    <3>2. ram' = ram
      BY <2>3, <3>1 DEF Take
    <3>3. ram' = [ram EXCEPT ![File] = r]
      BY <1>1, <3>2 DEF IInv, ShapeInv
    <3>4. ScalarAfter(r.scalar, Current, v) = r.scalar
      BY <2>3 DEF ScalarAfter
    <3>5. NamesAfter(r.names, Current, v, files'[File] # Missing) = r.names
      BY <3>1 DEF NamesAfter
    <3>6. QED
      BY <1>2, <3>3, <3>4, <3>5
  <2>4. CASE Current \in {ChanMax, ChanMin, CountingMin}
    <3>1. ~IsName(Current) /\ Current \notin CountKeys /\ Current # CountingMax
      BY <2>4, LimitKeys DEF Limits
    <3> DEFINE s == WithLimits(r.scalar, Current, v)
    <3>2. ram' = [ram EXCEPT ![File].scalar = s]
      BY <2>4, <3>1 DEF Take
    <3>3. ram' = [ram EXCEPT ![File] = [scalar |-> s, names |-> r.names]]
      BY <1>0, <3>2
    <3>4. QED
      BY <2>4, <3>1, <3>3 DEF ScalarAfter, NamesAfter
  <2>5. CASE ~IsName(Current) /\ Current \notin CountKeys /\ Current \notin Limits
    <3> DEFINE s == [r.scalar EXCEPT ![Current] = v]
    <3>1. ram' = [ram EXCEPT ![File].scalar = s]
      BY <2>5 DEF Take, Limits
    <3>2. ram' = [ram EXCEPT ![File] = [scalar |-> s, names |-> r.names]]
      BY <1>0, <3>1
    <3>3. QED
      BY <2>5, <3>2 DEF ScalarAfter, NamesAfter, Limits
  <2>6. QED
    BY <2>1, <2>2, <2>3, <2>4, <2>5 DEF Limits
<1>4. QED
  BY <1>3 DEF Take

\* What a read leaves of one object: the objects of the other files and the values of
\* the other keys, but for the maximum of a counter, which is set with its minimum.
LEMMA TakeScalars ==
  ASSUME IInv, Starting, NEW v, Take(v), NEW g \in Files
  PROVE  ram'[g].scalar = IF g = File THEN ScalarAfter(ram[g].scalar, Current, v) ELSE ram[g].scalar
<1>1. PICK f : f = File
  OBVIOUS
<1>2. PICK s, n : s = ScalarAfter(ram[f].scalar, Current, v)
                  /\ ram' = [ram EXCEPT ![f] = [scalar |-> s, names |-> n]]
  BY <1>1, TakeIs
<1>3. f \in Files /\ DOMAIN ram = Files
  BY <1>1, FileFacts DEF IInv, ShapeInv
<1>4. QED
  BY <1>1, <1>2, <1>3

LEMMA TakeNames ==
  ASSUME IInv, Starting, NEW v, Take(v), NEW g \in Files
  PROVE  ram'[g].names = IF g = File THEN NamesAfter(ram[g].names, Current, v, files'[g] # Missing)
                         ELSE ram[g].names
<1>1. PICK f : f = File
  OBVIOUS
<1>2. PICK s, n : n = NamesAfter(ram[f].names, Current, v, files'[f] # Missing)
                  /\ ram' = [ram EXCEPT ![f] = [scalar |-> s, names |-> n]]
  BY <1>1, TakeIs
<1>3. f \in Files /\ DOMAIN ram = Files
  BY <1>1, FileFacts DEF IInv, ShapeInv
<1>4. QED
  BY <1>1, <1>2, <1>3

LEMMA ScalarAfterIs ==
  ASSUME NEW K, NEW s \in [K -> Values], held \in Int, NEW v \in Values, NEW k,
         NEW t, t = ScalarAfter(s, k, v)
  PROVE  /\ t \in [K -> Values]
         /\ \A q \in K : q \notin Limits => t[q] = IF q = k /\ ~IsName(k) THEN v ELSE s[q]
<1>1. held \in Values
  BY DEF Values
<1>2. CASE IsName(k) \/ k = CountingMax
  BY <1>2 DEF ScalarAfter, Limits
<1>3. CASE ~IsName(k) /\ k \notin Limits
  <2>1. t = [s EXCEPT ![k] = v]
    BY <1>3 DEF ScalarAfter, Limits
  <2>2. QED
    BY <1>3, <2>1
<1>4. CASE k = ChanMax
  <2>1. ~IsName(k) /\ k # CountingMax
    BY <1>4, LimitKeys DEF Limits
  <2>2. t = s \/ t = [s EXCEPT ![k] = v]
    <3>1. t = WithLimits(s, k, v)
      BY <1>4, <2>1 DEF ScalarAfter
    <3>2. t = IF v > s[ChanMin] THEN [s EXCEPT ![ChanMax] = v] ELSE s
      BY <1>4, <3>1, LimitKeys DEF WithLimits
    <3>3. QED
      BY <1>4, <3>2
  <2>3. QED
    BY <1>4, <2>2 DEF Limits
<1>5. CASE k = ChanMin
  <2>1. ~IsName(k) /\ k # CountingMax /\ k # ChanMax
    BY <1>5, LimitKeys DEF Limits
  <2>2. t = s \/ t = [s EXCEPT ![k] = v]
    <3>1. t = WithLimits(s, k, v)
      BY <1>5, <2>1 DEF ScalarAfter
    <3>2. t = IF v < s[ChanMax] THEN [s EXCEPT ![ChanMin] = v] ELSE s
      BY <1>5, <3>1, LimitKeys DEF WithLimits
    <3>3. QED
      BY <1>5, <3>2
  <2>3. QED
    BY <1>5, <2>2 DEF Limits
<1>6. CASE k = CountingMin
  <2>1. ~IsName(k) /\ k # CountingMax /\ k # ChanMax /\ k # ChanMin
    BY <1>6, LimitKeys DEF Limits
  <2>2. PICK u : u = s \/ u = [s EXCEPT ![CountingMax] = held]
    OBVIOUS
  <2>3. t = WithLimits(s, k, v)
    BY <1>6, <2>1 DEF ScalarAfter
  <2>4. \E w \in {s, [s EXCEPT ![CountingMax] = held]} : t = w \/ t = [w EXCEPT ![k] = v]
    BY <1>6, <2>1, <2>3 DEF WithLimits
  <2>5. PICK w \in {s, [s EXCEPT ![CountingMax] = held]} : t = w \/ t = [w EXCEPT ![k] = v]
    BY <2>4
  <2>6. w \in [K -> Values] /\ \A q \in K : q \notin Limits => w[q] = s[q]
    BY <1>1, <2>5 DEF Limits
  <2>7. k \in Limits
    BY <1>6 DEF Limits
  <2>8. QED
    BY <2>5, <2>6, <2>7
<1>7. QED
  BY <1>2, <1>3, <1>4, <1>5, <1>6 DEF Limits

\* What operator>> makes of a value is a value; a number of names is one of 32 bits.
LEMMA ParsedType ==
  ASSUME NEW k, NEW v \in Values, NEW d \in Values
  PROVE  /\ Parsed(k, v, d) \in Values
         /\ k \in CountKeys /\ d \in 0..(UintSize - 1) => Parsed(k, v, d) \in 0..(UintSize - 1)
<1>1. UintSize \in Nat /\ UintSize > 1 /\ Yes \in Values /\ No \in Values
  BY ValuesAssumption DEF Values
<1>2. Word(v) \in Values
  BY ValuesAssumption DEF Word, Values
<1>3. ASSUME k \in CountKeys
      PROVE  /\ k \in UnsignedKeys /\ ~IsName(k) /\ k \notin TextKeys \cup FlagKeys
  <2>1. k \in UnsignedKeys
    BY <1>3 DEF UnsignedKeys
  <2>2. PICK l \in Lists : k = CountKey(l)
    BY <1>3 DEF CountKeys
  <2>3. k.id[1] = "numberOf" /\ k # Name /\ k # Alias /\ k # ServerKeys[1]
    BY <2>2 DEF CountKey, Key, Name, Alias, ServerKeys
  <2>4. QED
    BY <2>1, <2>3 DEF IsName, Lists, TextKeys, FlagKeys
<1>4. CASE ~Readable(k, v)
  BY <1>4 DEF Parsed
<1>5. CASE Readable(k, v) /\ k \in UnsignedKeys
  <2>1. Parsed(k, v, d) = v % UintSize
    BY <1>5 DEF Parsed
  <2>2. ~IsName(k) /\ k \notin TextKeys \cup FlagKeys
    <3>1. CASE k \in CountKeys
      BY <1>3, <3>1
    <3>2. CASE k \in {CountingMax, CountingMin}
      BY <3>2, LimitKeys DEF Limits
    <3>3. QED
      BY <1>5, <3>1, <3>2 DEF UnsignedKeys
  <2>3. v \in Int
    BY <1>5, <2>2 DEF Readable
  <2>4. v % UintSize \in 0..(UintSize - 1)
    BY <1>1, <2>3
  <2>5. QED
    BY <2>1, <2>4 DEF Values
<1>6. CASE Readable(k, v) /\ k \notin UnsignedKeys
  <2>1. k \notin CountKeys
    BY <1>3, <1>6
  <2>2. Parsed(k, v, d) \in {Yes, No, Word(v)}
    BY <1>6 DEF Parsed
  <2>3. QED
    BY <1>1, <1>2, <2>1, <2>2
<1>7. QED
  BY <1>4, <1>5, <1>6

\* The key that is read next, and its value if the file has none.
LEMMA CurrentFacts ==
  ASSUME IInv, TypeInv, phase = "load", step <= Len(Plan)
  PROVE  /\ File \in Files /\ step \in 1..Len(Plan)
         /\ Current \in Scalars(File) \cup NameKeysOf(File)
         /\ Current \in Watched[File] /\ KeyRecord(Current)
         /\ Current.id \in Id /\ Current.sec \in Idents
         /\ DefaultValue \in Values
         /\ Current \in Scalars(File) => DefaultValue = Default[File][Current] /\ ~Overruns
         /\ Current \in CountKeys /\ File # Server => DefaultValue \in 0..(UintSize - 1)
<1>1. File \in Files /\ step \in 1..Len(Plan) /\ Current \in Scalars(File) \cup NameKeysOf(File)
  <2>1. File \in Files
    BY FileFacts DEF IInv, Starting
  <2>2. Len(Plan) \in Nat /\ step \in Nat \ {0}
    BY PlanFacts DEF IInv, PlaceInv
  <2>3. step \in 1..Len(Plan)
    BY <2>2
  <2>4. QED
    BY <2>1, <2>3, PlanFacts DEF Current
<1>2. Current \in Watched[File] /\ KeyRecord(Current) /\ Current.id \in Id /\ Current.sec \in Idents
  BY <1>1, ScalarFacts, NameFacts
<1>3. ASSUME Current \in Scalars(File)
      PROVE  /\ DefaultValue = Default[File][Current] /\ ~Overruns /\ DefaultValue \in Values
             /\ Current \in CountKeys /\ File # Server => DefaultValue \in 0..(UintSize - 1)
  <2>1. ~IsName(Current)
    BY <1>1, <1>3, ScalarFacts
  <2>2. DefaultValue = Default[File][Current] /\ ~Overruns
    BY <2>1 DEF DefaultValue, Overruns
  <2>3. Default[File] \in [Scalars(File) -> Values]
    BY <1>1, ValuesAssumption
  <2>4. QED
    BY <1>1, <1>3, <2>2, <2>3, ValuesAssumption
<1>4. ASSUME Current \notin Scalars(File)
      PROVE  DefaultValue \in Values /\ (Current \notin CountKeys \/ File = Server)
  <2>1. Current \in NameKeysOf(File)
    BY <1>1, <1>4
  <2>2. PICK l \in Lists, i \in 0..(UintSize - 2) : Current.id = <<l, i>>
    BY <1>1, <2>1, NameFacts
  <2>3. IsName(Current) /\ File # Server
    BY <1>1, <2>1, NameFacts DEF NameKeysOf
  <2>4. Names[File] \in [Lists -> Seq(Texts)] /\ Garbage \in Texts /\ UintSize \in Nat
    BY <1>1, ValuesAssumption
  <2>5. DefaultValue \in Texts
    <3>1. CASE Overruns
      BY <2>4, <3>1 DEF DefaultValue
    <3>2. CASE ~Overruns
      <4>1. PICK N : N = Names[File][l]
        OBVIOUS
      <4>2. N \in Seq(Texts) /\ ~(i >= Len(N)) /\ i \in Nat /\ Len(N) \in Nat
        BY <2>2, <2>3, <2>4, <3>2, <4>1 DEF Overruns
      <4>3. i + 1 \in 1..Len(N)
        BY <4>2
      <4>4. DefaultValue = N[i + 1]
        BY <2>2, <2>3, <3>2, <4>1 DEF DefaultValue
      <4>5. QED
        BY <4>2, <4>3, <4>4
    <3>3. QED
      BY <3>1, <3>2
  <2>6. Current \notin CountKeys
    BY <1>1, <1>4, <2>3 DEF Scalars
  <2>7. QED
    BY <2>5, <2>6 DEF Values
<1>5. DefaultValue \in Values
  <2>1. CASE Current \in Scalars(File)
    BY <1>3, <2>1
  <2>2. CASE Current \notin Scalars(File)
    <3>1. File # Server
      BY <1>1, <2>2 DEF NameKeysOf
    <3>2. QED
      BY <1>4, <2>2, <3>1
  <2>3. QED
    BY <2>1, <2>2
<1>6. QED
  BY <1>1, <1>2, <1>3, <1>4, <1>5

LEMMA StoredType ==
  ASSUME StoreInv, Starting
  PROVE  Stored \in Values
<1>1. File \in Files /\ files \in [Files -> {Missing} \cup IniFiles]
  BY FileFacts DEF StoreInv, IInv, DiskInv
<1>2. Empty \in Values
  BY DEF Values
<1>3. CASE files[File] = Missing
  BY <1>2, <1>3 DEF Stored
<1>4. CASE files[File] # Missing
  <2>1. files[File] \in Seq(LineSet({"section", "key", "text", "unknown"}, Id, Values))
    BY <1>1, <1>4 DEF IniFiles, Line, LineSet, Id
  <2>2. Get(files[File], Current) \in Values
    BY <1>2, <2>1, GetType
  <2>3. QED
    BY <1>4, <2>2 DEF Stored
<1>5. QED
  BY <1>3, <1>4

-------------------------------------------------------------------------------
(* The types, step by step.                                                *)

LEMMA StoreInit == Init => StoreInv
<1> SUFFICES ASSUME Init PROVE StoreInv
  OBVIOUS
<1>1. IInv
  BY StartInit
<1>2. TypeInv
  <2>1. \A f \in Files : ram[f] = [scalar |-> Default[f], names |-> Names[f]]
    BY DEF Init, Fresh
  <2>2. \A f \in Files : ram[f].scalar = Default[f]
    <3> SUFFICES ASSUME NEW f \in Files PROVE ram[f].scalar = Default[f]
      OBVIOUS
    <3>1. ram[f] = [scalar |-> Default[f], names |-> Names[f]]
      BY <2>1
    <3>2. QED
      BY <3>1
  <2>3. \A f \in Files \ {Server} : \A l \in Lists : Default[f][CountKey(l)] \in 0..(UintSize - 1)
    BY ValuesAssumption DEF CountKeys
  <2>4. Len(Modules) \in Nat
    BY ValuesAssumption
  <2>5. \A f \in Files : Default[f] \in [Scalars(f) -> Values]
    BY ValuesAssumption
  <2>6. /\ \A f \in Files : ram[f].scalar \in [Scalars(f) -> Values]
        /\ \A f \in Files \ {Server} : \A l \in Lists :
              ram[f].scalar[CountKey(l)] \in 0..(UintSize - 1)
    BY <2>2, <2>3, <2>5
  <2>7. cur \in 0..(Len(Modules) + 1) /\ writable \in BOOLEAN
    BY <2>4 DEF Init
  <2>8. QED
    BY <2>6, <2>7 DEF Init, TypeInv
<1>3. DiskInv
  BY DEF Init, DiskInv
<1>4. QED
  BY <1>1, <1>2, <1>3 DEF StoreInv

\* A read leaves values where values are.
LEMMA TakeTypes ==
  ASSUME StoreInv, phase = "load", step <= Len(Plan), NEW v \in Values, Take(v),
         Current \in CountKeys /\ File # Server => v \in 0..(UintSize - 1)
  PROVE  TypeInv'
<1>0. Starting /\ IInv /\ TypeInv /\ held \in Int
  BY DEF Starting, StoreInv, IInv, ShapeInv
<1>1. UNCHANGED <<writable, phase, cur, aborted>>
  BY DEF Take
<1>2. ASSUME NEW f \in Files
      PROVE  /\ ram'[f].scalar \in [Scalars(f) -> Values]
             /\ f # Server => \A l \in Lists : ram'[f].scalar[CountKey(l)] \in 0..(UintSize - 1)
  <2>1. PICK s, t : s = ram[f].scalar /\ t = ScalarAfter(s, Current, v)
    OBVIOUS
  <2>2. /\ s \in [Scalars(f) -> Values]
        /\ f # Server => \A l \in Lists : s[CountKey(l)] \in 0..(UintSize - 1)
    BY <1>0, <2>1 DEF TypeInv
  <2>3. ram'[f].scalar = IF f = File THEN t ELSE s
    BY <1>0, <2>1, TakeScalars
  <2>4. /\ t \in [Scalars(f) -> Values]
        /\ \A q \in Scalars(f) : q \notin Limits =>
              t[q] = IF q = Current /\ ~IsName(Current) THEN v ELSE s[q]
    BY <1>0, <2>1, <2>2, ScalarAfterIs
  <2>5. ASSUME f # Server, f = File, NEW l \in Lists
        PROVE  t[CountKey(l)] \in 0..(UintSize - 1)
    <3>1. CountKey(l) \in Scalars(f) /\ CountKey(l) \in CountKeys /\ CountKey(l) \notin Limits
      BY <2>5, PluralFacts, LimitKeys DEF CountKeys
    <3>2. QED
      BY <2>2, <2>4, <2>5, <3>1
  <2>6. QED
    BY <2>2, <2>3, <2>4, <2>5
<1>3. QED
  BY <1>0, <1>1, <1>2 DEF TypeInv

LEMMA LoadTypes ==
  ASSUME StoreInv, ReadPresent \/ ReadUnwritable \/ Fill
  PROVE  TypeInv'
<1>1. phase = "load" /\ step <= Len(Plan) /\ IInv /\ TypeInv /\ Starting
  BY DEF ReadPresent, ReadUnwritable, Fill, Reading, StoreInv, DiskInv, Starting
<1>2. /\ DefaultValue \in Values
      /\ Current \in CountKeys /\ File # Server => DefaultValue \in 0..(UintSize - 1)
  BY <1>1, CurrentFacts
<1>3. CASE ReadPresent
  <2>1. Stored \in Values /\ Take(Parsed(Current, Stored, DefaultValue))
    BY <1>1, <1>3, StoredType DEF ReadPresent
  <2>2. /\ Parsed(Current, Stored, DefaultValue) \in Values
        /\ Current \in CountKeys /\ File # Server
              => Parsed(Current, Stored, DefaultValue) \in 0..(UintSize - 1)
    BY <1>2, <2>1, ParsedType
  <2>3. QED
    BY <1>1, <2>1, <2>2, TakeTypes
<1>4. CASE ReadUnwritable \/ Fill
  <2>1. Take(DefaultValue)
    BY <1>4 DEF ReadUnwritable, Fill
  <2>2. QED
    BY <1>1, <1>2, <2>1, TakeTypes
<1>5. QED
  BY <1>3, <1>4

LEMMA TypesKept ==
  ASSUME TypeInv, ram' = ram, writable' = writable, aborted' \in BOOLEAN,
         phase' \in {"off", "load", "map", "save", "run", "dead"}, cur' \in 0..(Len(Modules) + 1)
  PROVE  TypeInv'
  BY DEF TypeInv

LEMMA TypeStep ==
  ASSUME StoreInv, Next
  PROVE  TypeInv'
<1>0. IInv /\ TypeInv /\ Len(Modules) \in Nat /\ cur \in Nat
  BY ValuesAssumption DEF StoreInv, IInv, PlaceInv
<1>1. CASE ReadPresent \/ ReadUnwritable \/ Fill
  BY <1>1, LoadTypes
<1>2. CASE Boot
  <2>1. \A f \in Files : ram'[f] = [scalar |-> Default[f], names |-> Names[f]]
    BY <1>2 DEF Boot, Fresh
  <2>2. \A f \in Files : ram'[f].scalar = Default[f]
    <3> SUFFICES ASSUME NEW f \in Files PROVE ram'[f].scalar = Default[f]
      OBVIOUS
    <3>1. ram'[f] = [scalar |-> Default[f], names |-> Names[f]]
      BY <2>1
    <3>2. QED
      BY <3>1
  <2>3. \A f \in Files \ {Server} : \A l \in Lists : Default[f][CountKey(l)] \in 0..(UintSize - 1)
    BY ValuesAssumption DEF CountKeys
  <2>4. phase' = "load" /\ cur' = 0 /\ writable' = writable /\ aborted' = FALSE
    BY <1>2 DEF Boot, disk
  <2>5. \A f \in Files : Default[f] \in [Scalars(f) -> Values]
    BY ValuesAssumption
  <2>6. /\ \A f \in Files : ram'[f].scalar \in [Scalars(f) -> Values]
        /\ \A f \in Files \ {Server} : \A l \in Lists :
              ram'[f].scalar[CountKey(l)] \in 0..(UintSize - 1)
    BY <2>2, <2>3, <2>5
  <2>7. cur' \in 0..(Len(Modules) + 1)
    BY <1>0, <2>4
  <2>8. QED
    BY <1>0, <2>4, <2>6, <2>7 DEF TypeInv
<1>3. CASE Truncate \/ OverrunDies \/ OverrunThrows \/ LoadMissing \/ EndLoad
  <2>1. /\ ram' = ram /\ writable' = writable /\ aborted' \in BOOLEAN /\ cur' = cur
        /\ phase' \in {"load", "dead", "save", "map"}
    BY <1>0, <1>3 DEF Truncate, Reading, OverrunDies, OverrunThrows, LoadMissing, EndLoad, disk,
                      TypeInv
  <2>2. QED
    BY <1>0, <2>1, TypesKept DEF TypeInv
<1>4. CASE Save \/ MapEnds
  <2>1. /\ ram' = ram /\ writable' = writable /\ aborted' = FALSE /\ cur' = cur + 1
        /\ phase' \in {"load", "run"} /\ Starting
    BY <1>4 DEF Save, MapEnds, Advance, disk, Starting
  <2>2. cur <= Len(Modules)
    BY <1>0, <2>1 DEF IInv, PlaceInv
  <2>3. cur' \in 0..(Len(Modules) + 1)
    BY <1>0, <2>1, <2>2
  <2>4. QED
    BY <1>0, <2>1, <2>3, TypesKept
<1>5. CASE MapRow \/ MapRowSkipped \/ MapRowThrows
  <2>1. /\ ram' = ram /\ writable' = writable /\ aborted' = aborted /\ cur' = cur
        /\ phase' \in {"map", "dead"}
    BY <1>5 DEF MapRow, MapRowSkipped, MapRowThrows, disk
  <2>2. QED
    BY <1>0, <2>1, TypesKept DEF TypeInv
<1>6. CASE Crash \/ EditFile \/ EditTable
  <2>1. /\ ram' = ram /\ writable' = writable /\ aborted' = aborted /\ cur' = cur
        /\ phase' \in {"off", phase}
    BY <1>6 DEF Crash, EditFile, EditTable
  <2>2. QED
    BY <1>0, <2>1, TypesKept DEF TypeInv
<1>7. QED
  BY <1>1, <1>2, <1>3, <1>4, <1>5, <1>6 DEF Next, StartStep

-------------------------------------------------------------------------------
(* The files, step by step.                                                *)

LEMMA FirstKey ==
  IInv /\ TypeInv /\ phase = "load" =>
     Len(Plan) >= 1 /\ Plan[1] = IF cur = 0 THEN ServerKeys[1] ELSE Type
<1> SUFFICES ASSUME IInv, TypeInv, phase = "load"
             PROVE  Len(Plan) >= 1 /\ Plan[1] = IF cur = 0 THEN ServerKeys[1] ELSE Type
  OBVIOUS
<1>0. Len(Plan) >= 1
  BY PlanFacts
<1>1. CASE cur = 0
  BY <1>0, <1>1 DEF Plan
<1>2. CASE cur # 0
  <2>1. PICK a, n, m, p : /\ a = First /\ n = CountOf("channel")
                          /\ m = CountOf("counter") /\ p = CountOf("output")
    OBVIOUS
  <2>2. "channel" \in Lists /\ "counter" \in Lists /\ "output" \in Lists /\ Starting
    BY DEF Lists, Starting
  <2>3. a \in {3, 6} /\ n \in Nat /\ m \in Nat /\ p \in Nat
    BY <1>2, <2>1, <2>2, CountFacts
  <2>4. Plan = ReadOf(a, n, m, p)
    BY <1>2, <2>1, <2>2, PlanIs
  <2>5. \A j \in 1..(a + 9 + n + m + p) : Plan[j] = KeyAt(a, n, m, p, j)
    BY <2>3, <2>4, ReadOfIs
  <2>6. Plan[1] = KeyAt(a, n, m, p, 1)
    BY <2>3, <2>5
  <2>7. QED
    BY <1>0, <1>2, <2>6 DEF KeyAt
<1>3. QED
  BY <1>1, <1>2

LEMMA FirstKeyNext ==
  (IInv /\ TypeInv /\ phase = "load" =>
     Len(Plan) >= 1 /\ Plan[1] = IF cur = 0 THEN ServerKeys[1] ELSE Type)'
  BY FirstKey, PTL

\* The plan depends on whether the file is there, not on what it holds.
LEMMA PlanKept ==
  ASSUME cur' = cur, ram' = ram, NEW f, f = File, files'[f] = Missing <=> files[f] = Missing
  PROVE  Plan' = Plan
<1>1. File' = File
  BY DEF File
<1>2. \A l : NameKeys(File, l)' = NameKeys(File, l)
  BY <1>1 DEF NameKeys
<1>3. QED
  BY <1>1, <1>2 DEF Plan

LEMMA FilesFacts == <<>> \in IniFiles /\ Missing \notin IniFiles /\ NoRewrite \notin IniFiles
<1>1. <<>> \in IniFiles
  BY DEF IniFiles
<1>2. QED
  BY <1>1, FilesAssumption

\* The lines that are written back, and what they give for a key.
LEMMA PutIni ==
  ASSUME NEW L \in IniFiles, NEW k, KeyRecord(k), k.id \in Id, k.sec \in Idents, NEW v \in Values
  PROVE  /\ Put(L, k, v) \in IniFiles
         /\ \A q : KeyRecord(q) => Get(Put(L, k, v), q) = IF q = k THEN v ELSE Get(L, q)
<1>1. PICK K, I : K = {"section", "key", "text", "unknown"} /\ I = Id
  OBVIOUS
<1>2. IniFiles = Seq(LineSet(K, I, Values))
  BY <1>1 DEF IniFiles, Line, LineSet, Id
<1>3. /\ {"section", "key"} \subseteq K /\ Empty \in Values /\ k.id \in I /\ <<k.sec, 0>> \in I
      /\ k = [sec |-> k.sec, id |-> k.id] /\ L \in Seq(LineSet(K, I, Values))
  BY <1>1, <1>2 DEF Values, Id, KeyRecord
<1>4. ASSUME NEW q, KeyRecord(q)
      PROVE  /\ Put(L, k, v) \in Seq(LineSet(K, I, Values))
             /\ Get(Put(L, k, v), q) = IF q = k THEN v ELSE Get(L, q)
  <2>1. q = [sec |-> q.sec, id |-> q.id]
    BY <1>4 DEF KeyRecord
  <2>2. QED
    BY <1>3, <2>1, PutGet
<1>5. QED
  BY <1>2, <1>4

LEMMA TruncateFacts ==
  ASSUME StoreInv, Truncate
  PROVE  /\ IInv' /\ TypeInv' /\ phase = "load" /\ File' = File /\ File \in Files
         /\ Content(File) \in IniFiles /\ Get(Content(File), Current) = Empty
         /\ rewrite' = Put(Content(File), Current, DefaultValue) /\ rewrite' \in IniFiles
         /\ \A q : KeyRecord(q) =>
               Get(rewrite', q) = IF q = Current THEN DefaultValue ELSE Get(Content(File), q)
         /\ files' = [files EXCEPT ![File] = <<>>] /\ files'[File] = <<>>
         /\ step <= Len(Plan) /\ step <= Len(Plan') /\ Current' = Current
         /\ (files[File] = Missing => step = 1) /\ (files[File] # Missing => Plan' = Plan)
<1>1. /\ IInv /\ TypeInv /\ DiskInv /\ phase = "load" /\ step <= Len(Plan) /\ Starting
      /\ UNCHANGED <<ram, phase, cur, step>> /\ files' = [files EXCEPT ![File] = <<>>]
      /\ Stored = Empty /\ writable
      /\ rewrite' = Put(Content(File), Current, DefaultValue)
  BY DEF Truncate, Reading, StoreInv, Starting, Content
<1>2. IInv' /\ TypeInv'
  <2>1. Next
    BY DEF Next, StartStep
  <2>2. QED
    BY <1>1, <2>1, TypeStep, StartupStep
<1>3. File' = File /\ File \in Files
  BY <1>1, FileFacts DEF IInv, File
<1>4. Content(File) \in IniFiles /\ Get(Content(File), Current) = Empty
  <2>1. CASE files[File] = Missing
    <3>1. Content(File) = <<>>
      BY <2>1 DEF Content
    <3>2. Lines(<<>>, Current) = {}
      BY DEF Lines
    <3>3. QED
      BY <3>1, <3>2, FilesFacts DEF Get
  <2>2. CASE files[File] # Missing
    BY <1>1, <1>3, <2>2 DEF Content, Stored, DiskInv
  <2>3. QED
    BY <2>1, <2>2
<1>5. /\ rewrite' \in IniFiles
      /\ \A q : KeyRecord(q) =>
            Get(rewrite', q) = IF q = Current THEN DefaultValue ELSE Get(Content(File), q)
  <2>1. KeyRecord(Current) /\ Current.id \in Id /\ Current.sec \in Idents /\ DefaultValue \in Values
    BY <1>1, CurrentFacts
  <2>2. QED
    BY <1>1, <1>4, <2>1, PutIni
<1>6. files'[File] = <<>> /\ files'[File] # Missing
  BY <1>1, <1>3, FilesFacts DEF DiskInv
<1>7. ASSUME files[File] = Missing
      PROVE  step = 1 /\ Plan'[1] = Plan[1]
  <2>1. step = 1
    BY <1>1, <1>7 DEF DiskInv, IInv, PlaceInv
  <2>2. phase' = "load" /\ cur' = cur
    BY <1>1
  <2>3. Plan'[1] = IF cur' = 0 THEN ServerKeys[1] ELSE Type
    BY <1>2, <2>2, FirstKeyNext
  <2>4. QED
    BY <1>1, <2>1, <2>2, <2>3, FirstKey
<1>8. ASSUME files[File] # Missing
      PROVE  Plan' = Plan
  BY <1>1, <1>6, <1>8, PlanKept
<1>9. Current' = Current /\ step <= Len(Plan')
  <2>1. Len(Plan') >= 1
    BY <1>1, <1>2, FirstKeyNext
  <2>2. QED
    BY <1>1, <1>7, <1>8, <2>1 DEF Current
<1>10. QED
  BY <1>1, <1>2, <1>3, <1>4, <1>5, <1>6, <1>7, <1>8, <1>9

LEMMA DiskStep ==
  ASSUME StoreInv, Next
  PROVE  DiskInv'
<1>0. IInv /\ TypeInv /\ DiskInv /\ cur \in Nat
  BY DEF StoreInv, IInv, PlaceInv
<1>1. CASE ReadPresent \/ ReadUnwritable \/ Fill
  <2>1. phase = "load" /\ rewrite' = NoRewrite /\ UNCHANGED <<writable, intent, phase, cur>>
    BY <1>1 DEF ReadPresent, ReadUnwritable, Fill, Take, Reading
  <2>2. File \in Files /\ File' = File
    <3>1. File' = File
      BY <2>1 DEF File
    <3>2. Starting
      BY <2>1 DEF Starting
    <3>3. QED
      BY <1>0, <3>1, <3>2, FileFacts DEF IInv
  <2>3. CASE ReadPresent \/ ReadUnwritable
    <3>1. files' = files /\ (writable => files[File] # Missing)
      BY <2>3 DEF ReadPresent, ReadUnwritable, Stored
    <3>2. QED
      BY <1>0, <2>1, <2>2, <3>1 DEF DiskInv
  <2>4. CASE Fill
    <3>1. rewrite \in IniFiles /\ files' = [files EXCEPT ![File] = rewrite]
      BY <1>0, <2>4 DEF Fill, DiskInv
    <3>2. files'[File] # Missing
      BY <1>0, <2>2, <3>1, FilesFacts DEF DiskInv
    <3>3. QED
      BY <1>0, <2>1, <2>2, <3>1, <3>2 DEF DiskInv
  <2>5. QED
    BY <1>1, <2>3, <2>4
<1>2. CASE Truncate
  <2>1. /\ phase' = "load" /\ UNCHANGED <<writable, intent, cur>> /\ File' = File
        /\ files' = [files EXCEPT ![File] = <<>>] /\ files'[File] = <<>> /\ step' <= Len(Plan')
        /\ rewrite' \in IniFiles /\ <<>> \in IniFiles /\ <<>> # Missing
    BY <1>2, TruncateFacts, FilesFacts DEF Truncate
  <2>2. QED
    BY <1>0, <2>1 DEF DiskInv
<1>3. CASE Boot \/ OverrunDies \/ OverrunThrows \/ LoadMissing \/ EndLoad
  <2>1. /\ UNCHANGED <<files, writable, intent, rewrite>> /\ rewrite = NoRewrite
        /\ phase' # "load" \/ step' = 1
        /\ phase' = "map" => cur' = 0
    BY <1>0, <1>3 DEF Boot, OverrunDies, OverrunThrows, LoadMissing, EndLoad, Reading, disk,
                      IInv, PlaceInv
  <2>2. QED
    BY <1>0, <2>1 DEF DiskInv
<1>4. CASE Save \/ MapEnds
  <2>1. /\ rewrite' = NoRewrite /\ phase' \in {"run", "load"} /\ step' = 1 /\ Starting
        /\ \/ files' = files /\ intent' = intent
           \/ files' = [files EXCEPT ![File] = <<>>] /\ intent' = [intent EXCEPT ![File] = <<>>]
    BY <1>0, <1>4 DEF Save, MapEnds, Advance, disk, Starting, IInv, PlaceInv
  <2>2. File \in Files
    BY <1>0, <2>1, FileFacts DEF IInv
  <2>3. QED
    BY <1>0, <2>1, <2>2, FilesFacts DEF DiskInv
<1>5. CASE MapRow \/ MapRowSkipped \/ MapRowThrows
  <2>1. /\ UNCHANGED <<files, writable, intent, rewrite, cur>> /\ rewrite = NoRewrite
        /\ phase = "map" /\ phase' \in {"map", "dead"}
    BY <1>0, <1>5 DEF MapRow, MapRowSkipped, MapRowThrows, disk, IInv, PlaceInv
  <2>2. QED
    BY <1>0, <2>1 DEF DiskInv
<1>6. CASE Crash \/ EditTable
  <2>1. /\ UNCHANGED <<files, writable>> /\ rewrite' = NoRewrite
        /\ intent' = intent \/ intent' = [intent EXCEPT ![File] = <<>>]
        /\ phase' \notin {"load", "map"}
    BY <1>0, <1>6 DEF Crash, EditTable, IInv, PlaceInv
  <2>2. QED
    BY <1>0, <2>1, FilesFacts DEF DiskInv
<1>7. CASE EditFile
  <2>1. PICK f \in Files : \E c \in Contents[f] :
           files' = [files EXCEPT ![f] = c] /\ intent' = [intent EXCEPT ![f] = c]
    BY <1>7 DEF EditFile
  <2>2. PICK c \in Contents[f] :
           files' = [files EXCEPT ![f] = c] /\ intent' = [intent EXCEPT ![f] = c]
    BY <2>1
  <2>3. c \in {Missing} \cup IniFiles
    BY FilesAssumption
  <2>4. rewrite' = NoRewrite /\ phase' \notin {"load", "map"}
    BY <1>0, <1>7 DEF EditFile, IInv, PlaceInv
  <2>5. QED
    BY <1>0, <2>2, <2>3, <2>4 DEF DiskInv
<1>8. QED
  BY <1>1, <1>2, <1>3, <1>4, <1>5, <1>6, <1>7 DEF Next, StartStep

LEMMA StoreStep == StoreInv /\ [Next]_vars => StoreInv'
<1> SUFFICES ASSUME StoreInv, [Next]_vars
             PROVE  StoreInv'
  OBVIOUS
<1>1. IInv'
  BY StartupStep DEF StoreInv
<1>2. CASE Next
  BY <1>1, <1>2, TypeStep, DiskStep DEF StoreInv
<1>3. CASE UNCHANGED vars
  <2>1. UNCHANGED <<files, writable, intent, ram, phase, cur, step, rewrite, aborted>>
    BY <1>3 DEF vars, disk
  <2>2. Plan' = Plan /\ File' = File
    BY <2>1, PlanKept DEF File
  <2>3. DiskInv'
    BY <2>1, <2>2 DEF StoreInv, DiskInv
  <2>4. TypeInv'
    BY <2>1 DEF StoreInv, TypeInv
  <2>5. QED
    BY <1>1, <2>3, <2>4 DEF StoreInv
<1>4. QED
  BY <1>2, <1>3

LEMMA StoreInvariant == Spec => []StoreInv
  BY StoreInit, StoreStep, PTL DEF Spec

\* Whatever the operator leaves in the files, every object holds values of its keys,
\* the counts numbers of 32 bits, and a rewrite that is due belongs to the empty file
\* of the load that goes on (main, loadConfig, IniObject).
THEOREM TypeCorrect == Spec => []TypeOK
<1>1. StoreInv => TypeOK
  BY DEF StoreInv, IInv, PlaceInv, MapInv, TypeInv, DiskInv, TypeOK
<1>2. QED
  BY <1>1, StoreInvariant, PTL

-------------------------------------------------------------------------------
(* The files as a store.                                                   *)

StoreOf == [f \in Files |-> [k \in Watched[f] |-> Value(f, k)]]
DueOf   == IF Starting THEN {Modules[i] : i \in Max({cur, 1})..Len(Modules)} ELSE {}

LEMMA DueIs ==
  ASSUME cur \in Nat, Starting
  PROVE  DueOf = {Modules[i] : i \in (IF cur = 0 THEN 1 ELSE cur)..Len(Modules)}
<1>1. PICK S : S = {cur, 1}
  OBVIOUS
<1>2. S \in SUBSET (0..(cur + 1)) /\ S # {} /\ cur + 1 \in Nat
  BY <1>1
<1>3. Max(S) \in S /\ \A y \in S : y <= Max(S)
  BY <1>2, Greatest
<1>4. Max({cur, 1}) = IF cur = 0 THEN 1 ELSE cur
  <2>1. PICK x : x = Max(S)
    OBVIOUS
  <2>2. x \in {cur, 1} /\ cur <= x /\ 1 <= x
    BY <1>1, <1>3, <2>1
  <2>3. QED
    BY <1>1, <2>1, <2>2
<1>5. QED
  BY <1>4 DEF DueOf

LEMMA DueNext ==
  (cur \in Nat /\ Starting => DueOf = {Modules[i] : i \in (IF cur = 0 THEN 1 ELSE cur)..Len(Modules)})'
<1>1. cur \in Nat /\ Starting => DueOf = {Modules[i] : i \in (IF cur = 0 THEN 1 ELSE cur)..Len(Modules)}
  BY DueIs
<1>2. QED
  BY <1>1, PTL

\* What is due keeps to where main is.
LEMMA DueKept ==
  ASSUME cur' = cur, Starting' = Starting
  PROVE  DueOf' = DueOf
  BY DEF DueOf

\* Two stores that differ at most in one file.
LEMMA StoreDiffers ==
  ASSUME NEW f \in Files, \A g \in Files : g # f => \A k \in Watched[g] : Value(g, k)' = Value(g, k)
  PROVE  StoreOf' = [StoreOf EXCEPT ![f] = [k \in Watched[f] |-> Value(f, k)']]
  BY DEF StoreOf

LEMMA StoreKept ==
  ASSUME \A g \in Files : \A k \in Watched[g] : Value(g, k)' = Value(g, k)
  PROVE  StoreOf' = StoreOf
  BY DEF StoreOf

LEMMA DiskKept ==
  ASSUME files' = files, rewrite = NoRewrite, rewrite' = NoRewrite
  PROVE  StoreOf' = StoreOf
<1>1. \A g \in Files : \A k \in Watched[g] : Value(g, k)' = Value(g, k)
  BY DEF Value, Content
<1>2. QED
  BY <1>1, StoreKept

\* The file that is loaded has not been saved.
LEMMA FileDue ==
  ASSUME IInv, Starting
  PROVE  File \in DueOf \cup (Files \ (Files \ {Server}))
<1>1. File \in Files /\ (File = Server <=> cur = 0) /\ cur \in Nat
  BY FileFacts DEF IInv, PlaceInv
<1>2. CASE cur = 0
  BY <1>1, <1>2
<1>3. CASE cur # 0
  <2>1. cur \in 1..Len(Modules) /\ File = Modules[cur] /\ Len(Modules) \in Nat
    <3>1. cur > 0 /\ Len(Modules) \in Nat
      BY <1>1, <1>3, ValuesAssumption
    <3>2. QED
      BY <3>1, FileFacts DEF IInv
  <2>2. cur \in cur..Len(Modules)
    BY <2>1
  <2>3. QED
    BY <1>1, <1>3, <2>1, <2>2, DueIs
<1>4. QED
  BY <1>2, <1>3

LEMMA StoreIs ==
  /\ Store!Init <=> ~Starting /\ DueOf = {} /\ StoreOf = [f \in Files |-> [k \in Watched[f] |-> Empty]]
  /\ Store!Start <=> ~Starting /\ Starting' /\ DueOf' = Files \ {Server} /\ StoreOf' = StoreOf
  /\ Store!Fill <=> \E f \in DueOf \cup (Files \ (Files \ {Server})) : \E k \in Watched[f] :
        /\ Starting /\ Starting' /\ DueOf' = DueOf
        /\ StoreOf[f][k] = Empty
        /\ StoreOf' = [StoreOf EXCEPT ![f][k] = StoreOf'[f][k]]
  /\ Store!Save <=> \E f \in DueOf :
        /\ Starting /\ Starting' \in BOOLEAN
        /\ DueOf' = IF Starting' THEN DueOf \ {f} ELSE {}
        /\ StoreOf' \in {StoreOf, [StoreOf EXCEPT ![f] = [k \in Watched[f] |-> Empty]]}
  /\ Store!Cut <=> Starting /\ ~Starting' /\ DueOf' = {} /\ StoreOf' = StoreOf
  /\ Store!CutRewrite <=> \E f \in Files :
        /\ Starting /\ ~Starting' /\ DueOf' = {}
        /\ \E k \in Watched[f] : StoreOf[f][k] = Empty
        /\ StoreOf' = [StoreOf EXCEPT ![f] = [k \in Watched[f] |-> Empty]]
  /\ Store!Replace <=> \E f \in Files :
        /\ ~Starting /\ ~Starting' /\ DueOf' = DueOf
        /\ StoreOf' = [StoreOf EXCEPT ![f] = StoreOf'[f]]
  BY DEF Store!Init, Store!Start, Store!Fill, Store!Save, Store!Cut, Store!CutRewrite,
         Store!Replace, Store!Lost, StoreOf, DueOf

LEMMA StoreStarts == Init => Store!Init
<1> SUFFICES ASSUME Init PROVE Store!Init
  OBVIOUS
<1>1. ~Starting /\ DueOf = {}
  BY DEF Init, Starting, DueOf
<1>2. ASSUME NEW f \in Files, NEW k \in Watched[f]
      PROVE  Value(f, k) = Empty
  <2>1. Content(f) = <<>> /\ rewrite = NoRewrite
    BY DEF Init, Content
  <2>2. Lines(<<>>, k) = {}
    BY DEF Lines
  <2>3. QED
    BY <2>1, <2>2 DEF Value, Get
<1>3. StoreOf = [f \in Files |-> [k \in Watched[f] |-> Empty]]
  BY <1>2 DEF StoreOf
<1>4. QED
  BY <1>1, <1>3, StoreIs

LEMMA BootStarts ==
  ASSUME StoreInv, Boot
  PROVE  Store!Start
<1>1. rewrite = NoRewrite /\ ~Starting
  BY DEF Boot, Starting, StoreInv, IInv, PlaceInv
<1>2. Starting' /\ cur' = 0 /\ cur' \in Nat /\ files' = files /\ rewrite' = NoRewrite
  BY <1>1 DEF Boot, Starting, disk
<1>3. DueOf' = {Modules[i] : i \in 1..Len(Modules)}
  BY <1>2, DueNext
<1>4. Files \ {Server} = {Modules[i] : i \in 1..Len(Modules)}
  BY ClassAssumption DEF Files
<1>5. StoreOf' = StoreOf
  BY <1>1, <1>2, DiskKept
<1>6. QED
  BY <1>1, <1>2, <1>3, <1>4, <1>5, StoreIs

\* A truncated file has the values it had.
LEMMA TruncateKeeps ==
  ASSUME StoreInv, Truncate
  PROVE  StoreOf' = StoreOf /\ DueOf' = DueOf /\ Starting' = Starting
<1>1. cur' = cur /\ Starting' = Starting
  BY DEF Truncate, Starting
<1>2. ASSUME NEW g \in Files, NEW k \in Watched[g]
      PROVE  Value(g, k)' = Value(g, k)
  <2>1. rewrite = NoRewrite /\ rewrite' # NoRewrite /\ File' = File /\ Current' = Current
    BY TruncateFacts, FilesFacts DEF Truncate, Reading
  <2>2. Value(g, k) = Get(Content(g), k)
    BY <2>1 DEF Value
  <2>3. CASE g = File
    <3>1. KeyRecord(k)
      BY WatchedFacts
    <3>2. Get(rewrite', k) = IF k = Current THEN DefaultValue ELSE Get(Content(g), k)
      BY <2>3, <3>1, TruncateFacts
    <3>3. Get(Content(g), Current) = Empty
      BY <2>3, TruncateFacts
    <3>4. Value(g, k)' = IF k = Current THEN Empty ELSE Get(rewrite', k)
      BY <2>1, <2>3 DEF Value
    <3>5. QED
      BY <2>2, <3>2, <3>3, <3>4
  <2>4. CASE g # File
    <3>1. files'[g] = files[g]
      BY <2>4 DEF Truncate, StoreInv, DiskInv
    <3>2. Value(g, k)' = Get(Content(g)', k)
      BY <2>1, <2>4 DEF Value
    <3>3. QED
      BY <2>2, <3>1, <3>2 DEF Content
  <2>5. QED
    BY <2>3, <2>4
<1>3. QED
  BY <1>1, <1>2, DueKept, StoreKept

LEMMA FillFills ==
  ASSUME StoreInv, Fill
  PROVE  Store!Fill
<1>1. /\ phase = "load" /\ phase' = "load" /\ cur' = cur /\ Starting /\ Starting'
      /\ rewrite # NoRewrite /\ rewrite' = NoRewrite /\ files' = [files EXCEPT ![File] = rewrite]
      /\ step <= Len(Plan) /\ IInv /\ TypeInv /\ DiskInv /\ Starting' = Starting
  BY DEF Fill, Take, Starting, StoreInv, DiskInv
<1>2. /\ File \in Files /\ Current \in Watched[File] /\ File' = File
      /\ File \in DueOf \cup (Files \ (Files \ {Server})) /\ DueOf' = DueOf
  BY <1>1, CurrentFacts, FileDue, DueKept DEF File
<1>3. files'[File] = rewrite /\ rewrite # Missing /\ \A g \in Files : g # File => files'[g] = files[g]
  BY <1>1, <1>2, FilesFacts DEF DiskInv
<1>6. PICK f, c, e : f = File /\ c = Current /\ e = Get(rewrite, Current)
  OBVIOUS
<1>4. \A k \in Watched[f] :
         /\ Value(f, k) = IF k = c THEN Empty ELSE Get(rewrite, k)
         /\ Value(f, k)' = Get(rewrite, k)
  BY <1>1, <1>2, <1>3, <1>6 DEF Value, Content
<1>5. \A g \in Files : g # File => \A k \in Watched[g] : Value(g, k)' = Value(g, k)
  BY <1>1, <1>2, <1>3 DEF Value, Content
<1>7. StoreOf' = [StoreOf EXCEPT ![f][c] = e]
  <2>1. StoreOf' = [StoreOf EXCEPT ![f] = [k \in Watched[f] |-> Value(f, k)']]
    BY <1>2, <1>5, <1>6, StoreDiffers
  <2>2. StoreOf[f] = [k \in Watched[f] |-> Value(f, k)] /\ f \in Files
    BY <1>2, <1>6 DEF StoreOf
  <2>3. [k \in Watched[f] |-> Value(f, k)'] = [[k \in Watched[f] |-> Value(f, k)] EXCEPT ![c] = e]
    <3>1. \A k \in Watched[f] : Value(f, k)' = IF k = c THEN e ELSE Value(f, k)
      BY <1>4, <1>6
    <3>2. QED
      BY <3>1
  <2>4. QED
    BY <2>1, <2>2, <2>3
<1>8. f \in Files /\ c \in Watched[f] /\ StoreOf[f][c] = Empty /\ StoreOf'[f][c] = e
  <2>1. StoreOf[f][c] = Value(f, c)
    BY <1>2, <1>6 DEF StoreOf
  <2>2. Value(f, c) = Empty
    BY <1>2, <1>4, <1>6
  <2>3. c \in DOMAIN StoreOf[f] /\ f \in DOMAIN StoreOf
    BY <1>2, <1>6 DEF StoreOf
  <2>4. QED
    BY <1>2, <1>6, <1>7, <2>1, <2>2, <2>3
<1>9. f \in DueOf \cup (Files \ (Files \ {Server}))
  BY <1>2, <1>6
<1>10. StoreOf' = [StoreOf EXCEPT ![f][c] = StoreOf'[f][c]]
  BY <1>7, <1>8
<1>11. QED
  BY <1>1, <1>2, <1>8, <1>9, <1>10, StoreIs

LEMMA SaveSaves ==
  ASSUME StoreInv, Save
  PROVE  Store!Save
<1>1. /\ Starting /\ rewrite = NoRewrite /\ rewrite' = NoRewrite /\ cur \in Nat /\ cur > 0
      /\ cur' = cur + 1 /\ IInv /\ DiskInv /\ cur' \in Nat
      /\ phase' = IF cur = Len(Modules) THEN "run" ELSE "load"
  BY DEF Save, Advance, Starting, StoreInv, IInv, PlaceInv
<1>2. /\ File \in Files /\ cur \in 1..Len(Modules) /\ File = Modules[cur] /\ Len(Modules) \in Nat
  BY <1>1, FileFacts, ValuesAssumption DEF IInv
<1>3. DueOf = {Modules[i] : i \in cur..Len(Modules)} /\ File \in DueOf
  <2>1. cur \in cur..Len(Modules) /\ cur # 0
    BY <1>2
  <2>2. DueOf = {Modules[i] : i \in cur..Len(Modules)}
    BY <1>1, <2>1, DueIs
  <2>3. QED
    BY <1>2, <2>1, <2>2
<1>4. Starting' = (cur # Len(Modules)) /\ Starting' \in BOOLEAN
  BY <1>1 DEF Starting
<1>5. DueOf' = IF Starting' THEN DueOf \ {File} ELSE {}
  <2>1. CASE Starting'
    <3>1. cur' # 0
      BY <1>1
    <3>2. DueOf' = {Modules[i] : i \in (cur + 1)..Len(Modules)}
      BY <1>1, <2>1, <3>1, DueNext
    <3>3. {Modules[i] : i \in (cur + 1)..Len(Modules)} = {Modules[i] : i \in cur..Len(Modules)} \ {File}
      <4>1. \A i \in (cur + 1)..Len(Modules) : i \in cur..Len(Modules) /\ i \in 1..Len(Modules) /\ i # cur
        BY <1>2
      <4>2. \A i \in cur..Len(Modules) : i # cur => i \in (cur + 1)..Len(Modules)
        BY <1>2
      <4>3. \A i \in (cur + 1)..Len(Modules) : Modules[i] # File
        BY <1>2, <4>1, FilesAssumption
      <4>4. QED
        BY <1>2, <4>1, <4>2, <4>3
    <3>4. QED
      BY <1>3, <2>1, <3>2, <3>3
  <2>2. CASE ~Starting'
    BY <2>2 DEF DueOf
  <2>3. QED
    BY <2>1, <2>2
<1>6. StoreOf' \in {StoreOf, [StoreOf EXCEPT ![File] = [k \in Watched[File] |-> Empty]]}
  <2>1. CASE writable
    <3>1. files' = [files EXCEPT ![File] = <<>>]
      BY <2>1 DEF Save
    <3>2. files'[File] = <<>> /\ \A g \in Files : g # File => files'[g] = files[g]
      BY <1>1, <1>2, <3>1 DEF DiskInv
    <3>3. \A g \in Files : g # File => \A k \in Watched[g] : Value(g, k)' = Value(g, k)
      BY <1>1, <3>2 DEF Value, Content
    <3>4. PICK f : f = File
      OBVIOUS
    <3>5. \A k \in Watched[f] : Value(f, k)' = Empty
      <4>1. ASSUME NEW k \in Watched[f]
            PROVE  Value(f, k)' = Empty
        <5>1. Value(f, k)' = Get(Content(f)', k) /\ Content(f)' = <<>>
          BY <1>1, <3>2, <3>4 DEF Value, Content
        <5>2. Lines(<<>>, k) = {}
          BY DEF Lines
        <5>3. QED
          BY <5>1, <5>2 DEF Get
      <4>2. QED
        BY <4>1
    <3>6. StoreOf' = [StoreOf EXCEPT ![f] = [k \in Watched[f] |-> Value(f, k)']]
      BY <1>2, <3>3, <3>4, StoreDiffers
    <3>7. [k \in Watched[f] |-> Value(f, k)'] = [k \in Watched[f] |-> Empty]
      BY <3>5
    <3>8. QED
      BY <3>4, <3>6, <3>7
  <2>2. CASE ~writable
    <3>1. files' = files
      BY <2>2 DEF Save
    <3>2. QED
      BY <1>1, <3>1, DiskKept
  <2>3. QED
    BY <2>1, <2>2
<1>7. QED
  BY <1>1, <1>3, <1>4, <1>5, <1>6, StoreIs

LEMMA MapEndsOrCuts ==
  ASSUME StoreInv, MapEnds
  PROVE  Store!Cut \/ (StoreOf' = StoreOf /\ DueOf' = DueOf /\ Starting' = Starting)
<1>1. /\ Starting /\ rewrite = NoRewrite /\ rewrite' = NoRewrite /\ cur = 0 /\ cur' = 1
      /\ files' = files /\ phase' = IF cur = Len(Modules) THEN "run" ELSE "load"
  BY DEF MapEnds, Advance, disk, Starting, StoreInv, IInv, PlaceInv, DiskInv
<1>2. StoreOf' = StoreOf
  BY <1>1, DiskKept
<1>3. CASE Len(Modules) = 0
  <2>1. ~Starting' /\ DueOf' = {}
    BY <1>1, <1>3 DEF Starting, DueOf
  <2>2. QED
    BY <1>1, <1>2, <2>1, StoreIs
<1>4. CASE Len(Modules) # 0
  <2>1. Starting' /\ Starting' = Starting
    BY <1>1, <1>4 DEF Starting
  <2>2. cur \in Nat /\ cur' \in Nat
    BY <1>1
  <2>3. /\ DueOf = {Modules[i] : i \in 1..Len(Modules)}
        /\ DueOf' = {Modules[i] : i \in 1..Len(Modules)}
    BY <1>1, <2>1, <2>2, DueIs, DueNext
  <2>4. QED
    BY <1>2, <2>1, <2>3
<1>5. QED
  BY <1>3, <1>4

LEMMA CrashCuts ==
  ASSUME StoreInv, Crash
  PROVE  \/ Store!Cut \/ Store!CutRewrite
         \/ StoreOf' = StoreOf /\ DueOf' = DueOf /\ Starting' = Starting
<1>1. ~Starting' /\ DueOf' = {} /\ rewrite' = NoRewrite /\ files' = files /\ cur' = cur
  BY DEF Crash, Starting, DueOf
<1>2. CASE rewrite = NoRewrite
  <2>1. StoreOf' = StoreOf
    BY <1>1, <1>2, DiskKept
  <2>2. CASE Starting
    BY <1>1, <2>1, <2>2, StoreIs
  <2>3. CASE ~Starting
    <3>1. DueOf' = DueOf /\ Starting' = Starting
      BY <1>1, <2>3 DEF DueOf, Starting
    <3>2. QED
      BY <2>1, <3>1
  <2>4. QED
    BY <2>2, <2>3
<1>3. CASE rewrite # NoRewrite
  <2>1. /\ phase = "load" /\ Starting /\ step <= Len(Plan) /\ files[File] = <<>>
        /\ IInv /\ TypeInv
    BY <1>3 DEF StoreInv, IInv, PlaceInv, DiskInv, Starting
  <2>2. File \in Files /\ Current \in Watched[File]
    BY <2>1, CurrentFacts
  <2>3. PICK f, c : f = File /\ c = Current
    OBVIOUS
  <2>4. StoreOf[f][c] = Empty /\ f \in Files /\ c \in Watched[f]
    BY <1>3, <2>2, <2>3 DEF StoreOf, Value
  <2>5. \A g \in Files : g # f => \A k \in Watched[g] : Value(g, k)' = Value(g, k)
    BY <1>1, <1>3, <2>3 DEF Value, Content
  <2>6. ASSUME NEW k \in Watched[f]
        PROVE  Value(f, k)' = Empty
    <3>1. Value(f, k)' = Get(Content(f)', k) /\ Content(f)' = <<>>
      BY <1>1, <2>1, <2>3, FilesFacts DEF Value, Content
    <3>2. Lines(<<>>, k) = {}
      BY DEF Lines
    <3>3. QED
      BY <3>1, <3>2 DEF Get
  <2>7. StoreOf' = [StoreOf EXCEPT ![f] = [k \in Watched[f] |-> Value(f, k)']]
    BY <2>4, <2>5, StoreDiffers
  <2>8. [k \in Watched[f] |-> Value(f, k)'] = [k \in Watched[f] |-> Empty]
    BY <2>6
  <2>9. StoreOf' = [StoreOf EXCEPT ![f] = [k \in Watched[f] |-> Empty]]
    BY <2>7, <2>8
  <2>10. QED
    BY <1>1, <2>1, <2>4, <2>9, StoreIs
<1>4. QED
  BY <1>2, <1>3

LEMMA EditReplaces ==
  ASSUME StoreInv, EditFile
  PROVE  Store!Replace
<1>1. /\ ~Starting /\ ~Starting' /\ DueOf' = DueOf /\ rewrite = NoRewrite /\ rewrite' = NoRewrite
  BY DEF EditFile, Starting, DueOf, StoreInv, IInv, PlaceInv
<1>2. PICK f \in Files : \E c \in Contents[f] : files' = [files EXCEPT ![f] = c]
  BY DEF EditFile
<1>3. \A g \in Files : g # f => files'[g] = files[g]
  BY <1>2 DEF StoreInv, DiskInv
<1>4. \A g \in Files : g # f => \A k \in Watched[g] : Value(g, k)' = Value(g, k)
  BY <1>1, <1>3 DEF Value, Content
<1>5. PICK e : StoreOf' = [StoreOf EXCEPT ![f] = e]
  BY <1>4, StoreDiffers
<1>6. f \in DOMAIN StoreOf
  BY DEF StoreOf
<1>7. StoreOf' = [StoreOf EXCEPT ![f] = StoreOf'[f]]
  BY <1>5, <1>6
<1>8. QED
  BY <1>1, <1>7, StoreIs

LEMMA ImplementsStep ==
  StoreInv /\ [Next]_vars => Store!Next \/ (StoreOf' = StoreOf /\ DueOf' = DueOf /\ Starting' = Starting)
<1> DEFINE Same == StoreOf' = StoreOf /\ DueOf' = DueOf /\ Starting' = Starting
<1> SUFFICES ASSUME StoreInv, [Next]_vars
             PROVE  Store!Next \/ Same
  OBVIOUS
<1> USE DEF Store!Next
<1>0. IInv /\ DiskInv
  BY DEF StoreInv
<1>1. CASE Boot
  BY <1>1, BootStarts
<1>2. CASE Truncate
  BY <1>2, TruncateKeeps
<1>3. CASE Fill
  BY <1>3, FillFills
<1>4. CASE Save
  BY <1>4, SaveSaves
<1>5. CASE MapEnds
  BY <1>5, MapEndsOrCuts
<1>6. CASE Crash
  BY <1>6, CrashCuts
<1>7. CASE EditFile
  BY <1>7, EditReplaces
<1>8. CASE OverrunDies \/ MapRowThrows
  <2>1. /\ Starting /\ ~Starting' /\ DueOf' = {} /\ files' = files
        /\ rewrite = NoRewrite /\ rewrite' = NoRewrite
    BY <1>0, <1>8 DEF OverrunDies, MapRowThrows, Reading, disk, Starting, DueOf, IInv, PlaceInv
  <2>2. StoreOf' = StoreOf
    BY <2>1, DiskKept
  <2>3. QED
    BY <2>1, <2>2, StoreIs
<1>9. CASE ReadPresent \/ ReadUnwritable \/ OverrunThrows \/ LoadMissing \/ EndLoad
           \/ MapRow \/ MapRowSkipped \/ EditTable
  <2>1. /\ Starting' = Starting /\ cur' = cur /\ files' = files
        /\ rewrite = NoRewrite /\ rewrite' = NoRewrite
    <3>1. CASE ReadPresent \/ ReadUnwritable
      BY <3>1 DEF ReadPresent, ReadUnwritable, Reading, Take, Starting
    <3>2. CASE OverrunThrows \/ LoadMissing \/ EndLoad
      BY <3>2 DEF OverrunThrows, LoadMissing, EndLoad, Reading, disk, Starting
    <3>3. CASE MapRow \/ MapRowSkipped
      BY <1>0, <3>3 DEF MapRow, MapRowSkipped, disk, Starting, IInv, PlaceInv
    <3>4. CASE EditTable
      BY <1>0, <3>4 DEF EditTable, Starting, IInv, PlaceInv
    <3>5. QED
      BY <1>9, <3>1, <3>2, <3>3, <3>4
  <2>2. QED
    BY <2>1, DiskKept, DueKept
<1>10. CASE UNCHANGED vars
  <2>1. UNCHANGED <<files, ram, phase, cur, step, rewrite>>
    BY <1>10 DEF vars, disk
  <2>2. Plan' = Plan /\ File' = File /\ Starting' = Starting
    BY <2>1, PlanKept DEF File, Starting
  <2>3. \A g \in Files : \A k \in Watched[g] : Value(g, k)' = Value(g, k)
    BY <2>1, <2>2 DEF Value, Content, Current
  <2>4. QED
    BY <2>1, <2>2, <2>3, StoreKept, DueKept
<1>11. QED
  BY <1>1, <1>2, <1>3, <1>4, <1>5, <1>6, <1>7, <1>8, <1>9, <1>10 DEF Next, StartStep

\* A start gives values to keys that have none and changes no other value, for any
\* lines the operator left, any modules and any number of starts, cut wherever they
\* are; a file is lost as a whole, at its save or in a rewrite that is cut, and only
\* then (IniObject, main, saveConfig).
THEOREM StartsImplementStore == Spec => ImplementsStore
<1>1. Init => Store!Init
  BY StoreStarts
<1>2. StoreInv /\ [Next]_vars => [Store!Next]_<<StoreOf, Starting, DueOf>>
  BY ImplementsStep
<1>3. StoreInv /\ [Next]_vars => [Store!Next]_<<[f \in Files |-> [k \in Watched[f] |-> Value(f, k)]],
        Starting, IF Starting THEN {Modules[i] : i \in Max({cur, 1})..Len(Modules)} ELSE {}>>
  BY <1>2 DEF StoreOf, DueOf
<1>4. QED
  BY <1>1, <1>3, StoreInvariant, PTL DEF Spec, ImplementsStore, Store!Spec

-------------------------------------------------------------------------------
(* The order of the keys.                                                  *)

LEMMA KeyFields ==
  /\ Type.id[1] = "type" /\ Name.id[1] = "moduleName" /\ Alias.id[1] = "alias"
  /\ Shunt[1].id[1] = "shuntLocation" /\ Shunt[2].id[1] = "shuntValue" /\ Shunt[3].id[1] = "terminalConfig"
  /\ ChanMax.id[1] = "max" /\ ChanMin.id[1] = "min"
  /\ Edge.id[1] = "edgeCountingMode" /\ Direction.id[1] = "countingDirection"
  /\ CountingMax.id[1] = "countingMax" /\ CountingMin.id[1] = "countingMin"
  /\ \A l \in Lists : CountKey(l).id[1] = "numberOf" /\ CountKey(l).sec = Plural[l]
  /\ Plural["channel"] = "channels" /\ Plural["counter"] = "counters" /\ Plural["output"] = "outputs"
  /\ "channel" \in Lists /\ "counter" \in Lists /\ "output" \in Lists
  BY KeyIs DEF Type, Name, Alias, Shunt, ChanMax, ChanMin, Edge, Direction, CountingMax, CountingMin,
               CountKey, Plural, Lists

\* Where a list's count is, how many keys are before its first name, and how many
\* names it has.
CountAt(l, a, n, m) ==
    CASE l = "channel" -> a + 1 [] l = "counter" -> a + 4 + n [] l = "output" -> a + 9 + n + m
BaseAt(l, a, n, m) ==
    CASE l = "channel" -> a + 3 [] l = "counter" -> a + 4 + n [] l = "output" -> a + 9 + n + m
Amount(l, n, m, p) == CASE l = "channel" -> n [] l = "counter" -> m [] l = "output" -> p

LEMMA ListCases ==
  ASSUME NEW a, NEW n, NEW m, NEW p
  PROVE  /\ CountAt("channel", a, n, m) = a + 1 /\ BaseAt("channel", a, n, m) = a + 3
         /\ CountAt("counter", a, n, m) = a + 4 + n /\ BaseAt("counter", a, n, m) = a + 4 + n
         /\ CountAt("output", a, n, m) = a + 9 + n + m /\ BaseAt("output", a, n, m) = a + 9 + n + m
         /\ Amount("channel", n, m, p) = n /\ Amount("counter", n, m, p) = m
         /\ Amount("output", n, m, p) = p
  BY DEF CountAt, BaseAt, Amount

\* The numbers a list of reads depends on, and its places.
Sizes(a, n, m, p)     == a \in {3, 6} /\ n \in Nat /\ m \in Nat /\ p \in Nat
Within(j, a, n, m, p) == j \in 1..(a + 9 + n + m + p)

\* The place j of a key k, as far as k is one that is read once.
PlacedAt(k, j, a, n, m) ==
    /\ k = Alias => j = 3
    /\ k = CountKey("channel") => j = a + 1
    /\ k = CountKey("counter") => j = a + 4 + n
    /\ k = CountKey("output") => j = a + 9 + n + m
    /\ k = ChanMax => j = a + 2
    /\ k = ChanMin => j = a + 3
    /\ k = CountingMax => j = a + 7 + n + m
    /\ k = CountingMin => j = a + 8 + n + m
    /\ \A i : k = Key("channels", "channel", i) => a + 3 < j /\ j <= a + 3 + n /\ i = j - a - 4
    /\ \A i : k = Key("counters", "counter", i) => a + 4 + n < j /\ j <= a + 4 + n + m /\ i = j - a - n - 5
    /\ \A i : k = Key("outputs", "output", i) => a + 9 + n + m < j /\ i = j - a - n - m - 10

LEMMA KeyPlaces ==
  ASSUME NEW a, NEW n, NEW m, NEW p, NEW j, Sizes(a, n, m, p), Within(j, a, n, m, p),
         NEW k, k = KeyAt(a, n, m, p, j)
  PROVE  PlacedAt(k, j, a, n, m)
<1> USE DEF Sizes, Within, PlacedAt
<1> USE KeyFields
<1>1. CASE j <= a
  <2>1. k.id[1] \in {"type", "moduleName", "alias", "shuntLocation", "shuntValue", "terminalConfig"}
    BY <1>1 DEF KeyAt
  <2>2. k.id[1] = "alias" => j = 3
    BY <1>1 DEF KeyAt
  <2>3. QED
    BY <2>1, <2>2, KeyIs
<1>2. CASE j = a + 1
  <2>1. k = CountKey("channel")
    BY <1>2 DEF KeyAt
  <2>2. QED
    BY <1>2, <2>1, KeyIs
<1>3. CASE j = a + 2
  <2>1. k = ChanMax
    BY <1>3 DEF KeyAt
  <2>2. QED
    BY <1>3, <2>1, KeyIs
<1>4. CASE j = a + 3
  <2>1. k = ChanMin
    BY <1>4 DEF KeyAt
  <2>2. QED
    BY <1>4, <2>1, KeyIs
<1>5. CASE a + 3 < j /\ j <= a + 3 + n
  <2>1. k = Key("channels", "channel", j - a - 4)
    BY <1>5 DEF KeyAt
  <2>2. k.id = <<"channel", j - a - 4>> /\ k.id[1] = "channel" /\ k.id[2] = j - a - 4
    BY <2>1, KeyIs
  <2>3. QED
    BY <1>5, <2>2, KeyIs
<1>6. CASE j = a + 4 + n
  <2>1. k = CountKey("counter")
    BY <1>6 DEF KeyAt
  <2>2. QED
    BY <1>6, <2>1, KeyIs
<1>7. CASE a + 4 + n < j /\ j <= a + 4 + n + m
  <2>1. k = Key("counters", "counter", j - a - n - 5)
    BY <1>7 DEF KeyAt
  <2>2. k.id = <<"counter", j - a - n - 5>> /\ k.id[1] = "counter" /\ k.id[2] = j - a - n - 5
    BY <2>1, KeyIs
  <2>3. QED
    BY <1>7, <2>2, KeyIs
<1>8. CASE a + 4 + n + m < j /\ j <= a + 8 + n + m
  <2>1. k.id[1] \in {"edgeCountingMode", "countingDirection", "countingMax", "countingMin"}
    BY <1>8 DEF KeyAt
  <2>2. /\ k.id[1] = "countingMin" => j = a + 8 + n + m
        /\ k.id[1] = "countingMax" => j = a + 7 + n + m
    BY <1>8 DEF KeyAt
  <2>3. QED
    BY <2>1, <2>2, KeyIs
<1>9. CASE j = a + 9 + n + m
  <2>1. k = CountKey("output")
    BY <1>9 DEF KeyAt
  <2>2. QED
    BY <1>9, <2>1, KeyIs
<1>10. CASE a + 9 + n + m < j
  <2>1. k = Key("outputs", "output", j - a - n - m - 10)
    BY <1>10 DEF KeyAt
  <2>2. k.id = <<"output", j - a - n - m - 10>> /\ k.id[1] = "output" /\ k.id[2] = j - a - n - m - 10
    BY <2>1, KeyIs
  <2>3. QED
    BY <1>10, <2>2, KeyIs
<1>11. QED
  BY <1>1, <1>2, <1>3, <1>4, <1>5, <1>6, <1>7, <1>8, <1>9, <1>10

\* Two lists of reads agree on the first j keys, and on the lists begun there.
SameTo(j, a, n, m, p, b, r, s, t) ==
    /\ j <= b + 9 + r + s + t
    /\ \A i \in 1..j : KeyAt(b, r, s, t, i) = KeyAt(a, n, m, p, i)
    /\ \A l \in Lists : j >= CountAt(l, a, n, m) =>
          /\ CountAt(l, b, r, s) = CountAt(l, a, n, m) /\ BaseAt(l, b, r, s) = BaseAt(l, a, n, m)
          /\ j # CountAt(l, a, n, m) => Amount(l, r, s, t) = Amount(l, n, m, p)
    /\ \A l \in Lists : j >= CountAt(l, b, r, s) => j >= CountAt(l, a, n, m)

\* What a read of key k may change of these numbers.
Decides(k, a, n, m, p, b, r, s, t) ==
    /\ k # Alias => b = a
    /\ k # CountKey("channel") => r = n
    /\ k # CountKey("counter") => s = m
    /\ k # CountKey("output") => t = p

\* What a read decides comes behind it: the keys up to the one that is read stay.
LEMMA KeyAtKept ==
  ASSUME NEW a, NEW n, NEW m, NEW p, NEW b, NEW r, NEW s, NEW t, NEW j,
         Sizes(a, n, m, p), Sizes(b, r, s, t), Within(j, a, n, m, p),
         Decides(KeyAt(a, n, m, p, j), a, n, m, p, b, r, s, t)
  PROVE  SameTo(j, a, n, m, p, b, r, s, t)
<1> USE DEF Sizes, Within
<1>1. /\ j # 3 => b = a
      /\ j # a + 1 => r = n
      /\ j # a + 4 + n => s = m
      /\ j # a + 9 + n + m => t = p
  <2>1. PICK k : k = KeyAt(a, n, m, p, j)
    OBVIOUS
  <2>2. /\ k # Alias => b = a
        /\ k # CountKey("channel") => r = n
        /\ k # CountKey("counter") => s = m
        /\ k # CountKey("output") => t = p
    BY <2>1 DEF Decides
  <2>3. /\ k = Alias => j = 3
        /\ k = CountKey("channel") => j = a + 1
        /\ k = CountKey("counter") => j = a + 4 + n
        /\ k = CountKey("output") => j = a + 9 + n + m
    BY <2>1, KeyPlaces DEF PlacedAt
  <2>4. QED
    BY <2>2, <2>3
<1>2. j <= b + 9 + r + s + t
  <2>1. CASE j <= a
    BY <1>1, <2>1
  <2>2. CASE a < j /\ j <= a + 3 + n
    BY <1>1, <2>2
  <2>3. CASE a + 3 + n < j /\ j <= a + 8 + n + m
    BY <1>1, <2>3
  <2>4. CASE a + 8 + n + m < j
    BY <1>1, <2>4
  <2>5. QED
    BY <2>1, <2>2, <2>3, <2>4
<1>3. ASSUME NEW i \in 1..j
      PROVE  KeyAt(b, r, s, t, i) = KeyAt(a, n, m, p, i)
  <2>1. CASE j <= 3
    BY <2>1 DEF KeyAt
  <2>2. CASE 3 < j /\ j <= a + 1
    <3>1. b = a
      BY <1>1, <2>2
    <3>2. QED
      BY <2>2, <3>1 DEF KeyAt
  <2>3. CASE a + 1 < j /\ j <= a + 4 + n
    <3>1. b = a /\ r = n
      BY <1>1, <2>3
    <3>2. QED
      BY <2>3, <3>1 DEF KeyAt
  <2>4. CASE a + 4 + n < j /\ j <= a + 9 + n + m
    <3>1. b = a /\ r = n /\ s = m
      BY <1>1, <2>4
    <3>2. QED
      BY <2>4, <3>1 DEF KeyAt
  <2>5. CASE a + 9 + n + m < j
    BY <1>1, <2>5
  <2>6. QED
    BY <2>1, <2>2, <2>3, <2>4, <2>5
<1>4. ASSUME NEW l \in Lists, j >= CountAt(l, a, n, m)
      PROVE  /\ CountAt(l, b, r, s) = CountAt(l, a, n, m) /\ BaseAt(l, b, r, s) = BaseAt(l, a, n, m)
             /\ j # CountAt(l, a, n, m) => Amount(l, r, s, t) = Amount(l, n, m, p)
  <2>1. CASE l = "channel"
    <3>1. /\ CountAt(l, a, n, m) = a + 1 /\ CountAt(l, b, r, s) = b + 1
          /\ BaseAt(l, a, n, m) = a + 3 /\ BaseAt(l, b, r, s) = b + 3
          /\ Amount(l, n, m, p) = n /\ Amount(l, r, s, t) = r
      BY <2>1 DEF CountAt, BaseAt, Amount
    <3>2. j >= a + 1
      BY <1>4, <3>1
    <3>3. b = a /\ (j # a + 1 => r = n)
      BY <1>1, <3>2
    <3>4. QED
      BY <3>1, <3>3
  <2>2. CASE l = "counter"
    <3>1. /\ CountAt(l, a, n, m) = a + 4 + n /\ CountAt(l, b, r, s) = b + 4 + r
          /\ BaseAt(l, a, n, m) = a + 4 + n /\ BaseAt(l, b, r, s) = b + 4 + r
          /\ Amount(l, n, m, p) = m /\ Amount(l, r, s, t) = s
      BY <2>2 DEF CountAt, BaseAt, Amount
    <3>2. j >= a + 4 + n
      BY <1>4, <3>1
    <3>3. b = a /\ r = n /\ (j # a + 4 + n => s = m)
      BY <1>1, <3>2
    <3>4. QED
      BY <3>1, <3>3
  <2>3. CASE l = "output"
    <3>1. /\ CountAt(l, a, n, m) = a + 9 + n + m /\ CountAt(l, b, r, s) = b + 9 + r + s
          /\ BaseAt(l, a, n, m) = a + 9 + n + m /\ BaseAt(l, b, r, s) = b + 9 + r + s
          /\ Amount(l, n, m, p) = p /\ Amount(l, r, s, t) = t
      BY <2>3 DEF CountAt, BaseAt, Amount
    <3>2. j >= a + 9 + n + m
      BY <1>4, <3>1
    <3>3. b = a /\ r = n /\ s = m /\ (j # a + 9 + n + m => t = p)
      BY <1>1, <3>2
    <3>4. QED
      BY <3>1, <3>3
  <2>4. QED
    BY <2>1, <2>2, <2>3 DEF Lists
<1>6. ASSUME NEW l \in Lists, j >= CountAt(l, b, r, s)
      PROVE  j >= CountAt(l, a, n, m)
  <2>1. CASE l = "channel"
    <3>1. CountAt(l, a, n, m) = a + 1 /\ CountAt(l, b, r, s) = b + 1
      BY <2>1 DEF CountAt
    <3>2. j >= b + 1
      BY <1>6, <3>1
    <3>3. j >= a + 1
      BY <1>1, <3>2
    <3>4. QED
      BY <3>1, <3>3
  <2>2. CASE l = "counter"
    <3>1. CountAt(l, a, n, m) = a + 4 + n /\ CountAt(l, b, r, s) = b + 4 + r
      BY <2>2 DEF CountAt
    <3>2. j >= b + 4 + r
      BY <1>6, <3>1
    <3>3. j >= a + 4 + n
      BY <1>1, <3>2
    <3>4. QED
      BY <3>1, <3>3
  <2>3. CASE l = "output"
    <3>1. CountAt(l, a, n, m) = a + 9 + n + m /\ CountAt(l, b, r, s) = b + 9 + r + s
      BY <2>3 DEF CountAt
    <3>2. j >= b + 9 + r + s
      BY <1>6, <3>1
    <3>3. j >= a + 9 + n + m
      BY <1>1, <3>2
    <3>4. QED
      BY <3>1, <3>3
  <2>4. QED
    BY <2>1, <2>2, <2>3 DEF Lists
<1>5. QED
  BY <1>2, <1>3, <1>4, <1>6 DEF SameTo

\* The places of a list.
ListAt(l, a, n, m, p, c, h, e) ==
    /\ c \in Nat /\ h \in Nat /\ e \in Nat /\ 3 < h /\ h <= e
    /\ e + c <= a + 9 + n + m + p
    /\ KeyAt(a, n, m, p, h) = CountKey(l)
    /\ \A j \in 1..(a + 9 + n + m + p) :
          /\ KeyAt(a, n, m, p, j) = CountKey(l) => j = h
          /\ \A i : KeyAt(a, n, m, p, j) = Key(Plural[l], l, i) =>
                e < j /\ j <= e + c /\ i = j - e - 1
          /\ e < j /\ j <= e + c => KeyAt(a, n, m, p, j) = Key(Plural[l], l, j - e - 1)

LEMMA ListPlaces ==
  ASSUME NEW a, NEW n, NEW m, NEW p, Sizes(a, n, m, p), NEW l \in Lists,
         NEW c, c = Amount(l, n, m, p), NEW h, h = CountAt(l, a, n, m), NEW e, e = BaseAt(l, a, n, m)
  PROVE  ListAt(l, a, n, m, p, c, h, e)
<1> USE DEF Sizes, ListAt
<1> USE KeyFields, ListCases
<1>1. CASE l = "channel"
  <2>1. c = n /\ h = a + 1 /\ e = a + 3
    BY <1>1
  <2>2. KeyAt(a, n, m, p, h) = CountKey(l)
    BY <1>1, <2>1 DEF KeyAt
  <2>3. ASSUME NEW j \in 1..(a + 9 + n + m + p)
        PROVE  /\ KeyAt(a, n, m, p, j) = CountKey(l) => j = h
               /\ \A i : KeyAt(a, n, m, p, j) = Key("channels", "channel", i) =>
                     e < j /\ j <= e + c /\ i = j - e - 1
               /\ e < j /\ j <= e + c => KeyAt(a, n, m, p, j) = Key("channels", "channel", j - e - 1)
    <3>1. j - e - 1 = j - a - 4
      BY <2>1
    <3>2. e < j /\ j <= e + c => KeyAt(a, n, m, p, j) = Key("channels", "channel", j - a - 4)
      BY <2>1 DEF KeyAt
    <3>3. PICK k : k = KeyAt(a, n, m, p, j)
      OBVIOUS
    <3>5. /\ k = CountKey("channel") => j = a + 1
          /\ \A i : k = Key("channels", "channel", i) =>
                a + 3 < j /\ j <= a + 3 + n /\ i = j - a - 4
      BY <3>3, KeyPlaces DEF Within, PlacedAt
    <3>4. QED
      BY <1>1, <2>1, <3>1, <3>2, <3>3, <3>5
  <2>4. QED
    BY <1>1, <2>1, <2>2, <2>3
<1>2. CASE l = "counter"
  <2>1. c = m /\ h = a + 4 + n /\ e = a + 4 + n
    BY <1>2
  <2>2. KeyAt(a, n, m, p, h) = CountKey(l)
    BY <1>2, <2>1 DEF KeyAt
  <2>3. ASSUME NEW j \in 1..(a + 9 + n + m + p)
        PROVE  /\ KeyAt(a, n, m, p, j) = CountKey(l) => j = h
               /\ \A i : KeyAt(a, n, m, p, j) = Key("counters", "counter", i) =>
                     e < j /\ j <= e + c /\ i = j - e - 1
               /\ e < j /\ j <= e + c => KeyAt(a, n, m, p, j) = Key("counters", "counter", j - e - 1)
    <3>1. j - e - 1 = j - a - n - 5
      BY <2>1
    <3>2. e < j /\ j <= e + c => KeyAt(a, n, m, p, j) = Key("counters", "counter", j - a - n - 5)
      BY <2>1 DEF KeyAt
    <3>3. PICK k : k = KeyAt(a, n, m, p, j)
      OBVIOUS
    <3>5. /\ k = CountKey("counter") => j = a + 4 + n
          /\ \A i : k = Key("counters", "counter", i) =>
                a + 4 + n < j /\ j <= a + 4 + n + m /\ i = j - a - n - 5
      BY <3>3, KeyPlaces DEF Within, PlacedAt
    <3>4. QED
      BY <1>2, <2>1, <3>1, <3>2, <3>3, <3>5
  <2>4. QED
    BY <1>2, <2>1, <2>2, <2>3
<1>3. CASE l = "output"
  <2>1. c = p /\ h = a + 9 + n + m /\ e = a + 9 + n + m
    BY <1>3 DEF Amount, CountAt, BaseAt
  <2>2. KeyAt(a, n, m, p, h) = CountKey(l)
    BY <1>3, <2>1 DEF KeyAt
  <2>3. ASSUME NEW j \in 1..(a + 9 + n + m + p)
        PROVE  /\ KeyAt(a, n, m, p, j) = CountKey(l) => j = h
               /\ \A i : KeyAt(a, n, m, p, j) = Key("outputs", "output", i) =>
                     e < j /\ j <= e + c /\ i = j - e - 1
               /\ e < j /\ j <= e + c => KeyAt(a, n, m, p, j) = Key("outputs", "output", j - e - 1)
    <3>1. j - e - 1 = j - a - n - m - 10 /\ j <= e + c
      BY <2>1
    <3>2. e < j /\ j <= e + c => KeyAt(a, n, m, p, j) = Key("outputs", "output", j - a - n - m - 10)
      BY <2>1 DEF KeyAt
    <3>3. PICK k : k = KeyAt(a, n, m, p, j)
      OBVIOUS
    <3>5. /\ k = CountKey("output") => j = a + 9 + n + m
          /\ \A i : k = Key("outputs", "output", i) =>
                a + 9 + n + m < j /\ i = j - a - n - m - 10
      BY <3>3, KeyPlaces DEF Within, PlacedAt
    <3>4. QED
      BY <1>3, <2>1, <3>1, <3>2, <3>3, <3>5
  <2>4. QED
    BY <1>3, <2>1, <2>2, <2>3
<1>4. QED
  BY <1>1, <1>2, <1>3 DEF Lists

\* Every key of a class is read, the shunt if there is an alias.
Occurs(k, a, n, m, p) == \E j \in 1..(a + 9 + n + m + p) : KeyAt(a, n, m, p, j) = k

LEMMA KeysOccur ==
  ASSUME NEW a, NEW n, NEW m, NEW p, Sizes(a, n, m, p),
         NEW f \in Files \ {Server}, NEW k \in Scalars(f),
         a = 6 \/ k \notin {Shunt[i] : i \in 1..3}
  PROVE  Occurs(k, a, n, m, p)
<1>0. a \in {3, 6} /\ n \in Nat /\ m \in Nat /\ p \in Nat
  BY DEF Sizes
<1> USE <1>0
<1>1. \A j : j \in Nat /\ 1 <= j /\ j <= a + 9 + n + m + p => j \in 1..(a + 9 + n + m + p)
  OBVIOUS
<1>2. CASE k \in CountKeys
  <2>1. PICK l \in Lists : k = CountKey(l)
    BY <1>2 DEF CountKeys
  <2>2. PICK h, e, c : h = CountAt(l, a, n, m) /\ e = BaseAt(l, a, n, m) /\ c = Amount(l, n, m, p)
    OBVIOUS
  <2>3. /\ c \in Nat /\ h \in Nat /\ e \in Nat /\ 3 < h /\ h <= e
        /\ e + c <= a + 9 + n + m + p /\ KeyAt(a, n, m, p, h) = CountKey(l)
    BY <2>1, <2>2, ListPlaces DEF ListAt
  <2>4. h \in 1..(a + 9 + n + m + p)
    BY <2>3
  <2>5. QED
    BY <2>1, <2>3, <2>4 DEF Occurs
<1>3. CASE k \in {Shunt[i] : i \in 1..3}
  <2>1. PICK i \in 1..3 : k = Shunt[i]
    BY <1>3
  <2>2. a = 6
    BY <1>3
  <2>3. i + 3 \in 1..(a + 9 + n + m + p)
    BY <2>2
  <2>4. KeyAt(a, n, m, p, i + 3) = k
    BY <2>1, <2>2 DEF KeyAt
  <2>5. QED
    BY <2>3, <2>4 DEF Occurs
<1>4. CASE k \in {Type, Name, Alias}
  <2>1. KeyAt(a, n, m, p, 1) = Type /\ KeyAt(a, n, m, p, 2) = Name /\ KeyAt(a, n, m, p, 3) = Alias
    BY DEF KeyAt
  <2>2. {1, 2, 3} \subseteq 1..(a + 9 + n + m + p)
    OBVIOUS
  <2>3. QED
    BY <1>4, <2>1, <2>2 DEF Occurs
<1>5. CASE k \in {ChanMax, ChanMin}
  <2>1. KeyAt(a, n, m, p, a + 2) = ChanMax /\ KeyAt(a, n, m, p, a + 3) = ChanMin
    BY DEF KeyAt
  <2>2. {a + 2, a + 3} \subseteq 1..(a + 9 + n + m + p)
    OBVIOUS
  <2>3. QED
    BY <1>5, <2>1, <2>2 DEF Occurs
<1>6. CASE k \in {Edge, Direction, CountingMax, CountingMin}
  <2>1. /\ KeyAt(a, n, m, p, a + 5 + n + m) = Edge /\ KeyAt(a, n, m, p, a + 6 + n + m) = Direction
        /\ KeyAt(a, n, m, p, a + 7 + n + m) = CountingMax
        /\ KeyAt(a, n, m, p, a + 8 + n + m) = CountingMin
    BY DEF KeyAt
  <2>2. {a + 5 + n + m, a + 6 + n + m, a + 7 + n + m, a + 8 + n + m} \subseteq 1..(a + 9 + n + m + p)
    OBVIOUS
  <2>3. QED
    BY <1>6, <2>1, <2>2 DEF Occurs
<1>7. QED
  BY <1>2, <1>3, <1>4, <1>5, <1>6 DEF Scalars

-------------------------------------------------------------------------------
(* What the operator asked for is in the files.                            *)

AskedOf(f, k)  == IF intent[f] = Missing THEN Empty ELSE Get(intent[f], k)
WantedOf(f, k) == IF AskedOf(f, k) = Empty THEN Default[f][k]
                  ELSE Parsed(k, AskedOf(f, k), Default[f][k])

\* The lines of a file; under a rewrite those about to be written.
Now(f) == IF rewrite # NoRewrite /\ f = File THEN rewrite ELSE Content(f)

\* What was asked for is there, and the program adds nothing but defaults.
KeptIn(f) ==
    /\ files[f] = Missing => intent[f] = Missing
    /\ \A k \in Watched[f] : AskedOf(f, k) # Empty => Get(Now(f), k) = AskedOf(f, k)
    /\ \A k \in Scalars(f) : AskedOf(f, k) = Empty => Get(Now(f), k) \in {Empty, Default[f][k]}

KeepInv ==
    /\ \A f \in Files : KeptIn(f)
    /\ rewrite # NoRewrite => AskedOf(File, Current) = Empty

LEMMA GetNothing ==
  ASSUME NEW k
  PROVE  Get(<<>>, k) = Empty
<1>1. Lines(<<>>, k) = {}
  BY DEF Lines
<1>2. QED
  BY <1>1 DEF Get

\* A file that goes on as it was.
LEMMA KeptSame ==
  ASSUME NEW f \in Files, KeptIn(f), files'[f] = Missing => files[f] = Missing,
         intent'[f] = intent[f], Now(f)' = Now(f)
  PROVE  KeptIn(f)'
<1>1. \A k : AskedOf(f, k)' = AskedOf(f, k)
  BY DEF AskedOf
<1>2. QED
  BY <1>1 DEF KeptIn

\* A file that the operator, or a loss, replaced.
LEMMA KeptAnew ==
  ASSUME NEW f \in Files, files'[f] = intent'[f], rewrite' = NoRewrite
  PROVE  KeptIn(f)'
<1>1. Now(f)' = IF files'[f] = Missing THEN <<>> ELSE files'[f]
  BY DEF Now, Content
<1>2. ASSUME NEW k
      PROVE  Get(Now(f)', k) = AskedOf(f, k)'
  BY <1>1, GetNothing DEF AskedOf
<1>3. \A k : Get(Now(f)', k) = AskedOf(f, k)'
  BY <1>2
<1>4. QED
  BY <1>3 DEF KeptIn

LEMMA KeepInit == Init => KeepInv
<1> SUFFICES ASSUME Init PROVE KeepInv
  OBVIOUS
<1>1. /\ rewrite = NoRewrite
      /\ \A f \in Files : files[f] = Missing /\ intent[f] = Missing
  BY DEF Init
<1>2. \A f \in Files : \A k : AskedOf(f, k) = Empty /\ Get(Now(f), k) = Empty
  BY <1>1, GetNothing DEF AskedOf, Now, Content
<1>3. QED
  BY <1>1, <1>2 DEF KeepInv, KeptIn

LEMMA KeepStep ==
  ASSUME StoreInv, KeepInv, [Next]_vars
  PROVE  KeepInv'
<1>0. IInv /\ TypeInv /\ DiskInv
  BY DEF StoreInv
<1>1. CASE Fill
  <2>1. /\ files' = [files EXCEPT ![File] = rewrite] /\ intent' = intent /\ rewrite' = NoRewrite
        /\ rewrite # NoRewrite /\ phase = "load" /\ File' = File
    BY <1>1 DEF Fill, Take, File
  <2>2. File \in Files
    BY <1>0, <2>1, FileFacts DEF IInv, Starting
  <2>3. rewrite # Missing
    BY <1>0, <2>1, FilesFacts DEF DiskInv
  <2>4. files'[File] = rewrite /\ \A f \in Files : f # File => files'[f] = files[f]
    BY <1>0, <2>1, <2>2 DEF DiskInv
  <2>5. \A f \in Files : Now(f)' = Now(f)
    BY <2>1, <2>3, <2>4 DEF Now, Content
  <2>6. ASSUME NEW f \in Files
        PROVE  KeptIn(f)'
    BY <2>1, <2>3, <2>4, <2>5, KeptSame DEF KeepInv
  <2>7. QED
    BY <2>1, <2>6 DEF KeepInv
<1>2. CASE Truncate
  <2>1. /\ phase = "load" /\ File' = File /\ File \in Files /\ Current' = Current
        /\ Get(Content(File), Current) = Empty /\ rewrite' \in IniFiles
        /\ \A q : KeyRecord(q) =>
              Get(rewrite', q) = IF q = Current THEN DefaultValue ELSE Get(Content(File), q)
        /\ files' = [files EXCEPT ![File] = <<>>] /\ files'[File] = <<>> /\ step <= Len(Plan)
    BY <1>2, TruncateFacts
  <2>2. intent' = intent /\ rewrite = NoRewrite
    BY <1>2 DEF Truncate, Reading
  <2>3. /\ Current \in Watched[File]
        /\ Current \in Scalars(File) => DefaultValue = Default[File][Current]
    BY <1>0, <2>1, CurrentFacts
  <2>4. AskedOf(File, Current) = Empty
    <3>1. KeptIn(File) /\ Now(File) = Content(File)
      BY <2>1, <2>2 DEF KeepInv, Now
    <3>2. QED
      BY <2>1, <2>3, <3>1 DEF KeptIn
  <2>5. ASSUME NEW f \in Files
        PROVE  KeptIn(f)'
    <3>1. CASE f = File
      <4>1. \A k : AskedOf(f, k)' = AskedOf(f, k)
        BY <2>2 DEF AskedOf
      <4>2. rewrite' # NoRewrite /\ <<>> # Missing
        BY <2>1, FilesFacts
      <4>3. Now(f)' = rewrite' /\ Now(f) = Content(f)
        BY <2>1, <2>2, <3>1, <4>2 DEF Now
      <4>4. \A k \in Watched[f] : KeyRecord(k)
        BY WatchedFacts
      <4>5. \A k \in Scalars(f) : k \in Watched[f]
        BY ScalarFacts
      <4>6. KeptIn(f)
        BY DEF KeepInv
      <4>7. \A k \in Watched[f] : Get(Now(f)', k) = IF k = Current THEN DefaultValue ELSE Get(Now(f), k)
        BY <2>1, <3>1, <4>3, <4>4
      <4>8. \A k \in Watched[f] : AskedOf(f, k) # Empty => Get(Now(f)', k) = AskedOf(f, k)
        BY <2>4, <3>1, <4>6, <4>7 DEF KeptIn
      <4>9. \A k \in Scalars(f) : AskedOf(f, k) = Empty => Get(Now(f)', k) \in {Empty, Default[f][k]}
        BY <2>3, <3>1, <4>5, <4>6, <4>7 DEF KeptIn
      <4>10. files'[f] # Missing
        BY <2>1, <3>1, <4>2
      <4>11. QED
        BY <4>1, <4>8, <4>9, <4>10 DEF KeptIn
    <3>2. CASE f # File
      <4>1. files'[f] = files[f]
        BY <1>0, <2>1, <3>2 DEF DiskInv
      <4>2. Now(f)' = Now(f)
        BY <2>1, <3>2, <4>1 DEF Now, Content
      <4>3. QED
        BY <2>2, <4>1, <4>2, KeptSame DEF KeepInv
    <3>3. QED
      BY <3>1, <3>2
  <2>6. AskedOf(File, Current)' = Empty
    BY <2>1, <2>2, <2>4 DEF AskedOf
  <2>7. QED
    BY <2>5, <2>6 DEF KeepInv
<1>3. CASE Save \/ MapEnds
  <2>1. /\ rewrite = NoRewrite /\ rewrite' = NoRewrite /\ Starting
        /\ \/ files' = files /\ intent' = intent
           \/ files' = [files EXCEPT ![File] = <<>>] /\ intent' = [intent EXCEPT ![File] = <<>>]
    BY <1>0, <1>3 DEF Save, MapEnds, Advance, disk, Starting, IInv, PlaceInv
  <2>2. File \in Files
    BY <1>0, <2>1, FileFacts DEF IInv
  <2>3. ASSUME NEW f \in Files
        PROVE  KeptIn(f)'
    <3>1. \/ files'[f] = files[f] /\ intent'[f] = intent[f]
          \/ files'[f] = intent'[f]
      BY <1>0, <2>1, <2>2 DEF DiskInv
    <3>2. CASE files'[f] = files[f] /\ intent'[f] = intent[f]
      <4>1. Now(f)' = Now(f)
        BY <2>1, <3>2 DEF Now, Content
      <4>2. QED
        BY <3>2, <4>1, KeptSame DEF KeepInv
    <3>3. QED
      BY <2>1, <3>1, <3>2, KeptAnew
  <2>4. QED
    BY <2>1, <2>3 DEF KeepInv
<1>4. CASE Crash
  <2>1. /\ files' = files /\ rewrite' = NoRewrite
        /\ intent' = IF rewrite = NoRewrite THEN intent ELSE [intent EXCEPT ![File] = <<>>]
    BY <1>4 DEF Crash
  <2>2. ASSUME NEW f \in Files
        PROVE  KeptIn(f)'
    <3>1. CASE rewrite # NoRewrite /\ f = File
      <4>1. files'[f] = intent'[f]
        BY <1>0, <2>1, <3>1 DEF DiskInv
      <4>2. QED
        BY <2>1, <4>1, KeptAnew
    <3>2. CASE rewrite = NoRewrite \/ f # File
      <4>1. files'[f] = files[f] /\ intent'[f] = intent[f]
        BY <1>0, <2>1, <3>2 DEF DiskInv
      <4>2. Now(f)' = Now(f)
        BY <2>1, <3>2, <4>1 DEF Now, Content
      <4>3. QED
        BY <4>1, <4>2, KeptSame DEF KeepInv
    <3>3. QED
      BY <3>1, <3>2
  <2>3. QED
    BY <2>1, <2>2 DEF KeepInv
<1>5. CASE EditFile
  <2>1. PICK f \in Files : \E c \in Contents[f] :
           files' = [files EXCEPT ![f] = c] /\ intent' = [intent EXCEPT ![f] = c]
    BY <1>5 DEF EditFile
  <2>2. rewrite = NoRewrite /\ rewrite' = NoRewrite
    BY <1>0, <1>5 DEF EditFile, IInv, PlaceInv
  <2>3. ASSUME NEW g \in Files
        PROVE  KeptIn(g)'
    <3>1. CASE g = f
      <4>1. files'[g] = intent'[g]
        BY <1>0, <2>1, <3>1 DEF DiskInv
      <4>2. QED
        BY <2>2, <4>1, KeptAnew
    <3>2. CASE g # f
      <4>1. files'[g] = files[g] /\ intent'[g] = intent[g]
        BY <1>0, <2>1, <3>2 DEF DiskInv
      <4>2. Now(g)' = Now(g)
        BY <2>2, <4>1 DEF Now, Content
      <4>3. QED
        BY <4>1, <4>2, KeptSame DEF KeepInv
    <3>3. QED
      BY <3>1, <3>2
  <2>4. QED
    BY <2>2, <2>3 DEF KeepInv
<1>6. CASE Boot \/ ReadPresent \/ ReadUnwritable \/ OverrunDies \/ OverrunThrows \/ LoadMissing
           \/ EndLoad \/ MapRow \/ MapRowSkipped \/ MapRowThrows \/ EditTable
  <2>1. UNCHANGED <<files, intent>> /\ rewrite = NoRewrite /\ rewrite' = NoRewrite
    BY <1>0, <1>6 DEF Boot, ReadPresent, ReadUnwritable, OverrunDies, OverrunThrows, LoadMissing,
                      EndLoad, MapRow, MapRowSkipped, MapRowThrows, EditTable, Take, Reading, disk,
                      IInv, PlaceInv
  <2>2. \A f \in Files : Now(f)' = Now(f)
    BY <2>1 DEF Now, Content
  <2>3. ASSUME NEW f \in Files
        PROVE  KeptIn(f)'
    BY <2>1, <2>2, KeptSame DEF KeepInv
  <2>4. QED
    BY <2>1, <2>3 DEF KeepInv
<1>7. CASE UNCHANGED vars
  <2>1. UNCHANGED <<files, intent, ram, cur, step, rewrite>>
    BY <1>7 DEF vars, disk
  <2>2. Plan' = Plan /\ File' = File
    BY <2>1, PlanKept DEF File
  <2>3. \A f \in Files : Now(f)' = Now(f)
    BY <2>1, <2>2 DEF Now, Content
  <2>4. ASSUME NEW f \in Files
        PROVE  KeptIn(f)'
    BY <2>1, <2>3, KeptSame DEF KeepInv
  <2>5. AskedOf(File, Current)' = AskedOf(File, Current)
    BY <2>1, <2>2 DEF AskedOf, Current
  <2>6. QED
    BY <2>1, <2>4, <2>5 DEF KeepInv
<1>8. QED
  BY <1>1, <1>2, <1>3, <1>4, <1>5, <1>6, <1>7 DEF Next, StartStep

\* A default that was stored reads as it was.
LEMMA DefaultReads ==
  ASSUME NEW f \in Files, NEW k \in Scalars(f), NEW d, d = Default[f][k], d # Empty
  PROVE  Parsed(k, d, d) = d
<1>1. ~IsName(k)
  BY ScalarFacts
<1>2. d \in Values /\ UintSize \in Nat /\ UintSize > 1
  BY ValuesAssumption
<1>3. Word(d) = d
  BY <1>2, DefaultsAssumption DEF Word
<1>4. CASE ~Readable(k, d)
  BY <1>4 DEF Parsed
<1>5. CASE Readable(k, d) /\ k \in UnsignedKeys
  <2>1. Parsed(k, d, d) = d % UintSize
    BY <1>5 DEF Parsed
  <2>3. d \in 0..(UintSize - 1)
    <3>1. f # Server
      <4>1. \A i \in 1..5 : ServerKeys[i].id[1] \notin {"numberOf", "countingMax", "countingMin"}
        BY KeyIs DEF ServerKeys
      <4>2. k.id[1] \in {"numberOf", "countingMax", "countingMin"}
        BY <1>5, KeyIs DEF UnsignedKeys, CountKeys, CountKey, CountingMax, CountingMin
      <4>3. f = Server => \E i \in 1..5 : k = ServerKeys[i]
        BY DEF Scalars
      <4>4. QED
        BY <4>1, <4>2, <4>3
    <3>2. PICK i \in 1..Len(Modules) : f = Modules[i]
      BY <3>1 DEF Files
    <3>3. Default[f][CountingMin] = 0 /\ Default[f][CountingMax] = UintSize - 1
      BY <3>2, ClassAssumption
    <3>4. k \in CountKeys => d \in 0..(UintSize - 1)
      BY <3>1, ValuesAssumption
    <3>5. QED
      BY <1>2, <1>5, <3>3, <3>4 DEF UnsignedKeys
  <2>4. QED
    BY <1>2, <2>1, <2>3
<1>6. CASE Readable(k, d) /\ k \in FlagKeys
  <2>1. k = ServerKeys[1] /\ k.id[1] = "compatibilitylayer"
    BY <1>6, KeyIs DEF FlagKeys, ServerKeys
  <2>2. f = Server
    <3>1. ASSUME f # Server
          PROVE  k.id[1] # "compatibilitylayer"
      <4>1. CASE k \in CountKeys
        BY <4>1, KeyIs DEF CountKeys, CountKey
      <4>2. CASE k \in {Shunt[i] : i \in 1..3}
        BY <4>2, KeyIs DEF Shunt
      <4>3. CASE k \in {Type, Name, Alias, ChanMax, ChanMin, Edge, Direction, CountingMax, CountingMin}
        BY <4>3, KeyIs DEF Type, Name, Alias, ChanMax, ChanMin, Edge, Direction, CountingMax,
                           CountingMin
      <4>4. QED
        BY <3>1, <4>1, <4>2, <4>3 DEF Scalars
    <3>2. QED
      BY <2>1, <3>1
  <2>3. d \in {Yes, No}
    BY <2>1, <2>2, DefaultsAssumption
  <2>4. k \notin UnsignedKeys
    BY <2>1, KeyIs DEF UnsignedKeys, CountKeys, CountKey, CountingMax, CountingMin
  <2>5. No # Yes /\ No # 1
    BY DefaultsAssumption, ValuesAssumption
  <2>6. Parsed(k, d, d) = IF d \in {Yes, 1} THEN Yes ELSE No
    BY <1>3, <1>6, <2>4 DEF Parsed
  <2>7. QED
    BY <2>3, <2>5, <2>6
<1>7. CASE Readable(k, d) /\ k \notin UnsignedKeys \cup FlagKeys
  BY <1>3, <1>7 DEF Parsed
<1>8. QED
  BY <1>4, <1>5, <1>6, <1>7

\* A value that a read of key k of file f takes: what the operator wrote, or the
\* default; of a name, the default may be any.
Agrees(f, k, v) ==
    /\ k \in Scalars(f) => v = WantedOf(f, k)
    /\ IsName(k) => AskedOf(f, k) = Empty \/ v = Word(AskedOf(f, k))

LEMMA LoadTakes ==
  ASSUME StoreInv, KeepInv, ReadPresent \/ ReadUnwritable \/ Fill
  PROVE  /\ phase = "load" /\ step <= Len(Plan)
         /\ files'[File] = Missing <=> files[File] = Missing
         /\ rewrite' = NoRewrite
         /\ \E v \in Values : Take(v) /\ Agrees(File, Current, v)
<1>1. phase = "load" /\ step <= Len(Plan) /\ IInv /\ TypeInv /\ DiskInv /\ Starting
  BY DEF ReadPresent, ReadUnwritable, Fill, Reading, StoreInv, DiskInv, Starting
<1>2. PICK f, k : f = File /\ k = Current
  OBVIOUS
<1>3. /\ f \in Files /\ k \in Watched[f] /\ DefaultValue \in Values
      /\ k \in Scalars(f) \cup NameKeysOf(f)
      /\ k \in Scalars(f) => DefaultValue = Default[f][k]
  BY <1>1, <1>2, CurrentFacts
<1>4. KeptIn(f)
  BY <1>3 DEF KeepInv
<1>5. k \in Scalars(f) => ~IsName(k)
  BY <1>3, ScalarFacts
<1>6. CASE ReadPresent
  <2>1. PICK v : v = Parsed(k, Stored, DefaultValue)
    OBVIOUS
  <2>2. /\ Take(v) /\ Stored # Empty /\ Stored \in Values /\ rewrite = NoRewrite
        /\ files' = files /\ rewrite' = rewrite
    BY <1>1, <1>2, <1>6, <2>1, StoredType DEF ReadPresent, Reading
  <2>3. v \in Values
    BY <1>3, <2>1, <2>2, ParsedType
  <2>4. Stored = Get(Now(f), k)
    BY <1>2, <2>2 DEF Stored, Now, Content
  <2>5. AskedOf(f, k) # Empty => Stored = AskedOf(f, k)
    BY <1>3, <1>4, <2>4 DEF KeptIn
  <2>6. ASSUME k \in Scalars(f)
        PROVE  v = WantedOf(f, k)
    <3>1. CASE AskedOf(f, k) # Empty
      BY <1>3, <2>1, <2>5, <2>6, <3>1 DEF WantedOf
    <3>2. CASE AskedOf(f, k) = Empty
      <4>1. Stored = Default[f][k]
        BY <1>4, <2>2, <2>4, <2>6, <3>2 DEF KeptIn
      <4>2. v = Default[f][k]
        BY <1>3, <2>1, <2>2, <2>6, <4>1, DefaultReads
      <4>3. QED
        BY <3>2, <4>2 DEF WantedOf
    <3>3. QED
      BY <3>1, <3>2
  <2>7. ASSUME IsName(k), AskedOf(f, k) # Empty
        PROVE  v = Word(AskedOf(f, k))
    <3>1. k \in NameKeysOf(f)
      BY <1>3, <1>5, <2>7
    <3>2. k \notin UnsignedKeys /\ k \notin FlagKeys
      <4>1. k.id[1] \in Lists
        BY <2>7 DEF IsName
      <4>2. \A q \in UnsignedKeys \cup FlagKeys : q.id[1] \notin Lists
        BY KeyIs DEF UnsignedKeys, FlagKeys, CountKeys, CountKey, CountingMax, CountingMin,
                     ServerKeys, Lists
      <4>3. QED
        BY <4>1, <4>2
    <3>3. v = Word(Stored)
      BY <2>1, <2>7, <3>2 DEF Parsed, Readable
    <3>4. QED
      BY <2>5, <2>7, <3>3
  <2>8. Agrees(f, k, v)
    BY <2>6, <2>7 DEF Agrees
  <2>9. QED
    BY <1>1, <1>2, <2>2, <2>3, <2>8
<1>7. CASE ReadUnwritable \/ Fill
  <2>1. Take(DefaultValue) /\ rewrite' = NoRewrite
    BY <1>7 DEF ReadUnwritable, Fill, Reading
  <2>2. AskedOf(f, k) = Empty
    <3>1. CASE ReadUnwritable
      <4>1. Stored = Empty /\ rewrite = NoRewrite
        BY <3>1 DEF ReadUnwritable, Reading
      <4>2. CASE files[f] = Missing
        BY <1>4, <4>2 DEF KeptIn, AskedOf
      <4>3. CASE files[f] # Missing
        <5>1. Get(Now(f), k) = Empty
          BY <1>2, <4>1, <4>3 DEF Stored, Now, Content
        <5>2. QED
          BY <1>3, <1>4, <5>1 DEF KeptIn
      <4>4. QED
        BY <4>2, <4>3
    <3>2. CASE Fill
      BY <1>2, <3>2 DEF Fill, KeepInv
    <3>3. QED
      BY <1>7, <3>1, <3>2
  <2>3. Agrees(f, k, DefaultValue)
    BY <1>3, <2>2 DEF Agrees, WantedOf
  <2>4. files'[f] = Missing <=> files[f] = Missing
    <3>1. CASE ReadUnwritable
      BY <3>1 DEF ReadUnwritable
    <3>2. CASE Fill
      <4>1. rewrite \in IniFiles /\ files[f] = <<>> /\ files' = [files EXCEPT ![f] = rewrite]
        BY <1>1, <1>2, <3>2 DEF Fill, DiskInv
      <4>2. files'[f] = rewrite
        BY <1>1, <1>3, <4>1 DEF DiskInv
      <4>3. QED
        BY <4>1, <4>2, FilesFacts
    <3>3. QED
      BY <1>7, <3>1, <3>2
  <2>5. QED
    BY <1>1, <1>2, <1>3, <2>1, <2>3, <2>4
<1>8. QED
  BY <1>6, <1>7

-------------------------------------------------------------------------------
(* The keys read so far.                                                   *)

Read(k) == \E j \in 1..(step - 1) : Plan[j] = k

Place(l) == CountAt(l, First, CountOf("channel"), CountOf("counter"))
Base(l)  == BaseAt(l, First, CountOf("channel"), CountOf("counter"))

\* The reads of a module.
LEMMA ModulePlan ==
  IInv /\ TypeInv /\ Starting /\ cur # 0 =>
     /\ First \in {3, 6} /\ \A l \in Lists : CountOf(l) \in Nat
     /\ Plan = ReadOf(First, CountOf("channel"), CountOf("counter"), CountOf("output"))
  BY CountFacts, PlanIs

LEMMA ModulePlanNext ==
  (IInv /\ TypeInv /\ Starting /\ cur # 0 =>
     /\ First \in {3, 6} /\ \A l \in Lists : CountOf(l) \in Nat
     /\ Plan = ReadOf(First, CountOf("channel"), CountOf("counter"), CountOf("output")))'
  BY ModulePlan, PTL

\* What one read leaves of the decisions: the others stay.
LEMMA DecisionsKept ==
  ASSUME StoreInv, phase = "load", step <= Len(Plan), cur # 0, NEW v \in Values, Take(v),
         files'[File] = Missing <=> files[File] = Missing
  PROVE  /\ Current # Alias => First' = First
         /\ \A l \in Lists : Current # CountKey(l) => CountOf(l)' = CountOf(l)
<1>1. IInv /\ TypeInv /\ Starting /\ held \in Int
  BY DEF StoreInv, Starting, IInv, ShapeInv
<1>2. PICK f, s, t, k : /\ f = File /\ s = ram[f].scalar /\ k = Current /\ t = ScalarAfter(s, k, v)
  OBVIOUS
<1>3. f \in Files \ {Server} /\ File' = f
  BY <1>1, <1>2, CountFacts DEF Take, File
<1>4. ram'[f].scalar = t
  BY <1>1, <1>2, <1>3, TakeScalars
<1>5. s \in [Scalars(f) -> Values]
  BY <1>1, <1>2, <1>3 DEF TypeInv
<1>6. \A q \in Scalars(f) : q \notin Limits => t[q] = IF q = k /\ ~IsName(k) THEN v ELSE s[q]
  BY <1>1, <1>2, <1>5, ScalarAfterIs
<1>7. Alias \in Scalars(f) /\ Alias \notin Limits
  BY <1>3, LimitKeys DEF Scalars, TextKeys
<1>8. ASSUME k # Alias
      PROVE  First' = First
  <2>1. t[Alias] = s[Alias]
    BY <1>6, <1>7, <1>8
  <2>2. QED
    BY <1>2, <1>3, <1>4, <2>1 DEF First
<1>9. ASSUME NEW l \in Lists, k # CountKey(l)
      PROVE  CountOf(l)' = CountOf(l)
  <2>1. CountKey(l) \in Scalars(f) /\ CountKey(l) \notin Limits
    BY <1>3, PluralFacts, LimitKeys DEF CountKeys
  <2>2. t[CountKey(l)] = s[CountKey(l)]
    BY <1>6, <1>9, <2>1
  <2>3. QED
    BY <1>2, <1>3, <1>4, <2>2 DEF CountOf
<1>10. QED
  BY <1>2, <1>8, <1>9

\* The keys up to the one that is read are the same behind the read.
LEMMA PlanGoesOn ==
  ASSUME StoreInv, phase = "load", step <= Len(Plan), NEW v \in Values, Take(v), Next,
         files'[File] = Missing <=> files[File] = Missing
  PROVE  /\ step \in 1..Len(Plan) /\ step' = step + 1 /\ step <= Len(Plan')
         /\ \A j \in 1..step : Plan'[j] = Plan[j]
         /\ cur # 0 => \A l \in Lists :
               /\ step >= Place(l)' => step >= Place(l)
               /\ step >= Place(l) =>
                     /\ Place(l)' = Place(l) /\ Base(l)' = Base(l)
                     /\ step # Place(l) => CountOf(l)' = CountOf(l)
<1>0. IInv /\ TypeInv /\ Starting /\ IInv' /\ TypeInv'
  BY StartupStep, TypeStep DEF StoreInv, Starting
<1>1. step \in 1..Len(Plan) /\ step' = step + 1 /\ cur' = cur /\ phase' = phase /\ Starting'
  BY <1>0, CurrentFacts DEF Take, Starting
<1>2. CASE cur = 0
  BY <1>1, <1>2 DEF Plan
<1>3. CASE cur # 0
  <2>1. PICK a, n, m, p, b, r, s, t :
           /\ a = First /\ n = CountOf("channel") /\ m = CountOf("counter") /\ p = CountOf("output")
           /\ b = First' /\ r = CountOf("channel")' /\ s = CountOf("counter")' /\ t = CountOf("output")'
    OBVIOUS
  <2>2. "channel" \in Lists /\ "counter" \in Lists /\ "output" \in Lists
    BY DEF Lists
  <2>3. /\ a \in {3, 6} /\ n \in Nat /\ m \in Nat /\ p \in Nat
        /\ Plan = ReadOf(a, n, m, p)
    BY <1>0, <1>3, <2>1, <2>2, ModulePlan
  <2>4. /\ b \in {3, 6} /\ r \in Nat /\ s \in Nat /\ t \in Nat
        /\ Plan' = ReadOf(b, r, s, t)
    <3>1. cur' # 0
      BY <1>1, <1>3
    <3>2. /\ First' \in {3, 6} /\ \A l \in Lists : CountOf(l)' \in Nat
          /\ Plan' = ReadOf(First', CountOf("channel")', CountOf("counter")', CountOf("output")')
      BY <1>0, <1>1, <3>1, ModulePlanNext
    <3>3. QED
      BY <2>1, <2>2, <3>2
  <2>5. /\ Len(Plan) = a + 9 + n + m + p
        /\ \A j \in 1..(a + 9 + n + m + p) : Plan[j] = KeyAt(a, n, m, p, j)
    BY <2>3, ReadOfIs, ZenonT(30)
  <2>6. /\ Len(Plan') = b + 9 + r + s + t
        /\ \A j \in 1..(b + 9 + r + s + t) : Plan'[j] = KeyAt(b, r, s, t, j)
    BY <2>4, ReadOfIs, ZenonT(30)
  <2>7. PICK j, k : j = step /\ k = Current
    OBVIOUS
  <2>8. j \in 1..(a + 9 + n + m + p) /\ k = KeyAt(a, n, m, p, j)
    BY <1>1, <2>5, <2>7 DEF Current
  <2>9. Decides(k, a, n, m, p, b, r, s, t)
    BY <1>3, <2>1, <2>2, <2>7, DecisionsKept DEF Decides
  <2>14. SameTo(j, a, n, m, p, b, r, s, t)
    <3>1. Sizes(a, n, m, p) /\ Sizes(b, r, s, t) /\ Within(j, a, n, m, p)
      BY <2>3, <2>4, <2>8 DEF Sizes, Within
    <3>2. Decides(KeyAt(a, n, m, p, j), a, n, m, p, b, r, s, t)
      BY <2>8, <2>9
    <3>3. QED
      BY <3>1, <3>2, KeyAtKept
  <2>10. /\ j <= b + 9 + r + s + t
         /\ \A i \in 1..j : KeyAt(b, r, s, t, i) = KeyAt(a, n, m, p, i)
         /\ \A l \in Lists : j >= CountAt(l, a, n, m) =>
               /\ CountAt(l, b, r, s) = CountAt(l, a, n, m) /\ BaseAt(l, b, r, s) = BaseAt(l, a, n, m)
               /\ j # CountAt(l, a, n, m) => Amount(l, r, s, t) = Amount(l, n, m, p)
         /\ \A l \in Lists : j >= CountAt(l, b, r, s) => j >= CountAt(l, a, n, m)
    BY <2>14 DEF SameTo
  <2>11. ASSUME NEW i \in 1..j
         PROVE  Plan'[i] = Plan[i]
    <3>1. i \in 1..(a + 9 + n + m + p) /\ i \in 1..(b + 9 + r + s + t)
      BY <2>3, <2>4, <2>8, <2>10, SMTT(30)
    <3>2. QED
      BY <2>5, <2>6, <2>10, <3>1
  <2>12. ASSUME NEW l \in Lists
         PROVE  /\ Place(l) = CountAt(l, a, n, m) /\ Place(l)' = CountAt(l, b, r, s)
                /\ Base(l) = BaseAt(l, a, n, m) /\ Base(l)' = BaseAt(l, b, r, s)
                /\ CountOf(l) = Amount(l, n, m, p) /\ CountOf(l)' = Amount(l, r, s, t)
    BY <2>1 DEF Place, Base, Amount, Lists
  <2>13. QED
    BY <1>1, <2>6, <2>7, <2>10, <2>11, <2>12
<1>4. QED
  BY <1>2, <1>3

LEMMA ReadNext ==
  ASSUME StoreInv, phase = "load", step <= Len(Plan), NEW v \in Values, Take(v), Next,
         files'[File] = Missing <=> files[File] = Missing
  PROVE  \A k : Read(k)' <=> Read(k) \/ k = Current
<1>1. /\ step \in 1..Len(Plan) /\ step' = step + 1
      /\ \A j \in 1..step : Plan'[j] = Plan[j]
  BY PlanGoesOn
<1>2. PICK n : n = step
  OBVIOUS
<1>3. n \in Nat /\ n >= 1
  BY <1>1, <1>2, PlanFacts DEF StoreInv, IInv, PlaceInv
<1>4. ASSUME NEW k
      PROVE  Read(k)' <=> Read(k) \/ k = Current
  <2>1. Read(k)' <=> \E j \in 1..n : Plan'[j] = k
    <3>1. Read(k)' <=> \E j \in 1..(step' - 1) : Plan'[j] = k
      BY DEF Read
    <3>2. step' - 1 = n
      BY <1>1, <1>2, <1>3
    <3>3. QED
      BY <3>1, <3>2
  <2>2. Read(k) <=> \E j \in 1..(n - 1) : Plan[j] = k
    BY <1>2 DEF Read
  <2>3. Current = Plan[n]
    BY <1>2 DEF Current
  <2>4. \A j \in 1..n : j = n \/ j \in 1..(n - 1)
    BY <1>3
  <2>5. n \in 1..n /\ \A j \in 1..(n - 1) : j \in 1..n
    BY <1>3
  <2>6. QED
    BY <1>1, <1>2, <2>1, <2>2, <2>3, <2>4, <2>5
<1>5. QED
  BY <1>4

\* The order in which the limits are read.
LEMMA LimitOrder ==
  ASSUME StoreInv, phase = "load", step <= Len(Plan), cur # 0
  PROVE  /\ Current = ChanMax => ~Read(ChanMin)
         /\ Current = ChanMin => Read(ChanMax)
         /\ Current = CountingMax => ~Read(CountingMin)
         /\ Current = CountingMin => Read(CountingMax) /\ ~Read(CountingMin)
<1>0. IInv /\ TypeInv /\ Starting
  BY DEF StoreInv, Starting
<1>1. PICK a, n, m, p, j : /\ a = First /\ n = CountOf("channel") /\ m = CountOf("counter")
                           /\ p = CountOf("output") /\ j = step
  OBVIOUS
<1>2. "channel" \in Lists /\ "counter" \in Lists /\ "output" \in Lists
  BY DEF Lists
<1>3. Sizes(a, n, m, p) /\ Plan = ReadOf(a, n, m, p)
  BY <1>0, <1>1, <1>2, ModulePlan DEF Sizes
<1>4. /\ Len(Plan) = a + 9 + n + m + p
      /\ \A i \in 1..(a + 9 + n + m + p) : Plan[i] = KeyAt(a, n, m, p, i)
  BY <1>3, ReadOfIs, ZenonT(30) DEF Sizes
<1>5. j \in 1..Len(Plan) /\ Current = Plan[j]
  BY <1>0, <1>1, CurrentFacts DEF Current
<1>6. ASSUME NEW i \in 1..Len(Plan)
      PROVE  PlacedAt(Plan[i], i, a, n, m)
  <2>1. Within(i, a, n, m, p) /\ Plan[i] = KeyAt(a, n, m, p, i)
    BY <1>4 DEF Within
  <2>2. QED
    BY <1>3, <2>1, KeyPlaces
<1>7. \A k : Read(k) <=> \E i \in 1..(j - 1) : Plan[i] = k
  BY <1>1 DEF Read
<1>8. \A i \in 1..(j - 1) : i \in 1..Len(Plan) /\ i < j
  BY <1>3, <1>4, <1>5 DEF Sizes
<1>9. ASSUME Current = ChanMax
      PROVE  ~Read(ChanMin)
  <2>1. j = a + 2
    BY <1>5, <1>6, <1>9 DEF PlacedAt
  <2>2. \A i \in 1..(j - 1) : Plan[i] = ChanMin => i = a + 3
    BY <1>6, <1>8 DEF PlacedAt
  <2>3. \A i \in 1..(j - 1) : i # a + 3
    BY <1>3, <2>1 DEF Sizes
  <2>4. QED
    BY <1>7, <2>2, <2>3
<1>10. ASSUME Current = ChanMin
       PROVE  Read(ChanMax)
  <2>1. j = a + 3
    BY <1>5, <1>6, <1>10 DEF PlacedAt
  <2>2. a + 2 \in 1..(j - 1) /\ a + 2 \in 1..(a + 9 + n + m + p)
    BY <1>3, <2>1 DEF Sizes
  <2>3. KeyAt(a, n, m, p, a + 2) = ChanMax
    BY <1>3 DEF Sizes, KeyAt
  <2>4. QED
    BY <1>4, <1>7, <2>2, <2>3
<1>11. ASSUME Current = CountingMax
       PROVE  ~Read(CountingMin)
  <2>1. j = a + 7 + n + m
    BY <1>5, <1>6, <1>11 DEF PlacedAt
  <2>2. \A i \in 1..(j - 1) : Plan[i] = CountingMin => i = a + 8 + n + m
    BY <1>6, <1>8 DEF PlacedAt
  <2>3. \A i \in 1..(j - 1) : i # a + 8 + n + m
    BY <1>3, <2>1 DEF Sizes
  <2>4. QED
    BY <1>7, <2>2, <2>3
<1>12. ASSUME Current = CountingMin
       PROVE  Read(CountingMax) /\ ~Read(CountingMin)
  <2>1. j = a + 8 + n + m
    BY <1>5, <1>6, <1>12 DEF PlacedAt
  <2>2. a + 7 + n + m \in 1..(j - 1) /\ a + 7 + n + m \in 1..(a + 9 + n + m + p)
    BY <1>3, <2>1 DEF Sizes
  <2>3. KeyAt(a, n, m, p, a + 7 + n + m) = CountingMax
    BY <1>3 DEF Sizes, KeyAt
  <2>4. \A i \in 1..(j - 1) : Plan[i] = CountingMin => i = a + 8 + n + m
    BY <1>6, <1>8 DEF PlacedAt
  <2>5. \A i \in 1..(j - 1) : i # a + 8 + n + m
    BY <1>3, <2>1 DEF Sizes
  <2>6. QED
    BY <1>4, <1>7, <2>2, <2>3, <2>4, <2>5
<1>13. QED
  BY <1>9, <1>10, <1>11, <1>12

\* Whether read j is one of a list with its number at h, its c names behind e.
ReadOfList(l, j, h, e, c) ==
    /\ c \in Nat /\ h \in Nat /\ e \in Nat /\ 3 < h /\ h <= e /\ e + c <= Len(Plan)
    /\ j = h <=> Plan[j] = CountKey(l)
    /\ \A i : Plan[j] = Key(Plural[l], l, i) => e < j /\ j <= e + c /\ i = j - e - 1
    /\ e < j /\ j <= e + c => Plan[j] = Key(Plural[l], l, j - e - 1)

LEMMA ListFacts ==
  ASSUME StoreInv, phase = "load", cur # 0, NEW l \in Lists, NEW j \in 1..Len(Plan)
  PROVE  ReadOfList(l, j, Place(l), Base(l), CountOf(l))
<1> USE DEF ReadOfList
<1>10. PICK h, e, c : h = Place(l) /\ e = Base(l) /\ c = CountOf(l)
  OBVIOUS
<1>0. IInv /\ TypeInv /\ Starting
  BY DEF StoreInv, Starting
<1>1. PICK a, n, m, p : /\ a = First /\ n = CountOf("channel") /\ m = CountOf("counter")
                        /\ p = CountOf("output")
  OBVIOUS
<1>2. "channel" \in Lists /\ "counter" \in Lists /\ "output" \in Lists
  BY DEF Lists
<1>3. Sizes(a, n, m, p) /\ Plan = ReadOf(a, n, m, p)
  BY <1>0, <1>1, <1>2, ModulePlan DEF Sizes
<1>4. /\ Len(Plan) = a + 9 + n + m + p
      /\ \A i \in 1..(a + 9 + n + m + p) : Plan[i] = KeyAt(a, n, m, p, i)
  BY <1>3, ReadOfIs, ZenonT(30) DEF Sizes
<1>5. h = CountAt(l, a, n, m) /\ e = BaseAt(l, a, n, m) /\ c = Amount(l, n, m, p)
  BY <1>1, <1>10 DEF Place, Base, Amount, Lists
<1>6. ListAt(l, a, n, m, p, c, h, e)
  BY <1>3, <1>5, ListPlaces
<1>7. /\ c \in Nat /\ h \in Nat /\ e \in Nat /\ 3 < h /\ h <= e
      /\ e + c <= a + 9 + n + m + p
      /\ KeyAt(a, n, m, p, h) = CountKey(l)
      /\ KeyAt(a, n, m, p, j) = CountKey(l) => j = h
      /\ \A i : KeyAt(a, n, m, p, j) = Key(Plural[l], l, i) => e < j /\ j <= e + c /\ i = j - e - 1
      /\ e < j /\ j <= e + c => KeyAt(a, n, m, p, j) = Key(Plural[l], l, j - e - 1)
  BY <1>4, <1>6 DEF ListAt
<1>8. Plan[j] = KeyAt(a, n, m, p, j)
  BY <1>4
<1>9. QED
  BY <1>4, <1>7, <1>8, <1>10

-------------------------------------------------------------------------------
(* What a load has made of the object so far.                              *)

ScalarsRead(f, s) ==
    \A k \in Scalars(f) \ Limits : s[k] = IF Read(k) THEN WantedOf(f, k) ELSE Default[f][k]

ChannelsRead(f, s) ==
    /\ ~Read(ChanMin) => s[ChanMin] = Default[f][ChanMin]
    /\ ~Read(ChanMax) => s[ChanMax] = Default[f][ChanMax]
    /\ WantedOf(f, ChanMin) < WantedOf(f, ChanMax) /\ Default[f][ChanMin] < WantedOf(f, ChanMax) =>
          /\ Read(ChanMax) => s[ChanMax] = WantedOf(f, ChanMax)
          /\ Read(ChanMin) => s[ChanMin] = WantedOf(f, ChanMin)

CountersRead(f, s) ==
    /\ ~Read(CountingMin) =>
          s[CountingMin] = Default[f][CountingMin] /\ s[CountingMax] = Default[f][CountingMax]
    /\ Read(CountingMax) => held = WantedOf(f, CountingMax)
    /\ WantedOf(f, CountingMin) < WantedOf(f, CountingMax) /\ Read(CountingMin) =>
          s[CountingMin] = WantedOf(f, CountingMin) /\ s[CountingMax] = WantedOf(f, CountingMax)

\* Behind j keys, the names read of a list of c names behind the first e keys.
LenAt(j, e, c) == IF j <= e THEN 0 ELSE IF j - e <= c THEN j - e ELSE c

NamesRead(f, n) ==
    \A l \in Lists : step > Place(l) =>
       /\ Len(n[l]) = LenAt(step - 1, Base(l), CountOf(l))
       /\ \A i \in 1..Len(n[l]) : LET v == AskedOf(f, Key(Plural[l], l, i - 1))
                                  IN v = Empty \/ n[l][i] = Word(v)

\* What the operator wrote for a limit reads as a number, for a counter as one of
\* 32 bits.
LEMMA WantedLimits ==
  ASSUME NEW f \in Files \ {Server}
  PROVE  /\ \A k \in Limits : WantedOf(f, k) \in Int
         /\ WantedOf(f, CountingMin) >= 0
<1>1. ASSUME NEW k \in Limits
      PROVE  WantedOf(f, k) \in Int
  <2>1. Default[f][k] \in Int
    BY DefaultFacts
  <2>2. QED
    BY <2>1, LimitIsNumber DEF WantedOf
<1>2. WantedOf(f, CountingMin) >= 0
  <2>1. PICK i \in 1..Len(Modules) : f = Modules[i]
    BY DEF Files
  <2>2. Default[f][CountingMin] = 0 /\ UintSize \in Nat /\ UintSize > 1
    BY <2>1, ClassAssumption, ValuesAssumption
  <2>3. ASSUME NEW v
        PROVE  Parsed(CountingMin, v, 0) >= 0
    <3>1. CASE ~Readable(CountingMin, v)
      BY <3>1 DEF Parsed
    <3>2. CASE Readable(CountingMin, v)
      <4>1. CountingMin \in UnsignedKeys /\ CountingMin \in Limits
        BY LimitKeys DEF Limits
      <4>2. v \in Int
        BY <3>2, <4>1, LimitKeys DEF Readable
      <4>3. Parsed(CountingMin, v, 0) = v % UintSize
        BY <3>2, <4>1 DEF Parsed
      <4>4. QED
        BY <2>2, <4>2, <4>3
    <3>3. QED
      BY <3>1, <3>2
  <2>4. QED
    BY <2>2, <2>3 DEF WantedOf
<1>3. QED
  BY <1>1, <1>2

\* The read of a value v for key k of file f, by an object with the values s.
Reads(f, k, s, v) ==
    /\ StoreInv /\ phase = "load" /\ step <= Len(Plan) /\ Next
    /\ v \in Values /\ Take(v) /\ Agrees(f, k, v)
    /\ files'[File] = Missing <=> files[File] = Missing
    /\ f = File /\ k = Current /\ s = ram[f].scalar

LEMMA ReadsFacts ==
  ASSUME NEW f, NEW k, NEW s, NEW v, Reads(f, k, s, v), NEW t, t = ScalarAfter(s, k, v)
  PROVE  /\ f \in Files /\ (f = Server <=> cur = 0) /\ k \in Scalars(f) \cup NameKeysOf(f)
         /\ File' = f /\ cur' = cur /\ phase' = phase /\ intent' = intent
         /\ held' = IF k = CountingMax THEN v ELSE held
         /\ ram'[f].scalar = t /\ s \in [Scalars(f) -> Values] /\ held \in Int
         /\ \A q : Read(q)' <=> Read(q) \/ q = k
         /\ \A q : AskedOf(f, q)' = AskedOf(f, q) /\ WantedOf(f, q)' = WantedOf(f, q)
<1>1. /\ StoreInv /\ phase = "load" /\ step <= Len(Plan) /\ Next
      /\ v \in Values /\ Take(v) /\ f = File /\ k = Current /\ s = ram[f].scalar
      /\ files'[File] = Missing <=> files[File] = Missing
  BY DEF Reads
<1>2. IInv /\ TypeInv /\ Starting /\ held \in Int
  BY <1>1 DEF StoreInv, Starting, IInv, ShapeInv
<1>3. f \in Files /\ (f = Server <=> cur = 0) /\ k \in Scalars(f) \cup NameKeysOf(f)
  BY <1>1, <1>2, CurrentFacts, FileFacts DEF IInv
<1>4. /\ File' = f /\ cur' = cur /\ phase' = phase /\ intent' = intent
      /\ held' = IF k = CountingMax THEN v ELSE held
  BY <1>1 DEF Take, File
<1>5. ram'[f].scalar = t /\ s \in [Scalars(f) -> Values]
  BY <1>1, <1>2, <1>3, TakeScalars DEF TypeInv
<1>6. \A q : Read(q)' <=> Read(q) \/ q = k
  BY <1>1, ReadNext
<1>7. \A q : AskedOf(f, q)' = AskedOf(f, q) /\ WantedOf(f, q)' = WantedOf(f, q)
  BY <1>4 DEF AskedOf, WantedOf
<1>8. QED
  BY <1>2, <1>3, <1>4, <1>5, <1>6, <1>7

LEMMA ScalarsStep ==
  ASSUME NEW f, NEW k, NEW s, NEW v, Reads(f, k, s, v), NEW t, t = ScalarAfter(s, k, v),
         ScalarsRead(f, s)
  PROVE  ScalarsRead(f, t)'
<1>1. /\ f \in Files /\ s \in [Scalars(f) -> Values] /\ held \in Int /\ v \in Values
      /\ \A q : Read(q)' <=> Read(q) \/ q = k
      /\ \A q : WantedOf(f, q)' = WantedOf(f, q)
  BY ReadsFacts DEF Reads
<1>2. \A q \in Scalars(f) : q \notin Limits => t[q] = IF q = k /\ ~IsName(k) THEN v ELSE s[q]
  BY <1>1, ScalarAfterIs
<1>3. k \in Scalars(f) => v = WantedOf(f, k) /\ ~IsName(k)
  BY <1>1, ScalarFacts DEF Reads, Agrees
<1>4. ASSUME NEW q \in Scalars(f) \ Limits
      PROVE  t[q] = IF Read(q)' THEN WantedOf(f, q) ELSE Default[f][q]
  BY <1>1, <1>2, <1>3 DEF ScalarsRead
<1>5. QED
  BY <1>1, <1>4 DEF ScalarsRead

\* What a read leaves of the limits.
LEMMA LimitsAfter ==
  ASSUME NEW K, NEW s, s = [q \in K |-> s[q]], Limits \subseteq K, \A q \in Limits : s[q] \in Int,
         held \in Int, NEW v, NEW k, k \in Limits => v \in Int, NEW t, t = ScalarAfter(s, k, v)
  PROVE  /\ k \notin {ChanMax, ChanMin} => t[ChanMax] = s[ChanMax] /\ t[ChanMin] = s[ChanMin]
         /\ k = ChanMax => t[ChanMin] = s[ChanMin] /\ (v > s[ChanMin] => t[ChanMax] = v)
         /\ k = ChanMin => t[ChanMax] = s[ChanMax] /\ (v < s[ChanMax] => t[ChanMin] = v)
         /\ k # CountingMin =>
               t[CountingMin] = s[CountingMin] /\ t[CountingMax] = s[CountingMax]
         /\ k = CountingMin /\ held > s[CountingMin] /\ v < held =>
               t[CountingMin] = v /\ t[CountingMax] = held
<1> USE LimitKeys
<1>0. ChanMin \in Limits /\ ChanMax \in Limits /\ CountingMin \in Limits /\ CountingMax \in Limits
  BY DEF Limits
<1>1. CASE IsName(k) \/ k = CountingMax
  <2>1. t = s /\ k \notin {ChanMax, ChanMin, CountingMin}
    BY <1>0, <1>1 DEF ScalarAfter
  <2>2. QED
    BY <2>1
<1>2. CASE ~IsName(k) /\ k \notin Limits
  <2>1. t = [s EXCEPT ![k] = v]
    BY <1>2 DEF ScalarAfter, Limits
  <2>2. QED
    BY <1>0, <1>2, <2>1
<1>3. CASE k = ChanMax
  <2>1. t = WithLimits(s, k, v) /\ ~IsName(k)
    BY <1>0, <1>3 DEF ScalarAfter
  <2>2. t = IF v > s[ChanMin] THEN [s EXCEPT ![ChanMax] = v] ELSE s
    BY <1>3, <2>1 DEF WithLimits
  <2>3. QED
    BY <1>0, <1>3, <2>2
<1>4. CASE k = ChanMin
  <2>1. t = WithLimits(s, k, v) /\ ~IsName(k)
    BY <1>0, <1>4 DEF ScalarAfter
  <2>2. t = IF v < s[ChanMax] THEN [s EXCEPT ![ChanMin] = v] ELSE s
    BY <1>4, <2>1 DEF WithLimits
  <2>3. QED
    BY <1>0, <1>4, <2>2
<1>5. CASE k = CountingMin
  <2>1. t = WithLimits(s, k, v) /\ ~IsName(k)
    BY <1>0, <1>5 DEF ScalarAfter
  <2> DEFINE u == IF held > s[CountingMin] THEN [s EXCEPT ![CountingMax] = held] ELSE s
  <2>2. t = IF v > held THEN s
            ELSE IF v < u[CountingMax] THEN [u EXCEPT ![CountingMin] = v] ELSE u
    BY <1>5, <2>1 DEF WithLimits
  <2>3. t[ChanMax] = s[ChanMax] /\ t[ChanMin] = s[ChanMin]
    BY <1>0, <2>2
  <2>4. ASSUME held > s[CountingMin], v < held
        PROVE  t[CountingMin] = v /\ t[CountingMax] = held
    <3>1. u = [s EXCEPT ![CountingMax] = held]
      BY <2>4
    <3>2. u[CountingMax] = held /\ v \in Int /\ ~(v > held)
      BY <1>0, <1>5, <2>4, <3>1
    <3>3. t = [u EXCEPT ![CountingMin] = v]
      BY <2>2, <2>4, <3>2
    <3>4. QED
      BY <1>0, <3>1, <3>2, <3>3
  <2>5. QED
    BY <1>5, <2>3, <2>4
<1>6. QED
  BY <1>1, <1>2, <1>3, <1>4, <1>5 DEF Limits

LEMMA LimitsStep ==
  ASSUME NEW f, NEW k, NEW s, NEW v, Reads(f, k, s, v), NEW t, t = ScalarAfter(s, k, v),
         cur # 0, ChannelsRead(f, s), CountersRead(f, s)
  PROVE  ChannelsRead(f, t)' /\ CountersRead(f, t)'
<1>1. /\ f \in Files \ {Server} /\ held \in Int
      /\ held' = IF k = CountingMax THEN v ELSE held
      /\ \A q : Read(q)' <=> Read(q) \/ q = k
      /\ \A q : WantedOf(f, q)' = WantedOf(f, q)
  BY ReadsFacts
<1>2. /\ k = ChanMax => ~Read(ChanMin)
      /\ k = ChanMin => Read(ChanMax)
      /\ k = CountingMax => ~Read(CountingMin)
      /\ k = CountingMin => Read(CountingMax) /\ ~Read(CountingMin)
  BY LimitOrder DEF Reads
<1>3. /\ \A q \in Limits : WantedOf(f, q) \in Int
      /\ WantedOf(f, CountingMin) >= 0 /\ Limits \subseteq Scalars(f)
      /\ \A q \in Limits : Default[f][q] \in Int
  BY <1>1, WantedLimits, LimitKeys, DefaultFacts
<1>4. k \in Limits => v = WantedOf(f, k) /\ v \in Int
  BY <1>3 DEF Reads, Agrees
<1>5. s = [q \in Scalars(f) |-> s[q]] /\ \A q \in Limits : s[q] \in Int
  BY <1>1 DEF Reads, StoreInv, IInv, ShapeInv
<1>6. /\ k \notin {ChanMax, ChanMin} => t[ChanMax] = s[ChanMax] /\ t[ChanMin] = s[ChanMin]
      /\ k = ChanMax => t[ChanMin] = s[ChanMin] /\ (v > s[ChanMin] => t[ChanMax] = v)
      /\ k = ChanMin => t[ChanMax] = s[ChanMax] /\ (v < s[ChanMax] => t[ChanMin] = v)
      /\ k # CountingMin => t[CountingMin] = s[CountingMin] /\ t[CountingMax] = s[CountingMax]
      /\ k = CountingMin /\ held > s[CountingMin] /\ v < held =>
            t[CountingMin] = v /\ t[CountingMax] = held
  BY <1>1, <1>3, <1>4, <1>5, LimitsAfter
<1>7. ChanMin \in Limits /\ ChanMax \in Limits /\ CountingMin \in Limits /\ CountingMax \in Limits
  BY DEF Limits
<1>8. Default[f][CountingMin] = 0
  <2>1. PICK i \in 1..Len(Modules) : f = Modules[i]
    BY <1>1 DEF Files
  <2>2. QED
    BY <2>1, ClassAssumption
<1>9. PICK wmax, wmin, dmax, dmin :
        /\ wmax = WantedOf(f, ChanMax) /\ wmin = WantedOf(f, ChanMin)
        /\ dmax = Default[f][ChanMax] /\ dmin = Default[f][ChanMin]
  OBVIOUS
<1>10. PICK cmax, cmin, emax, emin :
        /\ cmax = WantedOf(f, CountingMax) /\ cmin = WantedOf(f, CountingMin)
        /\ emax = Default[f][CountingMax] /\ emin = Default[f][CountingMin]
  OBVIOUS
<1>11. /\ ~Read(ChanMin)' => t[ChanMin] = dmin
       /\ ~Read(ChanMax)' => t[ChanMax] = dmax
       /\ wmin < wmax /\ dmin < wmax =>
            /\ Read(ChanMax)' => t[ChanMax] = wmax
            /\ Read(ChanMin)' => t[ChanMin] = wmin
  <2>1. /\ ~Read(ChanMin) => s[ChanMin] = dmin
        /\ ~Read(ChanMax) => s[ChanMax] = dmax
        /\ wmin < wmax /\ dmin < wmax =>
            /\ Read(ChanMax) => s[ChanMax] = wmax
            /\ Read(ChanMin) => s[ChanMin] = wmin
    BY <1>9 DEF ChannelsRead
  <2>2. /\ Read(ChanMin)' <=> Read(ChanMin) \/ k = ChanMin
        /\ Read(ChanMax)' <=> Read(ChanMax) \/ k = ChanMax
    BY <1>1
  <2>3. CASE k = ChanMax
    <3>1. v = wmax /\ ~Read(ChanMin) /\ ~Read(ChanMin)' /\ Read(ChanMax)' /\ s[ChanMin] = dmin
      BY <1>2, <1>4, <1>7, <1>9, <2>1, <2>2, <2>3, LimitKeys
    <3>2. wmax > dmin => t[ChanMax] = wmax
      BY <1>6, <2>3, <3>1
    <3>3. wmax \in Int /\ dmin \in Int
      BY <1>3, <1>7, <1>9
    <3>4. dmin < wmax => t[ChanMax] = wmax
      BY <3>2, <3>3
    <3>5. QED
      BY <1>6, <2>3, <3>1, <3>4
  <2>4. CASE k = ChanMin
    <3>1. v = wmin /\ Read(ChanMax) /\ Read(ChanMin)' /\ Read(ChanMax)'
      BY <1>2, <1>4, <1>7, <1>9, <2>2, <2>4
    <3>2. QED
      BY <1>6, <2>1, <2>4, <3>1
  <2>5. CASE k \notin {ChanMax, ChanMin}
    BY <1>6, <2>1, <2>2, <2>5
  <2>6. QED
    BY <2>3, <2>4, <2>5
<1>12. /\ ~Read(CountingMin)' => t[CountingMin] = emin /\ t[CountingMax] = emax
       /\ Read(CountingMax)' => held' = cmax
       /\ cmin < cmax /\ Read(CountingMin)' => t[CountingMin] = cmin /\ t[CountingMax] = cmax
  <2>1. /\ ~Read(CountingMin) => s[CountingMin] = emin /\ s[CountingMax] = emax
        /\ Read(CountingMax) => held = cmax
        /\ cmin < cmax /\ Read(CountingMin) => s[CountingMin] = cmin /\ s[CountingMax] = cmax
    BY <1>10 DEF CountersRead
  <2>2. /\ Read(CountingMin)' <=> Read(CountingMin) \/ k = CountingMin
        /\ Read(CountingMax)' <=> Read(CountingMax) \/ k = CountingMax
    BY <1>1
  <2>3. CASE k = CountingMin
    <3>1. /\ v = cmin /\ held = cmax /\ Read(CountingMin)' /\ Read(CountingMax)' /\ held' = held
          /\ s[CountingMin] = 0
      BY <1>1, <1>2, <1>4, <1>7, <1>8, <1>10, <2>1, <2>2, <2>3, LimitKeys
    <3>2. cmin \in Int /\ cmax \in Int /\ cmin >= 0
      BY <1>3, <1>7, <1>10
    <3>3. cmin < cmax => held > s[CountingMin] /\ v < held
      BY <3>1, <3>2
    <3>4. QED
      BY <1>6, <2>3, <3>1, <3>3
  <2>4. CASE k = CountingMax
    <3>1. v = cmax /\ held' = cmax /\ ~Read(CountingMin) /\ ~Read(CountingMin)'
      BY <1>1, <1>2, <1>4, <1>7, <1>10, <2>2, <2>4, LimitKeys
    <3>2. t[CountingMin] = s[CountingMin] /\ t[CountingMax] = s[CountingMax]
      BY <1>6, <2>4, LimitKeys
    <3>3. QED
      BY <2>1, <3>1, <3>2
  <2>5. CASE k \notin {CountingMax, CountingMin}
    BY <1>1, <1>6, <2>1, <2>2, <2>5
  <2>6. QED
    BY <2>3, <2>4, <2>5
<1>13. QED
  BY <1>1, <1>9, <1>10, <1>11, <1>12 DEF ChannelsRead, CountersRead

\* What a list of names becomes in a file that is there.
NamesTaken(t, n, k, v) ==
    \A l \in Lists : t[l] = IF k.id[1] = l THEN Append(n[l], v)
                           ELSE IF k = CountKey(l) THEN <<>> ELSE n[l]

LEMMA NamesAfterIs ==
  ASSUME NEW n \in [Lists -> Seq(Values)], NEW v \in Values, NEW k, NEW there,
         NEW t, t = NamesAfter(n, k, v, there)
  PROVE  /\ t \in [Lists -> Seq(Values)]
         /\ there => NamesTaken(t, n, k, v)
<1>1. CASE IsName(k)
  <2>1. k.id[1] \in Lists
    BY <1>1 DEF IsName
  <2>2. PICK q : q = k.id[1]
    OBVIOUS
  <2>3. t = [n EXCEPT ![q] = Append(n[q], v)] /\ q \in Lists
    BY <1>1, <2>1, <2>2 DEF NamesAfter
  <2>4. n[q] \in Seq(Values) /\ Append(n[q], v) \in Seq(Values)
    BY <2>3
  <2>5. \A l \in Lists : k # CountKey(l)
    BY <2>1, KeyIs DEF CountKey, Lists
  <2>6. t \in [Lists -> Seq(Values)]
    BY <2>3, <2>4
  <2>7. \A l \in Lists : t[l] = IF q = l THEN Append(n[l], v) ELSE n[l]
    BY <2>3
  <2>8. QED
    BY <2>2, <2>5, <2>6, <2>7 DEF NamesTaken
<1>2. CASE ~IsName(k) /\ k \in CountKeys
  <2>1. PICK q \in Lists : k = CountKey(q)
    BY <1>2 DEF CountKeys
  <2>2. ListOf(k) = q
    <3>1. k.sec = Plural[q]
      BY <2>1, KeyIs DEF CountKey
    <3>2. QED
      BY <3>1 DEF ListOf, Plural, Lists
  <2>3. t = [n EXCEPT ![q] = IF there THEN <<>> ELSE n[q]]
    BY <1>2, <2>2 DEF NamesAfter
  <2>4. \A l \in Lists : k = CountKey(l) => l = q
    <3>1. \A l \in Lists : CountKey(l).sec = Plural[l]
      BY KeyIs DEF CountKey
    <3>2. QED
      BY <2>1, <3>1 DEF Plural, Lists
  <2>5. <<>> \in Seq(Values) /\ n[q] \in Seq(Values)
    BY <2>1
  <2>6. t \in [Lists -> Seq(Values)]
    BY <2>3, <2>5
  <2>7. \A l \in Lists : t[l] = IF l = q /\ there THEN <<>> ELSE n[l]
    BY <2>1, <2>3
  <2>8. \A l \in Lists : k.id[1] # l
    BY <1>2 DEF IsName
  <2>9. QED
    BY <2>1, <2>4, <2>6, <2>7, <2>8 DEF NamesTaken
<1>3. CASE ~IsName(k) /\ k \notin CountKeys
  <2>1. t = n
    BY <1>3 DEF NamesAfter
  <2>2. \A l \in Lists : k.id[1] # l /\ k # CountKey(l)
    BY <1>3 DEF IsName, CountKeys
  <2>3. QED
    BY <2>1, <2>2 DEF NamesTaken
<1>4. QED
  BY <1>1, <1>2, <1>3

LEMMA LenNext ==
  ASSUME NEW j \in Nat \ {0}, NEW e \in Nat, NEW c \in Nat
  PROVE  /\ LenAt(j - 1, e, c) \in Nat
         /\ e < j /\ j <= e + c => LenAt(j - 1, e, c) = j - e - 1 /\ LenAt(j, e, c) = j - e
         /\ ~(e < j /\ j <= e + c) => LenAt(j, e, c) = LenAt(j - 1, e, c)
         /\ j <= e => LenAt(j, e, c) = 0
  BY DEF LenAt

LEMMA NamesStep ==
  ASSUME NEW f, NEW k, NEW s, NEW v, Reads(f, k, s, v), cur # 0,
         NEW n \in [Lists -> Seq(Values)], NEW t, NamesTaken(t, n, k, v), NamesRead(f, n)
  PROVE  NamesRead(f, t)'
<1>1. /\ StoreInv /\ phase = "load" /\ v \in Values /\ k = Current /\ Agrees(f, k, v) /\ f \in Files
      /\ k \in Scalars(f) \cup NameKeysOf(f)
      /\ \A q : AskedOf(f, q)' = AskedOf(f, q)
  BY ReadsFacts DEF Reads
<1>2. /\ step \in 1..Len(Plan) /\ step' = step + 1
      /\ \A l \in Lists :
            /\ step >= Place(l)' => step >= Place(l)
            /\ step >= Place(l) =>
                  /\ Place(l)' = Place(l) /\ Base(l)' = Base(l)
                  /\ step # Place(l) => CountOf(l)' = CountOf(l)
  BY PlanGoesOn DEF Reads
<1>3. PICK j : j = step
  OBVIOUS
<1>4. j \in Nat \ {0} /\ k = Plan[j] /\ j \in 1..Len(Plan)
  BY <1>1, <1>2, <1>3 DEF Current, StoreInv, IInv, PlaceInv
<1>5. SUFFICES ASSUME NEW l \in Lists, step' > Place(l)'
               PROVE  /\ Len(t[l]) = LenAt(step' - 1, Base(l)', CountOf(l)')
                      /\ \A i \in 1..Len(t[l]) : LET w == AskedOf(f, Key(Plural[l], l, i - 1))'
                                                 IN w = Empty \/ t[l][i] = Word(w)
  BY DEF NamesRead
<1>6. PICK h, e, c, x, y : h = Place(l) /\ e = Base(l) /\ c = CountOf(l) /\ x = Place(l)' /\ y = CountOf(l)'
  OBVIOUS
<1>7. /\ c \in Nat /\ h \in Nat /\ e \in Nat /\ 3 < h /\ h <= e /\ e + c <= Len(Plan)
      /\ j = h <=> Plan[j] = CountKey(l)
      /\ \A i : Plan[j] = Key(Plural[l], l, i) => e < j /\ j <= e + c /\ i = j - e - 1
      /\ e < j /\ j <= e + c => Plan[j] = Key(Plural[l], l, j - e - 1)
  BY <1>1, <1>4, <1>6, ListFacts DEF ReadOfList
<1>8. x \in Nat
  <2>1. Starting' /\ cur' # 0 /\ IInv' /\ TypeInv'
    <3>1. phase' = "load" /\ cur' # 0
      BY <1>1, ReadsFacts
    <3>2. IInv' /\ TypeInv'
      BY <1>1, StartupStep, TypeStep DEF Reads, StoreInv
    <3>3. QED
      BY <3>1, <3>2 DEF Starting
  <2>2. First' \in {3, 6} /\ \A q \in Lists : CountOf(q)' \in Nat
    BY <2>1, ModulePlanNext
  <2>3. PICK b, r, z : b = First' /\ r = CountOf("channel")' /\ z = CountOf("counter")'
    OBVIOUS
  <2>4. b \in {3, 6} /\ r \in Nat /\ z \in Nat
    BY <2>2, <2>3 DEF Lists
  <2>5. x = CountAt(l, b, r, z)
    BY <1>6, <2>3 DEF Place
  <2>6. CountAt(l, b, r, z) \in {b + 1, b + 4 + r, b + 9 + r + z}
    BY DEF CountAt, Lists
  <2>7. QED
    BY <2>4, <2>5, <2>6
<1>9. j >= x /\ step' - 1 = j
  BY <1>2, <1>3, <1>4, <1>5, <1>6, <1>8
<1>10. j >= h /\ x = h /\ Base(l)' = e /\ (j # h => y = c)
  BY <1>2, <1>3, <1>6, <1>9
<1>11. t[l] = IF k.id[1] = l THEN Append(n[l], v) ELSE IF k = CountKey(l) THEN <<>> ELSE n[l]
  BY DEF NamesTaken
<1>12. CASE j = h
  <2>1. k = CountKey(l) /\ k.id[1] # l
    <3>1. k = CountKey(l)
      BY <1>4, <1>7, <1>12
    <3>2. QED
      BY <3>1, KeyIs DEF CountKey, Lists
  <2>2. t[l] = <<>>
    BY <1>11, <2>1
  <2>3. LenAt(step' - 1, Base(l)', CountOf(l)') = 0
    BY <1>7, <1>9, <1>10, <1>12 DEF LenAt
  <2>4. Len(t[l]) = 0 /\ 1..0 = {}
    <3>1. Len(<<>>) = 0 /\ 1..0 = {}
      OBVIOUS
    <3>2. QED
      BY <2>2, <3>1
  <2>5. QED
    BY <2>3, <2>4
<1>13. CASE j # h
  <2>1. y = c /\ j > h /\ k # CountKey(l)
    BY <1>4, <1>7, <1>10, <1>13
  <2>2. PICK N, u : N = n[l] /\ u = Len(N)
    OBVIOUS
  <2>3. N \in Seq(Values) /\ u \in Nat
    BY <2>2
  <2>4. /\ u = LenAt(j - 1, e, c)
        /\ \A i \in 1..u : LET w == AskedOf(f, Key(Plural[l], l, i - 1))
                           IN w = Empty \/ N[i] = Word(w)
    BY <1>3, <1>6, <2>1, <2>2 DEF NamesRead
  <2>5. CASE e < j /\ j <= e + c
    <3>1. k = Key(Plural[l], l, j - e - 1) /\ k.id[1] = l /\ IsName(k)
      <4>1. k = Key(Plural[l], l, j - e - 1)
        BY <1>4, <1>7, <2>5
      <4>2. QED
        BY <4>1, KeyIs DEF IsName
    <3>2. t[l] = Append(N, v)
      BY <1>11, <2>2, <3>1
    <3>3. u = j - e - 1 /\ LenAt(j, e, c) = j - e
      BY <1>4, <1>7, <2>4, <2>5, LenNext
    <3>4. Len(Append(N, v)) = u + 1 /\ u + 1 = j - e
      <4>1. Len(Append(N, v)) = Len(N) + 1
        BY <1>1, <2>3
      <4>2. j - e - 1 + 1 = j - e
        BY <1>4, <1>7
      <4>3. QED
        BY <2>2, <3>3, <4>1, <4>2
    <3>5. AskedOf(f, k) = Empty \/ v = Word(AskedOf(f, k))
      BY <1>1, <3>1 DEF Agrees
    <3>6. ASSUME NEW i \in 1..(u + 1)
          PROVE  LET w == AskedOf(f, Key(Plural[l], l, i - 1))
                 IN w = Empty \/ Append(N, v)[i] = Word(w)
      <4>1. CASE i \in 1..u
        <5>1. Append(N, v)[i] = N[i]
          BY <1>1, <2>2, <2>3, <4>1
        <5>2. QED
          BY <2>4, <4>1, <5>1
      <4>2. CASE i = u + 1
        <5>1. Append(N, v)[i] = v
          BY <1>1, <2>2, <2>3, <4>2
        <5>2. i - 1 = j - e - 1
          BY <1>4, <1>7, <3>3, <4>2
        <5>3. QED
          BY <3>1, <3>5, <5>1, <5>2
      <4>3. i \in 1..u \/ i = u + 1
        BY <2>3
      <4>4. QED
        BY <4>1, <4>2, <4>3
    <3>7. QED
      BY <1>1, <1>6, <1>9, <1>10, <2>1, <3>2, <3>3, <3>4, <3>6
  <2>6. CASE ~(e < j /\ j <= e + c)
    <3>1. k.id[1] # l
      <4>1. ASSUME k.id[1] = l
            PROVE  FALSE
        <5>1. IsName(k)
          BY <4>1 DEF IsName
        <5>2. k \in NameKeysOf(f)
          BY <1>1, <5>1, ScalarFacts
        <5>3. PICK l2 \in Lists, i \in 0..(UintSize - 2) : k = Key(Plural[l2], l2, i)
          BY <1>1, <5>2, NameFacts
        <5>4. l2 = l
          BY <4>1, <5>3, KeyIs
        <5>5. QED
          BY <1>4, <1>7, <2>6, <5>3, <5>4
      <4>2. QED
        BY <4>1
    <3>2. t[l] = N
      BY <1>11, <2>1, <2>2, <3>1
    <3>3. LenAt(j, e, c) = LenAt(j - 1, e, c)
      BY <1>4, <1>7, <2>6, LenNext
    <3>4. QED
      BY <1>1, <1>6, <1>9, <1>10, <2>1, <2>2, <2>4, <3>2, <3>3
  <2>7. QED
    BY <2>5, <2>6
<1>14. QED
  BY <1>12, <1>13

-------------------------------------------------------------------------------
(* The load of a file, from its first key to its last.                     *)

\* The object of the file that is loaded, with values s and names n.
LoadTo(f, s, n) ==
    /\ ScalarsRead(f, s)
    /\ cur # 0 => ChannelsRead(f, s) /\ CountersRead(f, s)
    /\ cur # 0 /\ files[f] # Missing => NamesRead(f, n)

LoadRead ==
    \A f \in Files : \A s, n :
       f = File /\ s = ram[f].scalar /\ n = ram[f].names => LoadTo(f, s, n)

\* The objects of the modules behind it are as they were made.
Ahead ==
    Starting => \A i \in (cur + 1)..Len(Modules) : ram[Modules[i]].scalar = Default[Modules[i]]

NamesTyped == \A f \in Files : ram[f].names \in [Lists -> Seq(Values)]

ReadInv ==
    /\ NamesTyped /\ Ahead /\ (phase = "load" => LoadRead)
    /\ EditReachesModule

LEMMA PlacesAhead ==
  ASSUME StoreInv, phase = "load", cur # 0, NEW l \in Lists
  PROVE  Place(l) \in Nat /\ Place(l) > 3
<1>1. 1 \in 1..Len(Plan)
  BY PlanFacts DEF StoreInv
<1>2. QED
  BY <1>1, ListFacts DEF ReadOfList

LEMMA LoadBegins ==
  StoreInv /\ phase = "load" /\ step = 1
     /\ (\A k \in Scalars(File) : ram[File].scalar[k] = Default[File][k]) => LoadRead
<1> SUFFICES ASSUME StoreInv, phase = "load", step = 1,
                    \A k \in Scalars(File) : ram[File].scalar[k] = Default[File][k]
             PROVE  LoadRead
  OBVIOUS
<1>1. IInv /\ TypeInv /\ Starting
  BY DEF StoreInv, Starting
<1>2. ASSUME NEW k
      PROVE  ~Read(k)
  <2>1. 1..0 = {} /\ step - 1 = 0
    OBVIOUS
  <2>2. QED
    BY <2>1 DEF Read
<1>3. \A k : ~Read(k)
  BY <1>2
<1>4. ASSUME NEW f \in Files, NEW s, NEW n, f = File, s = ram[f].scalar
      PROVE  LoadTo(f, s, n)
  <2>1. \A k \in Scalars(f) : s[k] = Default[f][k]
    BY <1>4
  <2>2. ScalarsRead(f, s)
    BY <1>3, <2>1 DEF ScalarsRead
  <2>3. ASSUME cur # 0
        PROVE  ChannelsRead(f, s) /\ CountersRead(f, s)
    <3>1. f \in Files \ {Server}
      BY <1>1, <1>4, <2>3, CountFacts
    <3>2. Limits \subseteq Scalars(f)
      BY <3>1, LimitKeys
    <3>3. QED
      BY <1>3, <2>1, <3>2 DEF ChannelsRead, CountersRead, Limits
  <2>4. ASSUME cur # 0
        PROVE  NamesRead(f, n)
    <3>1. \A l \in Lists : ~(step > Place(l))
      BY <2>4, PlacesAhead
    <3>2. QED
      BY <3>1 DEF NamesRead
  <2>5. QED
    BY <2>2, <2>3, <2>4 DEF LoadTo
<1>5. QED
  BY <1>4 DEF LoadRead

LEMMA LoadBeginsNext ==
  (StoreInv /\ phase = "load" /\ step = 1
     /\ (\A k \in Scalars(File) : ram[File].scalar[k] = Default[File][k]) => LoadRead)'
  BY LoadBegins, PTL

\* Before the first key the object is as it was made.
LEMMA Unread ==
  ASSUME StoreInv, phase = "load", step = 1, LoadRead
  PROVE  \A k \in Scalars(File) : ram[File].scalar[k] = Default[File][k]
<1>1. IInv /\ TypeInv /\ Starting
  BY DEF StoreInv, Starting
<1>2. PICK f, s, n : f = File /\ s = ram[f].scalar /\ n = ram[f].names
  OBVIOUS
<1>3. f \in Files /\ (f = Server <=> cur = 0)
  BY <1>1, <1>2, FileFacts DEF IInv
<1>4. LoadTo(f, s, n)
  BY <1>2, <1>3 DEF LoadRead
<1>5. \A k : ~Read(k)
  <2>1. TAKE k
  <2>2. 1..0 = {} /\ step - 1 = 0
    OBVIOUS
  <2>3. QED
    BY <2>2 DEF Read
<1>6. \A k \in Scalars(f) : k \notin Limits => s[k] = Default[f][k]
  BY <1>4, <1>5 DEF LoadTo, ScalarsRead
<1>7. ASSUME NEW k \in Scalars(f), k \in Limits
      PROVE  s[k] = Default[f][k]
  <2>1. cur # 0
    <3>1. ASSUME cur = 0
          PROVE  FALSE
      <4>1. \A i \in 1..5 : ServerKeys[i] \notin Limits
        BY ServerKeyFacts
      <4>2. QED
        BY <1>3, <1>7, <3>1, <4>1 DEF Scalars
    <3>2. QED
      BY <3>1
  <2>2. QED
    BY <1>4, <1>5, <1>7, <2>1 DEF LoadTo, ChannelsRead, CountersRead, Limits
<1>8. QED
  BY <1>2, <1>6, <1>7

\* A step that takes nothing.
LEMMA LoadKept ==
  ASSUME LoadRead, cur' = cur, ram' = ram, step' = step, held' = held, intent' = intent,
         files'[File] = Missing <=> files[File] = Missing
  PROVE  LoadRead'
<1>1. File' = File
  BY DEF File
<1>2. PICK f : f = File
  OBVIOUS
<1>3. Plan' = Plan
  BY <1>2, PlanKept
<1>4. /\ \A k : Read(k)' <=> Read(k)
      /\ \A k : AskedOf(f, k)' = AskedOf(f, k) /\ WantedOf(f, k)' = WantedOf(f, k)
  BY <1>3 DEF Read, AskedOf, WantedOf
<1>5. /\ First' = First
      /\ \A l : CountOf(l)' = CountOf(l)
  BY <1>1 DEF First, CountOf
<1>6. /\ \A l : Place(l)' = Place(l)
      /\ \A l : Base(l)' = Base(l)
  BY <1>5 DEF Place, Base
<1>7. ASSUME NEW s, NEW n, LoadTo(f, s, n)
      PROVE  LoadTo(f, s, n)'
  <2>1. ScalarsRead(f, s)'
    BY <1>4, <1>7 DEF LoadTo, ScalarsRead
  <2>2. cur # 0 => ChannelsRead(f, s)' /\ CountersRead(f, s)'
    BY <1>4, <1>7 DEF LoadTo, ChannelsRead, CountersRead
  <2>3. ASSUME cur # 0, files[f] # Missing
        PROVE  NamesRead(f, n)'
    BY <1>4, <1>5, <1>6, <1>7, <2>3 DEF LoadTo, NamesRead
  <2>4. QED
    BY <1>2, <2>1, <2>2, <2>3 DEF LoadTo
<1>8. QED
  BY <1>1, <1>2, <1>7 DEF LoadRead

\* A read.
LEMMA LoadGoesOn ==
  ASSUME StoreInv, KeepInv, NamesTyped, Ahead, LoadRead, ReadPresent \/ ReadUnwritable \/ Fill
  PROVE  NamesTyped' /\ Ahead' /\ LoadRead'
<1>1. /\ phase = "load" /\ step <= Len(Plan) /\ IInv /\ TypeInv /\ Starting
      /\ files'[File] = Missing <=> files[File] = Missing
  BY LoadTakes DEF StoreInv, Starting
<1>2. PICK v \in Values : Take(v) /\ Agrees(File, Current, v)
  BY LoadTakes
<1>3. Next
  BY DEF Next, StartStep
<1>4. PICK f, k, s, n : f = File /\ k = Current /\ s = ram[f].scalar /\ n = ram[f].names
  OBVIOUS
<1>5. PICK t, u : t = ScalarAfter(s, k, v) /\ u = NamesAfter(n, k, v, files'[f] # Missing)
  OBVIOUS
<1>6. Reads(f, k, s, v)
  BY <1>1, <1>2, <1>3, <1>4 DEF Reads
<1>7. f \in Files /\ File' = f /\ cur' = cur /\ phase' = phase
  BY <1>5, <1>6, ReadsFacts
<1>8. /\ ram'[f].scalar = t /\ ram'[f].names = u
      /\ \A g \in Files : g # f => ram'[g].scalar = ram[g].scalar /\ ram'[g].names = ram[g].names
  BY <1>1, <1>2, <1>4, <1>5, <1>7, TakeScalars, TakeNames
<1>9. LoadTo(f, s, n)
  BY <1>4, <1>7 DEF LoadRead
<1>10. n \in [Lists -> Seq(Values)]
  BY <1>4, <1>7 DEF NamesTyped
<1>11. u \in [Lists -> Seq(Values)] /\ (files'[f] # Missing => NamesTaken(u, n, k, v))
  <2>1. CASE files'[f] # Missing
    <3>1. u = NamesAfter(n, k, v, TRUE)
      BY <1>5, <2>1 DEF NamesAfter
    <3>2. QED
      BY <1>10, <3>1, NamesAfterIs
  <2>2. CASE files'[f] = Missing
    <3>1. u = NamesAfter(n, k, v, FALSE)
      BY <1>5, <2>2 DEF NamesAfter
    <3>2. QED
      BY <1>10, <2>2, <3>1, NamesAfterIs
  <2>3. QED
    BY <2>1, <2>2
<1>12. NamesTyped'
  BY <1>8, <1>11 DEF NamesTyped
<1>13. Ahead'
  <2>1. ASSUME NEW i \in (cur + 1)..Len(Modules)
        PROVE  ram'[Modules[i]].scalar = Default[Modules[i]]
    <3>1. /\ cur \in Nat /\ Len(Modules) \in Nat /\ i \in 1..Len(Modules) /\ i # cur
          /\ cur > 0 => cur \in 1..Len(Modules) /\ f = Modules[cur]
          /\ cur = 0 => f = Server
      BY <1>1, <1>4, FileFacts, ValuesAssumption DEF IInv, PlaceInv
    <3>2. Modules[i] # f /\ Modules[i] \in Files
      BY <3>1, FilesAssumption, ClassAssumption DEF Files
    <3>3. QED
      BY <1>1, <1>8, <3>2 DEF Ahead
  <2>2. QED
    BY <1>7, <2>1 DEF Ahead
<1>14. LoadTo(f, t, u)'
  <2>1. ScalarsRead(f, t)'
    BY <1>5, <1>6, <1>9, ScalarsStep DEF LoadTo
  <2>2. ASSUME cur # 0
        PROVE  ChannelsRead(f, t)' /\ CountersRead(f, t)'
    BY <1>5, <1>6, <1>9, <2>2, LimitsStep DEF LoadTo
  <2>3. ASSUME cur # 0, files'[f] # Missing
        PROVE  NamesRead(f, u)'
    BY <1>1, <1>4, <1>6, <1>9, <1>10, <1>11, <2>3, NamesStep DEF LoadTo
  <2>4. QED
    BY <1>7, <2>1, <2>2, <2>3 DEF LoadTo
<1>15. LoadRead'
  BY <1>7, <1>8, <1>14 DEF LoadRead
<1>16. QED
  BY <1>12, <1>13, <1>15

\* What the object of the file holds when its load ends.
Reached ==
    LET o == ram[File]
        kept(max, min) == o.scalar[max] = Wanted(max) /\ o.scalar[min] = Wanted(min)
    IN /\ \A k \in Scalars(File) \ Limits :
            \/ o.scalar[k] = Wanted(k)
            \/ k \in {Shunt[i] : i \in 1..3} /\ o.scalar[Alias] = Empty
       /\ File # Server =>
            /\ Wanted(ChanMin) < Wanted(ChanMax) /\ Default[File][ChanMin] < Wanted(ChanMax)
               => kept(ChanMax, ChanMin)
            /\ Wanted(CountingMin) < Wanted(CountingMax) => kept(CountingMax, CountingMin)
            /\ \A l \in Lists : \A i \in DOMAIN o.names[l] :
                  LET v == Asked(Key(Plural[l], l, i - 1))
                  IN v = Empty \/ o.names[l][i] = Word(v)

LEMMA ReachedIs ==
  EditReachesModule <=> ((phase = "save" /\ ~aborted) \/ phase = "map" => Reached)
  BY DEF EditReachesModule, Reached, Limits

LEMMA ReachedIsNext ==
  (EditReachesModule <=> ((phase = "save" /\ ~aborted) \/ phase = "map" => Reached))'
  BY ReachedIs, PTL

LEMMA ReachedKept ==
  ASSUME Reached, ram' = ram, cur' = cur, intent' = intent
  PROVE  Reached'
<1>1. File' = File
  BY DEF File
<1>2. \A k : Asked(k)' = Asked(k) /\ Wanted(k)' = Wanted(k)
  BY <1>1 DEF Asked, Wanted
<1>3. QED
  BY <1>1, <1>2 DEF Reached

\* Behind the last key every key of the file was read.
LEMMA AllRead ==
  ASSUME StoreInv, phase = "load", step > Len(Plan), NEW f, f = File, NEW k \in Scalars(f),
         f # Server /\ k \in {Shunt[i] : i \in 1..3} => ram[f].scalar[Alias] # Empty
  PROVE  Read(k)
<1>1. IInv /\ TypeInv /\ Starting /\ f \in Files /\ (f = Server <=> cur = 0)
      /\ step \in Nat /\ Len(Plan) \in Nat
  BY FileFacts, PlanFacts DEF StoreInv, Starting, IInv, PlaceInv
<1>2. ASSUME NEW j \in 1..Len(Plan), Plan[j] = k
      PROVE  Read(k)
  <2>1. j \in 1..(step - 1)
    BY <1>1, <1>2
  <2>2. QED
    BY <1>2, <2>1 DEF Read
<1>3. CASE f = Server
  <2>1. Plan = ServerKeys /\ Len(Plan) = 5
    BY <1>1, <1>3, ServerKeyFacts DEF Plan
  <2>2. \E i \in 1..5 : k = ServerKeys[i]
    BY <1>3 DEF Scalars
  <2>3. QED
    BY <1>2, <2>1, <2>2
<1>4. CASE f # Server
  <2>1. PICK a, n, m, p : /\ a = First /\ n = CountOf("channel") /\ m = CountOf("counter")
                          /\ p = CountOf("output")
    OBVIOUS
  <2>2. "channel" \in Lists /\ "counter" \in Lists /\ "output" \in Lists
    BY DEF Lists
  <2>3. Sizes(a, n, m, p) /\ Plan = ReadOf(a, n, m, p)
    BY <1>1, <1>4, <2>1, <2>2, ModulePlan DEF Sizes
  <2>4. /\ Len(Plan) = a + 9 + n + m + p
        /\ \A i \in 1..(a + 9 + n + m + p) : Plan[i] = KeyAt(a, n, m, p, i)
    BY <2>3, ReadOfIs, ZenonT(30) DEF Sizes
  <2>5. a = 6 \/ k \notin {Shunt[i] : i \in 1..3}
    BY <1>4, <2>1 DEF First
  <2>6. \E j \in 1..(a + 9 + n + m + p) : KeyAt(a, n, m, p, j) = k
    <3>1. Occurs(k, a, n, m, p)
      BY <1>1, <1>4, <2>3, <2>5, KeysOccur
    <3>2. QED
      BY <3>1 DEF Occurs
  <2>7. QED
    BY <1>2, <2>4, <2>6
<1>5. QED
  BY <1>3, <1>4

LEMMA LoadReaches ==
  ASSUME StoreInv, KeepInv, NamesTyped, LoadRead, phase = "load",
         step > Len(Plan) \/ files[File] = Missing
  PROVE  Reached
<1>1. PICK f, s, n : f = File /\ s = ram[f].scalar /\ n = ram[f].names
  OBVIOUS
<1>2. IInv /\ TypeInv /\ Starting /\ f \in Files /\ (f = Server <=> cur = 0)
  BY <1>1, FileFacts DEF StoreInv, Starting, IInv
<1>3. LoadTo(f, s, n) /\ n \in [Lists -> Seq(Values)]
  BY <1>1, <1>2 DEF LoadRead, NamesTyped
<1>4. \A k : Asked(k) = AskedOf(f, k) /\ Wanted(k) = WantedOf(f, k)
  BY <1>1 DEF Asked, Wanted, AskedOf, WantedOf
<1>5. ASSUME files[f] = Missing
      PROVE  \A k : AskedOf(f, k) = Empty /\ WantedOf(f, k) = Default[f][k]
  <2>1. intent[f] = Missing
    BY <1>2, <1>5 DEF KeepInv, KeptIn
  <2>2. QED
    BY <2>1 DEF AskedOf, WantedOf
<1>6. ASSUME NEW k \in Scalars(f) \ Limits
      PROVE  s[k] = WantedOf(f, k) \/ (k \in {Shunt[i] : i \in 1..3} /\ s[Alias] = Empty)
  <2>1. CASE Read(k)
    BY <1>3, <1>6, <2>1 DEF LoadTo, ScalarsRead
  <2>2. CASE ~Read(k) /\ files[f] = Missing
    BY <1>3, <1>5, <1>6, <2>2 DEF LoadTo, ScalarsRead
  <2>3. CASE ~Read(k) /\ step > Len(Plan)
    BY <1>1, <1>6, <2>3, AllRead
  <2>4. QED
    BY <1>1, <2>1, <2>2, <2>3
<1>7. ASSUME f # Server
      PROVE  /\ WantedOf(f, ChanMin) < WantedOf(f, ChanMax) /\ Default[f][ChanMin] < WantedOf(f, ChanMax)
                => s[ChanMax] = WantedOf(f, ChanMax) /\ s[ChanMin] = WantedOf(f, ChanMin)
             /\ WantedOf(f, CountingMin) < WantedOf(f, CountingMax)
                => s[CountingMax] = WantedOf(f, CountingMax) /\ s[CountingMin] = WantedOf(f, CountingMin)
  <2>1. ChannelsRead(f, s) /\ CountersRead(f, s)
    BY <1>2, <1>3, <1>7 DEF LoadTo
  <2>2. Limits \subseteq Scalars(f) /\ \A k \in Limits : k \notin {Shunt[i] : i \in 1..3}
    <3>1. Limits \subseteq Scalars(f)
      BY <1>2, <1>7, LimitKeys
    <3>2. \A k \in Limits : k.id[1] \in {"max", "min", "countingMax", "countingMin"}
      BY KeyFields DEF Limits
    <3>3. \A i \in 1..3 : Shunt[i].id[1] \notin {"max", "min", "countingMax", "countingMin"}
      BY KeyFields
    <3>4. QED
      BY <3>1, <3>2, <3>3
  <2>3. \A k \in Limits : Read(k) \/ files[f] = Missing
    BY <1>1, <2>2, AllRead
  <2>4. ChanMin \in Limits /\ ChanMax \in Limits /\ CountingMin \in Limits /\ CountingMax \in Limits
    BY DEF Limits
  <2>5. /\ Read(ChanMin) \/ s[ChanMin] = WantedOf(f, ChanMin)
        /\ Read(ChanMax) \/ s[ChanMax] = WantedOf(f, ChanMax)
        /\ \/ Read(CountingMin)
           \/ s[CountingMin] = WantedOf(f, CountingMin) /\ s[CountingMax] = WantedOf(f, CountingMax)
    BY <1>5, <2>1, <2>3, <2>4 DEF ChannelsRead, CountersRead
  <2>6. QED
    BY <2>1, <2>5 DEF ChannelsRead, CountersRead
<1>8. ASSUME f # Server, NEW l \in Lists, NEW i \in DOMAIN n[l]
      PROVE  LET v == AskedOf(f, Key(Plural[l], l, i - 1))
             IN v = Empty \/ n[l][i] = Word(v)
  <2>1. CASE files[f] = Missing
    BY <1>5, <2>1
  <2>2. CASE files[f] # Missing
    <3>1. NamesRead(f, n) /\ step > Len(Plan)
      BY <1>1, <1>2, <1>3, <1>8, <2>2 DEF LoadTo
    <3>2. ReadOfList(l, 1, Place(l), Base(l), CountOf(l))
      <4>1. 1 \in 1..Len(Plan)
        BY <1>2, PlanFacts DEF StoreInv
      <4>2. QED
        BY <1>2, <1>8, <4>1, ListFacts
    <3>3. step > Place(l)
      <4>1. Len(Plan) \in Nat /\ step \in Nat
        BY <1>2, PlanFacts DEF IInv, PlaceInv
      <4>2. QED
        BY <3>1, <3>2, <4>1 DEF ReadOfList
    <3>4. n[l] \in Seq(Values)
      BY <1>3
    <3>5. i \in 1..Len(n[l])
      BY <1>8, <3>4
    <3>6. QED
      BY <3>1, <3>3, <3>5 DEF NamesRead
  <2>3. QED
    BY <2>1, <2>2
<1>9. QED
  BY <1>1, <1>4, <1>6, <1>7, <1>8 DEF Reached

LEMMA FreshFacts ==
  ASSUME NEW r, r = Fresh, NEW f \in Files
  PROVE  r[f].scalar = Default[f] /\ r[f].names \in [Lists -> Seq(Values)]
<1>1. Texts \subseteq Values
  BY DEF Values
<1>2. Names[f] \in [Lists -> Seq(Texts)]
  BY ValuesAssumption
<1>3. Names[f] \in [Lists -> Seq(Values)]
  <2>1. \A l \in Lists : Names[f][l] \in Seq(Values)
    <3>1. TAKE l \in Lists
    <3>2. Names[f][l] \in Seq(Texts)
      BY <1>2
    <3>3. QED
      BY <1>1, <3>2
  <2>2. QED
    BY <1>2, <2>1
<1>4. QED
  BY <1>3 DEF Fresh

LEMMA ReadInit == Init => ReadInv
<1> SUFFICES ASSUME Init PROVE ReadInv
  OBVIOUS
<1>1. phase = "off" /\ ram = Fresh
  BY DEF Init
<1>2. NamesTyped
  BY <1>1, FreshFacts DEF NamesTyped
<1>3. QED
  BY <1>1, <1>2 DEF ReadInv, Ahead, Starting, EditReachesModule

\* The next file.
LEMMA LoadOfNext ==
  ASSUME StoreInv, StoreInv', Ahead, Starting, ram' = ram, Advance
  PROVE  Ahead' /\ (phase' = "load" => LoadRead')
<1>1. cur' = cur + 1 /\ step' = 1 /\ cur \in Nat /\ Len(Modules) \in Nat /\ cur <= Len(Modules)
  BY ValuesAssumption DEF Advance, StoreInv, IInv, PlaceInv
<1>2. \A i \in (cur' + 1)..Len(Modules) : i \in (cur + 1)..Len(Modules)
  BY <1>1
<1>3. Ahead'
  BY <1>2 DEF Ahead
<1>4. ASSUME phase' = "load"
      PROVE  LoadRead'
  <2>1. cur < Len(Modules)
    BY <1>1, <1>4 DEF Advance
  <2>2. cur' \in (cur + 1)..Len(Modules) /\ cur' # 0
    BY <1>1, <2>1
  <2>3. File' = Modules[cur']
    BY <2>2 DEF File
  <2>4. ram'[File'].scalar = Default[File']
    BY <2>2, <2>3 DEF Ahead
  <2>5. QED
    BY <1>1, <1>4, <2>4, LoadBeginsNext
<1>5. QED
  BY <1>3, <1>4

LEMMA ReadStep ==
  ASSUME StoreInv, KeepInv, ReadInv, [Next]_vars
  PROVE  ReadInv'
<1>0. /\ IInv /\ TypeInv /\ DiskInv /\ StoreInv'
      /\ NamesTyped /\ Ahead /\ (phase = "load" => LoadRead) /\ EditReachesModule
  BY StoreStep DEF StoreInv, ReadInv
<1>1. CASE Boot
  <2>1. phase' = "load" /\ cur' = 0 /\ step' = 1 /\ ram' = Fresh
    BY <1>1 DEF Boot
  <2>2. NamesTyped'
    BY <2>1, FreshFacts DEF NamesTyped
  <2>3. Ahead'
    <3>1. \A i \in 1..Len(Modules) : Modules[i] \in Files
      BY DEF Files
    <3>2. \A i \in (0 + 1)..Len(Modules) : ram'[Modules[i]].scalar = Default[Modules[i]]
      BY <2>1, <3>1, FreshFacts
    <3>3. QED
      BY <2>1, <3>2 DEF Ahead
  <2>4. LoadRead'
    <3>1. File' \in Files
      BY <2>1 DEF File, Files
    <3>2. ram'[File'].scalar = Default[File']
      BY <2>1, <3>1, FreshFacts
    <3>3. QED
      BY <1>0, <2>1, <3>2, LoadBeginsNext
  <2>5. QED
    BY <2>1, <2>2, <2>3, <2>4 DEF ReadInv, EditReachesModule
<1>2. CASE ReadPresent \/ ReadUnwritable \/ Fill
  <2>1. phase = "load" /\ phase' = phase
    <3>1. phase = "load"
      BY <1>2, LoadTakes
    <3>2. \E v : Take(v)
      BY <1>2, LoadTakes
    <3>3. QED
      BY <3>1, <3>2 DEF Take
  <2>2. NamesTyped' /\ Ahead' /\ LoadRead'
    BY <1>0, <1>2, <2>1, LoadGoesOn
  <2>3. QED
    BY <2>1, <2>2 DEF ReadInv, EditReachesModule
<1>3. CASE Truncate
  <2>1. /\ phase = "load" /\ phase' = "load" /\ UNCHANGED <<ram, cur, step, held, intent>>
        /\ files'[File] = <<>> /\ (files[File] = Missing => step = 1)
    BY <1>3, TruncateFacts DEF Truncate
  <2>2. NamesTyped' /\ Ahead'
    BY <1>0, <2>1 DEF NamesTyped, Ahead, Starting
  <2>3. LoadRead'
    <3>1. CASE files[File] # Missing
      <4>1. files'[File] # Missing
        BY <2>1, FilesFacts
      <4>2. QED
        BY <1>0, <2>1, <3>1, <4>1, LoadKept
    <3>2. CASE files[File] = Missing
      <4>1. \A k \in Scalars(File) : ram[File].scalar[k] = Default[File][k]
        BY <1>0, <2>1, <3>2, Unread
      <4>2. File' = File
        BY <2>1 DEF File
      <4>3. \A k \in Scalars(File)' : ram'[File'].scalar[k] = Default[File'][k]
        BY <2>1, <4>1, <4>2
      <4>4. step' = 1
        BY <2>1, <3>2
      <4>5. QED
        BY <1>0, <2>1, <4>3, <4>4, LoadBeginsNext
    <3>3. QED
      BY <3>1, <3>2
  <2>4. QED
    BY <2>1, <2>2, <2>3 DEF ReadInv, EditReachesModule
<1>4. CASE EndLoad \/ LoadMissing
  <2>1. /\ phase = "load" /\ phase' \in {"map", "save"} /\ UNCHANGED <<ram, cur, intent>>
        /\ step > Len(Plan) \/ files[File] = Missing
    BY <1>4 DEF EndLoad, LoadMissing, disk
  <2>2. NamesTyped' /\ Ahead'
    BY <1>0, <2>1 DEF NamesTyped, Ahead, Starting
  <2>3. Reached
    BY <1>0, <2>1, LoadReaches
  <2>4. Reached'
    BY <2>1, <2>3, ReachedKept
  <2>5. EditReachesModule'
    BY <2>4, ReachedIsNext
  <2>6. QED
    BY <2>1, <2>2, <2>5 DEF ReadInv
<1>5. CASE OverrunThrows
  <2>1. phase = "load" /\ phase' = "save" /\ aborted' = TRUE /\ UNCHANGED <<ram, cur>>
    BY <1>5 DEF OverrunThrows, Reading
  <2>2. NamesTyped' /\ Ahead'
    BY <1>0, <2>1 DEF NamesTyped, Ahead, Starting
  <2>3. QED
    BY <2>1, <2>2 DEF ReadInv, EditReachesModule
<1>6. CASE Save \/ MapEnds
  <2>1. Starting /\ ram' = ram /\ Advance
    BY <1>6 DEF Save, MapEnds, Starting
  <2>2. phase' \in {"run", "load"}
    BY <2>1 DEF Advance
  <2>3. NamesTyped'
    BY <1>0, <2>1 DEF NamesTyped
  <2>4. Ahead' /\ (phase' = "load" => LoadRead')
    BY <1>0, <2>1, LoadOfNext
  <2>5. QED
    BY <2>2, <2>3, <2>4 DEF ReadInv, EditReachesModule
<1>7. CASE MapRow \/ MapRowSkipped
  <2>1. phase = "map" /\ phase' = "map" /\ UNCHANGED <<ram, cur, intent>>
    BY <1>7 DEF MapRow, MapRowSkipped, disk
  <2>2. NamesTyped' /\ Ahead'
    BY <1>0, <2>1 DEF NamesTyped, Ahead, Starting
  <2>3. Reached
    BY <1>0, <2>1, ReachedIs
  <2>4. Reached'
    BY <2>1, <2>3, ReachedKept
  <2>5. EditReachesModule'
    BY <2>4, ReachedIsNext
  <2>6. QED
    BY <2>1, <2>2, <2>5 DEF ReadInv
<1>8. CASE OverrunDies \/ MapRowThrows \/ Crash \/ EditFile \/ EditTable
  <2>1. phase' \in {"off", "dead", "run"} /\ ram' = ram
    BY <1>0, <1>8 DEF OverrunDies, MapRowThrows, Crash, EditFile, EditTable, TypeInv
  <2>2. NamesTyped' /\ Ahead'
    BY <1>0, <2>1 DEF NamesTyped, Ahead, Starting
  <2>3. QED
    BY <2>1, <2>2 DEF ReadInv, EditReachesModule
<1>9. CASE UNCHANGED vars
  <2>1. UNCHANGED <<files, ram, phase, cur, step, held, aborted, intent>>
    BY <1>9 DEF vars, disk
  <2>2. NamesTyped' /\ Ahead'
    BY <1>0, <2>1 DEF NamesTyped, Ahead, Starting
  <2>3. phase' = "load" => LoadRead'
    BY <1>0, <2>1, LoadKept
  <2>4. EditReachesModule'
    <3>1. CASE (phase = "save" /\ ~aborted) \/ phase = "map"
      <4>1. Reached
        BY <1>0, <3>1, ReachedIs
      <4>2. Reached'
        BY <2>1, <4>1, ReachedKept
      <4>3. QED
        BY <4>2, ReachedIsNext
    <3>2. CASE ~((phase = "save" /\ ~aborted) \/ phase = "map")
      BY <2>1, <3>2 DEF EditReachesModule
    <3>3. QED
      BY <3>1, <3>2
  <2>5. QED
    BY <2>2, <2>3, <2>4 DEF ReadInv
<1>10. QED
  BY <1>1, <1>2, <1>3, <1>4, <1>5, <1>6, <1>7, <1>8, <1>9 DEF Next, StartStep

\* Whatever the operator leaves in the files, and wherever starts before this one
\* were cut, a load that ends gives the object what the operator wrote for every key
\* (loadConfig, IniObject::readInteger ..., NIDeviceModule's setters).
THEOREM EditsReachModules == Spec => []EditReachesModule
<1>1. Init => StoreInv /\ KeepInv /\ ReadInv
  BY StoreInit, KeepInit, ReadInit
<1>2. StoreInv /\ KeepInv /\ ReadInv /\ [Next]_vars => (StoreInv /\ KeepInv /\ ReadInv)'
  BY StoreStep, KeepStep, ReadStep
<1>3. ReadInv => EditReachesModule
  BY DEF ReadInv
<1>4. QED
  BY <1>1, <1>2, <1>3, PTL DEF Spec

===============================================================================
