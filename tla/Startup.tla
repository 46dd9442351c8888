------------------------------- MODULE Startup -------------------------------
(***************************************************************************)
(* main from its first line to the command server, and the files it reads  *)
(* and rewrites on the way: modbus.ini, mapping.csv, then one ini file for *)
(* each plugged module of a known product, loaded and saved in the order   *)
(* the hardware is enumerated.  The process may end between any two steps  *)
(* and is started again; the operator edits files while it does not start. *)
(*                                                                         *)
(* Numbers stand for numbers in order, Texts for everything else a value   *)
(* or a name may be.  A file that is rewritten is first truncated; it is   *)
(* shorter than the stream's buffer, so what follows is one write.         *)
(***************************************************************************)
EXTENDS IniFile

CONSTANTS Modules,      (* the plugged modules, in the order of enumeration *)
          Creates,      (* those that load without their file: NI9208 *)
          Default,      (* value of each key of each file without a file *)
          Names,        (* default channel, counter and output names *)
          UintSize,     (* 2^32 *)
          Idents,       (* names of sections and keys *)
          Texts, FirstWord, Yes, No, Garbage, Missing, Server, NoRewrite,
          Contents,     (* what the operator may leave in each ini file *)
          Tables,       (* and in mapping.csv *)
          MaxBoots, MaxEdits, MaxCrashes    (* bounds on a behaviour *)

Files == {Server} \cup {Modules[i] : i \in 1..Len(Modules)}

-------------------------------------------------------------------------------
(* The keys, in the order they are read.                                   *)

ServerKeys ==
    << Key("exlog", "compatibilitylayer", 0),
       Key("exlogmapping", "nbanalogsin", 0), Key("exlogmapping", "nbanalogsout", 0),
       Key("exlogmapping", "nbcounters", 0),  Key("exlogmapping", "nbalarms", 0) >>

Type  == Key("modules", "type", 0)
Name  == Key("modules", "moduleName", 0)
Alias == Key("modules", "alias", 0)
Shunt == << Key("modules", "shuntLocation", 0), Key("modules", "shuntValue", 0),
            Key("modules", "terminalConfig", 0) >>
ChanMax == Key("channels", "max", 0)
ChanMin == Key("channels", "min", 0)
Edge  == Key("counters", "edgeCountingMode", 0)
Direction == Key("counters", "countingDirection", 0)
CountingMax == Key("counters", "countingMax", 0)
CountingMin == Key("counters", "countingMin", 0)

\* The three lists of names and the key of their length.
Lists    == {"channel", "counter", "output"}
Plural   == [l \in Lists |-> CASE l = "channel" -> "channels"
                               [] l = "counter" -> "counters"
                               [] l = "output" -> "outputs"]
CountKey(l) == Key(Plural[l], "numberOf", 0)
CountKeys   == {CountKey(l) : l \in Lists}
ListOf(k)   == CHOOSE l \in Lists : Plural[l] = k.sec
IsName(k)   == k.id[1] \in Lists

Scalars(f) == IF f = Server THEN {ServerKeys[i] : i \in 1..5}
              ELSE {Type, Name, Alias, ChanMax, ChanMin, Edge, Direction, CountingMax,
                    CountingMin} \cup {Shunt[i] : i \in 1..3} \cup CountKeys

TextKeys     == {Name, Alias}
FlagKeys     == {ServerKeys[1]}
UnsignedKeys == CountKeys \cup {CountingMax, CountingMin}

-------------------------------------------------------------------------------
(* The values.                                                             *)

\* operator>> takes the first word of a string, and a number of 32 bits modulo
\* its size; what it cannot read gives the default.
Word(v) == IF v \in Texts THEN FirstWord[v] ELSE v

Readable(k, v) ==
    \/ IsName(k) \/ k \in TextKeys \cup FlagKeys
    \/ v \in Int /\ (k \in UnsignedKeys => v \in (1 - UintSize)..(UintSize - 1))

\* Mutant: a negative number stays negative.
ParsedSigned(k, v, default) ==
    IF ~Readable(k, v) THEN default
    ELSE IF k \in FlagKeys THEN IF Word(v) \in {Yes, 1} THEN Yes ELSE No
    ELSE Word(v)

Parsed(k, v, default) ==
    IF ~Readable(k, v) THEN default
    ELSE IF k \in UnsignedKeys THEN v % UintSize
    ELSE IF k \in FlagKeys THEN IF Word(v) \in {Yes, 1} THEN Yes ELSE No
    ELSE Word(v)

\* The constants of the NI classes; 4294967295 and 0 are also literals of
\* loadCounters.
ASSUME ClassAssumption ==
    \A i \in 1..Len(Modules) :
       LET d == Default[Modules[i]]
       IN /\ Modules[i] # Server
          /\ {d[ChanMin], d[ChanMax], d[CountingMin], d[CountingMax]} \subseteq Int
          /\ d[ChanMin] < d[ChanMax]
          /\ d[CountingMin] = 0 /\ d[CountingMax] = UintSize - 1

Values == Int \cup Texts \cup {Empty}

\* A name or a text is no number; every key of a class has its value.
Tokens == {"number", "huge", "word"}
ASSUME ValuesAssumption ==
    /\ Modules \in Seq(Files) /\ UintSize \in Nat /\ UintSize > 1
    /\ Texts \cap Int = {} /\ {Yes, No, Garbage} \subseteq Texts
    /\ FirstWord \in [Texts -> Texts]
    /\ \A f \in Files : Default[f] \in [Scalars(f) -> Values]
    /\ \A f \in Files \ {Server} : \A k \in CountKeys : Default[f][k] \in 0..(UintSize - 1)
    /\ \A f \in Files : Names[f] \in [Lists -> Seq(Texts)]
    /\ Tables \subseteq Seq(Seq(Tokens))

\* A slot holds one module, and the file of a module is its own; the files may
\* hold names and values of any kind.
IniFiles == Seq(Line(Idents, Values))

ASSUME FilesAssumption ==
    /\ \A i, j \in 1..Len(Modules) : i # j => Modules[i] # Modules[j]
    /\ \A f \in Files : /\ Contents[f] \subseteq {Missing} \cup IniFiles
                       /\ \A k \in Scalars(f) : {k.sec, k.id[1]} \subseteq Idents
    /\ Lists \cup {"notes", "note"} \subseteq Idents
    /\ {Missing, NoRewrite} \cap IniFiles = {}

\* The values of the classes are numbers and single words, and so is an alias of
\* the hardware: what is written for them reads as it was.
ASSUME DefaultsAssumption ==
    /\ Yes # No /\ FirstWord[Yes] = Yes /\ FirstWord[No] = No
    /\ Default[Server][ServerKeys[1]] \in {Yes, No}
    /\ \A f \in Files : \A k \in Scalars(f) :
          Default[f][k] \in Texts => FirstWord[Default[f][k]] = Default[f][k]

-------------------------------------------------------------------------------
VARIABLES
    files,       (* the lines of every ini file, or Missing *)
    csv,         (* mapping.csv: the classes of each row's tokens, or Missing *)
    writable,    (* the directory can be written: fixed at start *)
    ram,         (* the values and names each object holds *)
    mapping,     (* m_mappingData: the rows accepted *)
    phase, cur,  (* what main does, for which module (0 the Modbus server) *)
    step,        (* the next key of the file, or row of the table *)
    rewrite,     (* the lines about to be written to the truncated file *)
    held,        (* counterMax, local to loadCounters *)
    aborted,     (* an exception left the current load *)
    intent,      (* history: what the operator left in each file, if not lost *)
    boots, edits, crashes

bounds == <<boots, edits, crashes>>
disk   == <<files, csv, writable, intent>>
vars   == <<disk, ram, mapping, phase, cur, step, rewrite, held, aborted, bounds>>

Starting == phase \in {"load", "map", "save"}

File == IF cur = 0 THEN Server ELSE Modules[cur]

Fresh == [f \in Files |-> [scalar |-> Default[f], names |-> Names[f]]]

Init ==
    /\ files = [f \in Files |-> Missing] /\ intent = files
    /\ csv = Missing
    /\ writable \in BOOLEAN
    /\ ram = Fresh /\ mapping = <<>>
    /\ phase = "off" /\ cur = 0 /\ step = 1
    /\ rewrite = NoRewrite /\ held = 0 /\ aborted = FALSE
    /\ boots = 0 /\ edits = 0 /\ crashes = 0

Boot ==
    /\ phase \in {"off", "dead"} /\ boots < MaxBoots
    /\ boots' = boots + 1
    /\ phase' = "load" /\ cur' = 0 /\ step' = 1
    /\ ram' = Fresh /\ mapping' = <<>> /\ aborted' = FALSE
    /\ UNCHANGED <<disk, rewrite, held, edits, crashes>>

-------------------------------------------------------------------------------
(* Loading one file: loadConfig, loadFromFile and the reads of IniObject.  *)

\* The names of a list are read only if the file is there.
NameKeys(f, l) ==
    IF files[f] = Missing THEN <<>>
    ELSE [i \in 1..ram[f].scalar[CountKey(l)] |-> Key(Plural[l], l, i - 1)]

\* The reads of a load, as far as they are decided: an empty alias ends
\* loadModules before the shunt, a count sets the number of names.
Plan ==
    IF cur = 0 THEN ServerKeys
    ELSE << Type, Name, Alias >>
         \o (IF ram[File].scalar[Alias] = Empty THEN <<>> ELSE Shunt)
         \o << CountKey("channel"), ChanMax, ChanMin >> \o NameKeys(File, "channel")
         \o << CountKey("counter") >> \o NameKeys(File, "counter")
         \o << Edge, Direction, CountingMax, CountingMin >>
         \o << CountKey("output") >> \o NameKeys(File, "output")

Current == Plan[step]
Stored  == IF files[File] = Missing THEN Empty ELSE Get(files[File], Current)

\* readStringVector takes the default of name i from a copy of the class's
\* names, without a test: behind its end lies whatever the heap holds.
Overruns == IsName(Current) /\ Current.id[2] >= Len(Names[File][Current.id[1]])

DefaultValue ==
    IF Overruns THEN Garbage
    ELSE IF IsName(Current) THEN Names[File][Current.id[1]][Current.id[2] + 1]
    ELSE Default[File][Current]

\* Mutant: the guards of the four setters are gone.
WithLimitsUnguarded(s, k, v) ==
    IF k = CountingMin THEN [s EXCEPT ![CountingMax] = held, ![k] = v]
    ELSE [s EXCEPT ![k] = v]

\* Mutant: setChanMax compares with the old maximum.
WithLimitsOnlyHigher(s, k, v) ==
    CASE k = ChanMax -> IF v > s[k] THEN [s EXCEPT ![k] = v] ELSE s
      [] k = ChanMin -> IF v < s[ChanMax] THEN [s EXCEPT ![k] = v] ELSE s
      [] k = CountingMin -> [s EXCEPT ![CountingMax] = held, ![k] = v]

\* setChanMax and setChanMin keep max above min, each against the other's
\* current value; loadCounters drops a pair in the wrong order, and its setters
\* guard as the others.
WithLimits(s, k, v) ==
    CASE k = ChanMax -> IF v > s[ChanMin] THEN [s EXCEPT ![k] = v] ELSE s
      [] k = ChanMin -> IF v < s[ChanMax] THEN [s EXCEPT ![k] = v] ELSE s
      [] k = CountingMin ->
            IF v > held THEN s
            ELSE LET t == IF held > s[k] THEN [s EXCEPT ![CountingMax] = held] ELSE s
                 IN IF v < t[CountingMax] THEN [t EXCEPT ![k] = v] ELSE t

\* The object takes the value read and the load goes on.
Take(v) ==
    /\ held' = IF Current = CountingMax THEN v ELSE held
    /\ ram' =
         IF IsName(Current)
         THEN [ram EXCEPT ![File].names[Current.id[1]] = Append(@, v)]
         ELSE IF Current \in CountKeys
         THEN [ram EXCEPT ![File].scalar[Current] = v,
                          ![File].names[ListOf(Current)] =
                             IF files'[File] = Missing THEN @ ELSE <<>>]
         ELSE IF Current = CountingMax THEN ram
         ELSE IF Current \in {ChanMax, ChanMin, CountingMin}
         THEN [ram EXCEPT ![File].scalar = WithLimits(@, Current, v)]
         ELSE [ram EXCEPT ![File].scalar[Current] = v]
    /\ step' = step + 1
    /\ UNCHANGED <<csv, writable, intent, mapping, phase, cur, aborted, bounds>>

Reading ==
    /\ phase = "load" /\ rewrite = NoRewrite
    /\ cur = 0 \/ File \in Creates \/ files[File] # Missing
    /\ step <= Len(Plan)

ReadPresent ==
    /\ Reading /\ Stored # Empty
    /\ UNCHANGED <<files, rewrite>>
    /\ Take(Parsed(Current, Stored, DefaultValue))

\* The file cannot be opened for writing: the default is used all the same.
ReadUnwritable ==
    /\ Reading /\ Stored = Empty /\ ~writable
    /\ UNCHANGED <<files, rewrite>>
    /\ Take(DefaultValue)

\* A key without a value: writeValue creates or truncates the file.
Truncate ==
    /\ Reading /\ Stored = Empty /\ writable
    /\ rewrite' = Put(IF files[File] = Missing THEN <<>> ELSE files[File],
                      Current, DefaultValue)
    /\ files' = [files EXCEPT ![File] = <<>>]
    /\ UNCHANGED <<csv, writable, intent, ram, mapping, phase, cur, step, held,
                   aborted, bounds>>

Fill ==
    /\ phase = "load" /\ rewrite # NoRewrite
    /\ files' = [files EXCEPT ![File] = rewrite]
    /\ rewrite' = NoRewrite
    /\ Take(DefaultValue)

\* The read behind the names ends the process, or throws and ends the load.
OverrunDies ==
    /\ Reading /\ Overruns
    /\ phase' = "dead"
    /\ UNCHANGED <<disk, ram, mapping, cur, step, rewrite, held, aborted, bounds>>

OverrunThrows ==
    /\ Reading /\ Overruns
    /\ phase' = "save" /\ aborted' = TRUE
    /\ UNCHANGED <<disk, ram, mapping, cur, step, rewrite, held, bounds>>

\* The other products throw, inside loadConfig, when their file is not there.
LoadMissing ==
    /\ phase = "load" /\ rewrite = NoRewrite
    /\ cur > 0 /\ File \notin Creates /\ files[File] = Missing
    /\ phase' = "save"
    /\ UNCHANGED <<disk, ram, mapping, cur, step, rewrite, held, aborted, bounds>>

EndLoad ==
    /\ phase = "load" /\ rewrite = NoRewrite /\ step > Len(Plan)
    /\ cur = 0 \/ File \in Creates \/ files[File] # Missing
    /\ IF cur = 0 THEN phase' = "map" /\ step' = 1
                  ELSE phase' = "save" /\ UNCHANGED step
    /\ UNCHANGED <<disk, ram, mapping, cur, rewrite, held, aborted, bounds>>

\* The next module, or the command server.
Advance ==
    /\ cur' = cur + 1 /\ step' = 1 /\ aborted' = FALSE
    /\ phase' = IF cur = Len(Modules) THEN "run" ELSE "load"

\* saveConfig: fopen "w" empties the file and saveToFile returns at once.
Save ==
    /\ phase = "save"
    /\ IF writable
       THEN files' = [files EXCEPT ![File] = <<>>] /\ intent' = [intent EXCEPT ![File] = <<>>]
       ELSE UNCHANGED <<files, intent>>
    /\ Advance
    /\ UNCHANGED <<csv, writable, ram, mapping, rewrite, held, bounds>>

-------------------------------------------------------------------------------
(* loadMapping.                                                            *)

\* Nine tokens; module and channel are names, the others numbers.  std::stoi and
\* std::stof throw out_of_range on a number that is too large.
NumberFields == (1..9) \ {3, 4}
BadFields(r) == {i \in 1..9 : i > Len(r) \/ (i \in NumberFields /\ r[i] # "number")}
Throws(r) == \E i \in BadFields(r) : /\ \A j \in BadFields(r) : i <= j
                                     /\ i <= Len(r) /\ r[i] = "huge"

Rows == IF csv = Missing THEN <<>> ELSE csv

MapRow ==
    /\ phase = "map" /\ step <= Len(Rows)
    /\ BadFields(Rows[step]) = {}
    /\ mapping' = Append(mapping, step)
    /\ step' = step + 1
    /\ UNCHANGED <<disk, ram, phase, cur, rewrite, held, aborted, bounds>>

\* Mutant: a token that is no number is caught no more than one out of range.
MapRowSkippedNot ==
    /\ phase = "map" /\ step <= Len(Rows)
    /\ BadFields(Rows[step]) # {} /\ ~Throws(Rows[step])
    /\ phase' = "dead"
    /\ UNCHANGED <<disk, ram, mapping, cur, step, rewrite, held, aborted, bounds>>

\* Mutant: a row that is not accepted ends the table.
MapRowSkipsRest ==
    /\ phase = "map" /\ step <= Len(Rows)
    /\ BadFields(Rows[step]) # {} /\ ~Throws(Rows[step])
    /\ step' = Len(Rows) + 1
    /\ UNCHANGED <<disk, ram, mapping, phase, cur, rewrite, held, aborted, bounds>>

MapRowSkipped ==
    /\ phase = "map" /\ step <= Len(Rows)
    /\ BadFields(Rows[step]) # {} /\ ~Throws(Rows[step])
    /\ step' = step + 1
    /\ UNCHANGED <<disk, ram, mapping, phase, cur, rewrite, held, aborted, bounds>>

\* Nothing catches it: std::terminate.
MapRowThrows ==
    /\ phase = "map" /\ step <= Len(Rows)
    /\ Throws(Rows[step])
    /\ phase' = "dead"
    /\ UNCHANGED <<disk, ram, mapping, cur, step, rewrite, held, aborted, bounds>>

MapEnds ==
    /\ phase = "map" /\ step > Len(Rows)
    /\ Advance
    /\ UNCHANGED <<disk, ram, mapping, rewrite, held, bounds>>

-------------------------------------------------------------------------------
(* The environment.                                                        *)

\* The process ends wherever it is: a signal, closeServer's exit, the power.
Crash ==
    /\ phase \notin {"off", "dead"} /\ crashes < MaxCrashes
    /\ crashes' = crashes + 1
    /\ phase' = "off" /\ rewrite' = NoRewrite
    /\ intent' = IF rewrite = NoRewrite THEN intent ELSE [intent EXCEPT ![File] = <<>>]
    /\ UNCHANGED <<files, csv, writable, ram, mapping, cur, step, held, aborted, boots, edits>>

\* By hand, or by the upload command of the command server once it runs.
EditFile ==
    /\ phase \in {"off", "dead", "run"} /\ edits < MaxEdits
    /\ \E f \in Files : \E c \in Contents[f] :
          files' = [files EXCEPT ![f] = c] /\ intent' = [intent EXCEPT ![f] = c]
    /\ edits' = edits + 1
    /\ UNCHANGED <<csv, writable, ram, mapping, phase, cur, step, rewrite, held, aborted,
                   boots, crashes>>

EditTable ==
    /\ phase \in {"off", "dead", "run"} /\ edits < MaxEdits
    /\ csv' \in Tables
    /\ edits' = edits + 1
    /\ UNCHANGED <<files, writable, intent, ram, mapping, phase, cur, step, rewrite, held,
                   aborted, boots, crashes>>

-------------------------------------------------------------------------------

StartStep ==
    \/ ReadPresent \/ ReadUnwritable \/ Truncate \/ Fill
    \/ OverrunDies \/ OverrunThrows \/ LoadMissing \/ EndLoad \/ Save
    \/ MapRow \/ MapRowSkipped \/ MapRowThrows \/ MapEnds

Next == Boot \/ StartStep \/ Crash \/ EditFile \/ EditTable

Spec == Init /\ [][Next]_vars

\* The starting process goes on; nobody has to start it, edit or stop it.
FairSpec == Spec /\ WF_vars(StartStep)

-------------------------------------------------------------------------------
(* Properties.                                                             *)

\* Where main is, and the types of what it has read.
TypeOK ==
    /\ phase \in {"off", "load", "map", "save", "run", "dead"}
    /\ cur \in 0..(Len(Modules) + 1) /\ step \in Nat \ {0}
    /\ writable \in BOOLEAN /\ aborted \in BOOLEAN
    /\ \A f \in Files : ram[f].scalar \in [Scalars(f) -> Values]
    /\ \A f \in Files \ {Server} : \A l \in Lists : ram[f].scalar[CountKey(l)] \in 0..(UintSize - 1)
    /\ rewrite # NoRewrite => phase = "load" /\ step <= Len(Plan) /\ files[File] = <<>>
    /\ mapping \in Seq(Nat)

\* What a load of the lines the operator left gives for a key.
Content(f) == IF files[f] = Missing THEN <<>> ELSE files[f]
Asked(k)   == IF intent[File] = Missing THEN Empty ELSE Get(intent[File], k)
Wanted(k)  == IF Asked(k) = Empty THEN Default[File][k]
              ELSE Parsed(k, Asked(k), Default[File][k])

\* After a load, over however many boots cut short anywhere but inside a rewrite
\* and in however many steps the missing keys were filled in, the object holds what
\* the operator wrote: every readable value, the default for the others, both
\* limits when they are in order and the new maximum exceeds the old minimum.
EditReachesModule ==
    (phase = "save" /\ ~aborted) \/ phase = "map" =>
       LET o == ram[File]
           limits == {ChanMax, ChanMin, CountingMax, CountingMin}
           kept(max, min) == o.scalar[max] = Wanted(max) /\ o.scalar[min] = Wanted(min)
       IN /\ \A k \in Scalars(File) \ limits :
               \/ o.scalar[k] = Wanted(k)
               \/ k \in {Shunt[i] : i \in 1..3} /\ o.scalar[Alias] = Empty
          /\ File # Server =>
               /\ Wanted(ChanMin) < Wanted(ChanMax) /\ Default[File][ChanMin] < Wanted(ChanMax)
                  => kept(ChanMax, ChanMin)
               /\ Wanted(CountingMin) < Wanted(CountingMax) => kept(CountingMax, CountingMin)
               /\ \A l \in Lists : \A i \in DOMAIN o.names[l] :
                     LET v == Asked(Key(Plural[l], l, i - 1))
                     IN v = Empty \/ o.names[l][i] = Word(v)

\* Whatever limits a file holds, in whatever order and of whatever form, a module
\* never works with a range that is empty: the scaling divides by its width.
LimitsOrdered ==
    \A f \in Files \ {Server} :
       /\ ram[f].scalar[ChanMin] < ram[f].scalar[ChanMax]
       /\ ram[f].scalar[CountingMin] < ram[f].scalar[CountingMax]

\* Modules are loaded only behind a table without a number out of range at the
\* first bad token of a row; the mapping is then the rows that parse whole, in
\* their order, whatever rows were skipped between them.
MappingIsWhole ==
    phase \in {"load", "save"} /\ cur > 0 =>
       LET whole(r) == Len(r) >= 9 /\ \A i \in NumberFields : r[i] = "number"
       IN /\ {mapping[i] : i \in DOMAIN mapping} = {i \in DOMAIN Rows : whole(Rows[i])}
          /\ \A i, j \in DOMAIN mapping : i < j => mapping[i] < mapping[j]
          /\ \A i \in DOMAIN Rows : ~Throws(Rows[i])

\* Files that hold no more names than the class has.
Fits(f) == \A l \in Lists :
              LET k == CountKey(l)
                  v == Get(Content(f), k)
              IN v = Empty \/ Parsed(k, v, Default[f][k]) <= Len(Names[f][l])

\* A boot comes to an end, and to the command server unless it is stopped, a row
\* of the table throws or a file asks for more names than the class has.
BootEnds ==
    /\ Starting ~> phase \in {"run", "dead", "off"}
    /\ /\ phase = "load" /\ cur = 0
       /\ \A i \in DOMAIN Rows : ~Throws(Rows[i])
       /\ \A f \in Files \ {Server} : Fits(f)
       ~> phase \in {"run", "off"}

\* The keys whose values the store is compared on: those the program reads, and
\* one it does not know.
Watched ==
    [f \in Files |->
       IF f = Server THEN Scalars(f)
       ELSE Scalars(f) \cup {Key("notes", "note", 0)}
            \cup UNION {{Key(Plural[l], l, i) : i \in 0..(UintSize - 2)} : l \in Lists}]

\* The value of a key; the truncated file under a rewrite still has the old ones.
Value(f, k) ==
    IF rewrite # NoRewrite /\ f = File
    THEN IF k = Current THEN Empty ELSE Get(rewrite, k)
    ELSE Get(Content(f), k)

Store == INSTANCE ConfigStore WITH
            Keys <- Watched, Saved <- Files \ {Server},
            store <- [f \in Files |-> [k \in Watched[f] |-> Value(f, k)]],
            busy <- Starting,
            due <- IF Starting THEN {Modules[i] : i \in Max({cur, 1})..Len(Modules)} ELSE {}

\* A start gives values to keys without one and changes no other value, known or
\* unknown to the program; each module's file is lost at its save and not touched
\* after it, and otherwise a file is lost only when a start is cut inside a rewrite,
\* which never happens to a complete one.
ImplementsStore == Store!Spec

\* "let's ensure our config files stay synchronized" (QNiSysConfigWrapper.cpp:153):
\* behind a start that could write them, the modules' files hold the modules' values.
ConfigInSync ==
    phase = "run" /\ writable =>
       \A f \in Files \ {Server} : \A k \in Scalars(f) :
          Get(Content(f), k) = ram[f].scalar[k]

===============================================================================
