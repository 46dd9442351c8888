# Verification of NiCWrapper

NiCWrapper runs on a National Instruments CompactRIO. It reads the plugged I/O
modules through NI-DAQmx, publishes what it read (or a simulation of it) in the
input registers of a Modbus TCP server, and takes commands from operators on a
TLS server. This directory holds TLA+ models of its concurrent and stateful
parts, the TLC runs that check them and the TLAPS proofs about them. Paths below
are relative to `src/src/`.

## 1. The system

| component | source | state | operations | talks to |
|---|---|---|---|---|
| mode control | `timers/simpleTimer.h`, `Bridge/niToModbusBridge.cpp` 253-359 | `m_active`, `m_timerThread` of two timers | start/stop simulation, start/stop acquisition | called by the client threads of the command server; runs the passes on timer threads |
| passes | `Bridge/niToModbusBridge.cpp` 361-702 | `m_realDataBufferLine`, counters of the simulation, previous counter values, the relays | `acquireData`, `acquireCounters`, `onSimulationTimerTimeOut`, `simulateRelays` | readers and writers, Modbus registers |
| mapping table | `Bridge/niToModbusBridge.cpp` 68-250 | `m_mappingData` | `loadMapping` | the passes |
| Modbus select loop | `Modbus/NewModbusServer.cpp` 98-263 | `refset`, `fdmax`, `clientList` | accept, answer, drop | Modbus clients |
| Modbus registers | `Modbus/NewModbusServer.cpp` 229, 273-313 | `mb_mapping` | `reMap...`, `modbus_reply` | the passes, the select loop |
| command server: connections | `TCP Command server/CrioSSLServer.cpp` 40-59, 186-363 | `m_clientIPs`, `clientThreads_`, `serverRunning_`, descriptors | accept, handshake, serve, close, stop | operators |
| command server: framing | same file 134-167, 276-340 | `accumulatedData`, the byte stream | one `SSL_read` at a time | operators |
| DAQmx wrapper, readers, writers | `NiWrappers/QNiDaqWrapper.cpp`, `channelReaders/`, `channelWriters/` | task handles, mutexes, last values | read current / voltage / counter, set relay | NI-DAQmx driver |
| configuration | `NiWrappers/QNiSysConfigWrapper.cpp`, `NiModulesDefinitions/`, `filesUtils/`, `Modbus/NewModbusServer.cpp` 46-67 | ini files, values, names and limits of each module | enumerate, load (which fills in what is missing), save | file system, operators who edit and upload files |
| circular buffer | `circularBuffer/` | ring of slots | push, pop, clear | bridge (only `clear`) |

`main.cpp` builds these objects (the Modbus server reads its configuration), starts
the Modbus loop, loads the mapping, enumerates the modules and loads and saves the
file of each, starts the command server, and sleeps for ever. Threads: the Modbus
loop, the accepting thread, one thread per operator, one thread per running timer.

What is hard here: the operators' threads share the two timers without a lock, and
commands overlap in every way;
descriptors are closed by one thread and handed out again to another; a stop
joins threads that may be blocked on a silent peer while a detached thread adds new
ones; bytes of commands and of
files share one stream; the registers are written by timer threads and read by the
Modbus loop; driver calls fail half-way; a load
of a file rewrites it once for every key it misses, and the process may be stopped
between any two of these writes. `PROJECT.json` lists each hazard at its
line with the properties aimed at it.

What makes each component correct:

- mode control: one source of the registers at a time; an answer to a command
  tells the truth about the timers; no step ends the process; every command
  returns;
- passes and registers: what a Modbus client finds between two passes comes from
  one pass, counters are not torn, a pass cut short publishes nothing; the relays
  follow the simulation whatever writes fail;
- select loop: its three views of the connections agree, it never enters a call
  that blocks all clients, every request is served;
- connections of the command server: a descriptor belongs to one session, the
  client list is neither stale nor incomplete, sessions and the exit end;
- framing: each command is answered once and in order, file content is never
  taken for a command, and a session ends only for a reason;
- DAQmx wrapper: no task leaks, no thread clears another's task, reads of one kind
  exclude each other, the mutexes are released;
- mapping table: exactly the whole rows, in their order;
- configuration: what an operator wrote reaches the module, a rewrite changes no key
  it is not about, limits stay ordered whatever a file holds, a start ends.

## 2. Modules

| module | models | state and actions in the code's terms |
|---|---|---|
| `ModeSwitch` | the abstract promise of the bridge | one source or none; publish only as the source; change through none; `lost`: the promise is over |
| `Bridge` | `SimpleTimer`, start/stop of `NItoModbusBridge`, the four timer commands of `parseRequest` | one action per statement that another thread can observe: the test of `isActive`, the resize of the line, `m_active = false`, `joinable`, `join`, `m_active = true`, the `std::thread` constructor, the move into `m_timerThread`; the thread's loop test, sleep and slot. Nothing serialises the commands; the histories `overlapped` and `failed` say what a property is excused by |
| `Acquisition` | passes, register line, publication, `modbus_reply`, `simulateRelays` | a row per action, a register per action; a value is the number of the pass that produced it (negative if simulated); a relay is on or off |
| `ModbusServer` | `runServer` and its handlers | `select`, one action per visited socket with everything its handler does, the kernel's table of connections |
| `Sessions` | `acceptClients`, `handleClient`, `gracefulSSLShutdown`, `stopServer`, the destructor | descriptor table of the kernel, `m_clientIPs`, the accepting thread with its test of `serverRunning_` apart from its `accept`, a thread per session, peers that come, stay silent, send what is no TLS and leave; `walk` is what the loop of `stopServer` still comes to, `joinable` the threads nobody joined, `died` what ended the process: a thread that cannot be created, a vector moved under the loop, a joinable thread destroyed, a request, `SIGPIPE` |
| `Framing` | `handleClient`'s buffer, `handleFileDownloadFromClient` | a stream of TLS records; one `SSL_read` per step, appended as a C string; a command is answered, starts a file, is refused or, when it is empty, crashes the process |
| `DaqTask` | `QNiDaqWrapper`'s reads and writes, `DigitalReader` | each function is its list of driver calls; a call succeeds or fails, a failure cleans up and retries or throws (`CurrentCalls`, `VoltageCalls`, `CounterCalls`, `ResetCalls`, `RelayCalls`) |
| `IniFile` | `filesUtils/ini.h` | a file is its lines; what a read of one key finds and what a write of one key leaves, duplicates, foreign lines and repeated sections included |
| `Startup` | `main`, `loadConfig` and `saveConfig` of the Modbus server and the modules, `NIDeviceModule::load...` and its setters, `IniObject`, `loadMapping` | one action per read of a key; a write of a default is two, the truncation and the write; a row of the table per action; stops, restarts, edits between starts |
| `ConfigStore` | the abstract promise of the files | a map from keys to values that a start may only complete, or lose as a whole at a save or when cut |
| `*Proofs` | | theorems about the module of that name |
| `MC*` | | the values of the constants that a `.cfg` cannot write |

`Bridge` composes with `ModeSwitch` by refinement (`ImplementsModes`: the source
is the timer whose thread is alive, and the promise is lost when commands overlap of
which one starts a timer the other touches). `Acquisition` takes from `Bridge` that one
timer thread at a time runs a pass and that a start joins the other source's
thread (`SourcesExclude`, `NoLineRace`), which holds until such commands overlap; in
`Acquisition` a source therefore changes only between two passes. `Startup` implements
`ConfigStore` (`ImplementsStore`: the value of a key is what `IniFile` reads, the
truncated file under a rewrite still counting as its old lines). The mapping that
`Startup` accepts is the list of rows `Acquisition` starts from.
Each module states its environment where it
begins: peers and the driver are actions or choices marked external in
`PROJECT.json`, taken from how the code uses them.

Mutants are kept beside the action they change, under a comment `Mutant:`. No
next-state relation refers to one.

## 3. Runs

| run | instance | shows |
|---|---|---|
| `bridge` | 2 operators whose commands overlap in every way, thread creation may fail | until two commands overlap of which one starts a timer the other touches: exclusion, honest answers, no abort, no raced line, every command returns, refinement of `ModeSwitch` |
| `bridge_race` | 2 operators | **violated**: after two overlapping start commands both timers are active and both operators read ACK |
| `bridge_start` | same, thread creation may fail | **violated**: a start repeated after a failed one reads ACK with no thread |
| `modbus` | 3 client descriptors below and above the server's, backlog 2 | views agree, `fdmax` is the maximum, no blocking call, requests served |
| `sessions` | 2 connections on 2 descriptors that may be reused, exit at any moment | a session keeps its descriptor, the list has no stale entry, an entry is missing only by descriptor reuse, the exit is in order unless a thread was added late, sessions end, the exit comes to its end once the clients are gone |
| `sessions_list` | 3 connections on 2 descriptors | **violated**: a served client is missing from the client list |
| `framing` | 3 commands of 0 to 3 bytes, one with a NUL, limit 3, file of 3 bytes read 2 at a time | order, synchronisation of files and commands, when a session ends, every command answered |
| `daq` | 2 threads, 2 handles, 2 analog retries, 1 counter retry | no leak, mutual exclusion of analog reads, who may clear whose task, mutexes released |
| `acquisition` | 8 rows (3 analog, 2 counters, 3 outputs on an array of 2), every set of unknown modules, 3 passes, the acquired line one register longer than the simulated one | whole passes, whole counters, nothing published in part, leftovers, relays in step, passes end |
| `acquisition_reply` | 2 registers, 2 passes | **violated**: one Modbus reply mixes two passes |
| `startup` | an NI9208 (loads without its file) and an NI9411 without alias (does not), 10 contents of files and 2 tables an operator may leave, directory writable or not, 2 starts, 1 edit, 1 stop at any step | what was written reaches the module, ordered limits, whole mapping, refinement of `ConfigStore`, a start ends |
| `config_sync` | same | **violated**: a start that could write leaves a module's file empty |

The violated runs are disagreements between the code and its own comments; the
`findings` of `PROJECT.json` quote them. All other properties of the runs hold. Six
more statements are defined beside the properties, each with a configuration of its own
in which `tlc` finds it violated:

| configuration | statement | comment of the code it is taken from | what happens |
|---|---|---|---|
| `MCBridgeStop.cfg` | `AckedStopIsOver` | "Stop the simulation timer", `niToModbusBridge.cpp` 291, 349 | two clients stop one timer; the second join throws and is swallowed, ACK is sent while the thread is alive |
| `MCBridgeAbort.cfg` | `FailedStartReturns` | "Return false to indicate that simulation start failed", `niToModbusBridge.cpp` 280, 339 | the second of two starts of one timer ends the process |
| `MCSessionsExit.cfg` | `CleanUpIsLast` | "Ensure SSL context and resources are cleaned up", `CrioSSLServer.cpp` 43 | the accepting thread adds a session behind the walk of `stopServer`, and the SSL context is freed under it |
| `MCFramingNul.cfg` | `NoCommandIsLost` | "Append data to the accumulated string.", `CrioSSLServer.cpp` 308 | a command with a NUL is read and never answered |
| `MCFramingEmpty.cfg` | `TokensAreEnough` | "Ensure there are enough tokens for a valid command", `CrioSSLServer.cpp` 380 | an empty command reads the first of no tokens, at 378 |
| `MCDaqCounter.cfg` | `CounterRead` | "Attempt to read the counter value for the specified channel.", `digitalReader.cpp` 73 | 0 is passed as the number of retries, no driver call is made and the read throws |

What excuses a property is part of it. `overlapped` becomes TRUE at the first command
that meets another one in progress on a timer that one of the two starts; two stops, or a
stop and the start of the other timer (which stops the same one), do not set it. The
`bridge` run therefore has overlapping commands in its behaviours, and the four
violated statements of `Bridge` show what the excuses are for: `SettledExclude` and
`FailedStartReturns` what the overlap leads to, `AckedStopIsOver` the second join that
throws, `AckedStartRuns` the failed thread (`failed`). In the same way `late` (a client
thread is added once `stopServer` has begun) excuses `ExitIsOrderly`, and `CleanUpIsLast`
is what happens then. `orderly` (no record merged, no file refused) and `Plain` (no
command sent holds a NUL) excuse the properties of `Framing`; what a NUL does is
`NoCommandIsLost`. An empty command is excused by nothing: `NoSpuriousEnd` names the
crash as the end it is, and `TokensAreEnough` is the claim it breaks.

Bounds and why they are enough. Two operators: the interference is pairwise, and a
third would find the timers in a state the first two can leave. Two
connections are the fewest of which the second gets the descriptor of the first before
that is off the list, and at the exit one that `stopServer` joins and one that comes
late; two descriptors let them be open together, and `sessions_list` has three
connections; likewise descriptors on both sides of the listening one make the
maximum fall to a client and to the server socket. Framing's lengths are one below,
at and one above each limit (256 and 1024 in the code, 3 and 2 here), and three
commands let one record hold the end of one command and the start of the next, and put
a command before and behind an empty one and one with a NUL.
Two handles for two threads make the driver reuse a handle at once; a failing
driver is allowed at every call. Three passes are the fewest with an acquisition,
a simulation and an acquisition again; the rows put an unknown module before,
between and after a counter, and three output rows overrun an array of two (four in
the code). Two starts are the fewest that read back what a start wrote; one stop
puts a cut at every step of the first. The files hold limits in and out of order and
below the defaults, values of the wrong form, negative numbers where the code reads
unsigned ones (modulo 4 here, 2^32 in the code), a key twice, a section twice, a key
above every section, more names than the module has; the names compared with the store
are those a number of 32 bits can ask for; the tables a bad row between
good ones and a number out of range. `MaxBacklog`, `MaxCommands`, `MaxPasses`,
`MaxBoots`, `MaxEdits` and `MaxCrashes` are bounds of the model; every other constant is a parameter of the code.

`CHECK_DEADLOCK FALSE` is used where the system may stop for good: sessions
and framing end when their clients are gone; a start ends in a running or a dead
process and need not be repeated; in `Bridge` and `Sessions` the process may die, and
operators may send nothing more.

Fairness. Every thread that can run is scheduled (weak fairness of each thread's
steps); in `Bridge` a join waits for a sleep and a slot, both finite; in `Sessions` the steps
that kill the process (`Mishap`) have no fairness, they may happen or not; in `DaqTask` a driver call comes
back (10 s at most for a read); in `Startup` the starting
thread goes on (`StartStep`), unless it is stopped. Nothing is assumed of operators,
Modbus clients or signals: they may stop at any point. `StopCompletes` therefore
speaks of clients that are gone: `stopServer` joins threads that wait in `SSL_read`,
and one connected, silent client holds it, and the exit, up for good. No strong fairness is used: `MutexReleased`
is about the thread that holds a mutex, not about the one that waits for it.

## 4. Theorems

All are checked for every value of the constants.

- `BridgeProofs`: for any number of operators and any overlap. The inductive
  invariant says, for each position a command can be at, what is already settled about
  both timers (the flag cleared, the thread joined, no thread object assigned), as long
  as commands in progress do not interfere; exclusion alone is not inductive, since a
  start that has not yet stopped the other timer would allow both, and two stops of one
  timer may both be between the test of `joinable` and the join. `StopHolds` says of an
  early ACK that another stop is in `join` at that very moment; `StartHolds` adds that the
  two flags are never set together and that an active timer has a live thread or `failed`.
  `BridgeImplementsModes` maps each step to a step of `ModeSwitch` or a stutter.
- `ModbusServerProofs`: the types and the three invariants of the run are inductive together.
  `NeverBlocks` needs `ViewsAgree`, and a lemma that what is ready stays ready
  until its own handler runs.
- `SessionsProofs`: `ExitsInOrder` rests on an invariant: unless a thread was added
  late, every session that is not over is in `joinable`, and once `stopServer` has begun
  what it still comes to is just that set. The types are inductive alone. `HolderInv` ties the kernel's table to the sessions'
  descriptors in both directions; `EntryInv` says whose entry may be in the list;
  `MissingInv` that a missing one was erased by an older session.
- `DaqTaskProofs`: `Owned` (a live task has an owner past its create call that has
  its handle) and `Held` (a thread past the lock has the mutex) give `NoLeak` and
  `AnalogSerial`; `CounterBound` bounds the retries; `Fresh` (in a first attempt
  the handle is null or designates the caller's own task) gives `StealsOnlyWhenStale`.
- `AcquisitionProofs`: `Fresh` (rows behind the current one are of this pass),
  `Copied` (what the copy has done), `Gate` (a row that throws is never passed) and
  `Inside` make `PassIsWhole`, `CounterIsWhole`, `NoPartialPass` and
  `LeftoverOnlyInTail` inductive, whichever of the two lines is the longer one. They
  rest on `MappingAssumption` (the registers of the rows lie in the line and apart,
  which `loadMapping` does not test). `RelaysInStep` follows from an invariant on the
  rows met so far: their count is the number of output rows above the current one, and
  each relay written shows this step above the current row and the last step below.
- `FramingProofs`: the invariant places the session in the bytes the client has written
  (`SegInv`): they are the commands sent, in order, each with its file behind it; there is
  a place up to which the server has read, the records on their way are the bytes from
  there on, and `accumulatedData` is the part of the command in turn before it. The answers
  given are then those of the first commands sent (`AnswersStayInOrder`). As long as no
  record was merged and no file refused, records end where commands and files end, so
  that no read takes bytes of both: `StreamsStayInSync` and `EndsAreDue`. Without that
  they are false, which is why `orderly` is in their statements. The sizes of buffers,
  files and commands are any, and a command may be empty (`FramingAssumption`: a command
  holds no line feed, which would make it two; the download command, which names its file,
  holds no NUL). The invariant is claimed while `Plain` holds: behind a NUL nothing is in
  its place any more. `MarkAssumption`, that file content can be told from commands, serves
  only to state `InSync`: the file loop treats all bytes alike.
- `IniFileProofs`: `PutGet`, what a write of one key does to a file of any length. A
  rewrite concatenates what it makes of each line; the proof spreads the old lines over the
  new ones by an order-preserving map, so that the last line of a key stays the last.
  `FlattenSeq` is unfolded without an induction theorem: the set of lengths at which
  the claim fails has a least element, and that is a contradiction.
- `StartupProofs`:
  - `LimitsStayOrdered`: each of the four setters compares with the other limit as it is
    at that moment; the invariant adds what `loadCounters` holds between its two reads,
    and that what is read of a limit is a number. `MappingsAreWhole`: the rows accepted are
    the whole rows above the current one.
  - `TypeCorrect` and `StartsImplementStore` use `StoreInv`: the files are sequences of
    lines, the one under a rewrite is empty, and a load that can write has written its file
    behind the first key. `Truncate` and `Fill` are a stutter and a `Fill` of the store by
    `PutGet`; that a read changes the list of the keys still to be read (an alias brings
    the shunt, a count its names), but never below the key it is at, keeps the key
    between the two.
  - `EditsReachModules` needs two more invariants. `KeepInv`: what the operator wrote is
    still what each file reads, and where he wrote nothing the program has added only
    defaults. `ReadInv`: the object of the load under way has, of the keys read so far,
    what was wanted, and its defaults of the others, with the two limits of a pair apart,
    as `setChanMax` is called before `setChanMin` and `loadCounters` holds the maximum
    back; its lists are as long as the names read so far. That the keys before the current
    one are never read anew (`PlanGoesOn`) makes it inductive.
  - Assumed: of the products' constants that the limits are in order
    (`ClassAssumption`) and the kinds of the values (`ValuesAssumption`); that the files of
    two modules differ (`FilesAssumption`: a file is named after product and slot,
    `NI9208.cpp` 59); that the defaults are numbers and single words
    (`DefaultsAssumption`), which excludes an alias with a blank given by NI-MAX: stored as
    a default and read back it would come as its first word.

All type invariants, safety invariants, action properties and refinements that a
passing run checks are theorems. Only model-checked: liveness (`CommandReturns`,
`RequestServed`, `SessionEnds`, `StopCompletes`, `EveryCommandAnswered`,
`MutexReleased`, `PassEnds`, `BootEnds`), which needs fairness and `ENABLED`, and the eleven
properties that the code violates.

## 5. Not modelled

- The arithmetic of the values: linear interpolation, the simulated signals, the
  frequency of a counter (its interval is truncated to whole seconds, so at the 500 ms
  period it is always that of 0 s). A pass is judged by where a value comes from, not
  by its number. None of it decides control flow.
- Undefined behaviour on `m_clientIPs` (`getClientList` iterates without the lock)
  and writes outside the register line: no state of a model stands for them. They
  are listed as hazards. The walk of `stopServer` over a vector that moves is modelled
  by two of its outcomes (`SpawnMoves`): it meets emptied thread objects, or the process
  dies. An empty command is modelled as a crash.
- `readCounter` and `resetCounter` by index, `reMapCoilsValues`, `saveChannels`,
  `saveCounters`, `saveModules`, the start-up manager and the plain TCP server:
  nothing reaches them. `modbusSetSlaveId` is called once, before any client.
- The growth of `clientThreads_`, which is emptied only at the exit: `Sessions` bounds
  the connections of a run. The thread that cannot be created is there (`SpawnFails`).
- With the retries `DigitalReader` passes, 0, `readCounter` always throws, so that the
  `resetCounter` behind it is not reached. `daq` gives it one retry, what its signature
  is for, so that both functions run; `MCDaqCounter.cfg` has the value passed.
- The circular buffer: `circular_buffer.h` is Boost's, and the bridge only clears
  its two buffers, which nothing fills.
- The Done callbacks of DAQmx only print; the information `EnumerateCRIOPluggedModules`
  composes for the console is text.
- TLS itself, the NI drivers, libmodbus and the kernel are environment.

Two thirds of the lines of the repository are headers of others: `NIDAQmx.h` (9845
lines), the `nisyscfg` headers (about 1900), `libIniParser.h`, `iniCpp.h`,
`circular_buffer.h`, libmodbus. They declare an interface or are not used, and there
is nothing in them to translate. The share of the map is to be read against the
program's own code, about 8000 lines.

What `Startup` abstracts:

- An ini file is shorter than the buffer of the stream that rewrites it, so a rewrite
  is the truncation and one write; a stop between them leaves an empty file. A full
  disk is not modelled.
- Names of keys and sections are compared in lower case, as `ini.h` does; the layout
  of a line is left out, its kind, key and value kept. Numbers stand for integers and
  for decimals, in order; only the keys read as unsigned have a width, so that a signed number out of
  range, which the code replaces by the default, does not occur; and no text begins with
  a number, of which the code would take the number (`12abc` is 12).
- `loadChannels` reads the number of channels twice; the second read finds what the
  first left and is merged with it. `readStringVector` clears the names when it
  begins; here they are cleared with the read of their number.
- The operator's edits fall between two starts or into a running server, when no load
  is under way.

## 6. Plan

1. `System`: `Bridge` and `Acquisition` together, so that the interface between them
   is checked rather than assumed, and the effect of two active timers on the
   registers is shown.
2. Proofs: the refinement of `Bridge` and `Acquisition` by `System`, once it is there;
   every safety property checked so far is proved.
