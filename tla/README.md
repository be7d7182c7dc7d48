# IoT-over-CAN: formal model

TLA+ modules, TLC runs and TLAPS proofs for IoT-over-CAN: the coordination of the
CAN Nodes (C++ firmware), and the text console that observes and operates them
(Python). Paths are relative to the repository root; `main.ino` is
`Codigo/node-can/src/main.ino`, `pico_tui/` is `Front/pico_tui/`. All definitions
are translated from the source; `PROJECT.json` gives the lines of each one.

## 1. The system

### Components

| Component | State it keeps | Operations | Interacts with |
|---|---|---|---|
| CAN coordination (`node-can/src/main.ino`, `comandos.cpp`, `falhas.cpp`) | `state`, `leaderId`, `heartbeatTick`, rate, `knownNodes`, the replicated status table, join attempts, ages | election, recovery, announcement, conflict, JOIN, heartbeat and TDMA answer, table replication, absence watchdog, leader watchdog, re-arming after a stall | the other Nodes and the Probe over the bus |
| Probe 00 (same firmware, `NODE_ID` 0) | last leader seen and its age, rate, registered Nodes | observes and prints every frame, asks for an election when the leader falls silent, relays operator commands, refreshes status, measures echoes | Nodes, console over USB serial |
| Fault injection (`fault_injection.cpp`) | running test and its end | silence, power cycle, AP outage, session drop, bus load, cancel | coordination, wireless link |
| Wireless binding and failover (`wireless_discovery.cpp`, `ioc_failover.c`, `ioc_bindstore.c`) | candidates, bindings, pending restores, failover table, NVS records | BIND, UNBIND, policy, hand-over by the leader, conflict resolution, restore | other Nodes, sensor (BLE), coordination |
| Authenticated link (`wireless_link.cpp`, `ioc_link.c`, `ioc_secpdu.c`; `edge_network_driver.c`) | pending and current session keys, counters, timeouts on both ends | HELLO, challenge, CONFIRM, data, ping, expiry | Wi-Fi station events, binding |
| Segmented transfers on CAN (`ioc_wdata.c`) | transmit queue, receive slots | split, reassemble, evict, expire | link to CAN to console |
| Panel (`common/ioc_panel`, `node-paper`) | state cache, mailbox, pages | cache a frame, replay, page navigation | Node over serial |
| Sensor on its own serial port (`node-wifi/main.c`, `serial_console.c`) | staged and active configuration, telemetry, faults | SET, APPLY, GET, STATUS, TELEMETRY, FFT, DTC | console |
| Console: serial session (`pico_tui/serial_client.py`, `protocol/router.py`, `security.py`, parts of `app.py`) | port, reader thread, pending echoes, line queue, decoder mode, commands waiting for the firmware's authentication | connect, reconnect, disconnect, read, hand over, send, authorize | device at the other end, operator |
| Console: registry (`services/controller.py`, `core/state_store.py`, `protocol/sequence.py`, `alarms.py`) | modules, sensors, owners, freshness, fault codes, sequence numbers, incidents | one handler per event | decoders, screens |
| Console: decoders and views (`protocol/legacy_gateway.py`, `protocol/sensor_direct.py`, `protocol/fragments.py`, `data_channel.py`, `presentation.py`) | what the lines said last | decode a line, reassemble, deduce a stage | registry |
| Console: commands (`app.py`, `screens.py`, `dialogs.py`, `command_catalog.py`, `commands.py`) | screens, dialogs, selection, actions under way | offer, ask, confirm, choose the target, send | operator, serial session |
| Console: measurements (`metrics/service.py`, `metrics/experiments.py`, `metrics/rta.py`, `research/service.py`) | counters, the run in progress, past runs, trains of echoes | observe, start, stop, analyse | Probe |
| Console: history (`history/service.py`, `captures.py`, `storage.py`) | queue of records, captures, database, files | observe, record, flush, capture, leave | event loop, two kinds of worker threads, SQLite |

### What makes it hard

On the bus every Node runs its own loop; a frame is handled some time after it was
sent, in whatever state the receiver then is; decisions rest on ages measured
locally; Nodes stall, lose power and come back; one table is kept in as many copies
as there are Nodes; a fault, once recorded, must not be lost.

In the console one event loop, a reader thread per connection and the worker
threads of the history share state; the loop may wait for a thread that waits for
the loop. All it knows of the network comes from lines that are lost, late or
repeated and that it cannot ask for again; what a line says is about a sensor that
may have moved to another module since, or be moving while a dialog is open. The
storage may fail between any two steps and is tried again.

### What makes each part correct

- coordination: one leader in the end and in bounded time; a leader in office is not
  replaced by an arrival; every Node that works gets a slot of its own and is not
  accused; a fault is known to all and kept until it is cleared;
- serial session: no read of a closed port, no port that nobody will close, every
  thread ends; a command reaches the device it was typed for, once;
- registry, decoders, views: what is shown is what the device or network is, once
  its lines have been read; losses are counted, faults told when they become active;
- commands: what was chosen for a sensor reaches that sensor or none;
- measurements: a figure is a fact of the network (a response bound is a bound, a
  sensor told silent is silent, a train holds its own answers);
- history: what was accepted becomes durable in order or is counted as lost; a
  capture holds its whole window once, and ends;
- binding: a sensor has at most one owner in the end; link: two ends of a session
  hold the same key, no message is accepted twice; transfers: what is delivered was
  sent, whole; panel: what is shown is the last state received.

`PROJECT.json` lists under `hazards` the places of the code where these can go
wrong, each with the properties that watch it or the reason why none does.

## 2. Modules

| Module | Models | Composed by |
|---|---|---|
| `CanCoordination` | one functional Node per element of `Node` and the Probe: all handlers, deadlines, commands, and the bench | `MCCanCoordination` (values for TLC), `CoordinationClock` (stopwatches for leaderless and two-leader time) |
| `Tdma` | slot arithmetic shared by both models of the round | `CanCoordination`, `TdmaRound` |
| `TdmaRound` | one leader's round with the real byte tick (256) and replica modulus (83) against the absence deadline | |
| `ConsoleSession` | the event loop, the reader threads, the device, the authorization queue | `MCConsoleSession` |
| `BoundedLog` | abstract: records accepted, durable in order, or counted as given up | `HistoryLog` (refinement) |
| `HistoryLog` | queue, flush, captures, files, failing storage, leaving | `MCHistoryLog` |
| `HistoryEvents` | which events are recorded, with the hysteresis of the bus load, and which open a capture | `MCConsoleDomain` |
| `SensorRegistry` | the handlers of the controller on the store: owners, freshness, fault codes, sequence numbers, alarms, incidents | `MCConsoleDomain` |
| `Transfers` | reassembly of spectra from fragments | `MCConsoleDomain` |
| `DataChannel` | the module's side of a wireless channel as its lines tell it, and the stages deduced from them | `MCConsoleDomain` |
| `NetworkPicture` | the frames of a network, the lines the Probe prints of each, and the modules shown | `MCConsoleDomain` |
| `DirectSensor` | the command interpreter of the sensor firmware, the decoder of its answers and what is shown | `MCConsoleDomain` |
| `OperatorCommands` | from an entry of the catalog or a line typed to the line sent, while the sensor moves | `MCConsoleDomain`, `MCOperatorCommands` |
| `NetworkMeasures` | counters of the session and fault experiments | `MCConsoleDomain` |
| `BusAnalysis` | the response time analysis, beside a bus that arbitrates frame by frame | `MCConsoleDomain` |
| `EchoTrains` | ECHO trains from the Probe to a module or on to the sensor, and their count in the console | `MCConsoleDomain` |
| `CanCoordination_proofs`, `TdmaRound_proofs`, `ConsoleSession_proofs`, `SensorRegistry_proofs`, `OperatorCommands_proofs` | theorems about the module they are named after, for all constants | the last two by `MCConsoleDomain` |
| `HistoryLog_proofs` | theorems about `HistoryLog` and `HistoryEvents` (instance `Events`) | |
| `ConsoleLines_proofs` | theorems about the parts that read lines: `Transfers`, `DirectSensor`, `EchoTrains`, `DataChannel`, `NetworkMeasures`, `NetworkPicture` (instances `Spectra`, `Direct`, `Echoes`, `Channel`, `Measures`, `Picture`) | `MCConsoleDomain` |
| `MCConsoleDomain_proofs` | what `SensorRegistry_proofs`, `OperatorCommands_proofs` and `ConsoleLines_proofs` show, carried over to the scenes of `MCConsoleDomain` | |

No module declares a RECURSIVE operator: what the code computes by a loop is a
recursive function or a fold.

**Slips.** A definition with a namesake near it (`Unprotected`, `Protected`) is a
mistake the code could have had. The specification does not use it; substituting it
for its namesake makes the property listed with it in `PROJECT.json` fail.

### `CanCoordination`

| Code | Model |
|---|---|
| globals of `main.ino` 97-170 | `nd[n]`, a record of type `NodeState` |
| `updateNetworkStatusLocal`, `forceNetworkStatusLocal`, `isProtectedStatusTransition`, `markNodeSeen`, `registerNode` | `Update`, `ForceStatus`, `Protected`, `MarkSeen`, `Register` |
| `handleReceivedCanMessage` and its handlers | `OnStart`, `OnElection`, `OnLeader`, `OnHeartbeat`, `OnSensor`, `OnJoinRequest`, `OnJoinAccept`, `OnState`, `OnTable`, `OnForce`, `OnStatusRequest`, `OnStatusResponse`, `OnSensorControl`, `OnRate`: one per frame, the whole handler in one step |
| the `...IfNeeded`, `...Check...` calls of `loop` | `FinishElection`, `FinishRecovery`, `SendHeartbeat`, `JoinProcess`, `DeclareAbsent`, `FollowerWatchdog`, `ProbeWatchdog` |
| `handleSerialCommands` | `ProbeCommand`, `NodeCommand`, `ProbeStatusRefresh` |
| silence test, stall, power | `Freeze`, `Thaw` (`rearmWatchdogsAfterStall`), `PowerOff`, `PowerOn` |

- **Bus.** CAN delivers every frame to every station in one order. A sent frame is
  appended to the buffer of each listening station, which handles it when it gets
  to it, so a Node may act on a deadline with unread frames in its buffer. Frames
  are not lost (the controller repeats until acknowledged); a Node that is frozen
  or off hears nothing.
- **Time.** One `Tick` is `TickMs` long, 100 or 500 ms. A loop pass or a frame takes
  milliseconds, so time advances only when every buffer is empty and no deadline is
  due. What falls within one tick happens in any order: a deadline may precede or
  follow the frame that would have prevented it. A follower waits for its leader
  the longer the lower its identifier (`Stagger`, 20 ms for each identifier up to 31,
  so 600 ms for Node 1); a deadline that is no whole number of ticks is due at the
  next one.
- **One timer.** Each state of a Node reads one age; the model has one `timer` for
  them, and one age per table entry (`networkLastSeenMs`).
- **Abstracted.** Sensor values, serial text, LEDs, acknowledgements that nobody
  reads on the bus. A `JOIN_ACCEPT` is followed by the table as one frame where the
  code sends one frame per entry. The replica cursor of a sync tick is a free choice
  among the known entries.
- **The bench.** `bench` is a record chosen in `Init` from the constant `Plans`:
  whether the Probe is attached, who is switched on late, who may be frozen or
  cut off (once each; on a `calm` bench only under a leader in office), which
  commands may be typed (those `handleSerialCommands` accepts, `Command`) and how many. On a calm bench a Node is switched on only
  when the operator has typed them all. The theorems hold for every set of plans.

### `ConsoleSession`

Three kinds of process. A reader thread (`ThreadReads`, `ThreadHandsOver`,
`ThreadReports` with field `th` of `cl[c]`) reads a chunk, drops the echo of its
oldest pending command, hands each other line to the loop by `call_from_thread` and
blocks until the loop has run it; it asks whether to stop only after a whole chunk.
The loop runs one piece of a coroutine at a time and nothing while `close()` joins a
thread (`joining`, until `JoinOver` or the time limit gives up on a thread that
waits for the loop). `_connect_serial` is split where it suspends (`pc`): an old
client is closed, a port opened, the Pico given time to start, the mode forced or a
question sent; `:connect`, `:reconnect`, `:disconnect` and lost cables come in
between. The device answers what it is sent; when its answers are read is open.
`auth` is the state of `DeviceAuth` with the command that waits and its queue.

### `HistoryLog` and `BoundedLog`

The loop reads the clock first and takes the locks later, so `ReadRow` and `Observe`,
`SeeEvent`, `Notice` and `PushEvent` are steps of their own. The timer's thread and
the thread of leaving both flush (`TakeBatch`, `WriteBatch`), write chunks of each
capture (`FlushCaptures`, `WriteChunk`) and finish those that are over
(`PickFinished`, `FinishCapture`). Each write may fail (`WriteFails`, `ChunkFails`,
`FinishFails`): a batch is put back in front of what was accepted since, a chunk is
tried again under the same number, a file that was written and not registered is
overwritten. A batch with an event of a capture the database does not know fails.

`KeepsPromise` is the refinement: pending records are the batch being written and
the queue, durable ones the rows of the database, lost ones those dropped plus those
the database was told of. The abstract log says nothing of threads or batches.
`Discard` of the abstract log gives up several records at once, the earliest first:
a batch put back into a queue that filled up in the meantime loses its beginning.

### The parts in `MCConsoleDomain`

Each is a module of its own with `Init`, `Next`, a type invariant and properties. They do not
act on each other in the model (the console joins them through events that each
module takes as inputs), so one run takes them in turn: the variable `scene` chooses
the part and the events it is given, and the parts share the variables `v1` to
`v18`. Sixteen scenes: `SensorRegistry` in four (moves of two modules' sensor,
freshness and modes, sequence numbers, readings and alarms), `NetworkMeasures` in
four (silence of sensors that change names, fault experiments, coordination, links),
and one each for the other parts.

`SensorRegistry` has two kinds of input. `Gateway` is what the lines of a Probe or
Node bring, in four families (`Ownership`, `Modules`, `Numbering`, `Readings`); `Port`
is what a sensor on the USB port says of itself. The four scenes take one family each.

Several of them model both ends, so that what is shown can be compared with what
is: the registry keeps what each sensor really sent (`stream`), the measures
what each sensor is really called and when it last spoke (`real`), the data channel
the module's link, the picture the network and the leader's table, the echo trains
the Probe and the bus, `BusAnalysis` the bus. `OperatorCommands` keeps what the
operator chose beside what was sent.

Assumptions of these models, each named where it is used:
- the handlers of one event end before the next event (the event bus, section 7);
- `NetworkMeasures`: a sensor changes modules only after a silence of `Handover`,
  which is longer than `Recent`, the age at which a name counts as just heard (the
  module declares a sensor lost before another one binds it);
- `BusAnalysis`: one tick is the time of a bit; the frames of a burst are ready together;
- `DataChannel`: the view is compared with the module only after a report of the
  link that came last, and a module says its steps in the order of its code;
- `NetworkPicture`: the lines of one frame are decoded before the next frame; the
  network has one leader or is electing one;
- `EchoTrains`: all trains are for one sensor of one module; the module has it or not,
  with a session or without, and that may change at any time. Of an answer the line
  says whether it was applied, refused for any reason, or never came;
- `SensorRegistry`: a SENSOR line gives a sensor any identity, as the handler does
  (`_sensor_status`); nothing in the repository but the generator of example data
  (`services/demo.py`) sends one with an identity through a gateway. `renamed` marks
  the sensors to which a line or the USB port gave another identity;
- `HistoryEvents`: how often a fault code occurred, which the code compares too when it
  decides whether to tell it again, is left out;
- `BusAnalysis`: every frame that waits takes part in the arbitration. The MCP2515
  sends the frames of one module in the order of their arrival, so one of them may
  delay another of higher priority, and no frame is repeated after an error: the
  analysis leaves out the same (`rta.py:42-45`);
- `DirectSensor`: the port stays open and the sensor unlocked (`ConsoleSession` has
  the rest).

## 3. Runs

Twelve runs; six must pass, six end in a disagreement (section 6).

| Run | Instance | Shows |
|---|---|---|
| `three_nodes` | Nodes 1, 26 and 31, six plans: leader lost, with and without the Probe; follower lost or frozen; the Node with the highest identifier arrives late, undisturbed, after CLEAR_FAULT or a rate command under the Probe's refreshes, or while another Node is in fault | the network settles under one leader for good (`Converges`), the joiner enters the round (`JoinerServed`), learning the faults before it (`NewcomerInformed`), the leader in office stays whoever arrives or thaws (`NoUsurper`), nobody healthy is accused (`HealthyNotAccused`), slots are distinct (`TdmaSchedule`) and exist (`TdmaServed`) |
| `outages` | Nodes 6 and 31, rates 3 and 5, five plans: either Node frozen or cut off once at any moment; leader cut off; sensor switched, fault declared and cleared; rate changed and leader cut off; sensor off under the Probe | `TypeOK`, `OfficeKnown`, `FollowsAnother`; a lost leader is replaced within watchdog + stagger + election + recovery (`VacancyBounded`), two leaders coexist for one period at most (`SplitBounded`); faults are replicated on every Node that was there (`FaultAgreed`) and kept (`FaultMemory`) |
| `tdma_round` | any subset of five followers, tick 256, modulus 83, two sensor changes | up to three followers (two while sensors change) are heard in time (`HeardInTime`) |
| `console_session` | two connections, two commands, a cable that may break | `NoReadAfterClose`, `PortIsOwned`, `LiveIsShown`, `EchoFiltered`, `CommandKeepsDevice`; every stopped reader ends (`ReaderStops`), the authentication and the synchronization are over some time (`AuthenticationEnds`, `SynchronizationEnds`) |
| `history_log` | two events, two rows, one failure of the storage | `KeepsPromise` (refinement), `StartPrecedesUse`, `LeftIsDurable`, `RowsNeverLost`, `CaptureEnds` |
| `console_domain` | the sixteen scenes | types of all parts, `OneOwner`, `LossesAccounted`, `DtcAnnounced`, `SpectrumWhole`, `SilenceIsReal`, `ResponseBounded`, `TellsStage`, `ScreenIsRight`, `CommandReachesItsSensor`, `PictureIsTrue`, `TrainIsWhole` |
| `thawed_leader`, `arrival_in_election`, `five_followers`, `history_operator_mark`, `named_line`, `configured_without_session` | | section 6 |

### Bounds

- **Coordination.** Timers have the real ratios: election 5 s, recovery 1.5 s, JOIN
  retry 2 s, five attempts, absence 5 periods, watchdog 6, Probe 4, in ticks of 100 ms
  (50, 15, 20) with three Nodes and of 500 ms (10, 3, 4) in `outages`, where a Node may
  be disturbed at any moment and far more ages differ. Only the order of identifiers and the
  stagger tell Nodes apart: 1, 26 and 31 have 600, 100 and 0 ms, whole ticks of 100 ms,
  with 1 the longest there is; Node 6 has 500 ms, one whole tick of `outages`.
  `VacancyBounded` is therefore 13 s there and, by the same formula, 13.1 s for
  Node 1. `TickMod` and `SyncMod` are 5 so that sync ticks occur within a short
  behaviour; the real moduli are in `tdma_round`. `Horizon` is the longest
  deadline, stagger included (66 or 13 ticks); an age beyond it changes nothing. Two Nodes are enough for disagreements
  between a leader and another Node, three for those between followers. A third
  Node under unrestricted outages is left out: `thawed_leader` shows that it accuses
  candidates. `VacancyBounded` is stated for plans that only cut a leader in office
  off: a second loss during an election starts the clock again.
- **`console_session`.** `MaxConn` 2: what an old connection can do to a new one.
  `MaxCmd` 2, `QueueCap` 1, `LineCap` 1: a command that starts the authentication and
  one behind it, full queues (32 and 5000 in the code). `Deaths` {1}: the
  first cable may break. The first port has a sensor, with the right token or a wrong
  one, the second a gateway, so that a command can meet the wrong device.
- **`history_log`.** `QueueMax` 2 and `PendingMax` 2, so that both overflow;
  `MaxActive` 1, so that an event finds no room for a capture; `ChunkRows` 2 and
  `ChunkTime` 3; `MaxEvents` 2, `MaxRows` 2, in all `MaxInputs` 3 of these and of
  leaving; `MaxFails` 1. `Pre` 1, `Post` 3, `Span` 5: a second event extends a
  capture up to its longest; the clock counts in twos and these are odd, so that no
  two instants compared coincide. Inputs end at `LastSeen` 4, the clock at `Horizon`
  8, late enough for every capture to be over. `Answers` keeps the loop's and the
  database's delays below `Post` (120 s in the code; the database gives up after 3 s). The
  ring of the recent rows, at most 1200 per stream (`MAX_RECENT_PER_STREAM`), is not
  modelled: of a stream with more rows than that in the last `Pre` a new capture gets
  the latest 1200.
- **`console_domain`.** Two modules and one sensor where it moves, one where a
  stream is counted; sequence numbers modulo 4 with the code's half range; ages 1, 2,
  3 ticks for the thresholds; a transfer of two fragments, two sendings per key, a
  table of one transfer; three lines in each view, two trains of at most two echoes,
  one of which meets one mishap (a frame or a line lost, a restart, a change of the
  session); a LOCAL train is a single echo of the first train; two inputs of the operator; four sets of
  traffic with blocking, bursts and interference. Inputs and clock are
  bounded per scene in the module.

### Deadlock and fairness

Deadlock is checked in the coordination runs and `tdma_round`. The console's runs
are told not to: their inputs and clock are bounded, the operator leaves, and then
nothing more happens.

- `CanCoordination`: weak fairness on handlers and deadlines of each Node (the loop
  runs them in every pass), on the Probe's, on `Tick` and on `Thaw` (a silence test
  has a limited duration, `TEST_MAX_DURATION_MS`). Commands, disturbances and
  power-on have none.
- `ConsoleSession`: weak fairness on each thread, on the calls a thread waits for, on
  the coroutines and on the line pump (the scheduler runs them). A join ends by
  itself or by its time limit. None on the operator or the cable.
- `HistoryLog`: weak fairness on the clock, on the end of what the loop began, on
  each thread (the timer fires every two seconds) and on the steps of leaving once it has
  begun. None on events, rows, failures or on leaving.

`AuthenticationEnds` and `SynchronizationEnds` are about connections that are not
disturbed: no line was lost and the port can be written. Otherwise they may
last: the code has no timeout for either.

## 4. Proofs

| Module | Theorem | States |
|---|---|---|
| `CanCoordination` | `TypeCorrect`, `OfficeIsKnown`, `FaultIsRemembered` | `Spec => []TypeOK`, `Spec => []OfficeKnown`, `Spec => FaultMemory` |
| | `EveryoneFollowsAnother` | `Spec => [](NothingCleared => FollowsAnother)` |
| | `FaultsAreAgreed` | `Spec => []FaultAgreed` |
| `TdmaRound` | `RoundTypeCorrect`, `OneVoicePerHeartbeat`, `EveryoneIsHeardInTime` | types, `Spec => []OneVoice`, `Spec => []HeardInTime` |
| `ConsoleSession` | `SessionTypes`, `ReadsOpenPorts`, `PortsAreOwned`, `LiveStateIsShown`, `CommandsKeepTheirDevice`, `EchoesAreFiltered` | types and the five invariants of run `console_session` |
| `HistoryLog` | `TheLogIsKept` | the refinement `Spec => KeepsPromise`: `HistoryLog` implements `BoundedLog` |
| | `StartsComeFirst`, `NothingIsLeft` | `Spec => []StartPrecedesUse`, `Spec => []LeftIsDurable` |
| | `RowsAreKept` | `Spec => []RowsNeverLost` |
| `HistoryEvents` | `LoadIsTold`, `LoadTurnsSlowly` | `Spec => []LoadHysteresis`, `Spec => LoadTurns` |
| `Transfers` | `TransferTypes`, `ShownSpectraAreWhole` | types and limit of the table, `Spec => []SpectrumWhole` |
| `DirectSensor` | `DirectTypes`, `TheScreenIsRight` | types, `Spec => []ScreenIsRight` |
| `EchoTrains` | `TrainsAreWhole` | `Spec => []TrainIsWhole` |
| `DataChannel` | `StageIsTold` | `Spec => []TellsStage` |
| `NetworkMeasures` | `SilenceIsTold` | `Spec => []SilenceIsReal` |
| `NetworkPicture` | `PictureTypes`, `ThePictureIsTrue` | types, `Spec => []PictureIsTrue` |
| `SensorRegistry` | `OneModuleOwnsASensor` | `Direct \in Ids => (Spec => []OneOwner)` |
| | `LossesAreAccounted` | `CountingSpec => []LossesAccounted` |
| `OperatorCommands` | `CommandsReachTheirSensors` | `Spec => []CommandReachesItsSensor` |
| `MCConsoleDomain` | `SpectraAreWhole`, `ScreenStaysRight`, `TrainsStayWhole`, `StagesAreTold`, `SilenceStaysReal`, `PictureStaysTrue`, `OneModuleOwns`, `LossesAreCounted`, `CommandsReachTheirSensors` | the nine safety properties above as properties of run `console_domain` |

The assumptions are those of the modules: `CoordinationAssumption` (finitely many
Nodes with identifiers in 1..31, positive deadlines no longer than `Horizon`,
well-typed plans), `RoundAssumption`, `SessionAssumption`, `HistoryAssumption`,
`EventsAssumption` (natural loads, `Normal < High`), `TransfersAssumption` (a positive
`Timeout`, natural sizes). The theorems hold for every number of Nodes, connections,
commands, events, rows and failures, every plan with its freezes, losses of power and
commands, every capacity of a queue. The losses of `SensorRegistry` need
`RegistryAssumption` (a modulus twice the half range), the trains `EchoAssumption`
(limits that are numbers), the measures
`MeasuresAssumption` (finitely many sensors, the thresholds in their order), the picture
`PictureAssumption` (finitely many modules, at least one, with positive identifiers),
`EveryoneIsHeardInTime` the numbers of the firmware (256, 83, at least five periods), `OneModuleOwnsASensor` that sensor 1 of module 1, as which the console lists one on the USB port, is among the `Ids`; `DirectSensor`, `DataChannel` and
`OperatorCommands` need none.

### Coordination

- `TypeCorrect`, `OfficeIsKnown`: from the inductive invariant
  `Inv == TypeOK /\ OfficeKnown`. `OfficeKnown` alone is not inductive: the types are
  needed to know that the identifiers in a received frame are Nodes, and
  `OfficeKnown` is needed for the types, because a JOIN answer carries `leaderId`,
  which names a Node only since the sender leads. The proof says for each handler
  and deadline that it leaves the Node in a state of `Sound(n)`, and that `Handle`
  and `Act` lift this to the network.
- `FaultIsRemembered`: every action keeps the recorded faults of every table
  (`Kept`), except the two handlers that may clear and a loss of power.
- `EveryoneFollowsAnother`, `FaultsAreAgreed`: from the inductive invariant `Spread`,
  which is about who may have sent what is in a buffer. `OwnVoice`: a station
  announces, accepts and forces a status for itself only, so no buffer holds such a
  frame about its own Node; with it `Following` is inductive, since a Node takes as
  leader whom a frame names. `FaultsTold`: for each pair of Nodes, the fault of one is
  recorded by the other, or word of it is in the other's buffer, and no frame behind
  it takes it back (`Told`). A fault is cleared by its own Node alone, which sends
  the forced update in the same step: as the bus keeps its order, no such update can
  come after the word of a later fault. `Fits` says what a step of a Node must
  keep to; there is one lemma per handler that it does. `FollowsAnother` needs its
  premise: when a fault is cleared on a former leader, it becomes FOLLOWER with itself
  as leader (`handleSensorControl`). `FaultAgreed` speaks of the Nodes that were there
  from the beginning, undisturbed (`Steady`), and holds of them whoever else arrives or
  comes back. One that boots later knows of no fault until its JOIN is answered with
  the table: that it does from then on is `NewcomerInformed`, checked by `three_nodes`.
  One that was frozen hears of what it missed only when the cyclic replication gets to
  it, and no property says when.
- `OneVoicePerHeartbeat`: ranks are strictly increasing in the identifier
  (`RankIncreasing`, by cardinality of finite subsets), so two followers whose turn
  it is are one.
- `EveryoneIsHeardInTime`: `HeardInTime` is a matter of the ticks that are past, of which
  the state keeps only the current one. The invariant `Waiting` reads them backwards
  from it (`Ago`): a follower that was silent for k heartbeats was not due in any of the
  last k, and k is at most 3. That a slot comes up in any four ticks in a row, be one of
  them a sync tick and the wrap from 255 to 0 another, is `OneInFour`, for up to three
  slots and every tick; with four slots it is false, which is what `five_followers` shows.

### Serial session

One inductive invariant, `Inv` of `ConsoleSession_proofs`, in layers; each layer uses
the ones before it.

- `ThreadInv` and `OwnerInv`: a connection that is neither the session's, nor being
  closed, nor being made has a closed port, was told to stop and is no longer
  reading (`Orphan`). This gives `NoReadAfterClose` and `PortIsOwned`.
- `ShownInv`: while the console has a live session no other thread is left that could
  still report a failure of its own, and a close that was ordered found the thread
  out of its reading loop. With it `LiveIsShown` is inductive.
- `CommandInv`: a command that waits was typed on the connection in use, stands in
  one place only and has not been sent; hence `CommandKeepsDevice`.
- `LineInv` and `EchoInv`: which connection a line came from; and, while no line was
  lost, what is on its way from a sensor is echo, answer, echo, answer, with the
  expected echoes in order (`Alternates`, `Aligned`). Without the alternation the
  filter, which compares with its oldest expectation only, could miss one.

### History

- The layers of `Inv` in `HistoryLog_proofs`: `Shape` (types), `Single` (one thread at
  a time writes a batch), `Leaving` (when the console is being left the timer's
  thread writes no more, and what is closed stays empty), `Conserved` (accepted =
  durable + pending + given up) and `NamingInv` (captures are taken in order; a
  record names captures that exist; no event precedes the start it names).
- `TheLogIsKept` maps each step to a step of the log or a stutter: `PushEvent`,
  `ReadRow` and the marks to `Accept`, a batch written to one that makes a beginning
  durable, a batch put back into a full queue to `Discard`. That pending is a
  sequence of increasing numbers, without repetition, is where `Conserved` is used.
- `NothingIsLeft` needs `Leaving`; `StartsComeFirst` needs `NamingInv`, of which the
  order alone is not inductive: an event pushed now must not name a capture whose
  start comes later.
- `RowsAreKept`, for any streams, scopes, limits and failures: from
  `RowsInv == LoopInv /\ StoreInv /\ FlushInv`. The loop has at hand exactly the rows of
  the last `Pre`, in the order of their times (`AtHand`), so that a capture can take
  over its beginning. Of each stream of a capture (`OneStream`) the registered files
  and the rows in memory share no row, and a file that was
  registered is the one on the disk; at most one more file, under the next number, is
  on the disk without being registered. A capture that is open has the rows of its
  window (`HasWindow`), one that has ended all but the row in hand when the last flush
  read the clock (`EndsWell`). What a thread copied under the lock is a beginning of
  what still waits (`Copy`), because rows are only appended and only one thread writes
  files; and a row that came after it read the clock is later than that reading unless
  it was in hand then (`Timely`, `Spared`). How long the loop or the database take (`Answers`)
  is not used; that inputs end `Post` before `Horizon` is, since the clock of the model
  stops there. `WindowKept` draws the conclusion.
- `LoadIsTold`, `LoadTurnsSlowly`: from `LoadInv`, which says what the two counters
  of the hysteresis stand for: each is at least 1, 2, 3 exactly when that many of the
  last windows, in a row, were of its kind. Without it the counters could say three
  where the windows do not; `HotIsNotCool` (a window is never of both kinds) is where
  `Normal < High` is used.

### Parts of the console

- `ShownSpectraAreWhole`: `SpectrumWhole` is about what was shown; the invariant `Fresh`
  is about what is held: no transfer is younger than the last line of its key, and
  one that still has parts of a sending before is overdue, so the next line drops it.
- `TheScreenIsRight`: what the sensor has in force is known to the screen, or will be when
  the lines on their way and those the firmware still has to print are read (`Informed`:
  it is to be read, to be asked, to be told, or told); a change that was staged will be
  reported by the answer to it (`Reported`); a spectrum that was answered is the new
  one (`SpectrumTold`).
- `TrainsAreWhole`: a train that ended is shown with the answers of its echoes: for the
  way to the sensor those that were applied, for the module itself all that did not
  time out, since the Probe counts any. (That the console has no time for those that
  were refused is in section 6.) The console is several lines behind the Probe. The invariant
  `Followed` replays the lines that are on their way: they make of what is shown
  (`Leads`) a view that agrees with the Probe's train now, its answers counted and those
  pending (`Fits`). One lemma per action of the Probe says what its lines lead to;
  reading a line shortens the replay (`LeadsTail`).
- `StageIsTold`: no stage is told of later than the last line (`StagesUntil`), so after a
  report of the link all of them are earlier and the report prevails (`FreshReport`);
  a module without access point has neither station nor session, and while no line was
  lost its stage is failed (`WithoutAccessPoint`), which no report of the link undoes.
- `SilenceIsTold`: the console guesses which of its names a new one goes on with, and may
  guess wrong, so the names of a run are not the sensors' names. What is inductive is a
  matching (`StandsFor`): each name of the run stands for a sensor of its own that is
  silent for at least as long. A sample under a known name exchanges two partners; one
  under a new name takes the place of the name silent for longest, whose partner goes
  to the name of the sensor that was heard; and when no name is silent, each is still
  its sensor's (`HeardOf`: a name heard within `Handover` is). At the end of the run the
  matching is an injection from the names that are told into the silent sensors.
- `ThePictureIsTrue`: the Probe may be many lines ahead of the console, and one frame gives
  several lines. What is inductive is about the last line of each kind: as long as no
  command is on its way and the leader's record is right (`Quiet`), either the last line
  still to be decoded that says anything of the fault of a module agrees with what the
  module is (`Tells`, `FaultTold`), or no such line is left and the picture agrees
  (`Mute`). `RoleTold` says the same of leadership, of every module that does not lead, at
  any time; `LeaderWorks`, that no module in fault leads. The lines a frame gives
  are put together by `TellsAfter` and `MuteAfter`. An election prints a line about each
  voter, in an order that is left open; that the last one of a module is right whatever
  the order is `FlattenTells`, for the lines of any sequence of frames.
- `OneModuleOwnsASensor`: a sensor that is not listed is unbound, and every event but an
  association, a SENSOR line and what a sensor on the USB port says of itself keeps
  identity and association of each record (`GatewayKeeps`, `PortKeeps`). An association
  removes the rivals. The other two write the identity without looking for another
  owner (`_sensor_status`, `_direct_version`), so that the console may then list a sensor
  twice, until its next association: such a record is marked as `renamed`, and `OneOwner`
  excepts it. With a port in the same store as the sensors of a gateway heard before,
  it holds of every step of `Next`.
- `LossesAreAccounted`: the invariant `Accounts` says what the tracker holds (the number
  of the highest reading that came) and that lost less late is the number of holes
  below it, less what came before the first. A step forward within half the range adds
  the holes it leaves, one backward fills a hole or is a repetition; both by cardinality
  of intervals. A sensor that is taken off the list loses its counters and not its
  tracker: the theorem is about the steps that take off none that has sent a number
  (`CountingSpec`), as no scene of the run does.
- `CommandsReachTheirSensors`: every screen on the stack and every command that waits for
  an answer of the operator offers only what suits the kind of target it is for
  (`Stacked`, `Flowing`); a sensor that moves leaves them as they are, and the check
  before the line is sent is what makes the property inductive.
- `SpectraAreWhole` and the other theorems of `MCConsoleDomain`: a step of the run is a
  step of one scene and leaves the scene (`SceneStays`), and there the inductive
  invariant of the part is used.

### Model-checked only

- Everything temporal (`Converges`, `JoinerServed`, `ReaderStops`,
  `AuthenticationEnds`, `SynchronizationEnds`, `CaptureEnds`): liveness is out of reach
  of the prover.
- The real-time bounds `VacancyBounded`, `SplitBounded`: an invariant would have to bound the
  ages of all deadlines in every intermediate state of an election.
- `NoUsurper`, `HealthyNotAccused`, `NewcomerInformed`, `TdmaSchedule`, `TdmaServed`: true
  under the plans of their runs, not of all; so is `FollowsAnother` beyond the premise
  of its theorem.
- `ResponseBounded`, `DtcAnnounced`: about sums, fixed
  points and orders over sequences and sets, computed by a recursive function or a
  fold; what these compute needs induction over data.
- The types of `HistoryLog`, whose recursive function `Waiting` is out of reach for the
  same reason; the proofs use `Shape` instead.
- The types of the other parts of `MCConsoleDomain`: not attempted as a whole.

## 5. Plan

Done: coordination, TDMA round, the serial session, the history with its refinement
(proved), and the parts of the console in `MCConsoleDomain`. Next, in order:

1. `WirelessBinding`: bindings of the Nodes, the leader's failover table and decision
   (`pollFailover`, `ioc_fo_poll`), conflict resolution (`resolveBindingConflict`),
   NVS restore (`finishRestore`), with loss of power; abstract specification
   `SensorOwner` (the owner of a sensor changes, two owners are temporary), refined.
2. `LinkSession`: both ends of the authenticated link over a network that loses,
   duplicates and reorders; symbolic keys; abstract specification: agreed sessions
   and at-most-once delivery. Theorems: key agreement and counter monotonicity.
3. Segmentation and reassembly on CAN (`ioc_wdata.c`) with receive slots, timeout
   and eviction.
4. `LeaderOffice`, an abstract specification of the office (vacant, contested, held)
   that `CanCoordination` implements.
5. The panel's cache and mailbox; two rates in `TdmaRound`.

## 6. Disagreements found

- `thawed_leader`: a leader that comes back from a silence hears its lower
  successor, orders an election, stays leader and accuses a candidate that is silent
  because of that election (`handleLeaderConflict`, `leaderCheckNodeAbsence`).
  The documentation says a stall declares nobody absent.
- `arrival_in_election`: a Node that boots during an election becomes a follower at
  the LEADER frame, without a JOIN; the leader never gives it a slot and declares it
  absent.
- `five_followers`: from five followers on a turn comes too late for the five periods
  of the absence watchdog.
- `history_operator_mark`: a mark reaches the console with its age; the capture it
  opens recovers the rows before the mark and observes those after its arrival, and
  lacks the rows in between.
- `named_line`: a command line that names a sensor is carried out on the selected one
  when the console no longer knows the name, because the sensor has just moved.
- `configured_without_session`: the session of a wireless sensor is looked at before the
  form of its configuration opens and not when the form is accepted, so that the
  configuration is sent without one (`execute_action`, `_apply_config_request`). A comment
  there says it is not sent then. `CommandReachesItsSensor` excepts the
  configuration from the session, and from nothing else.

Without a run of their own:

- After sensor OFF and an election the Node is recorded OK (`finishElection` does not look
  at the sensor), never answers, and is declared absent. `protocolo.md:15` has OFF
  and fault as different actions. With `OFF` and two elections in a plan of two Nodes,
  `HealthyNotAccused` fails.
- The Probe counts and times every answer to a LOCAL echo, that of a module without
  the sensor included, which it prints as REJECTED (`probeEchoAck`, `ackStateName`); the
  console has a time only for those APPLIED (`research/service.py:259`), where
  `metodologia.md:70` says that the measure stays valid without the sensor.
- After a change to a faster rate the absence deadline is
  shorter for ages already counted. With `RateCommand(5)` and both periods in plan
  `Commanded` of `three_nodes`, a leader that came to office by a recovery declares a
  healthy follower absent at once.
- The watchdog of Node 6 is 6.5 s, exactly the 5 s of an election and the 1.5 s of the
  recovery after it. With Nodes 6, 7 and 31 and ticks of 500 ms, deadline and LEADER
  frame fall into one tick, and if the deadline comes first every time, elections
  follow each other for ever. Whether it ever does is a matter of milliseconds that
  the model does not have, and `Converges` is checked with identifiers where the two
  differ.

## 7. Not modelled

- Wireless binding and failover, the authenticated link and the transfers on CAN: see
  the plan. The console's view of them is modelled (`SensorRegistry`, `DataChannel`,
  `Transfers`, `EchoTrains`), with the module's side as the lines tell it.
- The event bus of the console: a publication that overtakes a suspended handler.
  The handlers of an event are one step.
- Network metrics and capture in the firmware, hashing, bit counting,
  micro-benchmarks: computations that do not feed back into a protocol.
- Sampling and signal processing of the sensors; spectra and acoustics on the screen:
  floating-point data.
- The panel, screens, charts, export, the generator of example data, the virtual
  bench, the research scripts: presentation, text or tests.
- The queries, deletion and repair of the history screen, which work on other
  sessions than the one that records.
- On the bus: overflow of a receive buffer and the frames lost to it. With four
  followers the gap between two turns around a sync tick equals the deadline
  exactly; the outcome depends on milliseconds the model does not have.
- In `history_log`, a capture whose start was given up by the full queue (`StartLost`)
  is excepted from `StartPrecedesUse` and `CaptureEnds`: the database then refuses
  every later batch with an event of it. No document promises otherwise.
