-------------------------- MODULE MCConsoleDomain --------------------------
(* The parts of the text console that turn lines into what is shown, measured
   and recorded, and the commands of the operator into lines, one at a time: a
   scene is a part with some of its events. The parts do not act on each other
   here, so they share the variables v1 to v18, each with the names of its own
   module.                                                                    *)
EXTENDS Integers, Sequences, FiniteSets, FiniteSetsExt, Functions

VARIABLES scene, v1, v2, v3, v4, v5, v6, v7, v8, v9, v10, v11, v12, v13, v14, v15, v16, v17, v18

all == <<scene, v1, v2, v3, v4, v5, v6, v7, v8, v9, v10, v11, v12, v13, v14, v15, v16, v17, v18>>

\* The variables that a part leaves over.
Unused == 0
From14 == v14 = Unused /\ v15 = Unused /\ v16 = Unused /\ v17 = Unused /\ v18 = Unused
From13 == v13 = Unused /\ From14
From11 == v11 = Unused /\ v12 = Unused /\ From13
From10 == v10 = Unused /\ From11
From9 == v9 = Unused /\ From10
From8 == v8 = Unused /\ From9
Leaves14 == UNCHANGED <<v14, v15, v16, v17, v18>>
Leaves13 == UNCHANGED v13 /\ Leaves14
Leaves11 == UNCHANGED <<v11, v12>> /\ Leaves13
Leaves10 == UNCHANGED v10 /\ Leaves11
Leaves9 == UNCHANGED v9 /\ Leaves10
Leaves8 == UNCHANGED v8 /\ Leaves9

F(c, p, b) == [frame |-> c, period |-> p, burst |-> b]
Traffic ==
  {<<F(4, 10, 1), F(4, 14, 1), F(4, 14, 1)>>, <<F(2, 8, 1), F(2, 20, 2)>>,
   <<F(2, 20, 2), F(3, 14, 1)>>, <<F(2, 8, 1), F(2, 36, 3), F(2, 9, 1)>>}

Registry == INSTANCE SensorRegistry_proofs WITH
  Nodes <- {1, 2}, Children <- {1}, Uuids <- {"a"}, Codes <- {"0", "c"}, Metrics <- {"rms"}, Levels <- 0 .. 2,
  Margin <- 1, Modulus <- 4, Aging <- 1, Stale <- 2, Lost <- 3, Coalesce <- 2, Lookback <- 2,
  MaxIncidents <- 6, Horizon <- 4, MaxInputs <- 5,
  mode <- v1, node <- v2, known <- v3, sensor <- v4, selected <- v5, limit <- v6, tracker <- v7,
  flagged <- v8, net <- v9, stream <- v10, clock <- v11, inputs <- v12
Lines == INSTANCE ConsoleLines_proofs WITH
  Keys <- {"a", "b"}, Count <- 2, MaxCount <- 3, MaxActive <- 1, Timeout <- 3, Period <- 2,
  Sendings <- 2, Horizon <- 4, MaxLines <- 3,
  open <- v1, meta <- v2, shown <- v3, failed <- v4, tick <- v5, sending <- v6, clock <- v7, lines <- v8,
  Modes <- {"ROTATING", "SEISMIC"}, Gains <- {"g", "h"}, MaxAsked <- 2, MaxEvents <- 1,
  staged <- v1, active <- v2, queued <- v3, stream <- v4, once <- v5, fft <- v6, fault <- v7, todo <- v8, answers <- v9,
  last <- v10, conf <- v11, result <- v12, display <- v13, flow <- v14, opened <- v15, answered <- v16, asked <- v17,
  own <- v18,
  MaxPending <- 2, MaxTrains <- 2, MaxEchoes <- 2, MaxStarts <- 2, MaxMishaps <- 1,
  train <- v1, pending <- v2, seq <- v3, pinged <- v4, session <- v5, frames <- v6, acks <- v7, reports <- v8,
  trains <- v9, whole <- v10, stopped <- v11, starts <- v12, mishaps <- v13,
  MaxSteps <- 3,
  panel <- v1, ap <- v2, offered <- v3, station <- v4, awaiting <- v5, authentic <- v6, asleep <- v7,
  told <- v8, link <- v9, reading <- v10, arrived <- v11, unbroken <- v12, fresh <- v13,
  Nodes <- {1}, Sensors <- {"s", "t"}, Names <- {"a", "b", "c"}, Started <- {"manual", "node_silence"},
  Seconds <- {2}, Settle <- 2, ManualMax <- 4, Silent <- 0, NotResumed <- 1, Recent <- 2, RunHistory <- 1,
  Modulus <- 4, Handover <- 3, Loads <- {0, 1}, LastMoment <- 5, MaxInputs <- 3,
  svc <- v1, run <- v2, past <- v3, rec <- v4, expecting <- v5, dialog <- v6, real <- v7, moment <- v8, inputs <- v9,
  Modules <- {1, 2}, MaxFrames <- 3,
  leader <- v1, condition <- v2, table <- v3, commands <- v4, known <- v5, observed <- v6, printed <- v7, picture <- v8,
  misled <- v9, causes <- v10
Analysis == INSTANCE BusAnalysis WITH
  Window <- 120, MaxBurst <- 64, MaxInstances <- 4096, Beyond <- 100, Queue <- 4,
  flows <- v1, bound <- v2, truth <- v3, since <- v4, wait <- v5, left <- v6, owner <- v7
Events == INSTANCE HistoryEvents WITH
  Nodes <- {1}, Ids <- {"a"}, Home <- [i \in {"a"} |-> 1], Uuids <- {"u"}, Codes <- {"c"},
  Loads <- {35, 38, 40}, High <- 40, Normal <- 35, Window <- 1, Horizon <- 1, MaxEvents <- 3,
  load <- v1, off <- v2, link <- v3, assoc <- v4, dtc <- v5, leader <- v6, owner <- v7, window <- v8,
  records <- v9, scopes <- v10, last3 <- v11, clock <- v12, events <- v13
Commands == INSTANCE OperatorCommands_proofs WITH
  Modules <- {1}, Profile <- [wireless |-> "VIBRATION", other |-> "ACOUSTIC"], MaxInputs <- 2,
  mode <- v1, guard <- v2, key <- v3, owner <- v4, plane <- v5, selected <- v6, stack <- v7, modal <- v8,
  running <- v9, flows <- v10, sent <- v11, inputs <- v12
ASSUME DomainAssumptions ==
  /\ Registry!RegistryAssumption /\ Lines!Spectra!TransfersAssumption /\ Lines!Measures!MeasuresAssumption
  /\ Analysis!AnalysisAssumption /\ Events!EventsAssumption /\ Commands!CommandsAssumption
  /\ Lines!Picture!PictureAssumption /\ Lines!Echoes!EchoAssumption

\* The analysis takes this traffic for what it is, and its search for the
\* greatest number of sensors finds it.
Seen(t) == [m \in DOMAIN t |-> Analysis!FlowFromObservation(Analysis!Observation(t[m]))]
ASSUME TrafficIsSeen == \A t \in Traffic : Seen(t) = t
ASSUME CapacityIsGreatest ==
  \A t \in Traffic : Analysis!Capacity(t, 4, 2, 60, 2) = Max({0} \cup {n \in 1 .. 4 : Analysis!Fits(t, n, 2, 60, 2)})

-----------------------------------------------------------------------------
(* The scenes. Inputs and time are bounded for each. *)

RegistryScenes == {"ownership", "modules", "numbers", "readings"}
MeasureScenes == {"silence", "faults", "coordination", "links"}
Scenes ==
  RegistryScenes \cup MeasureScenes \cup
  {"spectra", "analysis", "channel", "events", "port", "operation", "picture", "echo"}

Named == CHOOSE f \in Injection({"s", "t"}, {"a", "b", "c"}) : TRUE
Init ==
  /\ scene \in Scenes
  /\ scene \in RegistryScenes => Registry!Init /\ From13
  /\ scene \in MeasureScenes => Lines!Measures!Init /\ (\A s \in {"s", "t"} : v7[s].id = Named[s]) /\ From10
  /\ scene = "spectra" => Lines!Spectra!Init /\ From9
  /\ scene = "analysis" => Analysis!Init /\ From8
  /\ scene = "channel" => Lines!Channel!Init /\ From14
  /\ scene = "events" => Events!Init /\ From14
  /\ scene = "port" => Lines!Direct!Init /\ v2["gain"] = "g" /\ v7 = FALSE
  /\ scene = "operation" => Commands!Init /\ v1 = "GATEWAY_CAN" /\ v2 = "presence" /\ From13
  /\ scene = "picture" => Lines!Picture!Init /\ v1 = 1 /\ From11
  /\ scene = "echo" => Lines!Echoes!Init /\ v5 \in {"NONE", "SECURE"} /\ From14

Numbered == Registry!Numbered
Samples == Registry!Samples
Before(inputs, clock) == v12' <= inputs /\ v11' <= clock /\ UNCHANGED scene /\ Leaves13
Ownership == scene = "ownership" /\ Registry!Ownership(Registry!Ids) /\ Before(4, 4)
Modules == scene = "modules" /\ Registry!Modules({<<1, 1>>}) /\ Before(2, 4)
Numbers == scene = "numbers" /\ Registry!Numbering({<<1, 1>>}, Numbered) /\ Before(5, 1)
Readings ==
  scene = "readings" /\ (Registry!Readings({<<1, 1>>}, Samples) \/ Registry!Port) /\ Before(3, 1)

Until(inputs, clock) == v9' <= inputs /\ v8' <= clock /\ UNCHANGED scene /\ Leaves10
Operator == Lines!Measures!AskExperiment("manual") \/ Lines!Measures!Confirmed(0, 2, TRUE) \/ Lines!Measures!Poll \/ Lines!Measures!Tick
Silence ==
  /\ scene = "silence"
  /\ \/ \E s \in {"s", "t"} : Lines!Measures!Sample(s, 0) \/ \E i \in {"a", "b", "c"} : Lines!Measures!Rebind(s, i)
     \/ Operator \/ Lines!Measures!StopExperiment
  /\ Until(3, 4)
Faults == scene = "faults" /\ (Lines!Measures!Lifecycle \/ Lines!Measures!Faults) /\ Until(2, 2)
Coordination == scene = "coordination" /\ (Operator \/ Lines!Measures!Coordination) /\ Until(3, 2)
Links ==
  /\ scene = "links"
  /\ Lines!Measures!Links \/ Lines!Measures!Samples \/ Lines!Measures!Bus \/ Lines!Measures!Failover \/ Operator
  /\ Until(2, 2)

Reassembly == scene = "spectra" /\ Lines!Spectra!Next /\ UNCHANGED scene /\ Leaves9
Arbitration == scene = "analysis" /\ Analysis!Next /\ UNCHANGED scene /\ Leaves8
Stages == scene = "channel" /\ Lines!Channel!Next /\ UNCHANGED scene /\ Leaves14
Records == scene = "events" /\ Events!Next /\ UNCHANGED scene /\ Leaves14

Port ==
  /\ scene = "port" /\ UNCHANGED scene
  /\ Lines!Direct!Firmware \/ Lines!Direct!Receive \/ Lines!Direct!Requests(Lines!Direct!Single)
  /\ v17' + v18' <= 2
Operated ==
  {"sensor.status", "sensor.configure", "sensor.dtc_clear", "sensor.wifi_status", "sensor.acoustic_calibrate",
   "network.status", "network.liveness", "node.sensor_off"}
Operation == scene = "operation" /\ Commands!Operates(Operated) /\ UNCHANGED scene /\ Leaves13
Reports == scene = "picture" /\ Lines!Picture!Next /\ UNCHANGED scene /\ Leaves11
\* The second train has one echo, and only a single echo is one that a module
\* answers by itself.
Measurement ==
  /\ scene = "echo" /\ Lines!Echoes!Next /\ UNCHANGED scene /\ Leaves14
  /\ Len(v8') <= 2 /\ v1'.total + v12' <= 3
  /\ v1'.path = "SENSOR" \/ (v12' < 2 /\ v1'.total < 2)

Next ==
  \/ Ownership \/ Modules \/ Numbers \/ Readings
  \/ Silence \/ Faults \/ Coordination \/ Links
  \/ Reassembly \/ Arbitration \/ Stages \/ Records
  \/ Port \/ Operation \/ Reports \/ Measurement

Spec == Init /\ [][Next]_all

-----------------------------------------------------------------------------
\* Types of every part.
TypeOK ==
  /\ scene \in RegistryScenes => Registry!TypeOK
  /\ scene \in MeasureScenes => Lines!Measures!TypeOK
  /\ scene = "spectra" => Lines!Spectra!TypeOK
  /\ scene = "analysis" => Analysis!TypeOK
  /\ scene = "channel" => Lines!Channel!TypeOK
  /\ scene = "events" => Events!TypeOK
  /\ scene = "port" => Lines!Direct!TypeOK
  /\ scene = "operation" => Commands!TypeOK
  /\ scene = "picture" => Lines!Picture!TypeOK
  /\ scene = "echo" => Lines!Echoes!TypeOK

\* Two modules never both own a sensor, but for one that a SENSOR line or the USB
\* port gave another identity to (module SensorRegistry, from controller.py).
OneOwner == scene \in RegistryScenes => Registry!OneOwner

\* What is missing from a stream is what is counted (module SensorRegistry, from
\* protocol/sequence.py).
LossesAccounted == scene \in RegistryScenes => Registry!LossesAccounted

\* A fault is told exactly when it becomes active (module SensorRegistry, from
\* controller.py _record_dtc_incident).
DtcAnnounced == [][(scene \in RegistryScenes) => Registry!Announces]_all

\* A spectrum that is shown is of one sending (module Transfers, from
\* protocol/fragments.py).
SpectrumWhole == scene = "spectra" => Lines!Spectra!SpectrumWhole

\* No more sensors are told as silent than are (module NetworkMeasures, from
\* metrics/experiments.py).
SilenceIsReal == scene \in MeasureScenes => Lines!Measures!SilenceIsReal

\* No frame takes longer than computed, on an ideal bus, for four sets of traffic
\* (module BusAnalysis, from metrics/rta.py).
ResponseBounded == scene = "analysis" => Analysis!ResponseBounded

\* The stage of the data channel that is shown is the one it is in (module
\* DataChannel, from data_channel.py).
TellsStage == scene = "channel" => Lines!Channel!TellsStage

\* What is shown of a sensor on the port is what is in force there (module
\* DirectSensor, from protocol/sensor_direct.py and controller.py).
ScreenIsRight == scene = "port" => Lines!Direct!ScreenIsRight

\* A command of the catalog reaches the sensor it was chosen for, or none, and
\* with its session up, unless it is a configuration (module OperatorCommands,
\* from app.py and screens.py).
CommandReachesItsSensor == scene = "operation" => Commands!CommandReachesItsSensor

\* A module is shown in fault when it is, and only the leader as the leader
\* (module NetworkPicture, from protocol/legacy_gateway.py and controller.py).
PictureIsTrue == scene = "picture" => Lines!Picture!PictureIsTrue

\* A train of echoes is shown with the answers its echoes had and, when it was not
\* cut short, with every echo (module EchoTrains, from research/service.py and
\* wireless_link.cpp).
TrainIsWhole == scene = "echo" => Lines!Echoes!TrainIsWhole
=============================================================================
