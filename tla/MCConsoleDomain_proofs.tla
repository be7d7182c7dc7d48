----------------------- MODULE MCConsoleDomain_proofs -----------------------
(* Proofs about module MCConsoleDomain: what modules SensorRegistry_proofs,
   ConsoleLines_proofs and OperatorCommands_proofs show for any constants holds of
   the scenes of the run, each with the values it has there.                  *)
EXTENDS MCConsoleDomain, TLAPS

\* Every step is of one scene, and the scene stays.
Others ==
  \/ Silence \/ Faults \/ Coordination \/ Links \/ Arbitration \/ Stages \/ Records
  \/ Port \/ Operation \/ Reports \/ Measurement

LEMMA OtherScenes ==
  Others => UNCHANGED scene /\ scene \notin RegistryScenes \cup {"spectra"}
<1>1. Silence \/ Faults \/ Coordination \/ Links => UNCHANGED scene /\ scene \notin RegistryScenes \cup {"spectra"}
  BY DEF Silence, Faults, Coordination, Links, Until, RegistryScenes
<1>2. Arbitration \/ Stages \/ Records \/ Port => UNCHANGED scene /\ scene \notin RegistryScenes \cup {"spectra"}
  BY DEF Arbitration, Stages, Records, Port, RegistryScenes
<1>3. Operation \/ Reports \/ Measurement => UNCHANGED scene /\ scene \notin RegistryScenes \cup {"spectra"}
  BY DEF Operation, Reports, Measurement, RegistryScenes
<1> QED BY <1>1, <1>2, <1>3 DEF Others

LEMMA SceneStays ==
  ASSUME [Next]_all
  PROVE  UNCHANGED scene
BY OtherScenes DEF Next, Others, Ownership, Modules, Numbers, Readings, Before, Reassembly, all

-----------------------------------------------------------------------------
(* The spectra *)

LEMMA SpectraAssumption == Lines!Spectra!TransfersAssumption
BY SMT DEF Lines!Spectra!TransfersAssumption

\* A spectrum the console shows is of one sending, scale and all (fragments.py
\* add and expire, controller.py _consume_transfer): the run's property, from
\* the inductive invariant of module ConsoleLines_proofs.
THEOREM SpectraAreWhole == Spec => []SpectrumWhole
<1> DEFINE I == scene = "spectra" => Lines!SpectraInv
<1>1. Init => I
  BY Lines!SpectraInvInit DEF Init
<1>2. I /\ [Next]_all => I'
  <2> SUFFICES ASSUME I, [Next]_all, scene' = "spectra" PROVE Lines!SpectraInv'
    OBVIOUS
  <2>1. scene = "spectra" /\ Lines!SpectraInv
    BY SceneStays
  <2>2. Reassembly \/ UNCHANGED all
    BY <2>1, OtherScenes
       DEF Next, Others, Ownership, Modules, Numbers, Readings
  <2>3. [Lines!Spectra!Next]_Lines!Spectra!vars
    BY <2>2 DEF Reassembly, all, Lines!Spectra!vars
  <2> QED BY <2>1, <2>3, SpectraAssumption, Lines!SpectraInvNext
<1>3. I => SpectrumWhole
  BY DEF SpectrumWhole, Lines!SpectraInv
<1> QED BY <1>1, <1>2, <1>3, PTL DEF Spec

-----------------------------------------------------------------------------
(* The sensor on its own port *)

LEMMA OnlyPort ==
  ASSUME Next, scene = "port"
  PROVE  Port
BY DEF Next, Ownership, Modules, Numbers, Readings, Silence, Faults, Coordination, Links, Reassembly, Arbitration,
       Stages, Records, Operation, Reports, Measurement

\* What is shown of the sensor on the port is what is in force there, once all is
\* answered (sensor_direct.py, controller.py): the run's property, from the
\* inductive invariant of module ConsoleLines_proofs.
THEOREM ScreenStaysRight == Spec => []ScreenIsRight
<1> DEFINE I == scene = "port" => Lines!DirectInv
<1>1. Init => I
  BY Lines!DirectInvInit DEF Init
<1>2. I /\ [Next]_all => I'
  <2> SUFFICES ASSUME I, [Next]_all, scene' = "port" PROVE Lines!DirectInv'
    OBVIOUS
  <2>1. scene = "port" /\ Lines!DirectInv
    BY SceneStays
  <2>2. Port \/ UNCHANGED all
    BY <2>1, OnlyPort
  <2>3. [Lines!Direct!Next]_Lines!Direct!vars
    <3>1. CASE Port
      BY <3>1 DEF Port, Lines!Direct!Next
    <3>2. CASE UNCHANGED all
      BY <3>2
         DEF all, Lines!Direct!vars, Lines!Direct!sensor, Lines!Direct!config, Lines!Direct!output,
             Lines!Direct!screen, Lines!Direct!operator
    <3> QED BY <2>2, <3>1, <3>2
  <2> QED BY <2>1, <2>3, Lines!DirectInvNext
<1>3. I => ScreenIsRight
  BY Lines!DirectInvTells DEF ScreenIsRight
<1> QED BY <1>1, <1>2, <1>3, PTL DEF Spec

-----------------------------------------------------------------------------
(* The trains of echoes *)

LEMMA EchoesAssumption == Lines!Echoes!EchoAssumption
BY SMT DEF Lines!Echoes!EchoAssumption

LEMMA OnlyMeasurement ==
  ASSUME Next, scene = "echo"
  PROVE  Measurement
BY DEF Next, Ownership, Modules, Numbers, Readings, Silence, Faults, Coordination, Links, Reassembly, Arbitration,
       Stages, Records, Operation, Reports, Port

\* When all of its lines arrived, the newest train of echoes is shown with the
\* answers its echoes had, and unless it was cut short with every echo
\* (wireless_link.cpp, research/service.py): the run's property, from the
\* inductive invariant of module ConsoleLines_proofs.
THEOREM TrainsStayWhole == Spec => []TrainIsWhole
<1> DEFINE I == scene = "echo" => Lines!EchoInv
<1>1. Init => I
  BY Lines!EchoInvInit DEF Init
<1>2. I /\ [Next]_all => I'
  <2> SUFFICES ASSUME I, [Next]_all, scene' = "echo" PROVE Lines!EchoInv'
    OBVIOUS
  <2>1. scene = "echo" /\ Lines!EchoInv
    BY SceneStays
  <2>2. Measurement \/ UNCHANGED all
    BY <2>1, OnlyMeasurement
  <2>3. [Lines!Echoes!Next]_Lines!Echoes!vars
    <3>1. CASE Measurement
      BY <3>1 DEF Measurement
    <3>2. CASE UNCHANGED all
      BY <3>2
         DEF all, Lines!Echoes!vars, Lines!Echoes!probe, Lines!Echoes!node, Lines!Echoes!wires,
             Lines!Echoes!console, Lines!Echoes!counters
    <3> QED BY <2>2, <3>1, <3>2
  <2> QED BY <2>1, <2>3, EchoesAssumption, Lines!EchoInvNext
<1>3. I => TrainIsWhole
  BY Lines!EchoInvTells DEF TrainIsWhole
<1> QED BY <1>1, <1>2, <1>3, PTL DEF Spec

-----------------------------------------------------------------------------
(* The data channel *)

LEMMA OnlyStages ==
  ASSUME Next, scene = "channel"
  PROVE  Stages
BY DEF Next, Ownership, Modules, Numbers, Readings, Silence, Faults, Coordination, Links, Reassembly, Arbitration,
       Measurement, Records, Operation, Reports, Port

\* A session is shown as authenticated if and only if there is one, once a report
\* of the link came last, and a module without its access point as such when no
\* line was lost (data_channel.py channel_view): the run's property, from the
\* inductive invariant of module ConsoleLines_proofs.
THEOREM StagesAreTold == Spec => []TellsStage
<1> DEFINE I == scene = "channel" => Lines!ChannelInv
<1>1. Init => I
  BY Lines!ChannelInvInit DEF Init
<1>2. I /\ [Next]_all => I'
  <2> SUFFICES ASSUME I, [Next]_all, scene' = "channel" PROVE Lines!ChannelInv'
    OBVIOUS
  <2>1. scene = "channel" /\ Lines!ChannelInv
    BY SceneStays
  <2>2. Stages \/ UNCHANGED all
    BY <2>1, OnlyStages
  <2>3. [Lines!Channel!Next]_Lines!Channel!vars
    <3>1. CASE Stages
      BY <3>1 DEF Stages
    <3>2. CASE UNCHANGED all
      BY <3>2 DEF all, Lines!Channel!vars, Lines!Channel!module
    <3> QED BY <2>2, <3>1, <3>2
  <2> QED BY <2>1, <2>3, Lines!ChannelInvNext
<1>3. I => TellsStage
  BY Lines!ChannelInvTells DEF TellsStage
<1> QED BY <1>1, <1>2, <1>3, PTL DEF Spec

-----------------------------------------------------------------------------
(* The measures *)

LEMMA OnlyMeasures ==
  ASSUME Next, scene \in MeasureScenes
  PROVE  Silence \/ Faults \/ Coordination \/ Links
BY DEF Next, MeasureScenes, Ownership, Modules, Numbers, Readings, Reassembly, Arbitration, Stages, Records, Port,
       Operation, Reports, Measurement

LEMMA MeasuresHold == Lines!Measures!MeasuresAssumption
<1>1. Lines!Measures!IsFiniteSet({"s", "t"})
  BY Lines!PairsAreFinite
<1> QED BY <1>1 DEF Lines!Measures!MeasuresAssumption, Lines!Measures!Half

\* No run that ended tells of more silent sensors than there were
\* (experiments.py _on_telemetry, _finish): the run's property, from the inductive
\* invariant of module ConsoleLines_proofs.
THEOREM SilenceStaysReal == Spec => []SilenceIsReal
<1> DEFINE I == scene \in MeasureScenes => Lines!SilenceInv
<1>1. Init => I
  BY Lines!SilenceInvInit DEF Init
<1>2. I /\ [Next]_all => I'
  <2> SUFFICES ASSUME I, [Next]_all, scene' \in MeasureScenes PROVE Lines!SilenceInv'
    OBVIOUS
  <2>1. scene \in MeasureScenes /\ Lines!SilenceInv
    BY SceneStays
  <2>2. Silence \/ Faults \/ Coordination \/ Links \/ UNCHANGED all
    BY <2>1, OnlyMeasures
  <2>3. [Lines!Measures!Next]_Lines!Measures!vars
    <3>1. Operator \/ Lines!Measures!StopExperiment => Lines!Measures!Next
      BY DEF Operator, Lines!Measures!Next, Lines!Measures!Lifecycle, Lines!Measures!NoNode
    <3>2. CASE Silence
      BY <3>1, <3>2 DEF Silence, Lines!Measures!Next, Lines!Measures!Samples
    <3>3. CASE Faults \/ Coordination \/ Links
      BY <3>1, <3>3 DEF Faults, Coordination, Links, Lines!Measures!Next, Lines!Measures!Coordination
    <3>4. CASE UNCHANGED all
      BY <3>4 DEF all, Lines!Measures!vars
    <3> QED BY <2>2, <3>2, <3>3, <3>4
  <2> QED BY <2>1, <2>3, MeasuresHold, Lines!SilenceInvNext
<1>3. I => SilenceIsReal
  BY Lines!SilenceInvTells DEF SilenceIsReal
<1> QED BY <1>1, <1>2, <1>3, PTL DEF Spec

-----------------------------------------------------------------------------
(* The picture of the network *)

LEMMA OnlyReports ==
  ASSUME Next, scene = "picture"
  PROVE  Reports
BY DEF Next, MeasureScenes, Ownership, Modules, Numbers, Readings, Silence, Faults, Coordination, Links, Reassembly,
       Arbitration, Stages, Records, Operation, Port, Measurement

LEMMA PictureHolds == Lines!Picture!PictureAssumption
<1>1. Lines!Picture!IsFiniteSet({1, 2})
  BY Lines!TwoArePictured
<1> QED BY <1>1 DEF Lines!Picture!PictureAssumption

\* When no line about a module is left to decode, its fault is shown if and only
\* if it is in fault, and only the leader is shown as the leader
\* (legacy_gateway.py, controller.py): the run's property, from the inductive
\* invariant of module ConsoleLines_proofs.
THEOREM PictureStaysTrue == Spec => []PictureIsTrue
<1> DEFINE I == scene = "picture" => Lines!PictureInv
<1>1. Init => I
  BY Lines!PictureStart, PictureHolds DEF Init
<1>2. I /\ [Next]_all => I'
  <2> SUFFICES ASSUME I, [Next]_all, scene' = "picture" PROVE Lines!PictureInv'
    OBVIOUS
  <2>1. scene = "picture" /\ Lines!PictureInv
    BY SceneStays
  <2>2. Reports \/ UNCHANGED all
    BY <2>1, OnlyReports
  <2>3. [Lines!Picture!Next]_Lines!Picture!vars
    <3>1. CASE Reports
      BY <3>1 DEF Reports
    <3>2. CASE UNCHANGED all
      BY <3>2 DEF all, Lines!Picture!vars, Lines!Picture!network, Lines!Picture!station
    <3> QED BY <2>2, <3>1, <3>2
  <2> QED BY <2>1, <2>3, PictureHolds, Lines!PictureStep
<1>3. I => PictureIsTrue
  BY PictureHolds, Lines!InvTells DEF PictureIsTrue
<1> QED BY <1>1, <1>2, <1>3, PTL DEF Spec

-----------------------------------------------------------------------------
(* The sensors *)

\* With one sensor there is no other to own the same.
LEMMA OneSensorHasOneOwner ==
  ASSUME v3 \subseteq {<<1, 1>>}
  PROVE  Registry!OneOwner
BY DEF Registry!OneOwner

\* The scenes of the registry: one with all the sensors, the others with one.
Owners ==
  /\ scene = "ownership" => Registry!Inv
  /\ scene \in {"modules", "numbers", "readings"} => v3 \subseteq {<<1, 1>>}

LEMMA OwnersNext == Owners /\ [Next]_all => Owners'
<1> SUFFICES ASSUME Owners, [Next]_all PROVE Owners'
  OBVIOUS
<1>1. UNCHANGED scene
  BY SceneStays
<1>2. CASE Ownership
  <2>1. scene = "ownership" /\ Registry!Inv /\ Registry!Ownership(Registry!Ids)
    BY <1>2 DEF Owners, Ownership
  <2>2. Registry!Ids \in SUBSET Registry!Ids
    OBVIOUS
  <2>3. Registry!Inv'
    BY <2>1, <2>2, Registry!OwnershipKeeps
  <2> QED BY <1>1, <2>1, <2>3 DEF Owners
<1>3. CASE Modules
  <2>1. scene = "modules" /\ v3 \subseteq {<<1, 1>>} /\ Registry!Modules({<<1, 1>>})
    BY <1>3 DEF Owners, Modules
  <2>2. v3' \subseteq v3 \cup {<<1, 1>>}
    BY <2>1, Registry!ModulesList
  <2> QED BY <1>1, <2>1, <2>2 DEF Owners
<1>4. CASE Numbers
  <2>1. scene = "numbers" /\ v3 \subseteq {<<1, 1>>} /\ Registry!Numbering({<<1, 1>>}, Numbered)
    BY <1>4 DEF Owners, Numbers
  <2>2. v3' \subseteq v3 \cup {<<1, 1>>}
    BY <2>1, Registry!NumberingLists
  <2> QED BY <1>1, <2>1, <2>2 DEF Owners
<1>5. CASE Readings
  <2>1. scene = "readings" /\ v3 \subseteq {<<1, 1>>}
        /\ (Registry!Readings({<<1, 1>>}, Samples) \/ Registry!Port)
    BY <1>5 DEF Owners, Readings
  <2>2. v3' \subseteq v3 \cup {<<1, 1>>}
    BY <2>1, Registry!ReadingsList, Registry!PortLists DEF Registry!Direct
  <2> QED BY <1>1, <2>1, <2>2 DEF Owners
<1>6. CASE Reassembly \/ Others
  BY <1>1, <1>6, OtherScenes DEF Reassembly, RegistryScenes, Owners
<1>7. CASE UNCHANGED all
  BY <1>7 DEF all, Owners, Registry!Inv, Registry!Listing, Registry!OneOwner
<1> QED BY <1>2, <1>3, <1>4, <1>5, <1>6, <1>7 DEF Next, Others

\* No two modules own the same sensor for the console, but for one that a SENSOR
\* line or the USB port renamed (controller.py:266-286, _wireless_association;
\* 517-539, _sensor_status): the run's property. The scene in which the sensors
\* change hands rests on the inductive invariant of SensorRegistry_proofs.
THEOREM OneModuleOwns == Spec => []OneOwner
<1>1. Init => Owners
  <2>1. Init /\ scene = "ownership" => Registry!Inv
    BY Registry!InvInit DEF Init, RegistryScenes
  <2>2. Init /\ scene \in {"modules", "numbers", "readings"} => v3 = {}
    BY DEF Init, RegistryScenes, Registry!Init
  <2> QED BY <2>1, <2>2 DEF Owners
<1>2. Owners /\ [Next]_all => Owners'
  BY OwnersNext
<1>3. Owners => OneOwner
  BY OneSensorHasOneOwner DEF Owners, OneOwner, RegistryScenes, Registry!Inv
<1> QED BY <1>1, <1>2, <1>3, PTL DEF Spec

\* No number has been sent but in the scene of numbers, where no sensor leaves
\* the list; so none that has sent one is taken off.
Streams ==
  /\ scene \in RegistryScenes => Registry!Accounts /\ Registry!Listing
  /\ scene \in {"ownership", "modules", "readings"} => \A i \in Registry!Ids : v10[i] = Registry!Silent

LEMMA RegistryHolds == Registry!RegistryAssumption
BY SMT DEF Registry!RegistryAssumption, Registry!Half

LEMMA StreamsNext == Streams /\ [Next]_all => Streams'
<1> SUFFICES ASSUME Streams, [Next]_all PROVE Streams'
  OBVIOUS
<1>1. UNCHANGED scene
  BY SceneStays
<1>2. /\ {<<1, 1>>} \in SUBSET Registry!Ids /\ Registry!Ids \in SUBSET Registry!Ids
      /\ Registry!Direct \in Registry!Ids
  BY DEF Registry!Ids, Registry!Direct
<1>3. Registry!Samplings(Samples) /\ Registry!Samplings(Numbered) /\ \A x \in Samples : x.seq = Registry!Unset
  BY RegistryHolds, Registry!SamplesAreSamplings, Registry!SamplesAreUnnumbered DEF Samples, Numbered
<1>4. ASSUME scene \in {"ownership", "modules", "readings"} PROVE Registry!NumberedStay
  BY <1>4 DEF Streams, Registry!NumberedStay, Registry!Listing, RegistryScenes
<1>5. CASE Ownership
  <2>1. scene = "ownership" /\ Registry!Ownership(Registry!Ids)
    BY <1>5 DEF Ownership
  <2>2. Registry!Accounts' /\ Registry!Listing'
    BY <1>2, <1>4, <2>1, RegistryHolds, Registry!OwnershipAccounts DEF Streams, RegistryScenes
  <2>3. UNCHANGED v10
    BY <2>1, Registry!OwnershipKeepsStreams
  <2> QED BY <1>1, <2>1, <2>2, <2>3 DEF Streams
<1>6. CASE Modules
  <2>1. scene = "modules" /\ Registry!Modules({<<1, 1>>})
    BY <1>6 DEF Modules
  <2>2. Registry!CountsKept
    BY <1>2, <2>1, Registry!ModulesKeepCounts DEF Streams, RegistryScenes
  <2>3. Registry!Accounts' /\ Registry!Listing'
    BY <1>4, <2>1, <2>2, Registry!AccountsKept DEF Streams, RegistryScenes
  <2> QED BY <1>1, <2>1, <2>2, <2>3 DEF Streams, Registry!CountsKept
<1>7. CASE Numbers
  <2>1. scene = "numbers" /\ Registry!Numbering({<<1, 1>>}, Numbered)
    BY <1>7 DEF Numbers
  <2>2. Registry!Accounts' /\ Registry!Listing'
    BY <1>2, <1>3, <2>1, RegistryHolds, Registry!NumberingAccounts DEF Streams, RegistryScenes
  <2> QED BY <1>1, <2>1, <2>2 DEF Streams
<1>8. ASSUME scene = "readings", Registry!Readings({<<1, 1>>}, Samples) PROVE Streams'
  <2>1. Registry!Accounts' /\ Registry!Listing'
    BY <1>2, <1>3, <1>4, <1>8, RegistryHolds, Registry!ReadingsAccount DEF Streams, RegistryScenes
  <2>2. UNCHANGED v10
    BY <1>3, <1>8, Registry!ReadingsKeepStreams
  <2> QED BY <1>1, <1>8, <2>1, <2>2 DEF Streams
<1>9. ASSUME scene = "readings", Registry!Port PROVE Streams'
  <2>1. Registry!CountsKept
    BY <1>2, <1>9, Registry!PortKeepsCounts DEF Streams, RegistryScenes
  <2>2. Registry!Accounts' /\ Registry!Listing'
    BY <1>4, <1>9, <2>1, Registry!AccountsKept DEF Streams, RegistryScenes
  <2> QED BY <1>1, <1>9, <2>1, <2>2 DEF Streams, Registry!CountsKept
<1>10. CASE Readings
  BY <1>8, <1>9, <1>10 DEF Readings
<1>11. CASE Reassembly \/ Others
  BY <1>1, <1>11, OtherScenes DEF Reassembly, RegistryScenes, Streams
<1>12. CASE UNCHANGED all
  <2>1. UNCHANGED <<v3, v4, v7, v10>>
    BY <1>12 DEF all
  <2>2. ASSUME scene \in RegistryScenes PROVE Registry!Accounts' /\ Registry!Listing'
    <3>1. Registry!CountsKept
      BY <2>1, <2>2, Registry!SameKeepsCounts DEF Streams
    <3>2. Registry!NumberedStay
      BY <2>1 DEF Registry!NumberedStay
    <3> QED BY <2>2, <3>1, <3>2, Registry!AccountsKept DEF Streams
  <2> QED BY <1>1, <2>1, <2>2 DEF Streams
<1> QED BY <1>5, <1>6, <1>7, <1>10, <1>11, <1>12 DEF Next, Others

\* The readings that are missing from a stream are the lost ones less the late
\* (protocol/sequence.py, state_store.py record_sequence): the run's property,
\* from the inductive invariant of SensorRegistry_proofs.
THEOREM LossesAreCounted == Spec => []LossesAccounted
<1>1. Init => Streams
  <2> SUFFICES ASSUME Init PROVE Streams
    OBVIOUS
  <2>1. ASSUME scene \in RegistryScenes
        PROVE  Registry!Accounts /\ Registry!Listing /\ \A i \in Registry!Ids : v10[i] = Registry!Silent
    <3>1. Registry!Init
      BY <2>1 DEF Init
    <3> QED BY <3>1, Registry!AccountsInit DEF Registry!Init
  <2> QED BY <2>1 DEF Streams, RegistryScenes
<1>2. Streams /\ [Next]_all => Streams'
  BY StreamsNext
<1>3. Streams => LossesAccounted
  BY Registry!AccountsTell DEF Streams, LossesAccounted
<1> QED BY <1>1, <1>2, <1>3, PTL DEF Spec

-----------------------------------------------------------------------------
(* The commands *)

\* An action of the catalog reaches the sensor it was chosen for, or none, with
\* its authorization and, unless it is a configuration, its session (app.py,
\* command_catalog.py, security.py): the run's property, from the inductive
\* invariant of OperatorCommands_proofs.
THEOREM CommandsReachTheirSensors == Spec => []CommandReachesItsSensor
<1> DEFINE I == scene = "operation" => Commands!Inv
<1>1. Init => I
  BY Commands!InvInit DEF Init
<1>2. I /\ [Next]_all => I'
  <2> SUFFICES ASSUME I, [Next]_all, scene' = "operation" PROVE Commands!Inv'
    OBVIOUS
  <2>1. scene = "operation" /\ Commands!Inv
    BY SceneStays
  <2>2. Operation \/ UNCHANGED all
    BY <2>1 DEF Next, Ownership, Modules, Numbers, Readings, Silence, Faults, Coordination, Links, MeasureScenes,
       Reassembly, Arbitration, Stages, Records, Port, Reports, Measurement
  <2>3. CASE Operation
    BY <2>1, <2>3, Commands!OperatesKeeps DEF Operation
  <2>4. CASE UNCHANGED all
    <3>1. UNCHANGED Commands!vars
      BY <2>4 DEF all, Commands!vars, Commands!env, Commands!screens
    <3> QED BY <2>1, <3>1, Commands!InvSame
  <2> QED BY <2>2, <2>3, <2>4
<1>3. I => CommandReachesItsSensor
  BY DEF CommandReachesItsSensor, Commands!Inv
<1> QED BY <1>1, <1>2, <1>3, PTL DEF Spec
=============================================================================
