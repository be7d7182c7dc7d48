------------------------- MODULE MCCanCoordination -------------------------
(***************************************************************************)
(* Small networks of CanCoordination for TLC, and the bench plans they are *)
(* put through.  The identifiers are such that every stagger is a whole    *)
(* number of ticks.                                                        *)
(***************************************************************************)
EXTENDS CanCoordination, TLC

(* Heartbeat periods (heartbeatRateToMs): mode 3 is 1000 ms, mode 5 is     *)
(* 500 ms.                                                                 *)
Ticks(ms)    == ms \div TickMs
NormalPeriod == 3 :> Ticks(1000)
TwoPeriods   == (3 :> Ticks(1000)) @@ (5 :> Ticks(500))

(* The Node with the highest identifier leads, the lowest one never does   *)
(* while there is another.                                                 *)
Lowest  == CHOOSE n \in Node : \A m \in Node : n <= m
Highest == CHOOSE n \in Node : \A m \in Node : m <= n

SensorCommand(n, a) == [kind |-> "SENSOR_CTRL", target |-> n, action |-> a]
RateCommand(r)      == [kind |-> "RATE", rate |-> r]
OnlyStart           == {StartFrame(Broadcast)}

(* One election is ordered and nothing else happens.                       *)
Undisturbed ==
    [probeOn |-> FALSE, late |-> {}, faults |-> {}, fragile |-> {}, calm |-> TRUE,
     menu |-> OnlyStart, left |-> 1, disturbed |-> {}]

LeaderLost    == [Undisturbed EXCEPT !.fragile = {Highest}, !.faults = {"POWER"}]
FollowerLost  == [Undisturbed EXCEPT !.fragile = {Lowest}, !.faults = {"FREEZE", "POWER"}]
LateJoiner    == [Undisturbed EXCEPT !.late = {Highest}]
ProbedNetwork == [LeaderLost EXCEPT !.probeOn = TRUE]

(* The operator clears a fault and sets the rate under the eyes of the     *)
(* Probe, before the third Node is switched on.                            *)
Commanded ==
    [Undisturbed EXCEPT
       !.probeOn = TRUE, !.late = {Highest}, !.left = 2,
       !.menu = OnlyStart \cup {SensorCommand(Lowest, "CLEAR_FAULT"), RateCommand(3)}]

(* A Node puts itself in fault, and then the third one is switched on.     *)
FaultyBefore ==
    [LateJoiner EXCEPT !.left = 2, !.menu = OnlyStart \cup {SensorCommand(Lowest, "DISABLE_FAULT")}]
NetworkLife == {LeaderLost, FollowerLost, LateJoiner, ProbedNetwork, Commanded, FaultyBefore}

(* Commands to a Node that does not lead; a rate change with a leader that *)
(* may be lost; the status refreshes of the Probe.                         *)
SensorSwitched == [Undisturbed EXCEPT
                     !.menu = OnlyStart \cup {SensorCommand(Lowest, a) : a \in Action}, !.left = 3]
RateChanged    == [Undisturbed EXCEPT
                     !.probeOn = TRUE, !.menu = OnlyStart \cup {RateCommand(5)}, !.left = 2,
                     !.fragile = {Highest}, !.faults = {"POWER"}]
ProbeSwitched  == [Undisturbed EXCEPT
                     !.probeOn = TRUE, !.menu = OnlyStart \cup {SensorCommand(Lowest, "OFF")},
                     !.left = 2]
OperatorAtWork == {SensorSwitched, RateChanged, ProbeSwitched}

(* Either Node is frozen or cut off at any moment, elections included.     *)
Unrest   == [Undisturbed EXCEPT
               !.fragile = Node, !.faults = {"FREEZE", "POWER"}, !.calm = FALSE]
PowerCut == [Undisturbed EXCEPT !.fragile = {Highest}, !.faults = {"POWER"}]
Outages  == {Unrest, PowerCut}
OutagesAndCommands == Outages \cup OperatorAtWork

(* The leader comes back from a silence; a Node arrives while the election *)
(* is going on.                                                            *)
LeaderThawed      == {[Undisturbed EXCEPT !.fragile = {Highest}, !.faults = {"FREEZE"}]}
ArrivalInElection == {[Undisturbed EXCEPT !.late = {Highest}, !.calm = FALSE]}
=============================================================================
