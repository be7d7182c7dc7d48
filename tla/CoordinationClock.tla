------------------------- MODULE CoordinationClock -------------------------
(***************************************************************************)
(* CanCoordination observed with a stopwatch: for how long a network that  *)
(* has followers stays without a leader, and for how long two leaders      *)
(* coexist.                                                                *)
(***************************************************************************)
EXTENDS MCCanCoordination

VARIABLES
    vacant,  \* ticks for which members of a network have had no leader
    split    \* ticks for which two Nodes have led at once
clocks == <<vacant, split>>

Members == {n \in Up : nd[n].mode \in {"FOLLOWER", "ELECTION", "RECOVERING"}}
Vacant  == Members # {} /\ Leaders = {}
Split   == Cardinality(Leaders) > 1

Count(running, ticks) == IF running THEN ticks ELSE 0

ClockInit == Init /\ vacant = 0 /\ split = 0
ClockTick == /\ Tick
             /\ vacant' = Count(Vacant, vacant + 1)
             /\ split' = Count(Split, split + 1)
ClockWork == /\ Work
             /\ vacant' = Count(Vacant', vacant)
             /\ split' = Count(Split', split)
ClockNext == ClockTick \/ ClockWork
ClockSpec == ClockInit /\ [][ClockNext]_<<vars, clocks>>

(* A leader in office that loses power is replaced in bounded time without *)
(* the Probe: a watchdog of six periods with the stagger of some Node, one *)
(* election, one recovery (followerLeaderTimeoutMs,                        *)
(* followerCheckLeaderFailure, finishElection, finishRecoveryIfNeeded).    *)
(* The operator orders no election meanwhile.                              *)
VacancyBounded ==
    bench.calm /\ bench.menu = OnlyStart /\ "FREEZE" \notin bench.faults =>
    LET whole == Period[NormalRate] * WatchdogPeriods + ElectionTicks + RecoveryTicks IN
    \E n \in Node : vacant * TickMs <= whole * TickMs + Stagger(n)

(* Two leaders meet at the first heartbeat: they coexist for one period at *)
(* most (handleLeaderConflict, handleHeartbeatMessage).                    *)
SplitBounded == split <= Period[NormalRate]
=============================================================================
