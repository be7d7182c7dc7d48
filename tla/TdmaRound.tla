------------------------------ MODULE TdmaRound ------------------------------
(***************************************************************************)
(* The TDMA round of one leader with its real moduli, seen against the     *)
(* absence watchdog: how many heartbeats may pass before an active         *)
(* follower is heard.  Node-can/src/main.ino.                              *)
(* HeartbeatUnwrapped: a slip the code could have had, outside Spec.       *)
(***************************************************************************)
EXTENDS Tdma

CONSTANTS
    Follower,        \* identifiers the followers of the leader are taken from
    TickMod,         \* 256: heartbeatTick is a byte
    AbsencePeriods,  \* NODE_ABSENCE_HEARTBEATS
    MaxChanges       \* bound: sensors switched off or on in a behaviour

RoundAssumption ==
    /\ Follower \subseteq 1..31
    /\ {SyncMod, TickMod, AbsencePeriods} \subseteq Nat \ {0} /\ MaxChanges \in Nat
ASSUME RoundAssumption

VARIABLES
    enrolled, \* the followers of the leader
    tick,     \* heartbeatTick
    active,   \* followers every table records as OK
    silent,   \* heartbeats since each active follower was last heard
    changes
vars == <<enrolled, tick, active, silent, changes>>

Init ==
    /\ tick = 0
    /\ enrolled \in SUBSET Follower
    /\ active = enrolled
    /\ silent = [f \in Follower |-> 0]
    /\ changes = 0

(* The leader sends a heartbeat and the follower whose turn it is answers; *)
(* before it, the leader declares absent whoever was not heard for more    *)
(* than AbsencePeriods heartbeats.                                         *)
Answers(f) == f \in active /\ Turn(tick, Cardinality(active), Rank(active, f))
Overdue(f) == f \in active /\ silent[f] >= AbsencePeriods

HeartbeatUnwrapped ==
    /\ \A f \in Follower : ~Overdue(f)
    /\ tick' = tick + 1
    /\ silent' = [f \in Follower |->
                   IF Answers(f) \/ f \notin active THEN 0 ELSE silent[f] + 1]
    /\ UNCHANGED <<enrolled, active, changes>>

Heartbeat ==
    /\ \A f \in Follower : ~Overdue(f)
    /\ tick' = (tick + 1) % TickMod
    /\ silent' = [f \in Follower |->
                   IF Answers(f) \/ f \notin active THEN 0 ELSE silent[f] + 1]
    /\ UNCHANGED <<enrolled, active, changes>>

DeclareAbsent(f) ==
    /\ Overdue(f)
    /\ active' = active \ {f}
    /\ silent' = [silent EXCEPT ![f] = 0]
    /\ UNCHANGED <<enrolled, tick, changes>>

(* The operator switches the sensor of a follower off or on: every replica *)
(* of the table learns it before the next heartbeat (OFF, ON).             *)
Switch(f) ==
    /\ f \in enrolled /\ changes < MaxChanges /\ changes' = changes + 1
    /\ active' = IF f \in active THEN active \ {f} ELSE active \cup {f}
    /\ silent' = [silent EXCEPT ![f] = 0]
    /\ UNCHANGED <<enrolled, tick>>

Next == Heartbeat \/ \E f \in Follower : Switch(f) \/ DeclareAbsent(f)
Spec == Init /\ [][Next]_vars

TypeOK ==
    /\ tick \in 0..(TickMod - 1)
    /\ active \subseteq enrolled /\ enrolled \subseteq Follower
    /\ silent \in [Follower -> Nat]
    /\ changes \in 0..MaxChanges

(* Up to three followers are each heard before the fifth period is over,   *)
(* so leaderCheckNodeAbsence has nobody to accuse (arquitetura.md:38); with*)
(* two, even while sensors are switched off and on.  At the fifth period   *)
(* itself the answer and the deadline would race.                          *)
HeardInTime ==
    Cardinality(enrolled) <= (IF changes = 0 THEN 3 ELSE 2) =>
      \A f \in active : silent[f] + 1 < AbsencePeriods

(* No follower is declared absent in a network where all of them answer.   *)
AllKept == changes = 0 => active = enrolled

(* One voice per heartbeat: two followers never answer the same one.       *)
OneVoice == \A f, g \in active : Answers(f) /\ Answers(g) => f = g
=============================================================================
