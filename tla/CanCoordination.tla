-------------------------- MODULE CanCoordination --------------------------
(***************************************************************************)
(* Coordination of the functional Nodes over classic CAN: election,        *)
(* leadership hand-over, dynamic JOIN, heartbeat and TDMA answer, the      *)
(* absence watchdog of the leader, the leader watchdog of the followers    *)
(* and the instrumentation Probe 00.  Codigo/node-can/src/main.ino with    *)
(* the control handlers of comandos.cpp and falhas.cpp.                    *)
(*                                                                         *)
(* Bus.  A frame sent by a station is appended to the receive buffer of    *)
(* every other station that listens, so all stations see the frames in one *)
(* order and each one handles them when its loop gets there.               *)
(*                                                                         *)
(* Time.  A Tick is TickMs long, 100 or 500 ms in the runs; a loop pass    *)
(* and a frame take milliseconds, so time passes only when no buffer holds *)
(* a frame and no deadline is due.  Deadlines and frames that fall within  *)
(* one tick are handled in any order; a deadline that is no whole number   *)
(* of ticks is due at the end of its last one.                             *)
(*                                                                         *)
(* Slips.  A definition followed by its namesake with the same parameters  *)
(* (Unprotected, Protected) is a slip the code could have had; Spec never  *)
(* uses it, it shows that a property notices the slip.                     *)
(***************************************************************************)
EXTENDS Integers, Sequences, FiniteSets, Tdma

CONSTANTS
    Node,             \* identifiers of the functional Nodes (IOT_NODE_ID)
    Rates,            \* heartbeat rate modes that may be selected
    Period,           \* heartbeatRateToMs: ticks of each rate mode
    NormalRate,       \* HB_RATE_NORMAL
    ElectionTicks,    \* DISCOVERY_DURATION_MS
    RecoveryTicks,    \* RECOVERY_DURATION_MS
    JoinRetryTicks,   \* JOIN_RETRY_MS
    JoinMaxAttempts,  \* JOIN_MAX_ATTEMPTS
    AbsencePeriods,   \* NODE_ABSENCE_HEARTBEATS
    WatchdogPeriods,  \* FOLLOWER_LEADER_TIMEOUT_MULTIPLIER
    ProbePeriods,     \* GATEWAY_LEADER_TIMEOUT_MULTIPLIER
    TickMs,           \* milliseconds of a tick
    StaggerMs,        \* FOLLOWER_LEADER_STAGGER_MS
    TickMod,          \* modulus of heartbeatTick (a byte in the code)
    Horizon,          \* bound: an age stops counting here, past every deadline
    Plans             \* bounds: what the bench may do to the network

Probe     == 0
Broadcast == 255      \* CTRL_TARGET_BROADCAST
Station   == Node \cup {Probe}
Target    == Node \cup {Broadcast}

Status == {"UNKNOWN", "LEADER", "OK", "DISABLED", "FAULT", "JOINING", "CONFLICT"}
Mode   == {"IDLE", "JOINING", "ELECTION", "RECOVERING", "LEADER", "FOLLOWER", "FAULT"}
Action == {"OFF", "ON", "DISABLE_FAULT", "CLEAR_FAULT"}

(* Frames with an effect on a receiver (can_ids.h, protocolo.h).  TABLE is *)
(* the burst of STATE_UPDATE frames that follows a JOIN_ACCEPT.            *)
Frame ==
    [kind : {"ELECTION", "LEADER", "SENSOR", "JOIN_REQUEST"}, node : Node]
      \cup [kind : {"HEARTBEAT"}, node : Node, tick : Nat, active : Nat, rate : Rates]
      \cup [kind : {"START", "STATUS_REQUEST"}, target : Target]
      \cup [kind : {"SENSOR_CTRL"}, target : Node, action : Action]
      \cup [kind : {"RATE"}, rate : Rates]
      \cup [kind : {"STATE", "FORCE", "STATUS_RESPONSE"}, node : Node, status : Status]
      \cup [kind : {"JOIN_ACCEPT"}, target : Node, leader : Node]
      \cup [kind : {"TABLE"}, table : [Node -> Status]]

(* What can be typed at a serial port; JOIN_REQUEST, which is automatic,   *)
(* and every other frame are refused there.                                *)
Command == {f \in Frame : f.kind \in {"START", "STATUS_REQUEST", "SENSOR_CTRL", "RATE"}}

(* A plan of the bench, one per behaviour: whether Probe 00 is attached;   *)
(* the Nodes powered on late; what may happen (FREEZE, POWER) to which     *)
(* fragile Node, once each, and whether only under a leader in office; the *)
(* frames an operator may type and how many of them are left (status       *)
(* refreshes of the Probe count too); the Nodes disturbed so far.          *)
Plan == [probeOn : BOOLEAN, late : SUBSET Node,
         faults : SUBSET {"FREEZE", "POWER"}, fragile : SUBSET Node, calm : BOOLEAN,
         menu : SUBSET Command, left : Nat, disturbed : SUBSET Node]

(* The lower its identifier, the longer a follower waits for its leader.   *)
MaxNodeId  == 31
Stagger(n) == StaggerMs * (MaxNodeId - n)

CoordinationAssumption ==
    /\ IsFiniteSet(Node) /\ Node \subseteq 1..MaxNodeId
    /\ NormalRate \in Rates /\ Period \in [Rates -> Nat \ {0}]
    /\ {ElectionTicks, RecoveryTicks, JoinRetryTicks, JoinMaxAttempts} \subseteq Nat \ {0}
    /\ {AbsencePeriods, WatchdogPeriods, ProbePeriods, TickMod, SyncMod} \subseteq Nat \ {0}
    /\ TickMs \in Nat \ {0} /\ StaggerMs \in Nat
    /\ Horizon \in Nat /\ {ElectionTicks, RecoveryTicks, JoinRetryTicks} \subseteq 0..Horizon
    /\ \A r \in Rates : {Period[r] * AbsencePeriods, Period[r] * WatchdogPeriods,
                         Period[r] * ProbePeriods} \subseteq 0..Horizon
    /\ \A r \in Rates, n \in Node :
         Period[r] * WatchdogPeriods * TickMs + Stagger(n) <= Horizon * TickMs
    /\ \A p \in Plans : p \in Plan /\ p.disturbed = {}
ASSUME CoordinationAssumption

VARIABLES
    nd,        \* RAM of each functional Node
    power,     \* each Node: "UP", "SILENT" (frozen by a test) or "OFF"
    inbox,     \* receive buffer of each station
    probe,     \* what Probe 00 remembers of the leader
    bench      \* the plan of the bench, and what is left of it
vars == <<nd, power, inbox, probe, bench>>

---------------------------------------------------------------------------
(* State of one Node.  The deadlines of the states exclude one another, so *)
(* one timer counts from electionStartTime, recoveryStartTime,             *)
(* lastHeartbeatTime, lastJoinRequestTime or followerLastLeaderSeenMs,     *)
(* whichever the state reads.  accepted is joinAccepted together with      *)
(* waitingFirstHeartbeatAfterJoin.  faultDetected holds exactly in FAULT.  *)
NodeState ==
    [mode : Mode, leaderId : Node \cup {0}, previousLeader : Node \cup {0},
     known : SUBSET Node, status : [Node -> Status], seen : [Node -> Nat],
     timer : 0..Horizon, attempts : 0..JoinMaxAttempts, accepted : BOOLEAN,
     tick : 0..(TickMod - 1),
     sensorEnabled : BOOLEAN, rate : Rates, stalled : Nat]

Booted ==
    [mode |-> "IDLE", leaderId |-> 0, previousLeader |-> 0,
     known |-> {}, status |-> [m \in Node |-> "UNKNOWN"], seen |-> [m \in Node |-> 0],
     timer |-> 0, attempts |-> 0, accepted |-> FALSE, tick |-> 0,
     sensorEnabled |-> TRUE, rate |-> NormalRate, stalled |-> 0]

ElectionFrame(n)  == [kind |-> "ELECTION", node |-> n]
LeaderFrame(n)    == [kind |-> "LEADER", node |-> n]
SensorFrame(n)    == [kind |-> "SENSOR", node |-> n]
JoinFrame(n)      == [kind |-> "JOIN_REQUEST", node |-> n]
StateFrame(m, s)  == [kind |-> "STATE", node |-> m, status |-> s]
ForceFrame(m, s)  == [kind |-> "FORCE", node |-> m, status |-> s]
StartFrame(t)     == [kind |-> "START", target |-> t]
RequestFrame(t)   == [kind |-> "STATUS_REQUEST", target |-> t]
AcceptFrame(m, l) == [kind |-> "JOIN_ACCEPT", target |-> m, leader |-> l]
TableFrame(t)     == [kind |-> "TABLE", table |-> t]

(* A confirmed fault is not overwritten by an ordinary status.             *)
Unprotected(r, m, s) == FALSE
Protected(r, m, s) == r.status[m] = "FAULT" /\ s # "FAULT"

MarkSeen(r, m) == [r EXCEPT !.seen[m] = 0]
Register(r, m) == [r EXCEPT !.known = @ \cup {m}]
ForceStatus(r, m, s) == [r EXCEPT !.status[m] = s, !.seen[m] = 0]
Update(r, m, s) == IF Protected(r, m, s) THEN r ELSE ForceStatus(r, m, s)

(* TDMA: the leader counts the active Nodes it knows, a follower ranks     *)
(* itself among the ones it knows.                                         *)
ActiveForTdma(r) == {m \in r.known : m # r.leaderId /\ r.status[m] = "OK"}
SlotFromOne(r, n) == Cardinality({m \in ActiveForTdma(r) : m <= n})
SlotOf(r, n)     == Rank(ActiveForTdma(r), n)
MySlot(r, n, t, slots) ==
    n # r.leaderId /\ r.status[n] = "OK" /\ Turn(t, slots, SlotOf(r, n))

LocalStatus(r) ==
    CASE r.mode = "JOINING"                 -> "JOINING"
      [] r.mode \in {"LEADER", "RECOVERING"} -> "LEADER"
      [] r.mode = "FAULT"                   -> "FAULT"
      [] OTHER -> IF r.sensorEnabled THEN "OK" ELSE "DISABLED"

---------------------------------------------------------------------------
(* Transmission and the frame of an action of Node n.                      *)
Listening(k) == IF k = Probe THEN bench.probeOn ELSE power[k] = "UP"

Send(box, src, out) ==
    [k \in Station |-> IF k # src /\ Listening(k) THEN box[k] \o out ELSE box[k]]

Pop(k) == [inbox EXCEPT ![k] = Tail(@)]

(* A handler of Node n leaves state r and transmits out.                   *)
Handle(n, r, out) ==
    /\ nd' = [nd EXCEPT ![n] = r]
    /\ inbox' = Send(Pop(n), n, out)
    /\ UNCHANGED <<power, probe, bench>>

(* A deadline of Node n leaves state r and transmits out.                  *)
Act(n, r, out) ==
    /\ nd' = [nd EXCEPT ![n] = r]
    /\ inbox' = Send(inbox, n, out)
    /\ UNCHANGED <<power, probe, bench>>

HeadIs(n, kind) == power[n] = "UP" /\ inbox[n] # <<>> /\ Head(inbox[n]).kind = kind
Addressed(f, n) == f.target \in {n, Broadcast}
---------------------------------------------------------------------------
(* Election.                                                               *)
StartElectionWithLeader(r, n) ==
    IF r.mode = "FAULT" THEN r
    ELSE Update([r EXCEPT !.mode = "ELECTION", !.tick = 0, !.accepted = FALSE,
                          !.known = {n}, !.timer = 0], n, "OK")

StartElectionRemembering(r, n) ==
    IF r.mode = "FAULT" THEN r
    ELSE Update([r EXCEPT !.mode = "ELECTION",
                          !.previousLeader = IF r.leaderId # 0 THEN r.leaderId ELSE @,
                          !.leaderId = 0, !.tick = 0, !.accepted = FALSE,
                          !.known = @ \cup {n}, !.timer = 0],
                n, "OK")

StartElection(r, n) ==
    IF r.mode = "FAULT" THEN r
    ELSE Update([r EXCEPT !.mode = "ELECTION",
                          !.previousLeader = IF r.leaderId # 0 THEN r.leaderId ELSE @,
                          !.leaderId = 0, !.tick = 0, !.accepted = FALSE,
                          !.known = {n}, !.timer = 0],
                n, "OK")
Announcement(r, n) == IF r.mode = "FAULT" THEN <<>> ELSE <<ElectionFrame(n)>>

OnStart(n) ==
    /\ HeadIs(n, "START")
    /\ IF Addressed(Head(inbox[n]), n)
       THEN Handle(n, StartElection(nd[n], n), Announcement(nd[n], n))
       ELSE Handle(n, nd[n], <<>>)

OnElection(n) ==
    /\ HeadIs(n, "ELECTION")
    /\ LET other == Head(inbox[n]).node IN
       Handle(n, IF nd[n].mode = "ELECTION"
                 THEN MarkSeen(Update(Register(nd[n], other), other, "OK"), other)
                 ELSE nd[n], <<>>)

(* getHighestKnownNodeId: the Node itself always stands; a Node recorded   *)
(* in fault does not.                                                      *)
Eligible(r, n)   == {n} \cup {m \in r.known : r.status[m] # "FAULT"}
Elects(r, n, e)  == e \in Eligible(r, n) /\ \A m \in Eligible(r, n) : m <= e

ElectionDue(n) == nd[n].mode = "ELECTION" /\ nd[n].timer >= ElectionTicks
FinishElection(n) ==
    /\ power[n] = "UP" /\ ElectionDue(n)
    /\ \E e \in Node :
         /\ Elects(nd[n], n, e)
         /\ LET r == [nd[n] EXCEPT !.leaderId = e, !.previousLeader = 0, !.timer = 0,
                        !.mode = IF e = n THEN "RECOVERING" ELSE "FOLLOWER"]
            IN IF e = n
               THEN Act(n, Update(r, n, "LEADER"),
                        <<StateFrame(n, "LEADER"), RequestFrame(Broadcast)>>)
               ELSE Act(n, Update(r, n, "OK"), <<StateFrame(n, "OK")>>)

RecoverySlow(n) == nd[n].mode = "RECOVERING" /\ nd[n].timer >= ElectionTicks
RecoveryDue(n) == nd[n].mode = "RECOVERING" /\ nd[n].timer >= RecoveryTicks
FinishRecovery(n) ==
    /\ power[n] = "UP" /\ RecoveryDue(n)
    /\ Act(n, Update([nd[n] EXCEPT !.mode = "LEADER", !.timer = 0], n, "LEADER"),
           <<LeaderFrame(n), StateFrame(n, "LEADER")>>)

---------------------------------------------------------------------------
(* Two leaders: the lower identifier yields, the higher one asks everyone  *)
(* else for a new election and stays leader.                               *)
InOffice(r) == r.mode \in {"LEADER", "RECOVERING"}

ConflictUnresolved(n, other) ==
    Handle(n, Update(nd[n], n, "CONFLICT"), <<StateFrame(n, "CONFLICT")>>)
Conflict(n, other) ==
    LET r == Update(nd[n], n, "CONFLICT") IN
    IF other > n
    THEN Handle(n, Update([r EXCEPT !.mode = "FOLLOWER", !.leaderId = other, !.timer = 0], n, "OK"),
                <<StateFrame(n, "CONFLICT"), StateFrame(n, "OK")>>)
    ELSE Handle(n, r, <<StateFrame(n, "CONFLICT"), StartFrame(Broadcast)>>)

OnLeader(n) ==
    /\ HeadIs(n, "LEADER")
    /\ LET announced == Head(inbox[n]).node
           r == MarkSeen(Update(nd[n], announced, "LEADER"), announced)
       IN IF InOffice(nd[n]) THEN Conflict(n, announced)
          ELSE IF r.mode = "JOINING" THEN Handle(n, r, <<>>)
          ELSE IF r.mode = "FAULT" THEN Handle(n, [r EXCEPT !.leaderId = announced], <<>>)
          ELSE Handle(n, [r EXCEPT !.leaderId = announced, !.mode = "FOLLOWER", !.timer = 0], <<>>)

---------------------------------------------------------------------------
(* Heartbeat of the leader and the answer of the others.                   *)
HeartbeatDue(n) == nd[n].mode = "LEADER" /\ nd[n].timer >= Period[nd[n].rate]
SendHeartbeat(n) ==
    /\ power[n] = "UP" /\ HeartbeatDue(n)
    /\ LET r == nd[n]
           beat == [kind |-> "HEARTBEAT", node |-> n, tick |-> r.tick,
                    active |-> Cardinality(ActiveForTdma(r)), rate |-> r.rate]
           next == [r EXCEPT !.timer = 0, !.tick = (@ + 1) % TickMod]
       IN IF IsSyncTick(r.tick)   \* one entry of the table, at the replica cursor
          THEN \E m \in {k \in Node : r.status[k] # "UNKNOWN"} :
                 Act(n, next, <<StateFrame(m, r.status[m]), beat>>)
          ELSE Act(n, next, <<beat>>)

BeginJoinLeaderless(r, n, leader) ==
    Update([r EXCEPT !.mode = "JOINING", !.attempts = 0,
                     !.accepted = FALSE, !.timer = JoinRetryTicks], n, "JOINING")
BeginJoinOrContend(r, n, leader) ==
    IF n > leader THEN StartElection(r, n)
    ELSE Update([r EXCEPT !.leaderId = leader, !.mode = "JOINING", !.attempts = 0,
                          !.accepted = FALSE, !.timer = JoinRetryTicks], n, "JOINING")
BeginJoin(r, n, leader) ==
    Update([r EXCEPT !.leaderId = leader, !.mode = "JOINING", !.attempts = 0,
                     !.accepted = FALSE, !.timer = JoinRetryTicks], n, "JOINING")

(* A follower moves to a higher leader, then answers only its own leader:  *)
(* local sensor data in its TDMA slot.                                     *)
FollowHeartbeat(n, r, beat) ==
    LET s == [r EXCEPT !.leaderId = IF beat.node > @ THEN beat.node ELSE @]
        t == [s EXCEPT !.timer = 0]
    IN IF beat.node # s.leaderId THEN Handle(n, s, <<>>)
       ELSE IF MySlot(t, n, beat.tick, beat.active) /\ t.sensorEnabled
       THEN Handle(n, MarkSeen(t, n), <<SensorFrame(n)>>)
       ELSE Handle(n, t, <<>>)

OnHeartbeat(n) ==
    /\ HeadIs(n, "HEARTBEAT")
    /\ LET beat == Head(inbox[n])
           r == MarkSeen(Update([nd[n] EXCEPT !.rate = beat.rate], beat.node, "LEADER"), beat.node)
       IN IF InOffice(nd[n]) THEN Conflict(n, beat.node)
          ELSE IF r.mode = "IDLE" THEN Handle(n, BeginJoin(r, n, beat.node), <<>>)
          ELSE IF r.mode = "JOINING" /\ r.accepted /\ beat.node = r.leaderId
          THEN Handle(n, Update([r EXCEPT !.mode = "FOLLOWER", !.accepted = FALSE, !.timer = 0], n, "OK"),
                      <<StateFrame(n, "OK")>>)
          ELSE IF r.mode = "FOLLOWER" THEN FollowHeartbeat(n, r, beat)
          ELSE Handle(n, r, <<>>)

OnSensor(n) ==
    /\ HeadIs(n, "SENSOR")
    /\ LET from == Head(inbox[n]).node IN
       Handle(n, Update(MarkSeen(Register(nd[n], from), from), from, "OK"), <<>>)

---------------------------------------------------------------------------
(* Dynamic JOIN of a Node that boots into a running network.               *)
JoinDue(n) ==
    /\ nd[n].mode = "JOINING" /\ ~nd[n].accepted
    /\ nd[n].attempts >= JoinMaxAttempts \/ nd[n].timer >= JoinRetryTicks
JoinProcessEndless(n) ==
    /\ power[n] = "UP" /\ JoinDue(n)
    /\ Act(n, [nd[n] EXCEPT !.attempts = @ + 1, !.timer = 0], <<JoinFrame(n)>>)
JoinProcessSwapped(n) ==
    /\ power[n] = "UP" /\ JoinDue(n)
    /\ IF nd[n].attempts < JoinMaxAttempts
       THEN Act(n, [nd[n] EXCEPT !.mode = "IDLE", !.attempts = 0, !.timer = 0], <<>>)
       ELSE Act(n, [nd[n] EXCEPT !.attempts = @ + 1, !.timer = 0], <<JoinFrame(n)>>)
JoinProcess(n) ==
    /\ power[n] = "UP" /\ JoinDue(n)
    /\ IF nd[n].attempts >= JoinMaxAttempts
       THEN Act(n, [nd[n] EXCEPT !.mode = "IDLE", !.attempts = 0, !.timer = 0], <<>>)
       ELSE Act(n, [nd[n] EXCEPT !.attempts = @ + 1, !.timer = 0], <<JoinFrame(n)>>)

(* The heartbeat rate the leader addresses to the newcomer is left out: a  *)
(* RATE frame counts only when it is addressed to everyone.                *)
OnJoinRequest(n) ==
    /\ HeadIs(n, "JOIN_REQUEST")
    /\ LET joining == Head(inbox[n]).node
           r == MarkSeen(Update(Register(nd[n], joining), joining, "JOINING"), joining)
           a == Update(r, joining, "OK")
       IN IF r.mode = "LEADER"
          THEN Handle(n, a, <<AcceptFrame(joining, r.leaderId), StateFrame(joining, "OK"), TableFrame(a.status)>>)
          ELSE Handle(n, r, <<>>)

OnJoinAccept(n) ==
    /\ HeadIs(n, "JOIN_ACCEPT")
    /\ LET f == Head(inbox[n]) IN
       Handle(n, IF f.target = n /\ nd[n].mode = "JOINING"
                 THEN Update([Register(nd[n], n) EXCEPT !.leaderId = f.leader, !.accepted = TRUE],
                             n, "JOINING")
                 ELSE nd[n], <<>>)

---------------------------------------------------------------------------
(* Replicated status table.                                                *)
OnStateUnlessBusy(n) ==
    /\ HeadIs(n, "STATE")
    /\ LET f == Head(inbox[n]) IN
       Handle(n, IF nd[n].mode \in {"ELECTION", "RECOVERING"} THEN nd[n]
                 ELSE MarkSeen(Update(Register(nd[n], f.node), f.node, f.status), f.node), <<>>)
OnState(n) ==
    /\ HeadIs(n, "STATE")
    /\ LET f == Head(inbox[n]) IN
       Handle(n, MarkSeen(Update(Register(nd[n], f.node), f.node, f.status), f.node), <<>>)

OnTableIgnored(n) == HeadIs(n, "TABLE") /\ Handle(n, nd[n], <<>>)
OnTable(n) ==
    /\ HeadIs(n, "TABLE")
    /\ LET t == Head(inbox[n]).table
           listed == {m \in Node : t[m] # "UNKNOWN"}
       IN Handle(n, [nd[n] EXCEPT
                      !.known = @ \cup listed,
                      !.status = [m \in Node |-> IF m \in listed /\ ~Protected(nd[n], m, t[m])
                                                THEN t[m] ELSE @[m]],
                      !.seen = [m \in Node |-> IF m \in listed THEN 0 ELSE @[m]]], <<>>)

OnForce(n) ==
    /\ HeadIs(n, "FORCE")
    /\ LET f == Head(inbox[n]) IN
       Handle(n, ForceStatus(Register(nd[n], f.node), f.node, f.status), <<>>)

OnStatusRequest(n) ==
    /\ HeadIs(n, "STATUS_REQUEST")
    /\ IF Addressed(Head(inbox[n]), n)
       THEN Handle(n, Update(nd[n], n, LocalStatus(nd[n])),
                   <<[kind |-> "STATUS_RESPONSE", node |-> n, status |-> LocalStatus(nd[n])]>>)
       ELSE Handle(n, nd[n], <<>>)

OnStatusResponse(n) ==
    /\ HeadIs(n, "STATUS_RESPONSE")
    /\ LET f == Head(inbox[n]) IN Handle(n, Update(nd[n], f.node, f.status), <<>>)

---------------------------------------------------------------------------
(* Operator commands to a Node.                                            *)
OnSensorControl(n) ==
    /\ HeadIs(n, "SENSOR_CTRL")
    /\ LET f == Head(inbox[n])
           r == nd[n]
           Switch(on, s) ==
             IF r.mode = "FAULT" THEN Handle(n, r, <<>>)
             ELSE Handle(n, Update([r EXCEPT !.sensorEnabled = on], n, s), <<StateFrame(n, s)>>)
       IN CASE f.target # n -> Handle(n, r, <<>>)
            [] f.target = n /\ f.action = "OFF" -> Switch(FALSE, "DISABLED")
            [] f.target = n /\ f.action = "ON"  -> Switch(TRUE, "OK")
            [] f.target = n /\ f.action = "DISABLE_FAULT" ->
                 Handle(n, Update([r EXCEPT !.sensorEnabled = FALSE, !.mode = "FAULT"], n, "FAULT"),
                        <<StateFrame(n, "FAULT")>>)
            [] f.target = n /\ f.action = "CLEAR_FAULT" ->
                 Handle(n, ForceStatus([r EXCEPT !.sensorEnabled = TRUE,
                                   !.mode = IF @ = "FAULT" THEN "FOLLOWER" ELSE @,
                                   !.timer = IF r.mode = "FAULT" THEN 0 ELSE @], n, "OK"),
                        <<ForceFrame(n, "OK")>>)

OnRate(n) ==
    /\ HeadIs(n, "RATE")
    /\ Handle(n, [nd[n] EXCEPT !.rate = Head(inbox[n]).rate], <<>>)

---------------------------------------------------------------------------
(* Watchdogs.                                                              *)
AbsenceDue(n, m) ==
    /\ nd[n].mode = "LEADER" /\ m # n /\ nd[n].status[m] = "OK"
    /\ nd[n].seen[m] >= Period[nd[n].rate] * AbsencePeriods
DeclareAbsentLocally(n, m) ==
    /\ power[n] = "UP" /\ AbsenceDue(n, m)
    /\ Act(n, Update(nd[n], m, "FAULT"), <<>>)
DeclareAbsent(n, m) ==
    /\ power[n] = "UP" /\ AbsenceDue(n, m)
    /\ Act(n, Update(nd[n], m, "FAULT"), <<StateFrame(m, "FAULT")>>)

LeaderSilent(n) ==
    /\ nd[n].mode = "FOLLOWER"
    /\ nd[n].timer * TickMs >= Period[nd[n].rate] * WatchdogPeriods * TickMs + Stagger(n)
FollowerWatchdog(n) ==
    /\ power[n] = "UP" /\ LeaderSilent(n)
    /\ Act(n, StartElection(nd[n], n), <<StartFrame(Broadcast), ElectionFrame(n)>>)

---------------------------------------------------------------------------
(* Probe 00: observes the leader, asks for an election when it falls       *)
(* silent, and never starts the network by itself.                         *)
ProbeReceive ==
    /\ inbox[Probe] # <<>>
    /\ LET f == Head(inbox[Probe]) IN
       probe' = CASE f.kind = "HEARTBEAT" -> [probe EXCEPT !.hasLeader = TRUE, !.timer = 0, !.rate = f.rate]
                  [] f.kind = "LEADER"    -> [probe EXCEPT !.hasLeader = TRUE, !.timer = 0]
                  [] f.kind = "ELECTION"  -> [probe EXCEPT !.hasLeader = FALSE]
                  [] f.kind = "RATE"      -> [probe EXCEPT !.rate = f.rate]
                  [] OTHER                -> probe
    /\ inbox' = Pop(Probe)
    /\ UNCHANGED <<nd, power, bench>>

ProbeDue == bench.probeOn /\ probe.hasLeader /\ probe.timer >= Period[probe.rate] * ProbePeriods
ProbeWatchdog ==
    /\ ProbeDue
    /\ probe' = [probe EXCEPT !.hasLeader = FALSE]
    /\ inbox' = Send(inbox, Probe, <<StartFrame(Broadcast)>>)
    /\ UNCHANGED <<nd, power, bench>>

---------------------------------------------------------------------------
(* Frames typed at a serial port, and the periodic status refresh of the   *)
(* Probe, whose instant is left open.  A Node may send sensor and rate     *)
(* commands only while it leads; only a leader disables for fault.         *)
Counted == bench.left > 0 /\ bench' = [bench EXCEPT !.left = @ - 1]

ProbeCommand(f) ==
    /\ bench.probeOn /\ Counted
    /\ f.kind = "SENSOR_CTRL" => f.action # "DISABLE_FAULT"
    /\ probe' = IF f.kind = "RATE" THEN [probe EXCEPT !.rate = f.rate] ELSE probe
    /\ inbox' = Send(inbox, Probe, <<f>>)
    /\ UNCHANGED <<nd, power>>

ProbeStatusRefresh ==
    /\ bench.probeOn /\ probe.hasLeader /\ Counted
    /\ inbox' = Send(inbox, Probe, <<RequestFrame(Broadcast)>>)
    /\ UNCHANGED <<nd, power, probe>>

NodeCommand(n, f) ==
    /\ power[n] = "UP" /\ Counted
    /\ f.kind \in {"SENSOR_CTRL", "RATE"} => nd[n].mode = "LEADER"
    /\ LET starts == f.kind = "START" /\ Addressed(f, n)
           r == IF starts THEN StartElection(nd[n], n)
                ELSE IF f.kind = "RATE" THEN [nd[n] EXCEPT !.rate = f.rate] ELSE nd[n]
           echo == IF starts THEN Announcement(nd[n], n) ELSE <<>>
       IN /\ nd' = [nd EXCEPT ![n] = r]
          /\ inbox' = Send(inbox, n, <<f>> \o echo)
    /\ UNCHANGED <<power, probe>>

---------------------------------------------------------------------------
(* Silence test: the Node neither sends nor handles frames.  When its loop *)
(* runs again after more than one heartbeat period, the ages it measures   *)
(* of the others start over (rearmWatchdogsAfterStall).                    *)
Up      == {n \in Node : power[n] = "UP"}
Leaders == {n \in Up : nd[n].mode = "LEADER"}
Quiet   == \A k \in Station : inbox[k] = <<>>
InOfficeNow == Quiet /\ Leaders # {} /\ \A n \in Up : nd[n].mode \notin {"ELECTION", "RECOVERING"}

MayDisturb(n, f) ==
    /\ power[n] = "UP" /\ f \in bench.faults
    /\ n \in bench.fragile \ bench.disturbed /\ (bench.calm => InOfficeNow)
    /\ bench' = [bench EXCEPT !.disturbed = @ \cup {n}]

Freeze(n) ==
    /\ MayDisturb(n, "FREEZE")
    /\ power' = [power EXCEPT ![n] = "SILENT"]
    /\ inbox' = [inbox EXCEPT ![n] = <<>>]
    /\ UNCHANGED <<nd, probe>>

Thaw(n) ==
    /\ power[n] = "SILENT"
    /\ power' = [power EXCEPT ![n] = "UP"]
    /\ LET r == [nd[n] EXCEPT !.stalled = 0]
       IN nd' = [nd EXCEPT ![n] =
                  IF nd[n].stalled <= Period[nd[n].rate] THEN r
                  ELSE [r EXCEPT !.seen = [m \in Node |-> 0],
                                 !.timer = IF r.mode = "FOLLOWER" THEN 0 ELSE @]]
    /\ UNCHANGED <<inbox, probe, bench>>

(* Power: what a Node knows of the network is in RAM only.  On a calm      *)
(* bench a Node is switched on once the operator is done.                  *)
PowerOff(n) ==
    /\ MayDisturb(n, "POWER")
    /\ power' = [power EXCEPT ![n] = "OFF"]
    /\ nd' = [nd EXCEPT ![n] = Booted]
    /\ inbox' = [inbox EXCEPT ![n] = <<>>]
    /\ UNCHANGED probe

PowerOn(n) ==
    /\ power[n] = "OFF" /\ (bench.calm => InOfficeNow /\ bench.left = 0)
    /\ power' = [power EXCEPT ![n] = "UP"]
    /\ UNCHANGED <<nd, inbox, probe, bench>>

---------------------------------------------------------------------------
(* Time.  Only the ages that some deadline reads are counted.              *)
Older(age) == IF age < Horizon THEN age + 1 ELSE age

Timed(r) == \/ r.mode \in {"ELECTION", "RECOVERING", "LEADER", "FOLLOWER"}
            \/ r.mode = "JOINING" /\ ~r.accepted
Aged(n) ==
    LET r == nd[n] IN
    [r EXCEPT !.timer = IF Timed(r) THEN Older(@) ELSE 0,
              !.seen = [m \in Node |-> IF m # n /\ r.status[m] = "OK" THEN Older(@[m]) ELSE 0],
              !.stalled = IF power[n] = "SILENT" THEN Older(@) ELSE 0]

Due(n) == power[n] = "UP" /\ (\/ ElectionDue(n) \/ RecoveryDue(n) \/ HeartbeatDue(n)
                              \/ JoinDue(n) \/ LeaderSilent(n)
                              \/ \E m \in Node : AbsenceDue(n, m))
Tick ==
    /\ Quiet
    /\ \A n \in Node : ~Due(n)
    /\ ~ProbeDue
    /\ nd' = [n \in Node |-> IF power[n] = "OFF" THEN nd[n] ELSE Aged(n)]
    /\ probe' = [probe EXCEPT !.timer = IF probe.hasLeader THEN Older(@) ELSE 0]
    /\ UNCHANGED <<power, inbox, bench>>

---------------------------------------------------------------------------
Init ==
    /\ nd = [n \in Node |-> Booted]
    /\ bench \in Plans
    /\ power = [n \in Node |-> IF n \in bench.late THEN "OFF" ELSE "UP"]
    /\ inbox = [k \in Station |-> <<>>]
    /\ probe = [hasLeader |-> FALSE, timer |-> 0, rate |-> NormalRate]

Receive(n) ==
    \/ OnStart(n) \/ OnElection(n) \/ OnLeader(n) \/ OnHeartbeat(n) \/ OnSensor(n)
    \/ OnJoinRequest(n) \/ OnJoinAccept(n) \/ OnState(n) \/ OnTable(n) \/ OnForce(n)
    \/ OnStatusRequest(n) \/ OnStatusResponse(n) \/ OnSensorControl(n) \/ OnRate(n)

Deadline(n) ==
    \/ FinishElection(n) \/ FinishRecovery(n) \/ SendHeartbeat(n) \/ JoinProcess(n)
    \/ FollowerWatchdog(n) \/ \E m \in Node : DeclareAbsent(n, m)

Operator ==
    \/ \E f \in bench.menu : ProbeCommand(f) \/ \E n \in Node : NodeCommand(n, f)
    \/ ProbeStatusRefresh

Disturbance(n) == Freeze(n) \/ PowerOff(n)

Work ==
    \/ \E n \in Node : Receive(n) \/ Deadline(n) \/ Disturbance(n) \/ Thaw(n) \/ PowerOn(n)
    \/ ProbeReceive \/ ProbeWatchdog
    \/ Operator

Next == Work \/ Tick

(* The loops run and time passes; a silence test ends.  Nobody owes a      *)
(* command, a disturbance or a power-on.                                   *)
Fairness ==
    /\ \A n \in Node : WF_vars(Receive(n)) /\ WF_vars(Deadline(n)) /\ WF_vars(Thaw(n))
    /\ WF_vars(ProbeReceive) /\ WF_vars(ProbeWatchdog) /\ WF_vars(Tick)

Spec == Init /\ [][Next]_vars /\ Fairness

---------------------------------------------------------------------------
ProbeState == [hasLeader : BOOLEAN, timer : Nat, rate : Rates]

(* Type correctness of the whole network.                                  *)
TypeOK ==
    /\ nd \in [Node -> NodeState]
    /\ power \in [Node -> {"UP", "SILENT", "OFF"}]
    /\ inbox \in [Station -> Seq(Frame)]
    /\ probe \in ProbeState
    /\ bench \in Plan

---------------------------------------------------------------------------
(* Who holds the office knows it: a Node that leads or recovers names      *)
(* itself as leader, and a candidate names nobody.  Heartbeats, the TDMA   *)
(* count and the JOIN answer are built from leaderId.                      *)
OfficeKnown ==
    \A n \in Node : /\ InOffice(nd[n]) => nd[n].leaderId = n
                    /\ nd[n].mode = "ELECTION" => nd[n].leaderId = 0

(* A follower and a joiner wait for somebody else: unless a fault was      *)
(* cleared on a former leader, leaderId is another Node.  One that waited  *)
(* for itself would never hear its leader again.                           *)
FollowsAnother ==
    \A n \in Node : nd[n].mode \in {"FOLLOWER", "JOINING"} => nd[n].leaderId \notin {0, n}

(* The leader declares absent only who stopped answering: nobody records a *)
(* fault of a Node that was never frozen or cut off and is not in fault by *)
(* command (leaderCheckNodeAbsence; arquitetura.md:38).                    *)
HealthyNotAccused ==
    \A n \in Node \ bench.disturbed :
      nd[n].mode # "FAULT" => \A m \in Node : nd[m].status[n] # "FAULT"

Accuses(n, m) == nd[n].status[m] # "FAULT" /\ nd'[n].status[m] = "FAULT"

(* Nodes are silent for the 5 s of an election: a leader does not take the *)
(* silence of an undisturbed candidate for an absence.                     *)
CandidateNotAccused ==
    [][\A n \in Leaders, m \in Up \ bench.disturbed : nd[m].mode = "ELECTION" => ~Accuses(n, m)]_vars

Erased(n, m) == nd[n].status[m] = "FAULT" /\ nd'[n].status[m] # "FAULT"
Remembers ==
    \A n, m \in Node : Erased(n, m) =>
      \/ inbox[n] # <<>> /\ Head(inbox[n]).kind \in {"FORCE", "SENSOR_CTRL"}
      \/ power'[n] = "OFF"

(* A recorded fault is erased only where a sensor command or a forced      *)
(* update is being handled, or with the memory of a Node that loses power: *)
(* no election, JOIN, status answer or sensor frame erases it              *)
(* (isProtectedStatusTransition; modulo-can.md:41).  Which of these        *)
(* commands erase, and whose fault, is not said here.                      *)
FaultMemory == [][Remembers]_vars

(* Nodes that were on the bus from the beginning, without an interruption. *)
Steady == {m \in Node : m \notin bench.late \cup bench.disturbed}

(* Fault replication: once the bus is quiet, every Node that was on it     *)
(* from the beginning records the fault of each one that put itself in     *)
(* fault, in whatever state - candidate, recovering, joining - the word of *)
(* it found the Node (handleSensorCtrl, handleStateUpdate).                *)
FaultAgreed ==
    Quiet => \A n \in Up : nd[n].mode = "FAULT" =>
               \A m \in Steady : nd[m].status[n] = "FAULT"

(* One leader; every other working Node follows it, at its rate.           *)
Settled ==
    /\ Cardinality(Leaders) = 1
    /\ \A l \in Leaders, n \in Up \ Leaders :
          nd[n].mode # "FAULT" =>
            nd[n].mode = "FOLLOWER" /\ nd[n].leaderId = l /\ nd[n].rate = nd[l].rate

(* The network heals: after the last disturbance and command it settles    *)
(* under one leader for good, with the Probe or without it                 *)
(* (followerCheckLeaderFailure, handleLeaderConflict; arquitetura.md:40).  *)
Converges == Leaders # {} ~> []Settled

(* TDMA: in a settled network two followers that their leader counts never *)
(* own the same slot, though each one ranks itself from its own replica of *)
(* the table ...                                                           *)
Answering(l) ==
    {n \in Up : nd[n].mode = "FOLLOWER" /\ nd[n].leaderId = l /\ nd[n].status[n] = "OK"}
TdmaSchedule ==
    Quiet /\ Settled =>
      \A l \in Leaders : \A a, b \in Answering(l) \cap ActiveForTdma(nd[l]) :
        a # b => SlotOf(nd[a], a) # SlotOf(nd[b], b)

(* ... and the leader counts enough slots for each of them to get a turn.  *)
TdmaServed ==
    Quiet /\ Settled =>
      \A l \in Leaders : \A a \in Answering(l) :
        SlotOf(nd[a], a) < Cardinality(ActiveForTdma(nd[l]))

(* A Node that boots into a running network ends up in the TDMA round.     *)
Integrated(n) == \E l \in Leaders : n \in Answering(l) /\ n \in ActiveForTdma(nd[l])
JoinerServed  == \A n \in Node : n \in bench.late /\ n \in Up /\ Leaders # {} ~> Integrated(n)

(* A Node that boots while another is in fault learns of it by its JOIN:   *)
(* as soon as it is in the round, with its table read, it records the      *)
(* fault (sendFullNetworkStateTo).  One that was frozen learns of what it  *)
(* missed by the cyclic replication only.                                  *)
NewcomerInformed ==
    Quiet /\ "FREEZE" \notin bench.faults =>
      \A n, m \in Up : nd[n].mode = "FAULT" /\ Integrated(m) => nd[m].status[n] = "FAULT"

(* The arrival of a Node, whatever its identifier, does not replace the    *)
(* leader in office, in a network the operator only starts                 *)
(* (arquitetura.md:42); nor does a follower that comes back from a stall   *)
(* and would take its own silence for the leader's.                        *)
OnlyStarted == \A f \in bench.menu : f.kind = "START"
NoUsurper ==
    [][OnlyStarted => \A n \in Leaders \ bench'.disturbed : nd'[n].mode = "LEADER"]_vars
=============================================================================
