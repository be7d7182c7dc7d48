----------------------- MODULE CanCoordination_proofs -----------------------
(***************************************************************************)
(* What holds of the coordination for every set of Nodes, rate table,      *)
(* deadline and plan of the bench: its types, who knows who leads, what    *)
(* erases a recorded fault, whom a Node follows and who knows of a fault.  *)
(***************************************************************************)
EXTENDS CanCoordination, FiniteSetTheorems, TLAPS

(* What one Node knows of the office: OfficeKnown, Node by Node.           *)
Knows(r, n) == /\ InOffice(r) => r.leaderId = n
               /\ r.mode = "ELECTION" => r.leaderId = 0

Sound(n) == {r \in NodeState : Knows(r, n)}

(* The inductive invariant: the types are needed to know that a frame      *)
(* names Nodes, OfficeKnown is the part that matters.                      *)
Inv == TypeOK /\ OfficeKnown

---------------------------------------------------------------------------
(* What the assumption says of a Node and of the ages.                     *)
LEMMA Ranges ==
  ASSUME CoordinationAssumption
  PROVE  /\ \A n \in Node : n \in Int /\ n # 0
         /\ Horizon \in Nat /\ 0 \in 0..Horizon /\ JoinRetryTicks \in 0..Horizon
         /\ JoinMaxAttempts \in Nat /\ 0 \in 0..JoinMaxAttempts
         /\ TickMod \in Nat \ {0} /\ 0 \in 0..(TickMod - 1)
<1>1. /\ Node \subseteq 1..31
      /\ {ElectionTicks, RecoveryTicks, JoinRetryTicks, JoinMaxAttempts} \subseteq Nat \ {0}
      /\ {AbsencePeriods, WatchdogPeriods, ProbePeriods, TickMod, SyncMod} \subseteq Nat \ {0}
      /\ Horizon \in Nat /\ {ElectionTicks, RecoveryTicks, JoinRetryTicks} \subseteq 0..Horizon
  BY DEF CoordinationAssumption, MaxNodeId
<1>2. QED
  BY <1>1

---------------------------------------------------------------------------
(* The status table.                                                       *)
LEMMA StatusType ==
  ASSUME NEW r \in NodeState, NEW m \in Node, NEW s \in Status
  PROVE  /\ MarkSeen(r, m) \in NodeState
         /\ Register(r, m) \in NodeState
         /\ ForceStatus(r, m, s) \in NodeState
         /\ Update(r, m, s) \in NodeState
<1>1. MarkSeen(r, m) \in NodeState
  BY DEF MarkSeen, NodeState
<1>2. Register(r, m) \in NodeState
  BY DEF Register, NodeState
<1>3. ForceStatus(r, m, s) \in NodeState
  BY DEF ForceStatus, NodeState
<1>4. Update(r, m, s) \in NodeState
  BY <1>3 DEF Update
<1>5. QED
  BY <1>1, <1>2, <1>3, <1>4

(* Bookkeeping of the table touches neither the mode nor the leader.       *)
LEMMA StatusSound ==
  ASSUME NEW n, NEW r \in Sound(n), NEW m \in Node, NEW s \in Status
  PROVE  /\ MarkSeen(r, m) \in Sound(n)
         /\ Register(r, m) \in Sound(n)
         /\ ForceStatus(r, m, s) \in Sound(n)
         /\ Update(r, m, s) \in Sound(n)
<1>1. r \in NodeState /\ Knows(r, n)
  BY DEF Sound
<1>2. Knows(MarkSeen(r, m), n)
  BY <1>1 DEF MarkSeen, Knows, InOffice, NodeState
<1>3. Knows(Register(r, m), n)
  BY <1>1 DEF Register, Knows, InOffice, NodeState
<1>4. Knows(ForceStatus(r, m, s), n)
  BY <1>1 DEF ForceStatus, Knows, InOffice, NodeState
<1>5. Knows(Update(r, m, s), n)
  BY <1>1, <1>4 DEF Update
<1>6. QED
  BY <1>1, <1>2, <1>3, <1>4, <1>5, StatusType DEF Sound

---------------------------------------------------------------------------
(* Frames.                                                                 *)
NodeKinds == {"ELECTION", "LEADER", "SENSOR", "JOIN_REQUEST", "HEARTBEAT",
              "STATE", "FORCE", "STATUS_RESPONSE"}

(* The fields a handler reads are there, and name Nodes and statuses.      *)
LEMMA FrameFields ==
  ASSUME NEW f \in Frame
  PROVE  /\ f.kind \in NodeKinds => f.node \in Node
         /\ f.kind \in {"STATE", "FORCE", "STATUS_RESPONSE"} => f.status \in Status
         /\ f.kind \in {"HEARTBEAT", "RATE"} => f.rate \in Rates
         /\ f.kind = "HEARTBEAT" => f.tick \in Nat /\ f.active \in Nat
         /\ f.kind = "JOIN_ACCEPT" => f.target \in Node /\ f.leader \in Node
         /\ f.kind = "TABLE" => f.table \in [Node -> Status]
BY DEF Frame, NodeKinds

LEMMA FrameTypes ==
  /\ \A n \in Node : {ElectionFrame(n), LeaderFrame(n), SensorFrame(n), JoinFrame(n)} \subseteq Frame
  /\ \A n \in Node, s \in Status : {StateFrame(n, s), ForceFrame(n, s)} \subseteq Frame
  /\ \A t \in Target : {StartFrame(t), RequestFrame(t)} \subseteq Frame
  /\ \A n, m \in Node : AcceptFrame(n, m) \in Frame
  /\ \A t \in [Node -> Status] : TableFrame(t) \in Frame
<1>1. \A n \in Node : {ElectionFrame(n), LeaderFrame(n), SensorFrame(n), JoinFrame(n)} \subseteq Frame
  BY DEF Frame, ElectionFrame, LeaderFrame, SensorFrame, JoinFrame
<1>2. \A n \in Node, s \in Status : {StateFrame(n, s), ForceFrame(n, s)} \subseteq Frame
  BY DEF Frame, StateFrame, ForceFrame
<1>3. \A t \in Target : {StartFrame(t), RequestFrame(t)} \subseteq Frame
  BY DEF Frame, StartFrame, RequestFrame
<1>4. \A n, m \in Node : AcceptFrame(n, m) \in Frame
  BY DEF Frame, AcceptFrame
<1>5. \A t \in [Node -> Status] : TableFrame(t) \in Frame
  BY DEF Frame, TableFrame
<1>6. QED
  BY <1>1, <1>2, <1>3, <1>4, <1>5

LEMMA NothingSent == <<>> \in Seq(Frame)
OBVIOUS

(* Transmission appends frames to buffers.                                 *)
LEMMA SendType ==
  ASSUME NEW box \in [Station -> Seq(Frame)], NEW src, NEW out \in Seq(Frame)
  PROVE  Send(box, src, out) \in [Station -> Seq(Frame)]
BY DEF Send

LEMMA PopType ==
  ASSUME NEW k \in Station, inbox \in [Station -> Seq(Frame)], inbox[k] # <<>>
  PROVE  Pop(k) \in [Station -> Seq(Frame)] /\ Head(inbox[k]) \in Frame
BY DEF Pop

---------------------------------------------------------------------------
(* A handler or a deadline of Node n keeps the invariant when it leaves a  *)
(* sound state and transmits frames.                                       *)
LEMMA InvNode ==
  ASSUME Inv, NEW n \in Node
  PROVE  /\ nd[n] \in Sound(n) /\ nd[n] \in NodeState
         /\ inbox[n] \in Seq(Frame) /\ n \in Station
BY DEF Inv, TypeOK, OfficeKnown, Sound, Knows, Station

LEMMA InvStep ==
  ASSUME Inv, NEW n \in Node, NEW r \in Sound(n),
         nd' = [nd EXCEPT ![n] = r], inbox' \in [Station -> Seq(Frame)],
         UNCHANGED <<power, probe>>, bench' \in Plan
  PROVE  Inv'
<1>1. nd' \in [Node -> NodeState]
  BY DEF Inv, TypeOK, Sound
<1>2. TypeOK'
  BY <1>1 DEF Inv, TypeOK, ProbeState
<1>3. OfficeKnown'
  <2> SUFFICES ASSUME NEW m \in Node
               PROVE  Knows(nd[m], m)'
    BY DEF OfficeKnown, Knows
  <2>1. nd'[m] = IF m = n THEN r ELSE nd[m]
    BY DEF Inv, TypeOK
  <2>2. Knows(nd'[m], m)
    BY <2>1 DEF Inv, OfficeKnown, Sound, Knows
  <2>3. QED
    BY <2>2 DEF Knows, InOffice
<1>4. QED
  BY <1>2, <1>3 DEF Inv

LEMMA HandleSound ==
  ASSUME Inv, NEW n \in Node, NEW r \in Sound(n), NEW out \in Seq(Frame),
         inbox[n] # <<>>, Handle(n, r, out)
  PROVE  Inv'
<1>1. n \in Station /\ inbox \in [Station -> Seq(Frame)] /\ bench \in Plan
  BY DEF Inv, TypeOK, Station
<1>2. Pop(n) \in [Station -> Seq(Frame)]
  BY <1>1, PopType
<1>3. inbox' \in [Station -> Seq(Frame)]
  BY <1>2, SendType DEF Handle
<1>4. QED
  BY <1>1, <1>3, InvStep DEF Handle

LEMMA ActSound ==
  ASSUME Inv, NEW n \in Node, NEW r \in Sound(n), NEW out \in Seq(Frame),
         Act(n, r, out)
  PROVE  Inv'
<1>1. inbox \in [Station -> Seq(Frame)] /\ bench \in Plan
  BY DEF Inv, TypeOK
<1>2. inbox' \in [Station -> Seq(Frame)]
  BY <1>1, SendType DEF Act
<1>3. QED
  BY <1>1, <1>2, InvStep DEF Act

---------------------------------------------------------------------------
(* Handlers and deadlines: each leaves the Node in a sound state.          *)
LEMMA HeadFrame ==
  ASSUME Inv, NEW n \in Node, NEW k, HeadIs(n, k)
  PROVE  inbox[n] # <<>> /\ Head(inbox[n]) \in Frame /\ Head(inbox[n]).kind = k
BY InvNode, PopType DEF HeadIs, Inv, TypeOK

LEMMA StartElectionSound ==
  ASSUME CoordinationAssumption, NEW n \in Node, NEW r \in Sound(n)
  PROVE  StartElection(r, n) \in Sound(n) /\ Announcement(r, n) \in Seq(Frame)
<1> DEFINE q == [r EXCEPT !.mode = "ELECTION",
                          !.previousLeader = IF r.leaderId # 0 THEN r.leaderId ELSE @,
                          !.leaderId = 0, !.tick = 0, !.accepted = FALSE,
                          !.known = {n}, !.timer = 0]
<1>1. q \in NodeState
  BY Ranges DEF Sound, NodeState, Mode
<1>2. Knows(q, n)
  BY DEF Sound, Knows, InOffice, NodeState
<1>3. q \in Sound(n)
  BY <1>1, <1>2 DEF Sound
<1>4. Update(q, n, "OK") \in Sound(n)
  BY <1>3, StatusSound DEF Status
<1>5. StartElection(r, n) \in Sound(n)
  BY <1>4 DEF StartElection
<1>6. Announcement(r, n) \in Seq(Frame)
  BY FrameTypes, NothingSent DEF Announcement
<1>7. QED
  BY <1>5, <1>6

LEMMA OnStartSound ==
  ASSUME CoordinationAssumption, Inv, NEW n \in Node, OnStart(n)
  PROVE  Inv'
<1>1. inbox[n] # <<>> /\ nd[n] \in Sound(n)
  BY HeadFrame, InvNode DEF OnStart
<1>2. StartElection(nd[n], n) \in Sound(n) /\ Announcement(nd[n], n) \in Seq(Frame)
  BY <1>1, StartElectionSound
<1>3. CASE Addressed(Head(inbox[n]), n)
  BY <1>1, <1>2, <1>3, HandleSound DEF OnStart
<1>4. CASE ~Addressed(Head(inbox[n]), n)
  <2>1. Handle(n, nd[n], <<>>)
    BY <1>4 DEF OnStart
  <2>2. QED
    BY <1>1, <2>1, NothingSent, HandleSound
<1>5. QED
  BY <1>3, <1>4

LEMMA OnElectionSound ==
  ASSUME Inv, NEW n \in Node, OnElection(n)
  PROVE  Inv'
<1> DEFINE other == Head(inbox[n]).node
           seen  == MarkSeen(Update(Register(nd[n], other), other, "OK"), other)
           r     == IF nd[n].mode = "ELECTION" THEN seen ELSE nd[n]
<1>1. inbox[n] # <<>> /\ other \in Node /\ nd[n] \in Sound(n)
  BY HeadFrame, FrameFields, InvNode DEF OnElection, NodeKinds
<1>2. Register(nd[n], other) \in Sound(n)
  BY <1>1, StatusSound DEF Status
<1>3. Update(Register(nd[n], other), other, "OK") \in Sound(n)
  BY <1>1, <1>2, StatusSound DEF Status
<1>4. seen \in Sound(n)
  BY <1>1, <1>3, StatusSound DEF Status
<1>5. r \in Sound(n)
  BY <1>1, <1>4
<1>6. Handle(n, r, <<>>)
  BY DEF OnElection
<1>7. QED
  BY <1>1, <1>5, <1>6, NothingSent, HandleSound

LEMMA FinishElectionSound ==
  ASSUME CoordinationAssumption, Inv, NEW n \in Node, FinishElection(n)
  PROVE  Inv'
<1>1. PICK e \in Node : FinishElection(n)!2!(e)
  BY DEF FinishElection
<1> DEFINE r == [nd[n] EXCEPT !.leaderId = e, !.previousLeader = 0, !.timer = 0,
                   !.mode = IF e = n THEN "RECOVERING" ELSE "FOLLOWER"]
<1>2. nd[n] \in NodeState /\ n # 0 /\ 0 \in 0..Horizon
  BY InvNode, Ranges
<1>3. r \in NodeState
  BY <1>2 DEF NodeState, Mode
<1>4. Knows(r, n)
  BY <1>2 DEF NodeState, Knows, InOffice
<1>5. r \in Sound(n)
  BY <1>3, <1>4 DEF Sound
<1>6. Update(r, n, "LEADER") \in Sound(n) /\ Update(r, n, "OK") \in Sound(n)
  BY <1>5, StatusSound DEF Status
<1>7. /\ <<StateFrame(n, "LEADER"), RequestFrame(Broadcast)>> \in Seq(Frame)
      /\ <<StateFrame(n, "OK")>> \in Seq(Frame)
  BY FrameTypes DEF Status, Target
<1>8. CASE e = n
  <2>1. Act(n, Update(r, n, "LEADER"), <<StateFrame(n, "LEADER"), RequestFrame(Broadcast)>>)
    BY <1>1, <1>8
  <2>2. QED
    BY <1>6, <1>7, <2>1, ActSound
<1>9. CASE e # n
  <2>1. Act(n, Update(r, n, "OK"), <<StateFrame(n, "OK")>>)
    BY <1>1, <1>9
  <2>2. QED
    BY <1>6, <1>7, <2>1, ActSound
<1>10. QED
  BY <1>8, <1>9

LEMMA FinishRecoverySound ==
  ASSUME CoordinationAssumption, Inv, NEW n \in Node, FinishRecovery(n)
  PROVE  Inv'
<1> DEFINE r   == [nd[n] EXCEPT !.mode = "LEADER", !.timer = 0]
           out == <<LeaderFrame(n), StateFrame(n, "LEADER")>>
<1>1. nd[n] \in Sound(n) /\ nd[n] \in NodeState /\ nd[n].mode = "RECOVERING"
  BY InvNode DEF FinishRecovery, RecoveryDue
<1>2. r \in NodeState
  BY <1>1, Ranges DEF NodeState, Mode
<1>3. Knows(r, n)
  BY <1>1 DEF Sound, Knows, InOffice, NodeState
<1>4. r \in Sound(n)
  BY <1>2, <1>3 DEF Sound
<1>5. Update(r, n, "LEADER") \in Sound(n)
  BY <1>4, StatusSound DEF Status
<1>6. out \in Seq(Frame)
  BY FrameTypes DEF Status
<1>7. Act(n, Update(r, n, "LEADER"), out)
  BY DEF FinishRecovery
<1>8. QED
  BY <1>5, <1>6, <1>7, ActSound

LEMMA ConflictSound ==
  ASSUME CoordinationAssumption, Inv, NEW n \in Node, NEW other \in Node,
         inbox[n] # <<>>, Conflict(n, other)
  PROVE  Inv'
<1> DEFINE r == Update(nd[n], n, "CONFLICT")
           q == [r EXCEPT !.mode = "FOLLOWER", !.leaderId = other, !.timer = 0]
<1>1. r \in Sound(n)
  BY InvNode, StatusSound DEF Status
<1>2. q \in NodeState
  BY <1>1, Ranges DEF Sound, NodeState, Mode
<1>3. Knows(q, n)
  BY <1>1 DEF Sound, NodeState, Knows, InOffice
<1>4. Update(q, n, "OK") \in Sound(n)
  BY <1>2, <1>3, StatusSound DEF Sound, Status
<1>5. /\ <<StateFrame(n, "CONFLICT"), StateFrame(n, "OK")>> \in Seq(Frame)
      /\ <<StateFrame(n, "CONFLICT"), StartFrame(Broadcast)>> \in Seq(Frame)
  BY FrameTypes DEF Status, Target
<1>6. CASE other > n
  <2>1. Handle(n, Update(q, n, "OK"), <<StateFrame(n, "CONFLICT"), StateFrame(n, "OK")>>)
    BY <1>6 DEF Conflict
  <2>2. QED
    BY <1>4, <1>5, <2>1, HandleSound
<1>7. CASE ~(other > n)
  <2>1. Handle(n, r, <<StateFrame(n, "CONFLICT"), StartFrame(Broadcast)>>)
    BY <1>7 DEF Conflict
  <2>2. QED
    BY <1>1, <1>5, <2>1, HandleSound
<1>8. QED
  BY <1>6, <1>7

(* A Node that hears of a leader while it neither leads nor recovers keeps *)
(* or changes leader, and keeps its state or becomes FOLLOWER.             *)
LEMMA OnLeaderSound ==
  ASSUME CoordinationAssumption, Inv, NEW n \in Node, OnLeader(n)
  PROVE  Inv'
<1> DEFINE announced == Head(inbox[n]).node
           r == MarkSeen(Update(nd[n], announced, "LEADER"), announced)
           named  == [r EXCEPT !.leaderId = announced]
           follow == [r EXCEPT !.leaderId = announced, !.mode = "FOLLOWER", !.timer = 0]
<1>1. inbox[n] # <<>> /\ announced \in Node /\ nd[n] \in Sound(n)
  BY HeadFrame, FrameFields, InvNode DEF OnLeader, NodeKinds
<1>2. r \in Sound(n)
  <2>1. Update(nd[n], announced, "LEADER") \in Sound(n)
    BY <1>1, StatusSound DEF Status
  <2>2. QED
    BY <1>1, <2>1, StatusSound DEF Status
<1>3. CASE InOffice(nd[n])
  <2>1. Conflict(n, announced)
    BY <1>3 DEF OnLeader
  <2>2. QED
    BY <1>1, <2>1, ConflictSound
<1>4. CASE ~InOffice(nd[n]) /\ r.mode = "JOINING"
  <2>1. Handle(n, r, <<>>)
    BY <1>4 DEF OnLeader
  <2>2. QED
    BY <1>1, <1>2, <2>1, NothingSent, HandleSound
<1>5. CASE ~InOffice(nd[n]) /\ r.mode = "FAULT"
  <2>1. Handle(n, named, <<>>)
    BY <1>5 DEF OnLeader
  <2>2. named \in Sound(n)
    BY <1>1, <1>2, <1>5 DEF Sound, Knows, InOffice, NodeState
  <2>3. QED
    BY <1>1, <2>1, <2>2, NothingSent, HandleSound
<1>6. CASE ~InOffice(nd[n]) /\ r.mode \notin {"JOINING", "FAULT"}
  <2>1. Handle(n, follow, <<>>)
    BY <1>6 DEF OnLeader
  <2>2. follow \in Sound(n)
    BY <1>1, <1>2, Ranges DEF Sound, Knows, InOffice, NodeState, Mode
  <2>3. QED
    BY <1>1, <2>1, <2>2, NothingSent, HandleSound
<1>7. QED
  BY <1>3, <1>4, <1>5, <1>6

LEMMA BeginJoinSound ==
  ASSUME CoordinationAssumption, NEW n \in Node, NEW leader \in Node, NEW r \in Sound(n)
  PROVE  BeginJoin(r, n, leader) \in Sound(n)
<1> DEFINE q == [r EXCEPT !.leaderId = leader, !.mode = "JOINING", !.attempts = 0,
                          !.accepted = FALSE, !.timer = JoinRetryTicks]
<1>1. q \in NodeState
  BY Ranges DEF Sound, NodeState, Mode
<1>2. Knows(q, n)
  BY DEF Sound, NodeState, Knows, InOffice
<1>3. QED
  BY <1>1, <1>2, StatusSound DEF BeginJoin, Sound, Status

LEMMA FollowHeartbeatSound ==
  ASSUME CoordinationAssumption, Inv, NEW n \in Node, inbox[n] # <<>>,
         NEW beat \in Frame, beat.node \in Node,
         NEW r \in Sound(n), r.mode = "FOLLOWER", FollowHeartbeat(n, r, beat)
  PROVE  Inv'
<1> DEFINE s == [r EXCEPT !.leaderId = IF beat.node > @ THEN beat.node ELSE @]
           t == [s EXCEPT !.timer = 0]
<1>1. s \in NodeState /\ s.mode = "FOLLOWER"
  BY DEF Sound, NodeState
<1>2. t \in NodeState /\ t.mode = "FOLLOWER"
  BY <1>1, Ranges DEF NodeState
<1>3. s \in Sound(n) /\ t \in Sound(n)
  BY <1>1, <1>2 DEF Sound, Knows, InOffice
<1>4. MarkSeen(t, n) \in Sound(n) /\ <<SensorFrame(n)>> \in Seq(Frame)
  BY <1>3, StatusSound, FrameTypes DEF Status
<1>5. \/ Handle(n, s, <<>>)
      \/ Handle(n, MarkSeen(t, n), <<SensorFrame(n)>>)
      \/ Handle(n, t, <<>>)
  BY DEF FollowHeartbeat
<1>6. QED
  BY <1>3, <1>4, <1>5, NothingSent, HandleSound

LEMMA OnHeartbeatSound ==
  ASSUME CoordinationAssumption, Inv, NEW n \in Node, OnHeartbeat(n)
  PROVE  Inv'
<1> DEFINE beat == Head(inbox[n])
           q == [nd[n] EXCEPT !.rate = beat.rate]
           r == MarkSeen(Update(q, beat.node, "LEADER"), beat.node)
           enter == [r EXCEPT !.mode = "FOLLOWER", !.accepted = FALSE, !.timer = 0]
<1>1. /\ inbox[n] # <<>> /\ beat \in Frame /\ beat.kind = "HEARTBEAT"
      /\ nd[n] \in Sound(n) /\ nd[n] \in NodeState
  BY HeadFrame, InvNode DEF OnHeartbeat
<1>2. beat.node \in Node /\ beat.rate \in Rates
  BY <1>1, FrameFields DEF NodeKinds
<1>3. q \in Sound(n)
  BY <1>1, <1>2 DEF Sound, Knows, InOffice, NodeState
<1>4. r \in Sound(n)
  <2>1. Update(q, beat.node, "LEADER") \in Sound(n)
    BY <1>2, <1>3, StatusSound DEF Status
  <2>2. QED
    BY <1>2, <2>1, StatusSound DEF Status
<1>5. CASE InOffice(nd[n])
  <2>1. Conflict(n, beat.node)
    BY <1>5 DEF OnHeartbeat
  <2>2. QED
    BY <1>1, <1>2, <2>1, ConflictSound
<1>6. CASE Handle(n, BeginJoin(r, n, beat.node), <<>>)
  BY <1>1, <1>2, <1>4, <1>6, BeginJoinSound, NothingSent, HandleSound
<1>7. CASE Handle(n, Update(enter, n, "OK"), <<StateFrame(n, "OK")>>)
  <2>1. enter \in Sound(n)
    BY <1>4, Ranges DEF Sound, Knows, InOffice, NodeState, Mode
  <2>2. Update(enter, n, "OK") \in Sound(n) /\ <<StateFrame(n, "OK")>> \in Seq(Frame)
    BY <2>1, StatusSound, FrameTypes DEF Status
  <2>3. QED
    BY <1>1, <1>7, <2>2, HandleSound
<1>8. CASE r.mode = "FOLLOWER" /\ FollowHeartbeat(n, r, beat)
  BY <1>1, <1>2, <1>4, <1>8, FollowHeartbeatSound
<1>9. CASE Handle(n, r, <<>>)
  BY <1>1, <1>4, <1>9, NothingSent, HandleSound
<1>10. QED
  BY <1>5, <1>6, <1>7, <1>8, <1>9 DEF OnHeartbeat

LEMMA OnSensorSound ==
  ASSUME Inv, NEW n \in Node, OnSensor(n)
  PROVE  Inv'
<1> DEFINE from == Head(inbox[n]).node
           r == MarkSeen(Register(nd[n], from), from)
<1>1. inbox[n] # <<>> /\ from \in Node /\ nd[n] \in Sound(n)
  BY HeadFrame, FrameFields, InvNode DEF OnSensor, NodeKinds
<1>2. Register(nd[n], from) \in Sound(n)
  BY <1>1, StatusSound DEF Status
<1>3. r \in Sound(n)
  BY <1>1, <1>2, StatusSound DEF Status
<1>4. Update(r, from, "OK") \in Sound(n)
  BY <1>1, <1>3, StatusSound DEF Status
<1>5. Handle(n, Update(r, from, "OK"), <<>>)
  BY DEF OnSensor
<1>6. QED
  BY <1>1, <1>4, <1>5, NothingSent, HandleSound

(* The number of active Nodes a heartbeat announces is a number.           *)
LEMMA ActiveCount ==
  ASSUME CoordinationAssumption, NEW r \in NodeState
  PROVE  Cardinality(ActiveForTdma(r)) \in Nat
<1>1. IsFiniteSet(Node) /\ ActiveForTdma(r) \in SUBSET Node
  BY DEF CoordinationAssumption, ActiveForTdma, NodeState
<1>2. IsFiniteSet(ActiveForTdma(r))
  BY <1>1, FS_Subset
<1>3. QED
  BY <1>2, FS_CardinalityType

LEMMA SendHeartbeatSound ==
  ASSUME CoordinationAssumption, Inv, NEW n \in Node, SendHeartbeat(n)
  PROVE  Inv'
<1> DEFINE r == nd[n]
           beat == [kind |-> "HEARTBEAT", node |-> n, tick |-> r.tick,
                    active |-> Cardinality(ActiveForTdma(r)), rate |-> r.rate]
           next == [r EXCEPT !.timer = 0, !.tick = (@ + 1) % TickMod]
<1>1. r \in Sound(n) /\ r \in NodeState
  BY InvNode
<1>2. r.tick \in Nat /\ r.tick \in 0..(TickMod - 1) /\ r.rate \in Rates
  BY <1>1 DEF NodeState
<1>3. (r.tick + 1) % TickMod \in 0..(TickMod - 1)
  BY <1>2, Ranges
<1>4. next \in NodeState
  BY <1>1, <1>3, Ranges DEF NodeState
<1>5. next \in Sound(n)
  BY <1>1, <1>4 DEF Sound, Knows, InOffice, NodeState
<1>6. beat \in Frame
  <2>1. Cardinality(ActiveForTdma(r)) \in Nat
    BY <1>1, ActiveCount
  <2>2. QED
    BY <1>2, <2>1 DEF Frame
<1>7. CASE IsSyncTick(r.tick)
  <2>1. PICK m \in Node : Act(n, next, <<StateFrame(m, r.status[m]), beat>>)
    BY <1>7 DEF SendHeartbeat
  <2>2. r.status[m] \in Status
    BY <1>1 DEF NodeState
  <2>3. StateFrame(m, r.status[m]) \in Frame
    BY <2>2, FrameTypes
  <2>4. <<StateFrame(m, r.status[m]), beat>> \in Seq(Frame)
    BY <1>6, <2>3
  <2>5. QED
    BY <1>5, <2>1, <2>4, ActSound
<1>8. CASE ~IsSyncTick(r.tick)
  <2>1. Act(n, next, <<beat>>)
    BY <1>8 DEF SendHeartbeat
  <2>2. <<beat>> \in Seq(Frame)
    BY <1>6
  <2>3. QED
    BY <1>5, <2>1, <2>2, ActSound
<1>9. QED
  BY <1>7, <1>8

LEMMA JoinProcessSound ==
  ASSUME CoordinationAssumption, Inv, NEW n \in Node, JoinProcess(n)
  PROVE  Inv'
<1> DEFINE r == nd[n]
           giveUp == [r EXCEPT !.mode = "IDLE", !.attempts = 0, !.timer = 0]
           retry  == [r EXCEPT !.attempts = @ + 1, !.timer = 0]
<1>1. r \in Sound(n) /\ r \in NodeState
  BY InvNode
<1>2. CASE r.attempts >= JoinMaxAttempts
  <2>1. Act(n, giveUp, <<>>)
    BY <1>2 DEF JoinProcess
  <2>2. giveUp \in Sound(n)
    BY <1>1, Ranges DEF Sound, Knows, InOffice, NodeState, Mode
  <2>3. QED
    BY <2>1, <2>2, NothingSent, ActSound
<1>3. CASE ~(r.attempts >= JoinMaxAttempts)
  <2>1. Act(n, retry, <<JoinFrame(n)>>)
    BY <1>3 DEF JoinProcess
  <2>2. r.attempts + 1 \in 0..JoinMaxAttempts
    BY <1>1, <1>3, Ranges DEF NodeState
  <2>3. retry \in Sound(n)
    BY <1>1, <2>2, Ranges DEF Sound, Knows, InOffice, NodeState
  <2>4. <<JoinFrame(n)>> \in Seq(Frame)
    BY FrameTypes
  <2>5. QED
    BY <2>1, <2>3, <2>4, ActSound
<1>4. QED
  BY <1>2, <1>3

LEMMA OnJoinRequestSound ==
  ASSUME Inv, NEW n \in Node, OnJoinRequest(n)
  PROVE  Inv'
<1> DEFINE joining == Head(inbox[n]).node
           r == MarkSeen(Update(Register(nd[n], joining), joining, "JOINING"), joining)
           a == Update(r, joining, "OK")
           answer == <<AcceptFrame(joining, r.leaderId), StateFrame(joining, "OK"),
                       TableFrame(a.status)>>
<1>1. inbox[n] # <<>> /\ joining \in Node /\ nd[n] \in Sound(n)
  BY HeadFrame, FrameFields, InvNode DEF OnJoinRequest, NodeKinds
<1>2. Register(nd[n], joining) \in Sound(n)
  BY <1>1, StatusSound DEF Status
<1>3. Update(Register(nd[n], joining), joining, "JOINING") \in Sound(n)
  BY <1>1, <1>2, StatusSound DEF Status
<1>4. r \in Sound(n)
  BY <1>1, <1>3, StatusSound DEF Status
<1>5. a \in Sound(n)
  BY <1>1, <1>4, StatusSound DEF Status
<1>6. CASE r.mode = "LEADER"
  <2>1. r.leaderId = n
    BY <1>4, <1>6 DEF Sound, Knows, InOffice
  <2>2. a.status \in [Node -> Status]
    BY <1>5 DEF Sound, NodeState
  <2>3. answer \in Seq(Frame)
    <3>1. AcceptFrame(joining, r.leaderId) \in Frame
      BY <1>1, <2>1, FrameTypes
    <3>2. StateFrame(joining, "OK") \in Frame
      BY <1>1, FrameTypes DEF Status
    <3>3. TableFrame(a.status) \in Frame
      BY <2>2, FrameTypes
    <3>4. QED
      BY <3>1, <3>2, <3>3
  <2>4. Handle(n, a, answer)
    BY <1>6 DEF OnJoinRequest
  <2>5. QED
    BY <1>1, <1>5, <2>3, <2>4, HandleSound
<1>7. CASE r.mode # "LEADER"
  <2>1. Handle(n, r, <<>>)
    BY <1>7 DEF OnJoinRequest
  <2>2. QED
    BY <1>1, <1>4, <2>1, NothingSent, HandleSound
<1>8. QED
  BY <1>6, <1>7

LEMMA OnJoinAcceptSound ==
  ASSUME Inv, NEW n \in Node, OnJoinAccept(n)
  PROVE  Inv'
<1> DEFINE f == Head(inbox[n])
           q == [Register(nd[n], n) EXCEPT !.leaderId = f.leader, !.accepted = TRUE]
<1>1. inbox[n] # <<>> /\ f.leader \in Node /\ nd[n] \in Sound(n)
  BY HeadFrame, FrameFields, InvNode DEF OnJoinAccept
<1>2. CASE f.target = n /\ nd[n].mode = "JOINING"
  <2>1. Register(nd[n], n) \in Sound(n) /\ Register(nd[n], n).mode = "JOINING"
    BY <1>1, <1>2, StatusSound DEF Status, Register, Sound, NodeState
  <2>2. q \in Sound(n)
    BY <1>1, <2>1 DEF Sound, Knows, InOffice, NodeState
  <2>3. Update(q, n, "JOINING") \in Sound(n)
    BY <2>2, StatusSound DEF Status
  <2>4. Handle(n, Update(q, n, "JOINING"), <<>>)
    BY <1>2 DEF OnJoinAccept
  <2>5. QED
    BY <1>1, <2>3, <2>4, NothingSent, HandleSound
<1>3. CASE ~(f.target = n /\ nd[n].mode = "JOINING")
  <2>1. Handle(n, nd[n], <<>>)
    BY <1>3 DEF OnJoinAccept
  <2>2. QED
    BY <1>1, <2>1, NothingSent, HandleSound
<1>4. QED
  BY <1>2, <1>3

(* The frames of the replicated table.                                     *)
LEMMA OnStateSound ==
  ASSUME Inv, NEW n \in Node, OnState(n)
  PROVE  Inv'
<1> DEFINE f == Head(inbox[n])
           r == Update(Register(nd[n], f.node), f.node, f.status)
<1>1. inbox[n] # <<>> /\ f.node \in Node /\ f.status \in Status /\ nd[n] \in Sound(n)
  BY HeadFrame, FrameFields, InvNode DEF OnState, NodeKinds
<1>2. Register(nd[n], f.node) \in Sound(n)
  BY <1>1, StatusSound
<1>3. r \in Sound(n)
  BY <1>1, <1>2, StatusSound
<1>4. MarkSeen(r, f.node) \in Sound(n)
  BY <1>1, <1>3, StatusSound
<1>5. Handle(n, MarkSeen(r, f.node), <<>>)
  BY DEF OnState
<1>6. QED
  BY <1>1, <1>4, <1>5, NothingSent, HandleSound

LEMMA OnTableSound ==
  ASSUME Inv, NEW n \in Node, OnTable(n)
  PROVE  Inv'
<1> DEFINE t == Head(inbox[n]).table
           listed == {m \in Node : t[m] # "UNKNOWN"}
           status == [m \in Node |-> IF m \in listed /\ ~Protected(nd[n], m, t[m])
                                     THEN t[m] ELSE nd[n].status[m]]
           seen   == [m \in Node |-> IF m \in listed THEN 0 ELSE nd[n].seen[m]]
           r == [nd[n] EXCEPT !.known = @ \cup listed, !.status = status, !.seen = seen]
<1>1. inbox[n] # <<>> /\ t \in [Node -> Status] /\ nd[n] \in Sound(n) /\ nd[n] \in NodeState
  BY HeadFrame, FrameFields, InvNode DEF OnTable
<1>2. status \in [Node -> Status] /\ seen \in [Node -> Nat]
  BY <1>1 DEF NodeState
<1>3. r \in Sound(n)
  <2> HIDE DEF status, seen
  <2>1. r \in NodeState
    BY <1>1, <1>2 DEF NodeState
  <2>2. Knows(r, n)
    BY <1>1 DEF Sound, Knows, InOffice, NodeState
  <2>3. QED
    BY <2>1, <2>2 DEF Sound
<1>4. Handle(n, r, <<>>)
  BY DEF OnTable
<1>5. QED
  BY <1>1, <1>3, <1>4, NothingSent, HandleSound

LEMMA OnForceSound ==
  ASSUME Inv, NEW n \in Node, OnForce(n)
  PROVE  Inv'
<1> DEFINE f == Head(inbox[n])
           r == ForceStatus(Register(nd[n], f.node), f.node, f.status)
<1>1. inbox[n] # <<>> /\ f.node \in Node /\ f.status \in Status /\ nd[n] \in Sound(n)
  BY HeadFrame, FrameFields, InvNode DEF OnForce, NodeKinds
<1>2. Register(nd[n], f.node) \in Sound(n)
  BY <1>1, StatusSound
<1>3. r \in Sound(n)
  BY <1>1, <1>2, StatusSound
<1>4. Handle(n, r, <<>>)
  BY DEF OnForce
<1>5. QED
  BY <1>1, <1>3, <1>4, NothingSent, HandleSound

LEMMA OnStatusRequestSound ==
  ASSUME Inv, NEW n \in Node, OnStatusRequest(n)
  PROVE  Inv'
<1> DEFINE s == LocalStatus(nd[n])
           out == <<[kind |-> "STATUS_RESPONSE", node |-> n, status |-> s]>>
<1>1. inbox[n] # <<>> /\ nd[n] \in Sound(n)
  BY HeadFrame, InvNode DEF OnStatusRequest
<1>2. s \in Status
  BY DEF LocalStatus, Status
<1>3. Update(nd[n], n, s) \in Sound(n)
  BY <1>1, <1>2, StatusSound
<1>4. out \in Seq(Frame)
  <2> HIDE DEF s
  <2>1. [kind |-> "STATUS_RESPONSE", node |-> n, status |-> s] \in Frame
    BY <1>2 DEF Frame
  <2>2. QED
    BY <2>1
<1>5. Handle(n, Update(nd[n], n, s), out) \/ Handle(n, nd[n], <<>>)
  BY DEF OnStatusRequest
<1>6. QED
  BY <1>1, <1>3, <1>4, <1>5, NothingSent, HandleSound

LEMMA OnStatusResponseSound ==
  ASSUME Inv, NEW n \in Node, OnStatusResponse(n)
  PROVE  Inv'
<1> DEFINE f == Head(inbox[n])
<1>1. inbox[n] # <<>> /\ f.node \in Node /\ f.status \in Status /\ nd[n] \in Sound(n)
  BY HeadFrame, FrameFields, InvNode DEF OnStatusResponse, NodeKinds
<1>2. Update(nd[n], f.node, f.status) \in Sound(n)
  BY <1>1, StatusSound
<1>3. Handle(n, Update(nd[n], f.node, f.status), <<>>)
  BY DEF OnStatusResponse
<1>4. QED
  BY <1>1, <1>2, <1>3, NothingSent, HandleSound

LEMMA OnSensorControlSound ==
  ASSUME CoordinationAssumption, Inv, NEW n \in Node, OnSensorControl(n)
  PROVE  Inv'
<1> DEFINE r == nd[n]
           on    == [r EXCEPT !.sensorEnabled = TRUE]
           off   == [r EXCEPT !.sensorEnabled = FALSE]
           fault == [r EXCEPT !.sensorEnabled = FALSE, !.mode = "FAULT"]
           clear == [r EXCEPT !.sensorEnabled = TRUE,
                              !.mode = IF @ = "FAULT" THEN "FOLLOWER" ELSE @,
                              !.timer = IF r.mode = "FAULT" THEN 0 ELSE @]
<1>1. inbox[n] # <<>> /\ r \in Sound(n) /\ r \in NodeState
  BY HeadFrame, InvNode DEF OnSensorControl
<1>2. on \in Sound(n) /\ off \in Sound(n)
  BY <1>1 DEF Sound, Knows, InOffice, NodeState
<1>3. fault \in Sound(n)
  BY <1>1 DEF Sound, Knows, InOffice, NodeState, Mode
<1>4. clear \in Sound(n)
  <2>1. clear \in NodeState
    BY <1>1, Ranges DEF Sound, NodeState, Mode
  <2>2. Knows(clear, n)
    BY <1>1 DEF Sound, Knows, InOffice, NodeState
  <2>3. QED
    BY <2>1, <2>2 DEF Sound
<1>5. /\ Update(on, n, "OK") \in Sound(n) /\ Update(off, n, "DISABLED") \in Sound(n)
      /\ Update(fault, n, "FAULT") \in Sound(n) /\ ForceStatus(clear, n, "OK") \in Sound(n)
  <2> HIDE DEF on, off, fault, clear
  <2> QED
    BY <1>2, <1>3, <1>4, StatusSound DEF Status
<1>6. /\ <<StateFrame(n, "OK")>> \in Seq(Frame) /\ <<StateFrame(n, "DISABLED")>> \in Seq(Frame)
      /\ <<StateFrame(n, "FAULT")>> \in Seq(Frame) /\ <<ForceFrame(n, "OK")>> \in Seq(Frame)
  BY FrameTypes DEF Status
<1>7. Head(inbox[n]).kind = "SENSOR_CTRL" /\ Head(inbox[n]) \in Frame
  BY HeadFrame DEF OnSensorControl
<1>8. Head(inbox[n]).action \in Action
  BY <1>7 DEF Frame
<1>9. \/ Handle(n, r, <<>>)
      \/ Handle(n, Update(on, n, "OK"), <<StateFrame(n, "OK")>>)
      \/ Handle(n, Update(off, n, "DISABLED"), <<StateFrame(n, "DISABLED")>>)
      \/ Handle(n, Update(fault, n, "FAULT"), <<StateFrame(n, "FAULT")>>)
      \/ Handle(n, ForceStatus(clear, n, "OK"), <<ForceFrame(n, "OK")>>)
  <2>1. CASE Head(inbox[n]).target # n
    BY <2>1 DEF OnSensorControl
  <2>2. CASE Head(inbox[n]).target = n /\ Head(inbox[n]).action = "OFF"
    BY <2>2 DEF OnSensorControl
  <2>3. CASE Head(inbox[n]).target = n /\ Head(inbox[n]).action = "ON"
    BY <2>3 DEF OnSensorControl
  <2>4. CASE Head(inbox[n]).target = n /\ Head(inbox[n]).action = "DISABLE_FAULT"
    BY <2>4 DEF OnSensorControl
  <2>5. CASE Head(inbox[n]).target = n /\ Head(inbox[n]).action = "CLEAR_FAULT"
    BY <2>5 DEF OnSensorControl
  <2>6. QED
    BY <1>8, <2>1, <2>2, <2>3, <2>4, <2>5 DEF Action
<1>10. QED
  <2> HIDE DEF on, off, fault, clear
  <2> QED
    BY <1>1, <1>5, <1>6, <1>9, NothingSent, HandleSound

LEMMA OnRateSound ==
  ASSUME Inv, NEW n \in Node, OnRate(n)
  PROVE  Inv'
<1> DEFINE f == Head(inbox[n])
           r == [nd[n] EXCEPT !.rate = f.rate]
<1>1. inbox[n] # <<>> /\ f.rate \in Rates /\ nd[n] \in Sound(n)
  BY HeadFrame, FrameFields, InvNode DEF OnRate
<1>2. r \in Sound(n)
  BY <1>1 DEF Sound, Knows, InOffice, NodeState
<1>3. Handle(n, r, <<>>)
  BY DEF OnRate
<1>4. QED
  BY <1>1, <1>2, <1>3, NothingSent, HandleSound

LEMMA DeclareAbsentSound ==
  ASSUME Inv, NEW n \in Node, NEW m \in Node, DeclareAbsent(n, m)
  PROVE  Inv'
<1>1. Update(nd[n], m, "FAULT") \in Sound(n) /\ <<StateFrame(m, "FAULT")>> \in Seq(Frame)
  BY InvNode, StatusSound, FrameTypes DEF Status
<1>2. Act(n, Update(nd[n], m, "FAULT"), <<StateFrame(m, "FAULT")>>)
  BY DEF DeclareAbsent
<1>3. QED
  BY <1>1, <1>2, ActSound

LEMMA FollowerWatchdogSound ==
  ASSUME CoordinationAssumption, Inv, NEW n \in Node, FollowerWatchdog(n)
  PROVE  Inv'
<1>1. StartElection(nd[n], n) \in Sound(n)
  BY InvNode, StartElectionSound
<1>2. <<StartFrame(Broadcast), ElectionFrame(n)>> \in Seq(Frame)
  BY FrameTypes DEF Target
<1>3. Act(n, StartElection(nd[n], n), <<StartFrame(Broadcast), ElectionFrame(n)>>)
  BY DEF FollowerWatchdog
<1>4. QED
  BY <1>1, <1>2, <1>3, ActSound

---------------------------------------------------------------------------
(* Probe, operator, bench and time: they change no leader.                 *)
LEMMA InvRest ==
  ASSUME Inv, UNCHANGED nd, TypeOK'
  PROVE  Inv'
BY DEF Inv, OfficeKnown, InOffice

LEMMA ProbeReceiveSound ==
  ASSUME CoordinationAssumption, Inv, ProbeReceive
  PROVE  Inv'
<1> DEFINE f == Head(inbox[Probe])
<1>1. Probe \in Station /\ inbox \in [Station -> Seq(Frame)] /\ inbox[Probe] # <<>>
  BY DEF Inv, TypeOK, Station, ProbeReceive
<1>2. inbox' \in [Station -> Seq(Frame)] /\ f \in Frame
  BY <1>1, PopType DEF ProbeReceive
<1>3. f.kind \in {"HEARTBEAT", "RATE"} => f.rate \in Rates
  BY <1>2, FrameFields
<1>4. probe' \in ProbeState
  <2>1. probe \in ProbeState
    BY DEF Inv, TypeOK
  <2>2. CASE f.kind = "HEARTBEAT"
    BY <1>3, <2>1, <2>2 DEF ProbeReceive, ProbeState
  <2>3. CASE f.kind = "LEADER"
    BY <2>1, <2>3 DEF ProbeReceive, ProbeState
  <2>4. CASE f.kind = "ELECTION"
    BY <2>1, <2>4 DEF ProbeReceive, ProbeState
  <2>5. CASE f.kind = "RATE"
    BY <1>3, <2>1, <2>5 DEF ProbeReceive, ProbeState
  <2>6. CASE f.kind \notin {"HEARTBEAT", "LEADER", "ELECTION", "RATE"}
    BY <2>1, <2>6 DEF ProbeReceive
  <2>7. QED
    BY <2>2, <2>3, <2>4, <2>5, <2>6
<1>5. UNCHANGED <<nd, power, bench>>
  BY DEF ProbeReceive
<1>6. TypeOK'
  BY <1>2, <1>4, <1>5 DEF Inv, TypeOK
<1>7. QED
  BY <1>5, <1>6, InvRest

LEMMA ProbeWatchdogSound ==
  ASSUME Inv, ProbeWatchdog
  PROVE  Inv'
<1>1. inbox \in [Station -> Seq(Frame)] /\ <<StartFrame(Broadcast)>> \in Seq(Frame)
  BY FrameTypes DEF Inv, TypeOK, Target
<1>2. inbox' \in [Station -> Seq(Frame)]
  BY <1>1, SendType DEF ProbeWatchdog
<1>3. probe' \in ProbeState
  BY DEF Inv, TypeOK, ProbeState, ProbeWatchdog
<1>4. UNCHANGED <<nd, power, bench>>
  BY DEF ProbeWatchdog
<1>5. TypeOK'
  BY <1>2, <1>3, <1>4 DEF Inv, TypeOK
<1>6. QED
  BY <1>4, <1>5, InvRest

LEMMA CountedType ==
  ASSUME bench \in Plan, Counted
  PROVE  bench' \in Plan
BY DEF Counted, Plan

LEMMA OperatorSound ==
  ASSUME CoordinationAssumption, Inv, Operator
  PROVE  Inv'
<1>1. inbox \in [Station -> Seq(Frame)] /\ bench \in Plan /\ probe \in ProbeState
  BY DEF Inv, TypeOK
<1>2. bench.menu \subseteq Frame
  BY <1>1 DEF Plan, Command
<1>3. ASSUME NEW f \in bench.menu, ProbeCommand(f)
      PROVE  Inv'
  <2>1. f \in Frame /\ <<f>> \in Seq(Frame)
    BY <1>2
  <2>2. inbox' \in [Station -> Seq(Frame)] /\ bench' \in Plan
    BY <1>1, <1>3, <2>1, SendType, CountedType DEF ProbeCommand
  <2>3. probe' \in ProbeState
    BY <1>1, <1>3, <2>1, FrameFields DEF ProbeCommand, ProbeState
  <2>4. UNCHANGED <<nd, power>>
    BY <1>3 DEF ProbeCommand
  <2>5. TypeOK'
    BY <2>2, <2>3, <2>4 DEF Inv, TypeOK
  <2>6. QED
    BY <2>4, <2>5, InvRest
<1>4. CASE ProbeStatusRefresh
  <2>1. <<RequestFrame(Broadcast)>> \in Seq(Frame)
    BY FrameTypes DEF Target
  <2>2. inbox' \in [Station -> Seq(Frame)] /\ bench' \in Plan
    BY <1>1, <1>4, <2>1, SendType, CountedType DEF ProbeStatusRefresh
  <2>3. UNCHANGED <<nd, power, probe>>
    BY <1>4 DEF ProbeStatusRefresh
  <2>4. TypeOK'
    BY <2>2, <2>3 DEF Inv, TypeOK, ProbeState
  <2>5. QED
    BY <2>3, <2>4, InvRest
<1>5. ASSUME NEW f \in bench.menu, NEW n \in Node, NodeCommand(n, f)
      PROVE  Inv'
  <2> DEFINE starts == f.kind = "START" /\ Addressed(f, n)
             r == IF starts THEN StartElection(nd[n], n)
                  ELSE IF f.kind = "RATE" THEN [nd[n] EXCEPT !.rate = f.rate] ELSE nd[n]
             echo == IF starts THEN Announcement(nd[n], n) ELSE <<>>
  <2>1. f \in Frame /\ nd[n] \in Sound(n)
    BY <1>2, InvNode
  <2>2. /\ StartElection(nd[n], n) \in Sound(n)
        /\ Announcement(nd[n], n) \in Seq(Frame)
    BY <2>1, StartElectionSound
  <2>3. f.kind = "RATE" => [nd[n] EXCEPT !.rate = f.rate] \in Sound(n)
    BY <2>1, FrameFields DEF Sound, Knows, InOffice, NodeState
  <2>4. r \in Sound(n)
    BY <2>1, <2>2, <2>3
  <2>5. <<f>> \o echo \in Seq(Frame)
    BY <2>1, <2>2
  <2>6. /\ nd' = [nd EXCEPT ![n] = r]
        /\ inbox' = Send(inbox, n, <<f>> \o echo)
        /\ UNCHANGED <<power, probe>> /\ Counted
    BY <1>5 DEF NodeCommand
  <2>7. inbox' \in [Station -> Seq(Frame)] /\ bench' \in Plan
    BY <1>1, <2>5, <2>6, SendType, CountedType
  <2>8. QED
    BY <2>4, <2>6, <2>7, InvStep
<1>6. QED
  BY <1>3, <1>4, <1>5 DEF Operator

LEMMA BootedSound ==
  ASSUME CoordinationAssumption, NEW n \in Node
  PROVE  Booted \in Sound(n)
<1>1. NormalRate \in Rates
  BY DEF CoordinationAssumption
<1>2. Booted \in NodeState
  BY <1>1, Ranges DEF Booted, NodeState, Mode, Status
<1>3. QED
  BY <1>2 DEF Booted, Sound, Knows, InOffice

LEMMA EmptiedType ==
  ASSUME Inv, NEW n \in Node
  PROVE  [inbox EXCEPT ![n] = <<>>] \in [Station -> Seq(Frame)]
BY NothingSent DEF Inv, TypeOK

LEMMA MayDisturbType ==
  ASSUME Inv, NEW n \in Node, NEW f, MayDisturb(n, f)
  PROVE  bench' \in Plan
BY DEF Inv, TypeOK, Plan, MayDisturb

(* A Node that is frozen, thawed, cut off or switched on keeps what it     *)
(* knows or forgets all of it.                                             *)
LEMMA BenchSound ==
  ASSUME CoordinationAssumption, Inv, NEW n \in Node,
         Freeze(n) \/ Thaw(n) \/ PowerOff(n) \/ PowerOn(n)
  PROVE  Inv'
<1>1. CASE Freeze(n)
  <2>1. bench' \in Plan
    BY <1>1, MayDisturbType DEF Freeze
  <2>2. inbox' \in [Station -> Seq(Frame)]
    BY <1>1, EmptiedType DEF Freeze
  <2>3. UNCHANGED nd /\ TypeOK'
    BY <1>1, <2>1, <2>2 DEF Inv, TypeOK, Freeze, ProbeState
  <2>4. QED
    BY <2>3, InvRest
<1>2. CASE Thaw(n)
  <2> DEFINE q == [nd[n] EXCEPT !.stalled = 0]
             rearmed == [q EXCEPT !.seen = [m \in Node |-> 0],
                                  !.timer = IF q.mode = "FOLLOWER" THEN 0 ELSE @]
             r == IF nd[n].stalled <= Period[nd[n].rate] THEN q ELSE rearmed
  <2>1. q \in Sound(n)
    <3>1. nd[n] \in NodeState /\ Knows(nd[n], n)
      BY InvNode DEF Sound
    <3>2. q \in NodeState
      BY <3>1 DEF NodeState
    <3>3. Knows(q, n)
      BY <3>1 DEF NodeState, Knows, InOffice
    <3>4. QED
      BY <3>2, <3>3 DEF Sound
  <2>2. rearmed \in Sound(n)
    <3> HIDE DEF q
    <3>1. [m \in Node |-> 0] \in [Node -> Nat]
      OBVIOUS
    <3>2. rearmed \in NodeState
      BY <2>1, <3>1, Ranges DEF Sound, NodeState
    <3>3. Knows(rearmed, n)
      BY <2>1 DEF Sound, NodeState, Knows, InOffice
    <3>4. QED
      BY <3>2, <3>3 DEF Sound
  <2>3. r \in Sound(n)
    BY <2>1, <2>2
  <2>4. nd' = [nd EXCEPT ![n] = r] /\ power' = [power EXCEPT ![n] = "UP"]
        /\ UNCHANGED <<inbox, probe, bench>>
    BY <1>2 DEF Thaw
  <2>5. nd' \in [Node -> NodeState]
    BY <2>3, <2>4 DEF Sound, Inv, TypeOK
  <2>6. TypeOK'
    BY <2>4, <2>5 DEF Inv, TypeOK, ProbeState
  <2>7. OfficeKnown'
    <3> SUFFICES ASSUME NEW m \in Node
                 PROVE  Knows(nd'[m], m)
      BY DEF OfficeKnown, Knows, InOffice
    <3>1. nd'[m] = IF m = n THEN r ELSE nd[m]
      BY <2>4 DEF Inv, TypeOK
    <3>2. QED
      BY <2>3, <3>1, InvNode DEF Sound
  <2>8. QED
    BY <2>6, <2>7 DEF Inv
<1>3. CASE PowerOff(n)
  <2>1. bench' \in Plan
    BY <1>3, MayDisturbType DEF PowerOff
  <2>2. inbox' \in [Station -> Seq(Frame)]
    BY <1>3, EmptiedType DEF PowerOff
  <2>3. nd' = [nd EXCEPT ![n] = Booted] /\ power' = [power EXCEPT ![n] = "OFF"]
        /\ UNCHANGED probe
    BY <1>3 DEF PowerOff
  <2>4. Booted \in Sound(n)
    BY BootedSound
  <2>5. TypeOK'
    BY <2>1, <2>2, <2>3, <2>4 DEF Sound, Inv, TypeOK, ProbeState
  <2>6. OfficeKnown'
    <3> SUFFICES ASSUME NEW m \in Node
                 PROVE  Knows(nd'[m], m)
      BY DEF OfficeKnown, Knows, InOffice
    <3>1. nd'[m] = IF m = n THEN Booted ELSE nd[m]
      BY <2>3 DEF Inv, TypeOK
    <3>2. QED
      BY <2>4, <3>1, InvNode DEF Sound
  <2>7. QED
    BY <2>5, <2>6 DEF Inv
<1>4. CASE PowerOn(n)
  <2>1. UNCHANGED nd /\ TypeOK'
    BY <1>4 DEF Inv, TypeOK, PowerOn, ProbeState
  <2>2. QED
    BY <2>1, InvRest
<1>5. QED
  BY <1>1, <1>2, <1>3, <1>4

LEMMA TickSound ==
  ASSUME CoordinationAssumption, Inv, Tick
  PROVE  Inv'
<1>1. ASSUME NEW n \in Node
      PROVE  Aged(n) \in Sound(n)
  <2> DEFINE r == nd[n]
             timer == IF Timed(r) THEN Older(r.timer) ELSE 0
             seen  == [m \in Node |-> IF m # n /\ r.status[m] = "OK" THEN Older(r.seen[m]) ELSE 0]
             stalled == IF power[n] = "SILENT" THEN Older(r.stalled) ELSE 0
  <2>1. r \in Sound(n) /\ r \in NodeState
    BY InvNode
  <2>2. timer \in 0..Horizon
    BY <2>1, Ranges DEF NodeState, Older
  <2>3. seen \in [Node -> Nat]
    BY <2>1, Ranges DEF NodeState, Older
  <2>4. stalled \in Nat
    BY <2>1, Ranges DEF NodeState, Older
  <2>5. Aged(n) = [r EXCEPT !.timer = timer, !.seen = seen, !.stalled = stalled]
    BY <2>1 DEF Aged, NodeState
  <2> HIDE DEF timer, seen, stalled
  <2>6. Aged(n) \in NodeState
    BY <2>1, <2>2, <2>3, <2>4, <2>5 DEF NodeState
  <2>7. Knows(Aged(n), n)
    BY <2>1, <2>5 DEF Sound, NodeState, Knows, InOffice
  <2>8. QED
    BY <2>6, <2>7 DEF Sound
<1>2. /\ nd' = [n \in Node |-> IF power[n] = "OFF" THEN nd[n] ELSE Aged(n)]
      /\ UNCHANGED <<power, inbox, bench>>
  BY DEF Tick
<1>3. \A n \in Node : nd'[n] \in Sound(n)
  BY <1>1, <1>2, InvNode
<1>4. nd' \in [Node -> NodeState]
  BY <1>2, <1>3 DEF Sound
<1>5. probe' \in ProbeState
  <2>1. probe \in ProbeState
    BY DEF Inv, TypeOK
  <2>2. Older(probe.timer) \in Nat
    BY <2>1, Ranges DEF ProbeState, Older
  <2>3. probe' = [probe EXCEPT !.timer = IF probe.hasLeader THEN Older(probe.timer) ELSE 0]
    BY <2>1 DEF Tick, ProbeState
  <2>4. QED
    BY <2>1, <2>2, <2>3 DEF ProbeState
<1>6. TypeOK'
  BY <1>2, <1>4, <1>5 DEF Inv, TypeOK
<1>7. OfficeKnown'
  BY <1>3 DEF OfficeKnown, Sound, Knows, InOffice
<1>8. QED
  BY <1>6, <1>7 DEF Inv

---------------------------------------------------------------------------
LEMMA InvInit ==
  ASSUME CoordinationAssumption, Init
  PROVE  Inv
<1>1. nd \in [Node -> NodeState]
  BY BootedSound DEF Init, Sound
<1>2. bench \in Plan
  BY DEF Init, CoordinationAssumption
<1>3. power \in [Node -> {"UP", "SILENT", "OFF"}]
  BY DEF Init
<1>4. inbox \in [Station -> Seq(Frame)]
  BY NothingSent DEF Init
<1>5. probe \in ProbeState
  BY DEF Init, ProbeState, CoordinationAssumption
<1>6. OfficeKnown
  BY BootedSound DEF Init, OfficeKnown, Sound, Knows
<1>7. QED
  BY <1>1, <1>2, <1>3, <1>4, <1>5, <1>6 DEF Inv, TypeOK

LEMMA ReceiveSound ==
  ASSUME CoordinationAssumption, Inv, NEW n \in Node, Receive(n)
  PROVE  Inv'
BY OnStartSound, OnElectionSound, OnLeaderSound, OnHeartbeatSound, OnSensorSound,
   OnJoinRequestSound, OnJoinAcceptSound, OnStateSound, OnTableSound, OnForceSound,
   OnStatusRequestSound, OnStatusResponseSound, OnSensorControlSound, OnRateSound
   DEF Receive

LEMMA DeadlineSound ==
  ASSUME CoordinationAssumption, Inv, NEW n \in Node, Deadline(n)
  PROVE  Inv'
BY FinishElectionSound, FinishRecoverySound, SendHeartbeatSound, JoinProcessSound,
   FollowerWatchdogSound, DeclareAbsentSound
   DEF Deadline

LEMMA NextSound ==
  ASSUME CoordinationAssumption, Inv, [Next]_vars
  PROVE  Inv'
<1>1. ASSUME NEW n \in Node,
             Receive(n) \/ Deadline(n) \/ Disturbance(n) \/ Thaw(n) \/ PowerOn(n)
      PROVE  Inv'
  BY <1>1, ReceiveSound, DeadlineSound, BenchSound DEF Disturbance
<1>2. CASE ProbeReceive
  BY <1>2, ProbeReceiveSound
<1>3. CASE ProbeWatchdog
  BY <1>3, ProbeWatchdogSound
<1>4. CASE Operator
  BY <1>4, OperatorSound
<1>5. CASE Tick
  BY <1>5, TickSound
<1>6. CASE UNCHANGED vars
  BY <1>6 DEF vars, Inv, TypeOK, OfficeKnown, InOffice, ProbeState
<1>7. QED
  BY <1>1, <1>2, <1>3, <1>4, <1>5, <1>6 DEF Next, Work

LEMMA Invariance == Spec => []Inv
<1> USE CoordinationAssumption
<1>1. Init => Inv
  BY InvInit
<1>2. Inv /\ [Next]_vars => Inv'
  BY NextSound
<1>3. QED
  BY <1>1, <1>2, PTL DEF Spec

(* Every Node, buffer and frame keeps its type, for every set of Nodes and *)
(* every plan of the bench: no handler stores an identifier that is not a  *)
(* Node, no counter of attempts or heartbeats leaves its range.            *)
THEOREM TypeCorrect == Spec => []TypeOK
<1>1. Inv => TypeOK
  BY DEF Inv
<1>2. QED
  BY <1>1, Invariance, PTL

(* Who leads or recovers names itself as leader and a candidate names      *)
(* nobody, for every set of Nodes, in every interleaving of handlers,      *)
(* deadlines, commands, freezes and losses of power (startElection,        *)
(* finishElection, handleLeaderConflict, handleLeaderMessage).             *)
THEOREM OfficeIsKnown == Spec => []OfficeKnown
<1>1. Inv => OfficeKnown
  BY DEF Inv
<1>2. QED
  BY <1>1, Invariance, PTL

---------------------------------------------------------------------------
(* A table q that records every fault of the table r.                      *)
Keeps(r, q) == \A m \in Node : r.status[m] = "FAULT" => q.status[m] = "FAULT"

(* Ordinary updates, and whatever leaves the table alone, keep faults.     *)
LEMMA KeepsTable ==
  ASSUME NEW r \in NodeState, NEW m \in Node, NEW s \in Status
  PROVE  /\ Keeps(r, Update(r, m, s))
         /\ Keeps(r, MarkSeen(r, m)) /\ Keeps(r, Register(r, m))
<1>1. Keeps(r, Update(r, m, s))
  BY DEF Keeps, Update, Protected, ForceStatus, NodeState
<1>2. Keeps(r, MarkSeen(r, m)) /\ Keeps(r, Register(r, m))
  BY DEF Keeps, MarkSeen, Register, NodeState
<1>3. QED
  BY <1>1, <1>2

LEMMA KeepsTwice ==
  ASSUME NEW r \in NodeState, NEW q, Keeps(r, q),
         q \in NodeState, NEW m \in Node, NEW s \in Status
  PROVE  /\ Keeps(r, Update(q, m, s)) /\ Update(q, m, s) \in NodeState
         /\ Keeps(r, MarkSeen(q, m)) /\ MarkSeen(q, m) \in NodeState
BY KeepsTable, StatusType DEF Keeps

LEMMA StartElectionKeeps ==
  ASSUME CoordinationAssumption, NEW n \in Node, NEW r \in Sound(n)
  PROVE  Keeps(r, StartElection(r, n))
<1> DEFINE q == [r EXCEPT !.mode = "ELECTION",
                          !.previousLeader = IF r.leaderId # 0 THEN r.leaderId ELSE @,
                          !.leaderId = 0, !.tick = 0, !.accepted = FALSE,
                          !.known = {n}, !.timer = 0]
<1>1. r \in NodeState
  BY DEF Sound
<1>2. q \in NodeState
  BY <1>1, Ranges DEF NodeState, Mode
<1>3. Keeps(r, q)
  BY <1>1 DEF Keeps, NodeState
<1>4. Keeps(r, Update(q, n, "OK"))
  BY <1>1, <1>2, <1>3, KeepsTwice DEF Status
<1>5. QED
  BY <1>4 DEF StartElection, Keeps

(* Nobody's record of a fault is erased.                                   *)
Kept == \A n, m \in Node : ~Erased(n, m)

LEMMA KeepsNode ==
  ASSUME Inv, NEW n \in Node, NEW r, nd' = [nd EXCEPT ![n] = r], Keeps(nd[n], r)
  PROVE  Kept
BY DEF Inv, TypeOK, Keeps, Kept, Erased

LEMMA StepKeeps ==
  ASSUME Inv, NEW n \in Node, NEW r, NEW out, Keeps(nd[n], r),
         Handle(n, r, out) \/ Act(n, r, out)
  PROVE  Kept
BY KeepsNode DEF Handle, Act

(* Handlers, one by one.                                                   *)
LEMMA ElectionKeeps ==
  ASSUME CoordinationAssumption, Inv, NEW n \in Node,
         OnStart(n) \/ OnElection(n) \/ FinishElection(n) \/ FinishRecovery(n)
           \/ FollowerWatchdog(n)
  PROVE  Kept
<1>1. nd[n] \in Sound(n) /\ nd[n] \in NodeState /\ Keeps(nd[n], nd[n])
  BY InvNode DEF Keeps
<1>2. Keeps(nd[n], StartElection(nd[n], n))
  BY <1>1, StartElectionKeeps
<1>3. CASE OnStart(n)
  BY <1>1, <1>2, <1>3, StepKeeps DEF OnStart
<1>4. CASE OnElection(n)
  <2> DEFINE other == Head(inbox[n]).node
             seen  == MarkSeen(Update(Register(nd[n], other), other, "OK"), other)
             r     == IF nd[n].mode = "ELECTION" THEN seen ELSE nd[n]
  <2>1. other \in Node
    BY <1>4, HeadFrame, FrameFields DEF OnElection, NodeKinds
  <2>2. Register(nd[n], other) \in NodeState /\ Keeps(nd[n], Register(nd[n], other))
    BY <1>1, <2>1, KeepsTable, StatusType DEF Status
  <2>3. /\ Update(Register(nd[n], other), other, "OK") \in NodeState
        /\ Keeps(nd[n], Update(Register(nd[n], other), other, "OK"))
    BY <1>1, <2>1, <2>2, KeepsTwice DEF Status
  <2>4. Keeps(nd[n], seen)
    BY <1>1, <2>1, <2>3, KeepsTwice DEF Status
  <2>5. Keeps(nd[n], r)
    BY <1>1, <2>4
  <2>6. Handle(n, r, <<>>)
    BY <1>4 DEF OnElection
  <2>7. QED
    BY <2>5, <2>6, StepKeeps
<1>5. CASE FinishElection(n)
  <2>1. PICK e \in Node : FinishElection(n)!2!(e)
    BY <1>5 DEF FinishElection
  <2> DEFINE r == [nd[n] EXCEPT !.leaderId = e, !.previousLeader = 0, !.timer = 0,
                     !.mode = IF e = n THEN "RECOVERING" ELSE "FOLLOWER"]
  <2>2. r \in NodeState
    BY <1>1, Ranges DEF NodeState, Mode
  <2>3. Keeps(nd[n], r)
    BY <1>1 DEF Keeps, NodeState
  <2>4. Keeps(nd[n], Update(r, n, "LEADER")) /\ Keeps(nd[n], Update(r, n, "OK"))
    BY <1>1, <2>2, <2>3, KeepsTwice DEF Status
  <2>5. \/ Act(n, Update(r, n, "LEADER"), <<StateFrame(n, "LEADER"), RequestFrame(Broadcast)>>)
        \/ Act(n, Update(r, n, "OK"), <<StateFrame(n, "OK")>>)
    BY <2>1
  <2>6. QED
    BY <2>4, <2>5, StepKeeps
<1>6. CASE FinishRecovery(n)
  <2> DEFINE r == [nd[n] EXCEPT !.mode = "LEADER", !.timer = 0]
  <2>1. r \in NodeState /\ Keeps(nd[n], r)
    BY <1>1, Ranges DEF NodeState, Mode, Keeps
  <2>2. Keeps(nd[n], Update(r, n, "LEADER"))
    BY <1>1, <2>1, KeepsTwice DEF Status
  <2>3. Act(n, Update(r, n, "LEADER"), <<LeaderFrame(n), StateFrame(n, "LEADER")>>)
    BY <1>6 DEF FinishRecovery
  <2>4. QED
    BY <2>2, <2>3, StepKeeps
<1>7. CASE FollowerWatchdog(n)
  BY <1>2, <1>7, StepKeeps DEF FollowerWatchdog
<1>8. QED
  BY <1>3, <1>4, <1>5, <1>6, <1>7

LEMMA ConflictKeeps ==
  ASSUME CoordinationAssumption, Inv, NEW n \in Node, NEW other \in Node, Conflict(n, other)
  PROVE  Kept
<1> DEFINE r == Update(nd[n], n, "CONFLICT")
           q == [r EXCEPT !.mode = "FOLLOWER", !.leaderId = other, !.timer = 0]
<1>1. nd[n] \in NodeState
  BY InvNode
<1>2. r \in NodeState /\ Keeps(nd[n], r)
  BY <1>1, KeepsTable, StatusType DEF Status
<1>3. q \in NodeState
  <2> HIDE DEF r
  <2> QED
    BY <1>2, Ranges DEF NodeState, Mode
<1>4. Keeps(nd[n], q)
  <2> HIDE DEF r
  <2> QED
    BY <1>2 DEF NodeState, Keeps
<1>5. Keeps(nd[n], Update(q, n, "OK"))
  BY <1>1, <1>3, <1>4, KeepsTwice DEF Status
<1>6. \/ Handle(n, Update(q, n, "OK"), <<StateFrame(n, "CONFLICT"), StateFrame(n, "OK")>>)
      \/ Handle(n, r, <<StateFrame(n, "CONFLICT"), StartFrame(Broadcast)>>)
  BY DEF Conflict
<1>7. QED
  BY <1>2, <1>5, <1>6, StepKeeps

LEMMA OnLeaderKeeps ==
  ASSUME CoordinationAssumption, Inv, NEW n \in Node, OnLeader(n)
  PROVE  Kept
<1> DEFINE announced == Head(inbox[n]).node
           r == MarkSeen(Update(nd[n], announced, "LEADER"), announced)
           named  == [r EXCEPT !.leaderId = announced]
           follow == [r EXCEPT !.leaderId = announced, !.mode = "FOLLOWER", !.timer = 0]
<1>1. announced \in Node /\ nd[n] \in NodeState
  BY HeadFrame, FrameFields, InvNode DEF OnLeader, NodeKinds
<1>2. /\ Update(nd[n], announced, "LEADER") \in NodeState
      /\ Keeps(nd[n], Update(nd[n], announced, "LEADER"))
  BY <1>1, KeepsTable, StatusType DEF Status
<1>3. r \in NodeState /\ Keeps(nd[n], r)
  BY <1>1, <1>2, KeepsTwice DEF Status
<1>4. Keeps(nd[n], named) /\ Keeps(nd[n], follow)
  <2> HIDE DEF r
  <2> QED
    BY <1>3 DEF NodeState, Keeps
<1>5. \/ Conflict(n, announced)
      \/ Handle(n, r, <<>>) \/ Handle(n, named, <<>>) \/ Handle(n, follow, <<>>)
  BY DEF OnLeader
<1>6. QED
  BY <1>1, <1>3, <1>4, <1>5, ConflictKeeps, StepKeeps

LEMMA OnHeartbeatKeeps ==
  ASSUME CoordinationAssumption, Inv, NEW n \in Node, OnHeartbeat(n)
  PROVE  Kept
<1> DEFINE beat == Head(inbox[n])
           q == [nd[n] EXCEPT !.rate = beat.rate]
           r == MarkSeen(Update(q, beat.node, "LEADER"), beat.node)
           join  == [r EXCEPT !.leaderId = beat.node, !.mode = "JOINING", !.attempts = 0,
                              !.accepted = FALSE, !.timer = JoinRetryTicks]
           enter == [r EXCEPT !.mode = "FOLLOWER", !.accepted = FALSE, !.timer = 0]
           s == [r EXCEPT !.leaderId = IF beat.node > @ THEN beat.node ELSE @]
           t == [s EXCEPT !.timer = 0]
<1>1. beat \in Frame /\ beat.kind = "HEARTBEAT" /\ nd[n] \in NodeState
  BY HeadFrame, InvNode DEF OnHeartbeat
<1>2. beat.node \in Node /\ beat.rate \in Rates
  BY <1>1, FrameFields DEF NodeKinds
<1>3. q \in NodeState /\ Keeps(nd[n], q)
  BY <1>1, <1>2 DEF NodeState, Keeps
<1>4. /\ Update(q, beat.node, "LEADER") \in NodeState
      /\ Keeps(nd[n], Update(q, beat.node, "LEADER"))
  BY <1>1, <1>2, <1>3, KeepsTwice DEF Status
<1>5. r \in NodeState /\ Keeps(nd[n], r)
  BY <1>1, <1>2, <1>4, KeepsTwice DEF Status
<1>6. join \in NodeState /\ enter \in NodeState /\ s \in NodeState
  <2> HIDE DEF r
  <2> QED
    BY <1>2, <1>5, Ranges DEF NodeState, Mode
<1>7. t \in NodeState
  <2> HIDE DEF s
  <2> QED
    BY <1>6, Ranges DEF NodeState
<1>8. Keeps(nd[n], join) /\ Keeps(nd[n], enter) /\ Keeps(nd[n], s)
  <2> HIDE DEF r
  <2> QED
    BY <1>5 DEF NodeState, Keeps
<1>9. Keeps(nd[n], t)
  <2> HIDE DEF s
  <2> QED
    BY <1>6, <1>8 DEF NodeState, Keeps
<1>10. /\ Keeps(nd[n], Update(join, n, "JOINING")) /\ Keeps(nd[n], Update(enter, n, "OK"))
       /\ Keeps(nd[n], MarkSeen(t, n))
  <2> HIDE DEF join, enter, t
  <2> QED
    BY <1>1, <1>6, <1>7, <1>8, <1>9, KeepsTwice DEF Status
<1>11. \/ Conflict(n, beat.node)
       \/ Handle(n, Update(join, n, "JOINING"), <<>>)
       \/ Handle(n, Update(enter, n, "OK"), <<StateFrame(n, "OK")>>)
       \/ Handle(n, s, <<>>) \/ Handle(n, MarkSeen(t, n), <<SensorFrame(n)>>)
       \/ Handle(n, t, <<>>) \/ Handle(n, r, <<>>)
  <2>1. CASE FollowHeartbeat(n, r, beat)
    BY <2>1 DEF FollowHeartbeat
  <2>2. CASE Handle(n, BeginJoin(r, n, beat.node), <<>>)
    BY <2>2 DEF BeginJoin
  <2>3. \/ Conflict(n, beat.node) \/ Handle(n, BeginJoin(r, n, beat.node), <<>>)
        \/ Handle(n, Update(enter, n, "OK"), <<StateFrame(n, "OK")>>)
        \/ FollowHeartbeat(n, r, beat) \/ Handle(n, r, <<>>)
    BY DEF OnHeartbeat
  <2>4. QED
    BY <2>1, <2>2, <2>3
<1>12. QED
  BY <1>2, <1>5, <1>8, <1>9, <1>10, <1>11, ConflictKeeps, StepKeeps

LEMMA JoinKeeps ==
  ASSUME CoordinationAssumption, Inv, NEW n \in Node,
         OnJoinRequest(n) \/ OnJoinAccept(n) \/ JoinProcess(n)
  PROVE  Kept
<1>1. nd[n] \in NodeState
  BY InvNode
<1>2. CASE OnJoinRequest(n)
  <2> DEFINE joining == Head(inbox[n]).node
             k == Register(nd[n], joining)
             u == Update(k, joining, "JOINING")
             r == MarkSeen(u, joining)
             a == Update(r, joining, "OK")
  <2>1. joining \in Node
    BY <1>2, HeadFrame, FrameFields DEF OnJoinRequest, NodeKinds
  <2>2. k \in NodeState /\ Keeps(nd[n], k)
    BY <1>1, <2>1, KeepsTable, StatusType DEF Status
  <2>3. u \in NodeState /\ Keeps(nd[n], u)
    BY <1>1, <2>1, <2>2, KeepsTwice DEF Status
  <2>4. r \in NodeState /\ Keeps(nd[n], r)
    BY <1>1, <2>1, <2>3, KeepsTwice DEF Status
  <2>5. Keeps(nd[n], a)
    BY <1>1, <2>1, <2>4, KeepsTwice DEF Status
  <2>6. \/ Handle(n, a, <<AcceptFrame(joining, r.leaderId), StateFrame(joining, "OK"),
                          TableFrame(a.status)>>)
        \/ Handle(n, r, <<>>)
    BY <1>2 DEF OnJoinRequest
  <2>7. QED
    BY <2>4, <2>5, <2>6, StepKeeps
<1>3. CASE OnJoinAccept(n)
  <2> DEFINE f == Head(inbox[n])
             q == [Register(nd[n], n) EXCEPT !.leaderId = f.leader, !.accepted = TRUE]
  <2>1. f.leader \in Node
    BY <1>3, HeadFrame, FrameFields DEF OnJoinAccept
  <2>2. q \in NodeState /\ Keeps(nd[n], q)
    BY <1>1, <2>1 DEF NodeState, Keeps, Register
  <2>3. Keeps(nd[n], Update(q, n, "JOINING"))
    <3> HIDE DEF q
    <3> QED
      BY <1>1, <2>2, KeepsTwice DEF Status
  <2>4. Keeps(nd[n], nd[n])
    BY DEF Keeps
  <2>5. Handle(n, Update(q, n, "JOINING"), <<>>) \/ Handle(n, nd[n], <<>>)
    BY <1>3 DEF OnJoinAccept
  <2>6. QED
    BY <2>3, <2>4, <2>5, StepKeeps
<1>4. CASE JoinProcess(n)
  <2> DEFINE giveUp == [nd[n] EXCEPT !.mode = "IDLE", !.attempts = 0, !.timer = 0]
             retry  == [nd[n] EXCEPT !.attempts = @ + 1, !.timer = 0]
  <2>1. Keeps(nd[n], giveUp) /\ Keeps(nd[n], retry)
    BY <1>1 DEF NodeState, Keeps
  <2>2. Act(n, giveUp, <<>>) \/ Act(n, retry, <<JoinFrame(n)>>)
    BY <1>4 DEF JoinProcess
  <2>3. QED
    BY <2>1, <2>2, StepKeeps
<1>5. QED
  BY <1>2, <1>3, <1>4

LEMMA TableKeeps ==
  ASSUME CoordinationAssumption, Inv, NEW n \in Node,
         OnSensor(n) \/ OnState(n) \/ OnTable(n) \/ OnStatusRequest(n) \/ OnStatusResponse(n)
  PROVE  Kept
<1> DEFINE f == Head(inbox[n])
<1>1. nd[n] \in NodeState
  BY InvNode
<1>2. CASE OnSensor(n)
  <2> DEFINE k == Register(nd[n], f.node)
             r == MarkSeen(k, f.node)
  <2>1. f.node \in Node
    BY <1>2, HeadFrame, FrameFields DEF OnSensor, NodeKinds
  <2>2. k \in NodeState /\ Keeps(nd[n], k)
    BY <1>1, <2>1, KeepsTable, StatusType DEF Status
  <2>3. r \in NodeState /\ Keeps(nd[n], r)
    BY <1>1, <2>1, <2>2, KeepsTwice DEF Status
  <2>4. Keeps(nd[n], Update(r, f.node, "OK"))
    BY <1>1, <2>1, <2>3, KeepsTwice DEF Status
  <2>5. Handle(n, Update(r, f.node, "OK"), <<>>)
    BY <1>2 DEF OnSensor
  <2>6. QED
    BY <2>4, <2>5, StepKeeps
<1>3. CASE OnState(n)
  <2> DEFINE k == Register(nd[n], f.node)
             r == Update(k, f.node, f.status)
  <2>1. f.node \in Node /\ f.status \in Status
    BY <1>3, HeadFrame, FrameFields DEF OnState, NodeKinds
  <2>2. k \in NodeState /\ Keeps(nd[n], k)
    BY <1>1, <2>1, KeepsTable, StatusType
  <2>3. r \in NodeState /\ Keeps(nd[n], r)
    BY <1>1, <2>1, <2>2, KeepsTwice
  <2>4. Keeps(nd[n], MarkSeen(r, f.node))
    BY <1>1, <2>1, <2>3, KeepsTwice
  <2>5. Handle(n, MarkSeen(r, f.node), <<>>)
    BY <1>3 DEF OnState
  <2>6. QED
    BY <2>4, <2>5, StepKeeps
<1>4. CASE OnTable(n)
  <2> DEFINE t == f.table
             listed == {m \in Node : t[m] # "UNKNOWN"}
             status == [m \in Node |-> IF m \in listed /\ ~Protected(nd[n], m, t[m])
                                       THEN t[m] ELSE nd[n].status[m]]
             seen   == [m \in Node |-> IF m \in listed THEN 0 ELSE nd[n].seen[m]]
             r == [nd[n] EXCEPT !.known = @ \cup listed, !.status = status, !.seen = seen]
  <2>1. \A m \in Node : nd[n].status[m] = "FAULT" => status[m] = "FAULT"
    BY <1>1 DEF Protected
  <2>2. r.status = status
    <3> HIDE DEF status, seen
    <3> QED
      BY <1>1 DEF NodeState
  <2>3. Keeps(nd[n], r)
    <3> HIDE DEF r, status
    <3> QED
      BY <2>1, <2>2 DEF Keeps
  <2>4. Handle(n, r, <<>>)
    BY <1>4 DEF OnTable
  <2>5. QED
    BY <2>3, <2>4, StepKeeps
<1>5. CASE OnStatusRequest(n)
  <2> DEFINE s == LocalStatus(nd[n])
  <2>1. s \in Status
    BY DEF LocalStatus, Status
  <2>2. Keeps(nd[n], Update(nd[n], n, s))
    BY <1>1, <2>1, KeepsTable
  <2>3. Keeps(nd[n], nd[n])
    BY DEF Keeps
  <2>4. \/ Handle(n, Update(nd[n], n, s), <<[kind |-> "STATUS_RESPONSE", node |-> n, status |-> s]>>)
        \/ Handle(n, nd[n], <<>>)
    BY <1>5 DEF OnStatusRequest
  <2>5. QED
    BY <2>2, <2>3, <2>4, StepKeeps
<1>6. CASE OnStatusResponse(n)
  <2>1. f.node \in Node /\ f.status \in Status
    BY <1>6, HeadFrame, FrameFields DEF OnStatusResponse, NodeKinds
  <2>2. Keeps(nd[n], Update(nd[n], f.node, f.status))
    BY <1>1, <2>1, KeepsTable
  <2>3. Handle(n, Update(nd[n], f.node, f.status), <<>>)
    BY <1>6 DEF OnStatusResponse
  <2>4. QED
    BY <2>2, <2>3, StepKeeps
<1>7. QED
  BY <1>2, <1>3, <1>4, <1>5, <1>6

(* The two frames that may erase a fault do it on the Node that gets them. *)
LEMMA ClearingAllowed ==
  ASSUME Inv, NEW n \in Node, OnForce(n) \/ OnSensorControl(n)
  PROVE  Remembers
<1>1. inbox[n] # <<>> /\ Head(inbox[n]).kind \in {"FORCE", "SENSOR_CTRL"}
  BY DEF OnForce, OnSensorControl, HeadIs
<1>2. \A k \in Node \ {n} : nd'[k] = nd[k]
  <2>1. \E r, out : Handle(n, r, out)
    <3>1. CASE OnForce(n)
      BY <3>1 DEF OnForce
    <3>2. CASE OnSensorControl(n)
      <4>1. Head(inbox[n]) \in Frame /\ Head(inbox[n]).kind = "SENSOR_CTRL"
        BY <3>2, HeadFrame DEF OnSensorControl
      <4>2. Head(inbox[n]).action \in Action
        BY <4>1 DEF Frame
      <4>3. CASE Head(inbox[n]).target # n
        BY <3>2, <4>3 DEF OnSensorControl
      <4>4. CASE Head(inbox[n]).target = n /\ Head(inbox[n]).action = "OFF"
        BY <3>2, <4>4 DEF OnSensorControl
      <4>5. CASE Head(inbox[n]).target = n /\ Head(inbox[n]).action = "ON"
        BY <3>2, <4>5 DEF OnSensorControl
      <4>6. CASE Head(inbox[n]).target = n /\ Head(inbox[n]).action = "DISABLE_FAULT"
        BY <3>2, <4>6 DEF OnSensorControl
      <4>7. CASE Head(inbox[n]).target = n /\ Head(inbox[n]).action = "CLEAR_FAULT"
        BY <3>2, <4>7 DEF OnSensorControl
      <4>8. QED
        BY <4>2, <4>3, <4>4, <4>5, <4>6, <4>7 DEF Action
    <3>3. QED
      BY <3>1, <3>2
  <2>2. QED
    BY <2>1 DEF Handle, Inv, TypeOK
<1>3. QED
  BY <1>1, <1>2 DEF Remembers, Erased

LEMMA RestOfNodeKeeps ==
  ASSUME Inv, NEW n \in Node,
         OnRate(n) \/ SendHeartbeat(n) \/ \E m \in Node : DeclareAbsent(n, m)
  PROVE  Kept
<1>1. nd[n] \in NodeState
  BY InvNode
<1>2. CASE OnRate(n)
  <2>1. Keeps(nd[n], [nd[n] EXCEPT !.rate = Head(inbox[n]).rate])
    BY <1>1 DEF Keeps, NodeState
  <2>2. QED
    BY <1>2, <2>1, StepKeeps DEF OnRate
<1>3. CASE SendHeartbeat(n)
  <2> DEFINE next == [nd[n] EXCEPT !.timer = 0, !.tick = (@ + 1) % TickMod]
  <2>1. Keeps(nd[n], next)
    BY <1>1 DEF Keeps, NodeState
  <2>2. \E out : Act(n, next, out)
    BY <1>3 DEF SendHeartbeat
  <2>3. QED
    BY <2>1, <2>2, StepKeeps
<1>4. ASSUME NEW m \in Node, DeclareAbsent(n, m)
      PROVE  Kept
  <2>1. Keeps(nd[n], Update(nd[n], m, "FAULT"))
    BY <1>1, KeepsTable DEF Status
  <2>2. QED
    BY <1>4, <2>1, StepKeeps DEF DeclareAbsent
<1>5. QED
  BY <1>2, <1>3, <1>4

LEMMA OperatorKeeps ==
  ASSUME CoordinationAssumption, Inv, Operator
  PROVE  Kept
<1>1. CASE UNCHANGED nd
  BY <1>1 DEF Kept, Erased
<1>2. ASSUME NEW f \in bench.menu, NEW n \in Node, NodeCommand(n, f)
      PROVE  Kept
  <2> DEFINE r == [nd[n] EXCEPT !.rate = f.rate]
  <2>1. nd[n] \in Sound(n) /\ nd[n] \in NodeState
    BY InvNode
  <2>2. Keeps(nd[n], StartElection(nd[n], n))
    BY <2>1, StartElectionKeeps
  <2>3. Keeps(nd[n], r) /\ Keeps(nd[n], nd[n])
    BY <2>1 DEF Keeps, NodeState
  <2>4. \/ nd' = [nd EXCEPT ![n] = StartElection(nd[n], n)]
        \/ nd' = [nd EXCEPT ![n] = r]
        \/ nd' = [nd EXCEPT ![n] = nd[n]]
    BY <1>2 DEF NodeCommand
  <2>5. QED
    BY <2>2, <2>3, <2>4, KeepsNode
<1>3. QED
  BY <1>1, <1>2 DEF Operator, ProbeCommand, ProbeStatusRefresh

LEMMA BenchKeeps ==
  ASSUME CoordinationAssumption, Inv, NEW n \in Node,
         Freeze(n) \/ Thaw(n) \/ PowerOn(n)
  PROVE  Kept
<1>1. CASE Freeze(n) \/ PowerOn(n)
  BY <1>1 DEF Freeze, PowerOn, Kept, Erased
<1>2. CASE Thaw(n)
  <2> DEFINE q == [nd[n] EXCEPT !.stalled = 0]
             rearmed == [q EXCEPT !.seen = [m \in Node |-> 0],
                                  !.timer = IF q.mode = "FOLLOWER" THEN 0 ELSE @]
  <2>1. q \in NodeState /\ q.status = nd[n].status
    <3>1. nd[n] \in NodeState
      BY InvNode
    <3>2. QED
      BY <3>1 DEF NodeState
  <2>2. rearmed.status = nd[n].status
    <3> HIDE DEF q
    <3> QED
      BY <2>1 DEF NodeState
  <2>3. Keeps(nd[n], q) /\ Keeps(nd[n], rearmed)
    <3> HIDE DEF q, rearmed
    <3> QED
      BY <2>1, <2>2 DEF Keeps
  <2>4. nd' = [nd EXCEPT ![n] = q] \/ nd' = [nd EXCEPT ![n] = rearmed]
    BY <1>2 DEF Thaw
  <2>5. QED
    BY <2>3, <2>4, KeepsNode
<1>3. QED
  BY <1>1, <1>2

LEMMA PowerOffErases ==
  ASSUME Inv, NEW n \in Node, PowerOff(n)
  PROVE  Remembers
<1>1. power'[n] = "OFF" /\ \A k \in Node \ {n} : nd'[k] = nd[k]
  BY DEF PowerOff, Inv, TypeOK
<1>2. QED
  BY <1>1 DEF Remembers, Erased

LEMMA TickKeeps ==
  ASSUME Inv, Tick
  PROVE  Kept
<1>1. ASSUME NEW n \in Node PROVE Aged(n).status = nd[n].status
  BY InvNode DEF Aged, NodeState
<1>2. \A n \in Node : nd'[n].status = nd[n].status
  BY <1>1 DEF Tick
<1>3. QED
  BY <1>2 DEF Kept, Erased

LEMMA NextKeeps ==
  ASSUME CoordinationAssumption, Inv, [Next]_vars
  PROVE  [Remembers]_vars
<1>0. Kept => Remembers
  BY DEF Kept, Remembers
<1>1. ASSUME NEW n \in Node, Receive(n)
      PROVE  Remembers
  BY <1>0, <1>1, ElectionKeeps, OnLeaderKeeps, OnHeartbeatKeeps, JoinKeeps, TableKeeps,
     ClearingAllowed, RestOfNodeKeeps DEF Receive
<1>2. ASSUME NEW n \in Node, Deadline(n)
      PROVE  Remembers
  BY <1>0, <1>2, ElectionKeeps, JoinKeeps, RestOfNodeKeeps DEF Deadline
<1>3. ASSUME NEW n \in Node, Disturbance(n) \/ Thaw(n) \/ PowerOn(n)
      PROVE  Remembers
  BY <1>0, <1>3, BenchKeeps, PowerOffErases DEF Disturbance
<1>4. CASE ProbeReceive \/ ProbeWatchdog
  BY <1>4 DEF ProbeReceive, ProbeWatchdog, Remembers, Erased
<1>5. CASE Operator
  BY <1>0, <1>5, OperatorKeeps
<1>6. CASE Tick
  BY <1>0, <1>6, TickKeeps
<1>7. CASE UNCHANGED vars
  BY <1>7
<1>8. QED
  BY <1>1, <1>2, <1>3, <1>4, <1>5, <1>6, <1>7 DEF Next, Work

(* A recorded fault survives every election, JOIN, status answer, table    *)
(* burst and sensor frame, on every Node and for every set of Nodes: only  *)
(* the fault-clearing command, its forced update or a loss of power erases *)
(* it (isProtectedStatusTransition, updateNetworkStatusLocal).             *)
THEOREM FaultIsRemembered == Spec => FaultMemory
<1> USE CoordinationAssumption
<1>1. Inv /\ [Next]_vars => [Remembers]_vars
  BY NextKeeps
<1>2. QED
  BY <1>1, Invariance, PTL DEF Spec, FaultMemory

---------------------------------------------------------------------------
(* Whom a Node follows, and who knows of a fault.  Both rest on who may    *)
(* have sent what is in a buffer.                                          *)

(* A bench on which no fault is cleared.                                   *)
Clears(f) == f.kind = "SENSOR_CTRL" /\ f.action = "CLEAR_FAULT"
NothingCleared == \A f \in bench.menu : ~Clears(f)

(* A station speaks of leading, of being followed and of a fault that was  *)
(* cleared for itself alone; so no buffer holds such a frame about its     *)
(* own Node.                                                               *)
Speaks(f, k) ==
    /\ f.kind \in {"LEADER", "HEARTBEAT", "FORCE"} => f.node = k
    /\ f.kind = "JOIN_ACCEPT" => f.leader = k
    /\ NothingCleared => ~Clears(f)
Foreign(f, k) ==
    /\ f.kind \in {"LEADER", "HEARTBEAT", "FORCE"} => f.node # k
    /\ f.kind = "JOIN_ACCEPT" => f.leader # k
    /\ NothingCleared => ~Clears(f)

Follows(r, n)   == r.mode \in {"FOLLOWER", "JOINING"} => r.leaderId \notin {0, n}
Confesses(r, n) == r.mode = "FAULT" => r.status[n] = "FAULT"

(* Word of the fault of n is recorded, or is still to be read in s; and    *)
(* nothing in s takes it back.                                             *)
Word(f, n)    == f = StateFrame(n, "FAULT")
Revokes(f, n) == f.kind = "FORCE" /\ f.node = n
Told(s, recorded, n) ==
    \/ recorded /\ \A j \in DOMAIN s : ~Revokes(s[j], n)
    \/ \E i \in DOMAIN s : /\ Word(s[i], n)
                           /\ \A j \in DOMAIN s : j > i => ~Revokes(s[j], n)
Reported(m, n) == nd[n].mode = "FAULT" => Told(inbox[m], nd[m].status[n] = "FAULT", n)

OwnVoice == \A k \in Node : \A i \in DOMAIN inbox[k] : Foreign(inbox[k][i], k)
Following == NothingCleared => \A n \in Node : Follows(nd[n], n)
FaultsTold == /\ \A n \in Node : Confesses(nd[n], n)
              /\ \A m \in Steady : power[m] = "UP" /\ \A n \in Node \ {m} : Reported(m, n)
Spread == OwnVoice /\ Following /\ FaultsTold

---------------------------------------------------------------------------
(* A buffer that is read from its head or appended to.                     *)
LEMMA AppendTold ==
  ASSUME NEW s \in Seq(Frame), NEW out \in Seq(Frame), NEW b \in BOOLEAN, NEW n, Told(s, b, n),
         \A i \in DOMAIN out : ~Revokes(out[i], n)
  PROVE  Told(s \o out, b, n)
<1> DEFINE t == s \o out
<1>1. /\ t \in Seq(Frame) /\ Len(t) = Len(s) + Len(out)
      /\ \A i \in DOMAIN s : i \in DOMAIN t /\ t[i] = s[i]
      /\ \A i \in DOMAIN t : i \in DOMAIN s \/ (i - Len(s) \in DOMAIN out /\ t[i] = out[i - Len(s)])
  OBVIOUS
<1> HIDE DEF t
<1>2. CASE b /\ \A j \in DOMAIN s : ~Revokes(s[j], n)
  <2>1. \A j \in DOMAIN t : ~Revokes(t[j], n)
    BY <1>1, <1>2
  <2>2. QED
    BY <1>2, <2>1 DEF Told, t
<1>3. ASSUME NEW i \in DOMAIN s, Word(s[i], n), \A j \in DOMAIN s : j > i => ~Revokes(s[j], n)
      PROVE  Told(s \o out, b, n)
  <2>1. i \in DOMAIN t /\ Word(t[i], n)
    BY <1>1, <1>3
  <2>2. \A j \in DOMAIN t : j > i => ~Revokes(t[j], n)
    BY <1>1, <1>3
  <2>3. QED
    BY <2>1, <2>2 DEF Told, t
<1>4. QED
  BY <1>2, <1>3 DEF Told

LEMMA AppendWord ==
  ASSUME NEW s \in Seq(Frame), NEW out \in Seq(Frame), NEW b \in BOOLEAN, NEW n,
         NEW i \in DOMAIN out, Word(out[i], n), \A j \in DOMAIN out : ~Revokes(out[j], n)
  PROVE  Told(s \o out, b, n)
<1> DEFINE t == s \o out
<1>1. /\ t \in Seq(Frame) /\ Len(t) = Len(s) + Len(out)
      /\ Len(s) + i \in DOMAIN t /\ t[Len(s) + i] = out[i]
      /\ \A j \in DOMAIN t : j > Len(s) => j - Len(s) \in DOMAIN out /\ t[j] = out[j - Len(s)]
  OBVIOUS
<1> HIDE DEF t
<1>2. Word(t[Len(s) + i], n)
  BY <1>1
<1>3. \A j \in DOMAIN t : j > Len(s) + i => ~Revokes(t[j], n)
  BY <1>1
<1>4. QED
  BY <1>1, <1>2, <1>3 DEF Told, t

LEMMA TailTold ==
  ASSUME NEW s \in Seq(Frame), s # <<>>, NEW b \in BOOLEAN, NEW c \in BOOLEAN, NEW n, Told(s, b, n),
         (b /\ ~Revokes(Head(s), n)) \/ Word(Head(s), n) => c
  PROVE  Told(Tail(s), c, n)
<1> DEFINE t == Tail(s)
<1>1. /\ t \in Seq(Frame) /\ Len(t) = Len(s) - 1 /\ 1 \in DOMAIN s /\ Head(s) = s[1]
      /\ \A i \in DOMAIN t : i + 1 \in DOMAIN s /\ t[i] = s[i + 1]
      /\ \A i \in DOMAIN s : i = 1 \/ (i > 1 /\ i - 1 \in DOMAIN t /\ t[i - 1] = s[i])
  OBVIOUS
<1> HIDE DEF t
<1>2. CASE b /\ \A j \in DOMAIN s : ~Revokes(s[j], n)
  BY <1>1, <1>2 DEF Told
<1>3. CASE \E i \in DOMAIN s : Word(s[i], n) /\ \A j \in DOMAIN s : j > i => ~Revokes(s[j], n)
  <2>1. PICK i \in DOMAIN s : Word(s[i], n) /\ \A j \in DOMAIN s : j > i => ~Revokes(s[j], n)
    BY <1>3
  <2>2. i \in Nat
    OBVIOUS
  <2>3. CASE i = 1
    <3>1. c /\ \A j \in DOMAIN t : ~Revokes(t[j], n)
      BY <1>1, <2>1, <2>3
    <3>2. QED
      BY <3>1 DEF Told, t
  <2>4. CASE i > 1
    <3>1. i - 1 \in DOMAIN t /\ Word(t[i - 1], n)
      BY <1>1, <2>1, <2>4
    <3>2. \A j \in DOMAIN t : j > i - 1 => ~Revokes(t[j], n)
      BY <1>1, <2>1, <2>2
    <3>3. QED
      BY <3>1, <3>2 DEF Told, t
  <2>5. QED
    BY <1>1, <2>1, <2>3, <2>4
<1>4. QED
  BY <1>2, <1>3 DEF Told

---------------------------------------------------------------------------
(* What a station sends and what it reads.                                 *)
SameBench == /\ bench'.menu = bench.menu /\ bench'.late = bench.late
             /\ bench'.disturbed = bench.disturbed

LEMMA SameNames ==
  ASSUME SameBench
  PROVE  /\ NothingCleared' <=> NothingCleared
         /\ Steady' = Steady
BY DEF SameBench, NothingCleared, Steady

(* Buffers of a step: what is left of each one, and out behind it.         *)
LEMMA SentIs ==
  ASSUME NEW box \in [Station -> Seq(Frame)], NEW src, NEW out \in Seq(Frame), NEW k \in Node
  PROVE  /\ k = src => Send(box, src, out)[k] = box[k]
         /\ k # Probe /\ k # src /\ power[k] = "UP" => Send(box, src, out)[k] = box[k] \o out
         /\ Send(box, src, out)[k] \in {box[k], box[k] \o out}
         /\ box[k] \in Seq(Frame)
BY DEF Send, Listening, Station

LEMMA PopIs ==
  ASSUME Inv, NEW n \in Node, inbox[n] # <<>>, NEW k \in Node
  PROVE  /\ Pop(n)[k] = IF k = n THEN Tail(inbox[k]) ELSE inbox[k]
         /\ Pop(n) \in [Station -> Seq(Frame)]
BY PopType DEF Pop, Inv, TypeOK, Station

LEMMA JoinedForeign ==
  ASSUME NEW s \in Seq(Frame), NEW out \in Seq(Frame), NEW k, NEW src, k # src,
         \A i \in DOMAIN s : Foreign(s[i], k), \A i \in DOMAIN out : Speaks(out[i], src)
  PROVE  \A i \in DOMAIN (s \o out) : Foreign((s \o out)[i], k)
<1>1. \A i \in DOMAIN (s \o out) :
        \/ i \in DOMAIN s /\ (s \o out)[i] = s[i]
        \/ i - Len(s) \in DOMAIN out /\ (s \o out)[i] = out[i - Len(s)]
  OBVIOUS
<1>2. \A i \in DOMAIN out : Foreign(out[i], k)
  BY DEF Foreign, Speaks
<1>3. QED
  BY <1>1, <1>2

LEMMA TailForeign ==
  ASSUME NEW s \in Seq(Frame), s # <<>>, NEW k, \A i \in DOMAIN s : Foreign(s[i], k)
  PROVE  /\ Tail(s) \in Seq(Frame) /\ \A i \in DOMAIN Tail(s) : Foreign(Tail(s)[i], k)
         /\ Foreign(Head(s), k)
<1>1. /\ Tail(s) \in Seq(Frame) /\ 1 \in DOMAIN s /\ Head(s) = s[1]
      /\ \A i \in DOMAIN Tail(s) : i + 1 \in DOMAIN s /\ Tail(s)[i] = s[i + 1]
  OBVIOUS
<1>2. QED
  BY <1>1

LEMMA SendsForeign ==
  ASSUME SameBench, NEW src, NEW out \in Seq(Frame), \A i \in DOMAIN out : Speaks(out[i], src),
         NEW box \in [Station -> Seq(Frame)],
         \A k \in Node : \A i \in DOMAIN box[k] : Foreign(box[k][i], k),
         inbox' = Send(box, src, out)
  PROVE  OwnVoice'
<1>1. SUFFICES ASSUME NEW k \in Node PROVE \A i \in DOMAIN inbox'[k] : Foreign(inbox'[k][i], k)
  BY SameNames DEF OwnVoice, Foreign
<1>2. CASE k = src
  BY <1>2, SentIs
<1>3. CASE k # src
  <2>1. box[k] \in Seq(Frame) /\ inbox'[k] \in {box[k], box[k] \o out}
    BY SentIs
  <2>2. \A i \in DOMAIN (box[k] \o out) : Foreign((box[k] \o out)[i], k)
    BY <1>3, <2>1, JoinedForeign
  <2>3. QED
    BY <2>1, <2>2
<1>4. QED
  BY <1>2, <1>3

---------------------------------------------------------------------------
(* A step of Node n: it leaves state r and sends out.                      *)
Fits(n, r, out) ==
    /\ out \in Seq(Frame) /\ \A i \in DOMAIN out : Speaks(out[i], n)
    /\ NothingCleared /\ Follows(nd[n], n) => Follows(r, n)
    /\ Confesses(r, n)
    /\ r.mode = "FAULT" =>
         /\ nd[n].mode = "FAULT" \/ \E i \in DOMAIN out : Word(out[i], n)
         /\ \A i \in DOMAIN out : out[i].kind # "FORCE"

(* What of other Nodes' faults is left recorded on n.                      *)
Retains(n) ==
    \A x \in Node \ {n} :
      \/ nd[n].status[x] = "FAULT" /\ ~Revokes(Head(inbox[n]), x)
      \/ Word(Head(inbox[n]), x)
      => nd'[n].status[x] = "FAULT"

LEMMA NowReported ==
  ASSUME NEW m, NEW x
  PROVE  Reported(m, x)' <=> (nd'[x].mode = "FAULT" => Told(inbox'[m], nd'[m].status[x] = "FAULT", x))
BY DEF Reported

(* The others hear out.                                                    *)
LEMMA OthersTold ==
  ASSUME CoordinationAssumption, Inv, FaultsTold, SameBench, NEW n \in Node, NEW r, NEW out, Fits(n, r, out),
         nd' = [nd EXCEPT ![n] = r], power' = power,
         NEW box \in [Station -> Seq(Frame)], \A k \in Node \ {n} : box[k] = inbox[k],
         inbox' = Send(box, n, out),
         NEW m \in Steady, m # n, NEW x \in Node \ {m}
  PROVE  Reported(m, x)'
<1>1. m \in Node /\ m # Probe /\ power[m] = "UP" /\ Reported(m, x) /\ inbox[m] \in Seq(Frame) /\ out \in Seq(Frame)
  <2>1. m \in Node /\ m # Probe /\ out \in Seq(Frame)
    BY Ranges DEF Steady, Fits, Probe
  <2>2. power[m] = "UP" /\ Reported(m, x)
    BY DEF FaultsTold
  <2>3. QED
    BY <2>1, <2>2, InvNode
<1>2. inbox'[m] = inbox[m] \o out /\ nd'[m] = nd[m]
  <2>1. box[m] = inbox[m] /\ nd'[m] = nd[m]
    BY <1>1 DEF Inv, TypeOK
  <2>2. Send(box, n, out)[m] = box[m] \o out
    BY <1>1, SentIs
  <2>3. QED
    BY <2>1, <2>2
<1> DEFINE b == nd[m].status[x] = "FAULT"
<1>3. CASE x # n
  <2>1. nd'[x] = nd[x]
    BY <1>3 DEF Inv, TypeOK
  <2>2. \A i \in DOMAIN out : ~Revokes(out[i], x)
    BY <1>3 DEF Fits, Speaks, Revokes
  <2>3. Told(inbox[m], b, x) => Told(inbox[m] \o out, b, x)
    BY <1>1, <2>2, AppendTold
  <2>4. QED
    BY <1>1, <1>2, <2>1, <2>3, NowReported DEF Reported
<1>4. CASE x = n
  <2>1. nd'[x] = r
    BY <1>4 DEF Inv, TypeOK
  <2>2. SUFFICES ASSUME r.mode = "FAULT" PROVE Told(inbox[m] \o out, b, x)
    BY <1>2, <2>1, NowReported
  <2>3. \A i \in DOMAIN out : ~Revokes(out[i], x)
    BY <2>2 DEF Fits, Revokes
  <2>4. CASE nd[n].mode = "FAULT"
    BY <1>1, <1>4, <2>3, <2>4, AppendTold DEF Reported
  <2>5. CASE \E i \in DOMAIN out : Word(out[i], n)
    BY <1>1, <1>4, <2>3, <2>5, AppendWord
  <2>6. QED
    BY <2>2, <2>4, <2>5 DEF Fits
<1>5. QED
  BY <1>3, <1>4

(* What n has heard itself.                                                *)
LEMMA SelfTold ==
  ASSUME Inv, FaultsTold, NEW n \in Steady, NEW x \in Node \ {n}, nd'[x] = nd[x],
         \/ inbox[n] # <<>> /\ inbox'[n] = Tail(inbox[n]) /\ Retains(n)
         \/ inbox'[n] = inbox[n] /\ Kept
  PROVE  Reported(n, x)'
<1> DEFINE b == nd[n].status[x] = "FAULT"
           c == nd'[n].status[x] = "FAULT"
<1>1. n \in Node /\ x \in Node /\ Reported(n, x) /\ inbox[n] \in Seq(Frame)
  BY InvNode DEF Steady, FaultsTold
<1>2. SUFFICES ASSUME nd[x].mode = "FAULT" PROVE Told(inbox'[n], c, x)
  BY NowReported
<1>3. Told(inbox[n], b, x)
  BY <1>1, <1>2 DEF Reported
<1>4. CASE inbox[n] # <<>> /\ inbox'[n] = Tail(inbox[n]) /\ Retains(n)
  <2>1. (b /\ ~Revokes(Head(inbox[n]), x)) \/ Word(Head(inbox[n]), x) => c
    BY <1>1, <1>4 DEF Retains
  <2>2. b \in BOOLEAN /\ c \in BOOLEAN
    OBVIOUS
  <2> HIDE DEF b, c
  <2>3. QED
    BY <1>1, <1>3, <1>4, <2>1, <2>2, TailTold
<1>5. CASE inbox'[n] = inbox[n] /\ Kept
  <2>1. b => c
    BY <1>1, <1>5 DEF Kept, Erased
  <2> HIDE DEF b, c
  <2>2. QED
    BY <1>3, <1>5, <2>1 DEF Told
<1>6. QED
  BY <1>4, <1>5

LEMMA NodeSpreads ==
  ASSUME CoordinationAssumption, Inv, Spread, SameBench,
         NEW n \in Node, NEW r, NEW out, Fits(n, r, out),
         nd' = [nd EXCEPT ![n] = r], power' = power,
         \/ inbox[n] # <<>> /\ inbox' = Send(Pop(n), n, out) /\ Retains(n)
         \/ inbox' = Send(inbox, n, out) /\ Kept
  PROVE  Spread'
<1>1. PICK box \in [Station -> Seq(Frame)] :
        /\ \A k \in Node \ {n} : box[k] = inbox[k]
        /\ \A k \in Node : \A i \in DOMAIN box[k] : Foreign(box[k][i], k)
        /\ inbox' = Send(box, n, out)
        /\ \/ inbox[n] # <<>> /\ box[n] = Tail(inbox[n]) /\ Retains(n)
           \/ box[n] = inbox[n] /\ Kept
  <2>1. CASE inbox[n] # <<>> /\ inbox' = Send(Pop(n), n, out) /\ Retains(n)
    <3>1. \A k \in Node : \A i \in DOMAIN Pop(n)[k] : Foreign(Pop(n)[k][i], k)
      BY <2>1, PopIs, TailForeign, InvNode DEF Spread, OwnVoice
    <3>2. QED
      BY <2>1, <3>1, PopIs
  <2>2. CASE inbox' = Send(inbox, n, out) /\ Kept
    BY <2>2 DEF Spread, OwnVoice, Inv, TypeOK
  <2>3. QED
    BY <2>1, <2>2
<1>2. out \in Seq(Frame) /\ \A i \in DOMAIN out : Speaks(out[i], n)
  BY DEF Fits
<1>3. OwnVoice'
  BY <1>1, <1>2, SendsForeign
<1>4. nd'[n] = r /\ \A k \in Node \ {n} : nd'[k] = nd[k]
  BY DEF Inv, TypeOK
<1>5. Following'
  <2>1. SUFFICES ASSUME NothingCleared, NEW k \in Node PROVE Follows(nd'[k], k)
    BY SameNames DEF Following, Follows
  <2>2. QED
    BY <1>4, <2>1 DEF Spread, Following, Fits
<1>6. \A k \in Node : Confesses(nd'[k], k)
  BY <1>4 DEF Spread, FaultsTold, Fits
<1>7. ASSUME NEW m \in Steady, NEW x \in Node \ {m}
      PROVE  Reported(m, x)'
  <2>1. m \in Node
    BY DEF Steady
  <2>2. CASE m = n
    <3>1. box[n] = inbox'[n]
      BY <1>1, <1>2, SentIs
    <3>2. QED
      BY <1>1, <1>4, <2>2, <3>1, SelfTold DEF Spread
  <2>3. CASE m # n
    BY <1>1, <2>3, OthersTold DEF Spread
  <2>4. QED
    BY <2>2, <2>3
<1>8. FaultsTold'
  <2>1. \A m \in Steady : power'[m] = "UP"
    BY DEF Spread, FaultsTold
  <2>2. QED
    BY <1>6, <1>7, <2>1, SameNames DEF FaultsTold, Confesses
<1>9. QED
  BY <1>3, <1>5, <1>8 DEF Spread

---------------------------------------------------------------------------
(* What a Node sends.                                                      *)
Easy(f, n) == f \in Frame /\ Speaks(f, n) /\ f.kind # "FORCE"
Says(n, out) == out \in Seq(Frame) /\ \A i \in DOMAIN out : Easy(out[i], n)

LEMMA SaysFrames ==
  ASSUME NEW n
  PROVE  /\ Says(n, <<>>)
         /\ \A f \in Frame : Easy(f, n) => Says(n, <<f>>)
         /\ \A f, g \in Frame : Easy(f, n) /\ Easy(g, n) => Says(n, <<f, g>>)
         /\ \A f, g, h \in Frame : Easy(f, n) /\ Easy(g, n) /\ Easy(h, n) => Says(n, <<f, g, h>>)
BY DEF Says

LEMMA EasyFrames ==
  ASSUME NEW n \in Node
  PROVE  /\ \A k \in Node : Easy(ElectionFrame(k), n) /\ Easy(SensorFrame(k), n) /\ Easy(JoinFrame(k), n)
         /\ \A k \in Node, s \in Status : Easy(StateFrame(k, s), n)
         /\ \A t \in Target : Easy(StartFrame(t), n) /\ Easy(RequestFrame(t), n)
         /\ \A t \in [Node -> Status] : Easy(TableFrame(t), n)
         /\ \A k \in Node : Easy(AcceptFrame(k, n), n)
         /\ Easy(LeaderFrame(n), n)
<1>1. \A k \in Node : Easy(ElectionFrame(k), n) /\ Easy(SensorFrame(k), n) /\ Easy(JoinFrame(k), n)
  BY FrameTypes DEF Easy, Speaks, Clears, ElectionFrame, SensorFrame, JoinFrame
<1>2. \A k \in Node, s \in Status : Easy(StateFrame(k, s), n)
  BY FrameTypes DEF Easy, Speaks, Clears, StateFrame
<1>3. \A t \in Target : Easy(StartFrame(t), n) /\ Easy(RequestFrame(t), n)
  BY FrameTypes DEF Easy, Speaks, Clears, StartFrame, RequestFrame
<1>4. \A t \in [Node -> Status] : Easy(TableFrame(t), n)
  BY FrameTypes DEF Easy, Speaks, Clears, TableFrame
<1>5. \A k \in Node : Easy(AcceptFrame(k, n), n)
  BY FrameTypes DEF Easy, Speaks, Clears, AcceptFrame
<1>6. Easy(LeaderFrame(n), n)
  BY FrameTypes DEF Easy, Speaks, Clears, LeaderFrame
<1>7. QED
  BY <1>1, <1>2, <1>3, <1>4, <1>5, <1>6

(* What it makes of itself: a step of the table only, or one to a state    *)
(* without a fault of its own.                                             *)
Mild(r, q, n) == /\ q.mode = r.mode /\ q.leaderId = r.leaderId
                 /\ r.status[n] = "FAULT" => q.status[n] = "FAULT"

LEMMA MildTable ==
  ASSUME NEW r \in NodeState, NEW n \in Node, NEW m \in Node, NEW s \in Status
  PROVE  Mild(r, Update(r, m, s), n) /\ Mild(r, MarkSeen(r, m), n) /\ Mild(r, Register(r, m), n)
<1>1. Mild(r, Update(r, m, s), n)
  BY DEF Mild, Update, Protected, ForceStatus, NodeState
<1>2. Mild(r, MarkSeen(r, m), n) /\ Mild(r, Register(r, m), n)
  BY DEF Mild, MarkSeen, Register, NodeState
<1>3. QED
  BY <1>1, <1>2

LEMMA MildMore ==
  ASSUME NEW r, NEW q \in NodeState, NEW n \in Node, Mild(r, q, n), NEW m \in Node, NEW s \in Status
  PROVE  /\ Mild(r, Update(q, m, s), n) /\ Update(q, m, s) \in NodeState
         /\ Mild(r, MarkSeen(q, m), n) /\ MarkSeen(q, m) \in NodeState
         /\ Mild(r, Register(q, m), n) /\ Register(q, m) \in NodeState
<1>1. /\ Mild(q, Update(q, m, s), n) /\ Mild(q, MarkSeen(q, m), n)
      /\ Mild(q, Register(q, m), n)
  BY MildTable
<1>2. /\ Update(q, m, s) \in NodeState /\ MarkSeen(q, m) \in NodeState
      /\ Register(q, m) \in NodeState
  BY StatusType
<1>3. \A p : Mild(q, p, n) => Mild(r, p, n)
  BY DEF Mild
<1>4. QED
  BY <1>1, <1>2, <1>3

LEMMA MildFits ==
  ASSUME Spread, NEW n \in Node, NEW r, Mild(nd[n], r, n), NEW out, Says(n, out)
  PROVE  Fits(n, r, out)
BY DEF Mild, Fits, Says, Easy, Follows, Confesses, Spread, FaultsTold

LEMMA FreshFits ==
  ASSUME NEW n \in Node, NEW r, r.mode # "FAULT",
         NothingCleared /\ Follows(nd[n], n) => Follows(r, n), NEW out, Says(n, out)
  PROVE  Fits(n, r, out)
BY DEF Fits, Says, Easy, Confesses

---------------------------------------------------------------------------
(* Handlers and deadlines, one by one.                                     *)
Handled(n) == \E r, out : Fits(n, r, out) /\ Handle(n, r, out)
Acted(n)   == \E r, out : Fits(n, r, out) /\ Act(n, r, out)

LEMMA HeadForeign ==
  ASSUME Inv, Spread, NEW n \in Node, inbox[n] # <<>>
  PROVE  Foreign(Head(inbox[n]), n)
BY TailForeign, InvNode DEF Spread, OwnVoice

LEMMA StartElectionFits ==
  ASSUME CoordinationAssumption, Inv, Spread, NEW n \in Node
  PROVE  /\ Says(n, Announcement(nd[n], n))
         /\ \A out : Says(n, out) => Fits(n, StartElection(nd[n], n), out)
<1>1. Says(n, Announcement(nd[n], n))
  BY SaysFrames, EasyFrames DEF Announcement, Easy
<1>2. ASSUME NEW out, Says(n, out) PROVE Fits(n, StartElection(nd[n], n), out)
  <2>1. CASE nd[n].mode = "FAULT"
    BY <1>2, <2>1, MildFits DEF StartElection, Mild
  <2>2. CASE nd[n].mode # "FAULT"
    <3> DEFINE q == [nd[n] EXCEPT !.mode = "ELECTION",
                       !.previousLeader = IF nd[n].leaderId # 0 THEN nd[n].leaderId ELSE @,
                       !.leaderId = 0, !.tick = 0, !.accepted = FALSE,
                       !.known = {n}, !.timer = 0]
    <3>0. nd[n] \in NodeState
      BY InvNode
    <3>1. q \in NodeState /\ q.mode = "ELECTION"
      BY <3>0, Ranges DEF NodeState, Mode
    <3> HIDE DEF q
    <3>2. Update(q, n, "OK").mode = "ELECTION"
      BY <3>1, MildTable DEF Mild, Status
    <3>3. StartElection(nd[n], n) = Update(q, n, "OK")
      BY <2>2 DEF StartElection, q
    <3>4. QED
      BY <1>2, <3>2, <3>3, FreshFits DEF Follows
  <2>3. QED
    BY <2>1, <2>2
<1>3. QED
  BY <1>1, <1>2

LEMMA StartFits ==
  ASSUME CoordinationAssumption, Inv, Spread, NEW n \in Node, OnStart(n)
  PROVE  Handled(n)
<1>1. Fits(n, nd[n], <<>>)
  BY MildFits, SaysFrames DEF Mild
<1>2. QED
  BY <1>1, StartElectionFits DEF OnStart, Handled

LEMMA ElectionFits ==
  ASSUME CoordinationAssumption, Inv, Spread, NEW n \in Node, OnElection(n)
  PROVE  Handled(n)
<1> DEFINE other == Head(inbox[n]).node
           k == Register(nd[n], other)
           r == MarkSeen(Update(k, other, "OK"), other)
<1>1. other \in Node /\ nd[n] \in NodeState
  BY HeadFrame, FrameFields, InvNode DEF OnElection, NodeKinds
<1>2. Mild(nd[n], nd[n], n) /\ "OK" \in Status
  BY DEF Mild, Status
<1>3. Mild(nd[n], k, n) /\ k \in NodeState
  BY <1>1, <1>2, MildMore
<1>4. Mild(nd[n], r, n)
  <2>1. Mild(nd[n], Update(k, other, "OK"), n) /\ Update(k, other, "OK") \in NodeState
    BY <1>1, <1>2, <1>3, MildMore
  <2>2. QED
    BY <1>1, <1>2, <2>1, MildMore
<1>5. Fits(n, r, <<>>) /\ Fits(n, nd[n], <<>>)
  BY <1>2, <1>4, MildFits, SaysFrames
<1>6. Handle(n, r, <<>>) \/ Handle(n, nd[n], <<>>)
  BY DEF OnElection
<1>7. QED
  BY <1>5, <1>6 DEF Handled

LEMMA FinishElectionFits ==
  ASSUME CoordinationAssumption, Inv, Spread, NEW n \in Node, FinishElection(n)
  PROVE  Acted(n)
<1>1. PICK e \in Node : FinishElection(n)!2!(e)
  BY DEF FinishElection
<1> DEFINE r == [nd[n] EXCEPT !.leaderId = e, !.previousLeader = 0, !.timer = 0,
                   !.mode = IF e = n THEN "RECOVERING" ELSE "FOLLOWER"]
<1>2. /\ r \in NodeState /\ r.mode = (IF e = n THEN "RECOVERING" ELSE "FOLLOWER")
      /\ r.leaderId = e /\ e # 0 /\ "LEADER" \in Status /\ "OK" \in Status /\ Broadcast \in Target
  <2>1. nd[n] \in NodeState
    BY InvNode
  <2>2. QED
    BY <2>1, Ranges DEF NodeState, Mode, Status, Target
<1>3. /\ e = n => Act(n, Update(r, n, "LEADER"), <<StateFrame(n, "LEADER"), RequestFrame(Broadcast)>>)
      /\ e # n => Act(n, Update(r, n, "OK"), <<StateFrame(n, "OK")>>)
  BY <1>1
<1> HIDE DEF r
<1>4. Mild(r, Update(r, n, "LEADER"), n) /\ Mild(r, Update(r, n, "OK"), n)
  BY <1>2, MildTable
<1>5. /\ Says(n, <<StateFrame(n, "LEADER"), RequestFrame(Broadcast)>>)
      /\ Says(n, <<StateFrame(n, "OK")>>)
  BY <1>2, SaysFrames, EasyFrames DEF Easy
<1>6. CASE e = n
  <2>1. Fits(n, Update(r, n, "LEADER"), <<StateFrame(n, "LEADER"), RequestFrame(Broadcast)>>)
    BY <1>2, <1>4, <1>5, <1>6, FreshFits DEF Mild, Follows
  <2>2. QED
    BY <1>3, <1>6, <2>1 DEF Acted
<1>7. CASE e # n
  <2>1. Fits(n, Update(r, n, "OK"), <<StateFrame(n, "OK")>>)
    BY <1>2, <1>4, <1>5, <1>7, FreshFits DEF Mild, Follows
  <2>2. QED
    BY <1>3, <1>7, <2>1 DEF Acted
<1>8. QED
  BY <1>6, <1>7

LEMMA FinishRecoveryFits ==
  ASSUME CoordinationAssumption, Inv, Spread, NEW n \in Node, FinishRecovery(n)
  PROVE  Acted(n)
<1> DEFINE r == [nd[n] EXCEPT !.mode = "LEADER", !.timer = 0]
<1>1. r \in NodeState /\ r.mode = "LEADER" /\ "LEADER" \in Status
  <2>1. nd[n] \in NodeState
    BY InvNode
  <2>2. QED
    BY <2>1, Ranges DEF NodeState, Mode, Status
<1>2. Act(n, Update(r, n, "LEADER"), <<LeaderFrame(n), StateFrame(n, "LEADER")>>)
  BY DEF FinishRecovery
<1> HIDE DEF r
<1>3. Mild(r, Update(r, n, "LEADER"), n)
  BY <1>1, MildTable
<1>4. Says(n, <<LeaderFrame(n), StateFrame(n, "LEADER")>>)
  BY <1>1, SaysFrames, EasyFrames DEF Easy
<1>5. Fits(n, Update(r, n, "LEADER"), <<LeaderFrame(n), StateFrame(n, "LEADER")>>)
  BY <1>1, <1>3, <1>4, FreshFits DEF Mild, Follows
<1>6. QED
  BY <1>2, <1>5 DEF Acted

LEMMA WatchdogFits ==
  ASSUME CoordinationAssumption, Inv, Spread, NEW n \in Node, FollowerWatchdog(n)
  PROVE  Acted(n)
<1>1. Says(n, <<StartFrame(Broadcast), ElectionFrame(n)>>)
  BY SaysFrames, EasyFrames DEF Easy, Target
<1>2. QED
  BY <1>1, StartElectionFits DEF FollowerWatchdog, Acted

LEMMA ConflictFits ==
  ASSUME CoordinationAssumption, Inv, Spread, NEW n \in Node, NEW other \in Node, other # n,
         Conflict(n, other)
  PROVE  Handled(n)
<1> DEFINE r == Update(nd[n], n, "CONFLICT")
           q == [r EXCEPT !.mode = "FOLLOWER", !.leaderId = other, !.timer = 0]
<1>1. nd[n] \in NodeState /\ "CONFLICT" \in Status /\ "OK" \in Status /\ Broadcast \in Target
  BY InvNode DEF Status, Target
<1>2. r \in NodeState /\ Mild(nd[n], r, n)
  BY <1>1, MildTable, StatusType
<1>3. q \in NodeState /\ q.mode = "FOLLOWER" /\ q.leaderId = other
  <2> HIDE DEF r
  <2>1. QED
    BY <1>2, Ranges DEF NodeState, Mode
<1>4. /\ Says(n, <<StateFrame(n, "CONFLICT"), StateFrame(n, "OK")>>)
      /\ Says(n, <<StateFrame(n, "CONFLICT"), StartFrame(Broadcast)>>)
  BY <1>1, SaysFrames, EasyFrames DEF Easy
<1>5. Mild(q, Update(q, n, "OK"), n)
  <2> HIDE DEF q
  <2>1. QED
    BY <1>1, <1>3, MildTable
<1>6. Fits(n, Update(q, n, "OK"), <<StateFrame(n, "CONFLICT"), StateFrame(n, "OK")>>)
  <2> HIDE DEF q
  <2>1. other # 0
    BY Ranges
  <2>2. QED
    BY <1>3, <1>4, <1>5, <2>1, FreshFits DEF Mild, Follows
<1>7. Fits(n, r, <<StateFrame(n, "CONFLICT"), StartFrame(Broadcast)>>)
  BY <1>2, <1>4, MildFits
<1>8. \/ Handle(n, Update(q, n, "OK"), <<StateFrame(n, "CONFLICT"), StateFrame(n, "OK")>>)
      \/ Handle(n, r, <<StateFrame(n, "CONFLICT"), StartFrame(Broadcast)>>)
  BY DEF Conflict
<1>9. QED
  BY <1>6, <1>7, <1>8 DEF Handled

LEMMA LeaderFits ==
  ASSUME CoordinationAssumption, Inv, Spread, NEW n \in Node, OnLeader(n)
  PROVE  Handled(n)
<1> DEFINE announced == Head(inbox[n]).node
           r == MarkSeen(Update(nd[n], announced, "LEADER"), announced)
           named  == [r EXCEPT !.leaderId = announced]
           follow == [r EXCEPT !.leaderId = announced, !.mode = "FOLLOWER", !.timer = 0]
<1>1. announced \in Node /\ nd[n] \in NodeState /\ announced # n /\ announced # 0 /\ "LEADER" \in Status
  <2>1. Head(inbox[n]) \in Frame /\ Head(inbox[n]).kind = "LEADER" /\ inbox[n] # <<>>
    BY HeadFrame DEF OnLeader
  <2>2. QED
    BY <2>1, FrameFields, InvNode, HeadForeign, Ranges DEF NodeKinds, Foreign, Status
<1>2. Mild(nd[n], Update(nd[n], announced, "LEADER"), n) /\ Update(nd[n], announced, "LEADER") \in NodeState
  BY <1>1, MildTable, StatusType
<1>3. r \in NodeState /\ Mild(nd[n], r, n)
  BY <1>1, <1>2, MildMore
<1>4. CASE InOffice(nd[n])
  BY <1>1, <1>4, ConflictFits DEF OnLeader
<1>5. CASE ~InOffice(nd[n])
  <2>1. \/ Handle(n, r, <<>>)
        \/ r.mode = "FAULT" /\ Handle(n, named, <<>>)
        \/ Handle(n, follow, <<>>)
    BY <1>5 DEF OnLeader
  <2> HIDE DEF r
  <2>2. Fits(n, r, <<>>)
    BY <1>3, MildFits, SaysFrames
  <2>3. named.mode = r.mode /\ named.leaderId = announced /\ named.status = r.status
    BY <1>3 DEF NodeState
  <2>4. follow.mode = "FOLLOWER" /\ follow.leaderId = announced
    BY <1>3 DEF NodeState
  <2> HIDE DEF named, follow
  <2>5. Fits(n, follow, <<>>)
    BY <1>1, <2>4, FreshFits, SaysFrames DEF Follows
  <2>6. r.mode = "FAULT" => Fits(n, named, <<>>)
    BY <1>1, <2>2, <2>3 DEF Fits, Follows, Confesses
  <2>7. QED
    BY <2>1, <2>2, <2>5, <2>6 DEF Handled
<1>6. QED
  BY <1>4, <1>5

LEMMA HeartbeatFits ==
  ASSUME CoordinationAssumption, Inv, Spread, NEW n \in Node, OnHeartbeat(n)
  PROVE  Handled(n)
<1> DEFINE beat == Head(inbox[n])
           q == [nd[n] EXCEPT !.rate = beat.rate]
           r == MarkSeen(Update(q, beat.node, "LEADER"), beat.node)
           join == [r EXCEPT !.leaderId = beat.node, !.mode = "JOINING", !.attempts = 0,
                             !.accepted = FALSE, !.timer = JoinRetryTicks]
           in == [r EXCEPT !.mode = "FOLLOWER", !.accepted = FALSE, !.timer = 0]
<1>1. /\ beat \in Frame /\ beat.kind = "HEARTBEAT" /\ nd[n] \in NodeState /\ inbox[n] # <<>>
      /\ {"LEADER", "JOINING", "OK"} \subseteq Status
  BY HeadFrame, InvNode DEF OnHeartbeat, Status
<1>2. beat.node \in Node /\ beat.node # n /\ beat.node # 0 /\ beat.rate \in Rates
  BY <1>1, FrameFields, HeadForeign, Ranges DEF NodeKinds, Foreign
<1>3. q \in NodeState /\ Mild(nd[n], q, n)
  BY <1>1, <1>2 DEF NodeState, Mild
<1>4. r \in NodeState /\ Mild(nd[n], r, n)
  <2> HIDE DEF q
  <2>1. Mild(nd[n], Update(q, beat.node, "LEADER"), n) /\ Update(q, beat.node, "LEADER") \in NodeState
    BY <1>1, <1>2, <1>3, MildMore
  <2>2. QED
    BY <1>1, <1>2, <2>1, MildMore
<1>5. /\ join \in NodeState /\ join.mode = "JOINING" /\ join.leaderId = beat.node
      /\ in \in NodeState /\ in.mode = "FOLLOWER" /\ in.leaderId = r.leaderId
  <2> HIDE DEF r, beat
  <2>1. QED
    BY <1>2, <1>4, Ranges DEF NodeState, Mode
<1>6. \/ InOffice(nd[n]) /\ Conflict(n, beat.node)
      \/ Handle(n, Update(join, n, "JOINING"), <<>>)
      \/ beat.node = r.leaderId /\ Handle(n, Update(in, n, "OK"), <<StateFrame(n, "OK")>>)
      \/ r.mode = "FOLLOWER" /\ FollowHeartbeat(n, r, beat)
      \/ Handle(n, r, <<>>)
  BY DEF OnHeartbeat, BeginJoin
<1> HIDE DEF r, join, in
<1>7. Fits(n, r, <<>>)
  BY <1>4, MildFits, SaysFrames
<1>8. Fits(n, Update(join, n, "JOINING"), <<>>)
  <2>1. Mild(join, Update(join, n, "JOINING"), n)
    BY <1>1, <1>5, MildTable
  <2>2. QED
    BY <1>2, <1>5, <2>1, FreshFits, SaysFrames DEF Mild, Follows
<1>9. beat.node = r.leaderId => Fits(n, Update(in, n, "OK"), <<StateFrame(n, "OK")>>)
  <2>1. Mild(in, Update(in, n, "OK"), n)
    BY <1>1, <1>5, MildTable
  <2>2. Says(n, <<StateFrame(n, "OK")>>)
    BY <1>1, SaysFrames, EasyFrames DEF Easy
  <2>3. QED
    BY <1>2, <1>5, <2>1, <2>2, FreshFits DEF Mild, Follows
<1>10. ASSUME r.mode = "FOLLOWER", FollowHeartbeat(n, r, beat)
       PROVE  Handled(n)
  <2> DEFINE s == [r EXCEPT !.leaderId = IF beat.node > @ THEN beat.node ELSE @]
             t == [s EXCEPT !.timer = 0]
  <2>1. /\ s \in NodeState /\ s.mode = "FOLLOWER" /\ s.leaderId \in {beat.node, r.leaderId}
        /\ s.leaderId = r.leaderId \/ s.leaderId = beat.node
    BY <1>2, <1>4, <1>10 DEF NodeState
  <2>2. /\ t \in NodeState /\ t.mode = "FOLLOWER" /\ t.leaderId = s.leaderId
    <3> HIDE DEF s
    <3>1. QED
      BY <2>1, Ranges DEF NodeState
  <2>3. \/ Handle(n, s, <<>>) \/ Handle(n, t, <<>>)
        \/ Handle(n, MarkSeen(t, n), <<SensorFrame(n)>>)
    BY <1>10 DEF FollowHeartbeat
  <2> HIDE DEF s, t
  <2>4. NothingCleared /\ Follows(nd[n], n) => Follows(s, n) /\ Follows(t, n)
    BY <1>2, <1>4, <1>10, <2>1, <2>2 DEF Follows, Mild
  <2>5. Mild(t, MarkSeen(t, n), n) /\ Says(n, <<SensorFrame(n)>>) /\ Says(n, <<>>)
    BY <1>1, <2>2, MildTable, SaysFrames, EasyFrames DEF Easy
  <2>6. Fits(n, s, <<>>) /\ Fits(n, t, <<>>)
    BY <2>1, <2>2, <2>4, <2>5, FreshFits
  <2>7. Fits(n, MarkSeen(t, n), <<SensorFrame(n)>>)
    BY <2>2, <2>4, <2>5, FreshFits DEF Mild, Follows
  <2>8. QED
    BY <2>3, <2>6, <2>7 DEF Handled
<1>11. QED
  BY <1>2, <1>6, <1>7, <1>8, <1>9, <1>10, ConflictFits DEF Handled

LEMMA JoinFits ==
  ASSUME CoordinationAssumption, Inv, Spread, NEW n \in Node
  PROVE  /\ OnJoinRequest(n) \/ OnJoinAccept(n) => Handled(n)
         /\ JoinProcess(n) => Acted(n)
<1>1. nd[n] \in NodeState /\ {"JOINING", "OK"} \subseteq Status
  BY InvNode DEF Status
<1>2. ASSUME OnJoinRequest(n) PROVE Handled(n)
  <2> DEFINE joining == Head(inbox[n]).node
             k == Register(nd[n], joining)
             u == Update(k, joining, "JOINING")
             r == MarkSeen(u, joining)
             a == Update(r, joining, "OK")
  <2>1. joining \in Node
    BY <1>2, HeadFrame, FrameFields DEF OnJoinRequest, NodeKinds
  <2>2. k \in NodeState /\ Mild(nd[n], k, n)
    BY <1>1, <2>1, MildTable, StatusType
  <2>3. u \in NodeState /\ Mild(nd[n], u, n)
    BY <1>1, <2>1, <2>2, MildMore
  <2>4. r \in NodeState /\ Mild(nd[n], r, n)
    BY <1>1, <2>1, <2>3, MildMore
  <2>5. a \in NodeState /\ Mild(nd[n], a, n)
    BY <1>1, <2>1, <2>4, MildMore
  <2>6. \/ /\ r.mode = "LEADER"
           /\ Handle(n, a, <<AcceptFrame(joining, r.leaderId), StateFrame(joining, "OK"),
                             TableFrame(a.status)>>)
        \/ Handle(n, r, <<>>)
    BY <1>2 DEF OnJoinRequest
  <2> HIDE DEF r, a
  <2>7. r.mode = "LEADER" => r.leaderId = n
    BY <2>4 DEF Mild, Inv, OfficeKnown, InOffice
  <2>8. Says(n, <<AcceptFrame(joining, n), StateFrame(joining, "OK"), TableFrame(a.status)>>)
    <3>1. a.status \in [Node -> Status]
      BY <2>5 DEF NodeState
    <3>2. QED
      BY <1>1, <2>1, <3>1, SaysFrames, EasyFrames DEF Easy
  <2>9. /\ Fits(n, a, <<AcceptFrame(joining, n), StateFrame(joining, "OK"), TableFrame(a.status)>>)
        /\ Fits(n, r, <<>>)
    BY <2>4, <2>5, <2>8, MildFits, SaysFrames
  <2>10. QED
    BY <2>6, <2>7, <2>9 DEF Handled
<1>3. ASSUME OnJoinAccept(n) PROVE Handled(n)
  <2> DEFINE f == Head(inbox[n])
             q == [Register(nd[n], n) EXCEPT !.leaderId = f.leader, !.accepted = TRUE]
  <2>1. f \in Frame /\ f.kind = "JOIN_ACCEPT" /\ inbox[n] # <<>>
    BY <1>3, HeadFrame DEF OnJoinAccept
  <2>2. f.leader \in Node /\ f.leader # n /\ f.leader # 0
    BY <2>1, FrameFields, HeadForeign, Ranges DEF Foreign
  <2>3. q \in NodeState /\ q.mode = nd[n].mode /\ q.leaderId = f.leader
    BY <1>1, <2>2 DEF NodeState, Register
  <2>4. \/ nd[n].mode = "JOINING" /\ Handle(n, Update(q, n, "JOINING"), <<>>)
        \/ Handle(n, nd[n], <<>>)
    BY <1>3 DEF OnJoinAccept
  <2> HIDE DEF q
  <2>5. Mild(q, Update(q, n, "JOINING"), n)
    BY <1>1, <2>3, MildTable
  <2>6. nd[n].mode = "JOINING" => Fits(n, Update(q, n, "JOINING"), <<>>)
    BY <2>2, <2>3, <2>5, FreshFits, SaysFrames DEF Mild, Follows
  <2>7. Fits(n, nd[n], <<>>)
    BY MildFits, SaysFrames DEF Mild
  <2>8. QED
    BY <2>4, <2>6, <2>7 DEF Handled
<1>4. ASSUME JoinProcess(n) PROVE Acted(n)
  <2> DEFINE giveUp == [nd[n] EXCEPT !.mode = "IDLE", !.attempts = 0, !.timer = 0]
             retry  == [nd[n] EXCEPT !.attempts = @ + 1, !.timer = 0]
  <2>1. Act(n, giveUp, <<>>) \/ Act(n, retry, <<JoinFrame(n)>>)
    BY <1>4 DEF JoinProcess
  <2>2. giveUp.mode = "IDLE" /\ Mild(nd[n], retry, n)
    BY <1>1 DEF NodeState, Mild
  <2>3. Says(n, <<>>) /\ Says(n, <<JoinFrame(n)>>)
    BY SaysFrames, EasyFrames DEF Easy
  <2> HIDE DEF giveUp, retry
  <2>4. Fits(n, giveUp, <<>>) /\ Fits(n, retry, <<JoinFrame(n)>>)
    BY <2>2, <2>3, MildFits, FreshFits DEF Follows
  <2>5. QED
    BY <2>1, <2>4 DEF Acted
<1>5. QED
  BY <1>2, <1>3, <1>4

LEMMA TableFits ==
  ASSUME CoordinationAssumption, Inv, Spread, NEW n \in Node,
         \/ OnSensor(n) \/ OnState(n) \/ OnTable(n) \/ OnForce(n)
         \/ OnStatusRequest(n) \/ OnStatusResponse(n) \/ OnRate(n)
  PROVE  Handled(n)
<1> DEFINE f == Head(inbox[n])
<1>1. nd[n] \in NodeState /\ "OK" \in Status /\ Mild(nd[n], nd[n], n)
  BY InvNode DEF Status, Mild
<1>2. \A r : Mild(nd[n], r, n) /\ Handle(n, r, <<>>) => Handled(n)
  BY MildFits, SaysFrames DEF Handled
<1>3. CASE OnSensor(n)
  <2> DEFINE k == Register(nd[n], f.node)
             r == MarkSeen(k, f.node)
  <2>1. f.node \in Node
    BY <1>3, HeadFrame, FrameFields DEF OnSensor, NodeKinds
  <2>2. k \in NodeState /\ Mild(nd[n], k, n)
    BY <1>1, <2>1, MildTable, StatusType
  <2>3. r \in NodeState /\ Mild(nd[n], r, n)
    BY <1>1, <2>1, <2>2, MildMore
  <2>4. Mild(nd[n], Update(r, f.node, "OK"), n)
    BY <1>1, <2>1, <2>3, MildMore
  <2>5. QED
    BY <1>2, <1>3, <2>4 DEF OnSensor
<1>4. CASE OnState(n)
  <2> DEFINE k == Register(nd[n], f.node)
             r == Update(k, f.node, f.status)
  <2>1. f.node \in Node /\ f.status \in Status
    BY <1>4, HeadFrame, FrameFields DEF OnState, NodeKinds
  <2>2. k \in NodeState /\ Mild(nd[n], k, n)
    BY <1>1, <2>1, MildTable, StatusType
  <2>3. r \in NodeState /\ Mild(nd[n], r, n)
    BY <2>1, <2>2, MildMore
  <2>4. Mild(nd[n], MarkSeen(r, f.node), n)
    BY <1>1, <2>1, <2>3, MildMore
  <2>5. QED
    BY <1>2, <1>4, <2>4 DEF OnState
<1>5. CASE OnTable(n)
  <2> DEFINE t == f.table
             listed == {m \in Node : t[m] # "UNKNOWN"}
             status == [m \in Node |-> IF m \in listed /\ ~Protected(nd[n], m, t[m])
                                       THEN t[m] ELSE nd[n].status[m]]
             seen   == [m \in Node |-> IF m \in listed THEN 0 ELSE nd[n].seen[m]]
             r == [nd[n] EXCEPT !.known = @ \cup listed, !.status = status, !.seen = seen]
  <2>1. nd[n].status[n] = "FAULT" => status[n] = "FAULT"
    BY <1>1 DEF Protected
  <2>2. r.status = status /\ r.mode = nd[n].mode /\ r.leaderId = nd[n].leaderId
    <3> HIDE DEF status, seen
    <3>1. QED
      BY <1>1 DEF NodeState
  <2>3. Handle(n, r, <<>>)
    BY <1>5 DEF OnTable
  <2> HIDE DEF r, status
  <2>4. QED
    BY <1>2, <2>1, <2>2, <2>3 DEF Mild
<1>6. CASE OnForce(n)
  <2>1. f \in Frame /\ f.kind = "FORCE" /\ inbox[n] # <<>>
    BY <1>6, HeadFrame DEF OnForce
  <2>2. f.node \in Node /\ f.node # n /\ f.status \in Status
    BY <2>1, FrameFields, HeadForeign DEF NodeKinds, Foreign
  <2>3. Mild(nd[n], ForceStatus(Register(nd[n], f.node), f.node, f.status), n)
    BY <1>1, <2>2 DEF Mild, ForceStatus, Register, NodeState
  <2>4. QED
    BY <1>2, <1>6, <2>3 DEF OnForce
<1>7. CASE OnStatusRequest(n)
  <2> DEFINE s == LocalStatus(nd[n])
             answer == [kind |-> "STATUS_RESPONSE", node |-> n, status |-> s]
  <2>1. s \in Status
    BY DEF LocalStatus, Status
  <2>2. answer \in Frame /\ Easy(answer, n)
    BY <2>1 DEF Easy, Frame, Speaks, Clears
  <2>3. Fits(n, Update(nd[n], n, s), <<answer>>)
    BY <1>1, <2>1, <2>2, MildTable, MildFits, SaysFrames
  <2>4. Handle(n, Update(nd[n], n, s), <<answer>>) \/ Handle(n, nd[n], <<>>)
    BY <1>7 DEF OnStatusRequest
  <2>5. QED
    BY <1>1, <1>2, <2>3, <2>4 DEF Handled
<1>8. CASE OnStatusResponse(n)
  <2>1. f.node \in Node /\ f.status \in Status
    BY <1>8, HeadFrame, FrameFields DEF OnStatusResponse, NodeKinds
  <2>2. QED
    BY <1>1, <1>2, <1>8, <2>1, MildTable DEF OnStatusResponse
<1>9. CASE OnRate(n)
  <2>1. Mild(nd[n], [nd[n] EXCEPT !.rate = f.rate], n)
    BY <1>1 DEF Mild, NodeState
  <2>2. QED
    BY <1>2, <1>9, <2>1 DEF OnRate
<1>10. QED
  BY <1>3, <1>4, <1>5, <1>6, <1>7, <1>8, <1>9

LEMMA ControlFits ==
  ASSUME CoordinationAssumption, Inv, Spread, NEW n \in Node, OnSensorControl(n)
  PROVE  Handled(n)
<1> DEFINE f == Head(inbox[n])
<1>1. /\ nd[n] \in NodeState /\ {"OK", "DISABLED", "FAULT"} \subseteq Status
      /\ f \in Frame /\ f.kind = "SENSOR_CTRL" /\ inbox[n] # <<>>
  BY InvNode, HeadFrame DEF Status, OnSensorControl
<1>2. f.action \in Action /\ (NothingCleared => ~Clears(f))
  BY <1>1, HeadForeign DEF Frame, Foreign
<1>3. Fits(n, nd[n], <<>>)
  BY MildFits, SaysFrames DEF Mild
<1>4. ASSUME NEW on \in BOOLEAN, NEW s \in Status
      PROVE  Fits(n, Update([nd[n] EXCEPT !.sensorEnabled = on], n, s), <<StateFrame(n, s)>>)
  <2> DEFINE q == [nd[n] EXCEPT !.sensorEnabled = on]
  <2>1. q \in NodeState /\ Mild(nd[n], q, n)
    BY <1>1 DEF NodeState, Mild
  <2> HIDE DEF q
  <2>2. Mild(nd[n], Update(q, n, s), n)
    BY <2>1, MildMore
  <2>3. Says(n, <<StateFrame(n, s)>>)
    BY SaysFrames, EasyFrames DEF Easy
  <2>4. QED
    BY <2>2, <2>3, MildFits DEF q
<1>5. CASE f.target # n
  BY <1>3, <1>5 DEF OnSensorControl, Handled
<1>6. CASE f.target = n /\ f.action = "OFF"
  <2>1. \/ Handle(n, nd[n], <<>>)
        \/ Handle(n, Update([nd[n] EXCEPT !.sensorEnabled = FALSE], n, "DISABLED"), <<StateFrame(n, "DISABLED")>>)
    BY <1>6 DEF OnSensorControl
  <2>2. QED
    BY <1>1, <1>3, <1>4, <2>1 DEF Handled
<1>7. CASE f.target = n /\ f.action = "ON"
  <2>1. \/ Handle(n, nd[n], <<>>)
        \/ Handle(n, Update([nd[n] EXCEPT !.sensorEnabled = TRUE], n, "OK"), <<StateFrame(n, "OK")>>)
    BY <1>7 DEF OnSensorControl
  <2>2. QED
    BY <1>1, <1>3, <1>4, <2>1 DEF Handled
<1>8. CASE f.target = n /\ f.action = "DISABLE_FAULT"
  <2> DEFINE q == [nd[n] EXCEPT !.sensorEnabled = FALSE, !.mode = "FAULT"]
             r == Update(q, n, "FAULT")
  <2>1. q \in NodeState /\ q.mode = "FAULT"
    BY <1>1 DEF NodeState, Mode
  <2>2. Handle(n, r, <<StateFrame(n, "FAULT")>>)
    BY <1>8 DEF OnSensorControl
  <2> HIDE DEF q
  <2>3. r.mode = "FAULT" /\ r.status[n] = "FAULT"
    BY <2>1 DEF Update, Protected, ForceStatus, NodeState
  <2>4. Says(n, <<StateFrame(n, "FAULT")>>)
    BY <1>1, SaysFrames, EasyFrames DEF Easy
  <2>5. \E i \in DOMAIN <<StateFrame(n, "FAULT")>> : Word(<<StateFrame(n, "FAULT")>>[i], n)
    BY DEF Word
  <2>6. Fits(n, r, <<StateFrame(n, "FAULT")>>)
    BY <2>3, <2>4, <2>5 DEF Fits, Says, Easy, Follows, Confesses
  <2>7. QED
    BY <2>2, <2>6 DEF Handled
<1>9. CASE f.target = n /\ f.action = "CLEAR_FAULT"
  <2> DEFINE q == [nd[n] EXCEPT !.sensorEnabled = TRUE,
                     !.mode = IF @ = "FAULT" THEN "FOLLOWER" ELSE @,
                     !.timer = IF nd[n].mode = "FAULT" THEN 0 ELSE @]
             r == ForceStatus(q, n, "OK")
             out == <<ForceFrame(n, "OK")>>
  <2>1. q \in NodeState /\ q.mode # "FAULT"
    BY <1>1, Ranges DEF NodeState, Mode
  <2>2. Handle(n, r, out)
    BY <1>9 DEF OnSensorControl
  <2> HIDE DEF q
  <2>3. r.mode # "FAULT"
    BY <2>1 DEF ForceStatus, NodeState
  <2>4. ForceFrame(n, "OK") \in Frame /\ Speaks(ForceFrame(n, "OK"), n)
    BY <1>1, FrameTypes DEF Speaks, Clears, ForceFrame
  <2>5. out \in Seq(Frame) /\ \A i \in DOMAIN out : Speaks(out[i], n)
    BY <2>4
  <2>6. ~NothingCleared
    BY <1>1, <1>2, <1>9 DEF Clears
  <2>7. Fits(n, r, out)
    BY <2>3, <2>5, <2>6 DEF Fits, Confesses
  <2>8. QED
    BY <2>2, <2>7 DEF Handled
<1>10. QED
  BY <1>2, <1>5, <1>6, <1>7, <1>8, <1>9 DEF Action

LEMMA BeatFits ==
  ASSUME CoordinationAssumption, Inv, Spread, NEW n \in Node,
         SendHeartbeat(n) \/ \E m \in Node : DeclareAbsent(n, m)
  PROVE  Acted(n)
<1>1. nd[n] \in NodeState /\ "FAULT" \in Status
  BY InvNode DEF Status
<1>2. CASE SendHeartbeat(n)
  <2> DEFINE r == nd[n]
             next == [r EXCEPT !.timer = 0, !.tick = (@ + 1) % TickMod]
             beat == [kind |-> "HEARTBEAT", node |-> n, tick |-> r.tick,
                      active |-> Cardinality(ActiveForTdma(r)), rate |-> r.rate]
  <2>1. Mild(nd[n], next, n)
    BY <1>1 DEF NodeState, Mild
  <2>2. beat \in Frame /\ Easy(beat, n)
    <3>1. r.tick \in Nat /\ Cardinality(ActiveForTdma(r)) \in Nat /\ r.rate \in Rates
      BY <1>1, ActiveCount, Ranges DEF NodeState
    <3>2. beat \in Frame
      BY <3>1 DEF Frame
    <3>3. QED
      BY <3>2 DEF Easy, Speaks, Clears
  <2>3. \/ Act(n, next, <<beat>>)
        \/ \E m \in Node : Act(n, next, <<StateFrame(m, r.status[m]), beat>>)
    BY <1>2 DEF SendHeartbeat
  <2> HIDE DEF next, beat
  <2>4. Fits(n, next, <<beat>>)
    BY <2>1, <2>2, MildFits, SaysFrames
  <2>5. ASSUME NEW m \in Node PROVE Fits(n, next, <<StateFrame(m, r.status[m]), beat>>)
    <3>1. r.status[m] \in Status
      BY <1>1 DEF NodeState
    <3>2. Says(n, <<StateFrame(m, r.status[m]), beat>>)
      BY <2>2, <3>1, SaysFrames, EasyFrames DEF Easy
    <3>3. QED
      BY <2>1, <3>2, MildFits
  <2>6. QED
    BY <2>3, <2>4, <2>5 DEF Acted
<1>3. ASSUME NEW m \in Node, DeclareAbsent(n, m)
      PROVE  Acted(n)
  <2>1. Says(n, <<StateFrame(m, "FAULT")>>)
    BY <1>1, SaysFrames, EasyFrames DEF Easy
  <2>2. Fits(n, Update(nd[n], m, "FAULT"), <<StateFrame(m, "FAULT")>>)
    BY <1>1, <2>1, MildTable, MildFits
  <2>3. QED
    BY <1>3, <2>2 DEF DeclareAbsent, Acted
<1>4. QED
  BY <1>2, <1>3

---------------------------------------------------------------------------
(* What a handler leaves recorded of the others.                           *)
LEMMA KeptRetains ==
  ASSUME Inv, NEW n \in Node, Kept, inbox[n] # <<>>, Head(inbox[n]).kind # "STATE"
  PROVE  Retains(n)
BY DEF Retains, Kept, Erased, Word, StateFrame

LEMMA StateRetains ==
  ASSUME CoordinationAssumption, Inv, NEW n \in Node, OnState(n)
  PROVE  Retains(n)
<1> DEFINE f == Head(inbox[n])
           r == Update(Register(nd[n], f.node), f.node, f.status)
<1>1. /\ nd[n] \in NodeState /\ f.node \in Node /\ f.status \in Status
      /\ Kept /\ f \in Frame
  BY InvNode, HeadFrame, FrameFields, TableKeeps DEF OnState, NodeKinds
<1>2. f.status = "FAULT" => MarkSeen(r, f.node).status[f.node] = "FAULT"
  BY <1>1 DEF MarkSeen, Update, Protected, ForceStatus, Register, NodeState
<1>3. nd'[n] = MarkSeen(r, f.node)
  BY DEF OnState, Handle, Inv, TypeOK
<1>4. ASSUME NEW x \in Node, Word(f, x)
      PROVE  nd'[n].status[x] = "FAULT"
  BY <1>2, <1>3, <1>4 DEF Word, StateFrame
<1>5. QED
  BY <1>1, <1>4 DEF Retains, Kept, Erased

LEMMA ForceRetains ==
  ASSUME CoordinationAssumption, Inv, NEW n \in Node, OnForce(n)
  PROVE  Retains(n)
<1> DEFINE f == Head(inbox[n])
           r == ForceStatus(Register(nd[n], f.node), f.node, f.status)
<1>1. /\ nd[n] \in NodeState /\ f.node \in Node /\ f.status \in Status
      /\ f \in Frame /\ f.kind = "FORCE"
  BY InvNode, HeadFrame, FrameFields DEF OnForce, NodeKinds
<1>2. \A x \in Node : x # f.node => r.status[x] = nd[n].status[x]
  BY <1>1 DEF ForceStatus, Register, NodeState
<1>3. nd'[n] = r
  BY DEF OnForce, Handle, Inv, TypeOK
<1>4. QED
  BY <1>1, <1>2, <1>3 DEF Retains, Revokes, Word, StateFrame

LEMMA ControlRetains ==
  ASSUME CoordinationAssumption, Inv, NEW n \in Node, OnSensorControl(n)
  PROVE  Retains(n)
<1> DEFINE f == Head(inbox[n])
<1>1. nd[n] \in NodeState /\ f \in Frame /\ f.kind = "SENSOR_CTRL" /\ f.action \in Action
  BY InvNode, HeadFrame DEF OnSensorControl, Frame
<1>2. ASSUME NEW x \in Node, x # n
      PROVE  nd'[n].status[x] = nd[n].status[x]
  <2>1. ASSUME NEW q, q \in NodeState, q.status = nd[n].status, NEW s \in Status, NEW out,
               Handle(n, Update(q, n, s), out) \/ Handle(n, ForceStatus(q, n, s), out)
        PROVE  nd'[n].status[x] = nd[n].status[x]
    <3>1. Update(q, n, s).status[x] = nd[n].status[x] /\ ForceStatus(q, n, s).status[x] = nd[n].status[x]
      BY <1>2, <2>1 DEF Update, ForceStatus, NodeState
    <3>2. nd'[n] = Update(q, n, s) \/ nd'[n] = ForceStatus(q, n, s)
      BY <2>1 DEF Handle, Inv, TypeOK
    <3>3. QED
      BY <3>1, <3>2
  <2>2. ASSUME NEW q, NEW out, Handle(n, q, out) PROVE nd'[n] = q
    BY <2>2 DEF Handle, Inv, TypeOK
  <2>3. {"OK", "DISABLED", "FAULT"} \subseteq Status
    BY DEF Status
  <2>4. CASE f.target # n
    BY <2>2, <2>4 DEF OnSensorControl
  <2>5. ASSUME NEW on \in BOOLEAN
        PROVE  [nd[n] EXCEPT !.sensorEnabled = on] \in NodeState
               /\ [nd[n] EXCEPT !.sensorEnabled = on].status = nd[n].status
    BY <1>1 DEF NodeState
  <2>6. CASE f.target = n /\ f.action = "OFF"
    <3>1. \/ Handle(n, nd[n], <<>>)
          \/ Handle(n, Update([nd[n] EXCEPT !.sensorEnabled = FALSE], n, "DISABLED"), <<StateFrame(n, "DISABLED")>>)
      BY <2>6 DEF OnSensorControl
    <3>2. QED
      BY <2>1, <2>2, <2>3, <2>5, <3>1
  <2>7. CASE f.target = n /\ f.action = "ON"
    <3>1. \/ Handle(n, nd[n], <<>>)
          \/ Handle(n, Update([nd[n] EXCEPT !.sensorEnabled = TRUE], n, "OK"), <<StateFrame(n, "OK")>>)
      BY <2>7 DEF OnSensorControl
    <3>2. QED
      BY <2>1, <2>2, <2>3, <2>5, <3>1
  <2>8. CASE f.target = n /\ f.action = "DISABLE_FAULT"
    <3> DEFINE q == [nd[n] EXCEPT !.sensorEnabled = FALSE, !.mode = "FAULT"]
    <3>1. q \in NodeState /\ q.status = nd[n].status
      BY <1>1 DEF NodeState, Mode
    <3>2. Handle(n, Update(q, n, "FAULT"), <<StateFrame(n, "FAULT")>>)
      BY <2>8 DEF OnSensorControl
    <3> HIDE DEF q
    <3>3. QED
      BY <2>1, <2>3, <3>1, <3>2
  <2>9. CASE f.target = n /\ f.action = "CLEAR_FAULT"
    <3> DEFINE q == [nd[n] EXCEPT !.sensorEnabled = TRUE,
                       !.mode = IF @ = "FAULT" THEN "FOLLOWER" ELSE @,
                       !.timer = IF nd[n].mode = "FAULT" THEN 0 ELSE @]
    <3>1. q \in NodeState /\ q.status = nd[n].status
      BY <1>1, Ranges DEF NodeState, Mode
    <3>2. Handle(n, ForceStatus(q, n, "OK"), <<ForceFrame(n, "OK")>>)
      BY <2>9 DEF OnSensorControl
    <3> HIDE DEF q
    <3>3. QED
      BY <2>1, <2>3, <3>1, <3>2
  <2>10. QED
    BY <1>1, <2>4, <2>6, <2>7, <2>8, <2>9 DEF Action
<1>3. QED
  BY <1>1, <1>2 DEF Retains, Word, StateFrame

LEMMA ReceiveRetains ==
  ASSUME CoordinationAssumption, Inv, NEW n \in Node, Receive(n)
  PROVE  Retains(n)
<1>1. CASE OnState(n)
  BY <1>1, StateRetains
<1>2. CASE OnForce(n)
  BY <1>2, ForceRetains
<1>3. CASE OnSensorControl(n)
  BY <1>3, ControlRetains
<1>4. CASE \/ OnStart(n) \/ OnElection(n) \/ OnLeader(n) \/ OnHeartbeat(n) \/ OnSensor(n)
           \/ OnJoinRequest(n) \/ OnJoinAccept(n) \/ OnTable(n)
           \/ OnStatusRequest(n) \/ OnStatusResponse(n) \/ OnRate(n)
  <2>1. Kept
    BY <1>4, ElectionKeeps, OnLeaderKeeps, OnHeartbeatKeeps, JoinKeeps, TableKeeps, RestOfNodeKeeps
  <2>2. inbox[n] # <<>> /\ Head(inbox[n]).kind # "STATE"
    BY <1>4 DEF HeadIs, OnStart, OnElection, OnLeader, OnHeartbeat, OnSensor, OnJoinRequest,
       OnJoinAccept, OnTable, OnStatusRequest, OnStatusResponse, OnRate
  <2>3. QED
    BY <2>1, <2>2, KeptRetains
<1>5. QED
  BY <1>1, <1>2, <1>3, <1>4 DEF Receive

---------------------------------------------------------------------------
(* Every step keeps Spread.                                                *)
LEMMA ReceiveSpreads ==
  ASSUME CoordinationAssumption, Inv, Spread, NEW n \in Node, Receive(n)
  PROVE  Spread'
<1>1. Handled(n)
  BY StartFits, ElectionFits, LeaderFits, HeartbeatFits, JoinFits, TableFits, ControlFits DEF Receive
<1>2. Retains(n)
  BY ReceiveRetains
<1>3. inbox[n] # <<>>
  BY DEF Receive, HeadIs, OnStart, OnElection, OnLeader, OnHeartbeat, OnSensor, OnJoinRequest,
     OnJoinAccept, OnState, OnTable, OnForce, OnStatusRequest, OnStatusResponse, OnSensorControl, OnRate
<1>4. PICK r, out : Fits(n, r, out) /\ Handle(n, r, out)
  BY <1>1 DEF Handled
<1>5. QED
  BY <1>2, <1>3, <1>4, NodeSpreads DEF Handle, SameBench

LEMMA DeadlineSpreads ==
  ASSUME CoordinationAssumption, Inv, Spread, NEW n \in Node, Deadline(n)
  PROVE  Spread'
<1>1. Acted(n)
  BY FinishElectionFits, FinishRecoveryFits, WatchdogFits, JoinFits, BeatFits DEF Deadline
<1>2. Kept
  BY ElectionKeeps, JoinKeeps, RestOfNodeKeeps DEF Deadline
<1>3. PICK r, out : Fits(n, r, out) /\ Act(n, r, out)
  BY <1>1 DEF Acted
<1>4. QED
  BY <1>2, <1>3, NodeSpreads DEF Act, SameBench

(* A typed frame speaks for nobody's leadership.                           *)
LEMMA MenuEasy ==
  ASSUME Inv, NEW f \in bench.menu, NEW k
  PROVE  Easy(f, k)
<1>1. f \in Frame /\ f.kind \in {"START", "STATUS_REQUEST", "SENSOR_CTRL", "RATE"}
  BY DEF Inv, TypeOK, Plan, Command
<1>2. NothingCleared => ~Clears(f)
  BY DEF NothingCleared
<1>3. QED
  BY <1>1, <1>2 DEF Easy, Speaks

LEMMA CommandSpreads ==
  ASSUME CoordinationAssumption, Inv, Spread, NEW n \in Node,
         NEW f \in bench.menu, NodeCommand(n, f)
  PROVE  Spread'
<1> DEFINE rated == [nd[n] EXCEPT !.rate = f.rate]
           echo  == Announcement(nd[n], n)
<1>1. Kept
  BY OperatorKeeps DEF Operator
<1>2. SameBench /\ power' = power
  BY DEF NodeCommand, Counted, SameBench, Inv, TypeOK, Plan
<1>3. Easy(f, n) /\ f \in Frame /\ Says(n, echo) /\ Says(n, <<>>)
  BY MenuEasy, StartElectionFits, SaysFrames DEF Easy
<1>4. Says(n, <<f>> \o echo) /\ Says(n, <<f>> \o <<>>)
  <2> HIDE DEF echo
  <2>1. ASSUME NEW s, Says(n, s) PROVE Says(n, <<f>> \o s)
    <3>1. s \in Seq(Frame) /\ <<f>> \o s \in Seq(Frame)
      BY <1>3, <2>1 DEF Says
    <3>2. \A i \in DOMAIN (<<f>> \o s) : (<<f>> \o s)[i] = f \/ (i - 1 \in DOMAIN s /\ (<<f>> \o s)[i] = s[i - 1])
      BY <1>3, <3>1
    <3>3. QED
      BY <1>3, <2>1, <3>1, <3>2 DEF Says
  <2>2. QED
    BY <1>3, <2>1
<1>5. Mild(nd[n], nd[n], n) /\ Mild(nd[n], rated, n)
  <2>1. nd[n] \in NodeState
    BY InvNode
  <2>2. QED
    BY <2>1 DEF Mild, NodeState
<1>6. \/ /\ nd' = [nd EXCEPT ![n] = StartElection(nd[n], n)]
         /\ inbox' = Send(inbox, n, <<f>> \o echo)
      \/ /\ nd' = [nd EXCEPT ![n] = rated] \/ nd' = [nd EXCEPT ![n] = nd[n]]
         /\ inbox' = Send(inbox, n, <<f>> \o <<>>)
  BY DEF NodeCommand
<1> HIDE DEF rated, echo
<1>7. /\ Fits(n, StartElection(nd[n], n), <<f>> \o echo)
      /\ Fits(n, rated, <<f>> \o <<>>) /\ Fits(n, nd[n], <<f>> \o <<>>)
  BY <1>4, <1>5, StartElectionFits, MildFits
<1>8. QED
  BY <1>1, <1>2, <1>6, <1>7, NodeSpreads

(* Whoever adds nothing to a Node's buffer but easy frames: the Probe.     *)
LEMMA ProbeSpreads ==
  ASSUME CoordinationAssumption, Inv, Spread, SameBench, UNCHANGED <<nd, power>>,
         NEW out, Says(Probe, out), inbox' = Send(inbox, Probe, out)
  PROVE  Spread'
<1>1. out \in Seq(Frame) /\ \A i \in DOMAIN out : Speaks(out[i], Probe) /\ out[i].kind # "FORCE"
  BY DEF Says, Easy
<1>2. OwnVoice'
  <2>1. inbox \in [Station -> Seq(Frame)]
    BY DEF Inv, TypeOK
  <2>2. QED
    BY <1>1, <2>1, SendsForeign DEF Spread, OwnVoice
<1>3. Following'
  BY SameNames DEF Spread, Following, Follows
<1>4. ASSUME NEW m \in Steady, NEW x \in Node \ {m}
      PROVE  Reported(m, x)'
  <2>1. m \in Node /\ m # Probe /\ power[m] = "UP" /\ Reported(m, x) /\ inbox[m] \in Seq(Frame)
    <3>1. m \in Node /\ m # Probe
      BY Ranges DEF Steady, Probe
    <3>2. QED
      BY <3>1, InvNode DEF Spread, FaultsTold
  <2>2. inbox'[m] = inbox[m] \o out
    <3>1. inbox \in [Station -> Seq(Frame)] /\ out \in Seq(Frame)
      BY <1>1 DEF Inv, TypeOK
    <3>2. Send(inbox, Probe, out)[m] = inbox[m] \o out
      BY <2>1, <3>1, SentIs
    <3>3. QED
      BY <3>2
  <2> DEFINE b == nd[m].status[x] = "FAULT"
  <2>3. \A i \in DOMAIN out : ~Revokes(out[i], x)
    BY <1>1 DEF Revokes
  <2>4. Told(inbox[m], b, x) => Told(inbox[m] \o out, b, x)
    BY <1>1, <2>1, <2>3, AppendTold
  <2>5. QED
    BY <2>1, <2>2, <2>4, NowReported DEF Reported
<1>5. FaultsTold'
  BY <1>4, SameNames DEF Spread, FaultsTold, Confesses
<1>6. QED
  BY <1>2, <1>3, <1>5 DEF Spread

LEMMA ProbeStepSpreads ==
  ASSUME CoordinationAssumption, Inv, Spread,
         \/ ProbeWatchdog \/ ProbeStatusRefresh
         \/ \E f \in bench.menu : ProbeCommand(f)
  PROVE  Spread'
<1>1. SameBench /\ UNCHANGED <<nd, power>>
  BY DEF ProbeWatchdog, ProbeStatusRefresh, ProbeCommand, Counted, SameBench, Inv, TypeOK, Plan
<1>2. \A t \in Target : Says(Probe, <<StartFrame(t)>>) /\ Says(Probe, <<RequestFrame(t)>>)
  BY FrameTypes, SaysFrames DEF Easy, Speaks, Clears, StartFrame, RequestFrame
<1>3. \A f \in bench.menu : Says(Probe, <<f>>)
  BY MenuEasy, SaysFrames DEF Easy
<1>4. \E out : Says(Probe, out) /\ inbox' = Send(inbox, Probe, out)
  BY <1>2, <1>3 DEF ProbeWatchdog, ProbeStatusRefresh, ProbeCommand, Target
<1>5. QED
  BY <1>1, <1>4, ProbeSpreads

(* Buffers and tables as they were: the Probe reads, time passes.          *)
LEMMA StillSpreads ==
  ASSUME Spread, SameBench, power' = power,
         \A n \in Node : /\ nd'[n].mode = nd[n].mode /\ nd'[n].leaderId = nd[n].leaderId
                         /\ nd'[n].status = nd[n].status /\ inbox'[n] = inbox[n]
  PROVE  Spread'
<1>1. OwnVoice'
  BY SameNames DEF Spread, OwnVoice, Foreign
<1>2. Following'
  BY SameNames DEF Spread, Following, Follows
<1>3. \A m \in Steady : \A x \in Node \ {m} : Reported(m, x) => Reported(m, x)'
  BY NowReported DEF Steady, Reported
<1>4. FaultsTold'
  BY <1>3, SameNames DEF Spread, FaultsTold, Confesses
<1>5. QED
  BY <1>1, <1>2, <1>4 DEF Spread

LEMMA IdleSpreads ==
  ASSUME CoordinationAssumption, Inv, Spread, ProbeReceive \/ Tick \/ UNCHANGED vars
  PROVE  Spread'
<1>1. SameBench /\ power' = power
  BY DEF ProbeReceive, Tick, vars, SameBench
<1>2. \A n \in Node : /\ nd'[n].mode = nd[n].mode /\ nd'[n].leaderId = nd[n].leaderId
                      /\ nd'[n].status = nd[n].status
  <2>1. ASSUME NEW n \in Node
        PROVE  Aged(n).mode = nd[n].mode /\ Aged(n).leaderId = nd[n].leaderId /\ Aged(n).status = nd[n].status
    BY InvNode DEF Aged, NodeState
  <2>2. QED
    BY <2>1 DEF ProbeReceive, Tick, vars
<1>3. \A n \in Node : inbox'[n] = inbox[n]
  <2>1. \A n \in Node : n # Probe /\ n \in Station
    BY Ranges DEF Probe, Station
  <2>2. QED
    BY <2>1 DEF ProbeReceive, Tick, vars, Pop, Inv, TypeOK
<1>4. QED
  BY <1>1, <1>2, <1>3, StillSpreads

(* A Node that is frozen or powered off, thawed or powered on: it is or    *)
(* has been disturbed, and the others notice nothing.                      *)
LEMMA DisturbedSpreads ==
  ASSUME Inv, Spread, NEW n \in Node,
         bench'.menu = bench.menu /\ bench'.late = bench.late,
         n \notin Steady', Steady' \subseteq Steady,
         \A k \in Node \ {n} : nd'[k] = nd[k] /\ power'[k] = power[k] /\ inbox'[k] = inbox[k],
         inbox'[n] \in {<<>>, inbox[n]},
         \/ nd'[n].mode = "IDLE"
         \/ /\ nd'[n].mode = nd[n].mode /\ nd'[n].leaderId = nd[n].leaderId
            /\ nd'[n].status = nd[n].status
  PROVE  Spread'
<1>1. NothingCleared' <=> NothingCleared
  BY DEF NothingCleared
<1>2. OwnVoice'
  <2>1. SUFFICES ASSUME NEW k \in Node PROVE \A i \in DOMAIN inbox'[k] : Foreign(inbox'[k][i], k)
    BY <1>1 DEF OwnVoice, Foreign
  <2>2. QED
    BY DEF Spread, OwnVoice
<1>3. Following'
  BY <1>1 DEF Spread, Following, Follows
<1>4. \A k \in Node : Confesses(nd'[k], k)
  BY DEF Spread, FaultsTold, Confesses
<1>5. ASSUME NEW m \in Steady', NEW x \in Node \ {m}
      PROVE  Reported(m, x)'
  <2>1. m \in Steady /\ m \in Node /\ m # n /\ Reported(m, x)
    BY DEF Steady, Spread, FaultsTold
  <2>2. nd'[x].mode = "FAULT" => nd[x].mode = "FAULT"
    OBVIOUS
  <2>3. QED
    BY <2>1, <2>2, NowReported DEF Reported
<1>6. \A m \in Steady' : power'[m] = "UP"
  BY DEF Steady, Spread, FaultsTold
<1>7. FaultsTold'
  BY <1>4, <1>5, <1>6 DEF FaultsTold, Confesses
<1>8. QED
  BY <1>2, <1>3, <1>7 DEF Spread

LEMMA BenchSpreads ==
  ASSUME CoordinationAssumption, Inv, Spread, NEW n \in Node,
         Freeze(n) \/ Thaw(n) \/ PowerOff(n) \/ PowerOn(n)
  PROVE  Spread'
<1>1. /\ nd \in [Node -> NodeState] /\ power \in [Node -> {"UP", "SILENT", "OFF"}]
      /\ inbox \in [Station -> Seq(Frame)] /\ bench \in Plan /\ n \in Station /\ nd[n] \in NodeState
  BY InvNode DEF Inv, TypeOK
<1>2. bench'.menu = bench.menu /\ bench'.late = bench.late
  BY <1>1 DEF Freeze, Thaw, PowerOff, PowerOn, MayDisturb, Plan
<1>3. n \notin Steady' /\ Steady' \subseteq Steady
  <2>1. CASE Freeze(n) \/ PowerOff(n)
    <3>1. bench'.disturbed = bench.disturbed \cup {n} /\ bench'.late = bench.late
      BY <1>1, <2>1 DEF Freeze, PowerOff, MayDisturb, Plan
    <3>2. QED
      BY <3>1 DEF Steady
  <2>2. CASE Thaw(n) \/ PowerOn(n)
    <3>1. bench' = bench /\ power[n] # "UP"
      BY <2>2 DEF Thaw, PowerOn
    <3>2. QED
      BY <3>1 DEF Steady, Spread, FaultsTold
  <2>3. QED
    BY <2>1, <2>2
<1>4. \A k \in Node \ {n} : nd'[k] = nd[k] /\ power'[k] = power[k] /\ inbox'[k] = inbox[k]
  BY <1>1 DEF Freeze, Thaw, PowerOff, PowerOn, Station
<1>5. inbox'[n] \in {<<>>, inbox[n]}
  BY <1>1 DEF Freeze, Thaw, PowerOff, PowerOn
<1>6. \/ nd'[n].mode = "IDLE"
      \/ /\ nd'[n].mode = nd[n].mode /\ nd'[n].leaderId = nd[n].leaderId
         /\ nd'[n].status = nd[n].status
  <2>1. CASE Freeze(n) \/ PowerOn(n)
    BY <2>1 DEF Freeze, PowerOn
  <2>2. CASE PowerOff(n)
    BY <1>1, <2>2 DEF PowerOff, Booted
  <2>3. CASE Thaw(n)
    <3> DEFINE q == [nd[n] EXCEPT !.stalled = 0]
               rearmed == [q EXCEPT !.seen = [m \in Node |-> 0],
                                    !.timer = IF q.mode = "FOLLOWER" THEN 0 ELSE @]
    <3>1. q \in NodeState /\ q.mode = nd[n].mode /\ q.leaderId = nd[n].leaderId /\ q.status = nd[n].status
      BY <1>1 DEF NodeState
    <3>2. nd'[n] = q \/ nd'[n] = rearmed
      BY <1>1, <2>3 DEF Thaw
    <3> HIDE DEF q
    <3>3. rearmed.mode = q.mode /\ rearmed.leaderId = q.leaderId /\ rearmed.status = q.status
      BY <3>1 DEF NodeState
    <3>4. QED
      BY <3>1, <3>2, <3>3
  <2>4. QED
    BY <2>1, <2>2, <2>3
<1>7. QED
  BY <1>2, <1>3, <1>4, <1>5, <1>6, DisturbedSpreads

LEMMA InitSpreads ==
  ASSUME CoordinationAssumption, Init
  PROVE  Spread
<1>1. bench.disturbed = {} /\ \A n \in Node : n \in Station
  BY DEF CoordinationAssumption, Init, Station
<1>2. \A n \in Node : inbox[n] = <<>> /\ nd[n] = Booted /\ Booted.mode = "IDLE"
  BY <1>1 DEF Init, Booted
<1>3. OwnVoice
  BY <1>2 DEF OwnVoice
<1>4. \A m \in Steady : power[m] = "UP"
  BY <1>1 DEF Init, Steady
<1>5. QED
  BY <1>2, <1>3, <1>4 DEF Spread, Following, Follows, FaultsTold, Confesses, Reported

LEMMA NextSpreads ==
  ASSUME CoordinationAssumption, Inv, [Next]_vars, Spread
  PROVE  Spread'
<1>1. CASE \E n \in Node : Receive(n) \/ Deadline(n)
  BY <1>1, ReceiveSpreads, DeadlineSpreads
<1>2. CASE \E n \in Node : Disturbance(n) \/ Thaw(n) \/ PowerOn(n)
  BY <1>2, BenchSpreads DEF Disturbance
<1>3. CASE \E n \in Node, f \in bench.menu : NodeCommand(n, f)
  BY <1>3, CommandSpreads
<1>4. CASE ProbeWatchdog \/ ProbeStatusRefresh \/ \E f \in bench.menu : ProbeCommand(f)
  BY <1>4, ProbeStepSpreads
<1>5. CASE ProbeReceive \/ Tick \/ UNCHANGED vars
  BY <1>5, IdleSpreads
<1>6. QED
  BY <1>1, <1>2, <1>3, <1>4, <1>5 DEF Next, Work, Operator

LEMMA SpreadAlways == Spec => []Spread
<1> USE CoordinationAssumption
<1>1. Init => Spread
  BY InitSpreads
<1>2. Inv /\ Spread /\ [Next]_vars => Spread'
  BY NextSpreads
<1>3. QED
  BY <1>1, <1>2, Invariance, PTL DEF Spec

(* Unless a fault is cleared, a follower or joiner waits for another Node, *)
(* for every set of Nodes and every interleaving of elections, conflicts,  *)
(* joins, freezes and losses of power: no Node hears itself announced as   *)
(* leader or accepting a JOIN (handleLeaderMessage, handleHeartbeat,       *)
(* handleJoinAccept, finishElection).                                      *)
THEOREM EveryoneFollowsAnother == Spec => [](NothingCleared => FollowsAnother)
<1>1. Spread => (NothingCleared => FollowsAnother)
  BY DEF Spread, Following, Follows, FollowsAnother
<1>2. QED
  BY <1>1, SpreadAlways, PTL

(* When the bus is quiet, every Node that was on it from the beginning     *)
(* without an interruption records the fault of each one that put itself   *)
(* in fault: for every set of Nodes, whoever else was frozen, cut off or   *)
(* arrived, whatever was elected, cleared and declared absent in between   *)
(* (handleSensorCtrl, handleForceStatus, updateNetworkStatusLocal).        *)
THEOREM FaultsAreAgreed == Spec => []FaultAgreed
<1>1. ASSUME Spread, Quiet, NEW n \in Up, nd[n].mode = "FAULT", NEW m \in Steady
      PROVE  nd[m].status[n] = "FAULT"
  <2>1. n \in Node /\ m \in Node /\ inbox[m] = <<>>
    BY <1>1 DEF Up, Quiet, Station, Steady
  <2>2. CASE m = n
    BY <1>1, <2>1, <2>2 DEF Spread, FaultsTold, Confesses
  <2>3. CASE m # n
    <3>1. Told(inbox[m], nd[m].status[n] = "FAULT", n)
      BY <1>1, <2>1, <2>3 DEF Spread, FaultsTold, Reported
    <3>2. QED
      BY <2>1, <3>1 DEF Told
  <2>4. QED
    BY <2>2, <2>3
<1>2. Spread => FaultAgreed
  BY <1>1 DEF FaultAgreed
<1>3. QED
  BY <1>2, SpreadAlways, PTL
=============================================================================
