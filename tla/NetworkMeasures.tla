-------------------------- MODULE NetworkMeasures --------------------------
(* What the text console measures of the network from the lines of the Probe:
   the session's accumulated figures (metrics/service.py) and the runs of fault
   experiments (metrics/experiments.py), with the operator's part in those
   (app.py). A run is started here, after some dialogs, or seen to have started
   elsewhere. Values of the bus and texts are reduced to what decides.        *)
EXTENDS Integers, Sequences, FiniteSets, FiniteSetsExt, Functions

CONSTANTS
  Nodes, Sensors,        \* modules, and sensors that really are
  Names,                 \* module and number, by which the console knows a sensor
  Started,               \* the experiments the operator may choose
  Seconds, Settle,       \* how long a fault lasts and how long it is watched after
  ManualMax,             \* longest run without a command
  Silent, NotResumed, Recent,  \* ages of the last sample of a sensor
  RunHistory,            \* runs that are kept
  Modulus,               \* of the sequence number (2^16)
  Handover,              \* silence after which another module takes over a sensor
  Loads,                 \* readings of the bus
  Horizon, MaxInputs     \* bounds of the model

Half == Modulus \div 2
MeasuresAssumption ==
  /\ Nodes \subseteq Nat \ {0} /\ Loads \subseteq Nat /\ Seconds \subseteq Nat
  /\ Silent \in Nat /\ {Settle, ManualMax, NotResumed, Recent, RunHistory, Handover, Horizon, MaxInputs} \subseteq Nat \ {0}
  /\ Silent < NotResumed /\ NotResumed < Recent /\ Recent < Handover /\ Modulus = 2 * Half /\ Half > 0
  /\ IsFiniteSet(Sensors)

Never == -1
NoNode == 0
Kinds == {"POWER_CYCLE", "SILENCE", "AP_OUTAGE", "DROP_SESSION", "BUS_LOAD"}
Experiments ==
  [leader_power_cycle |-> [kind |-> "POWER_CYCLE",  target |-> TRUE,  watch |-> Settle],
   node_power_cycle   |-> [kind |-> "POWER_CYCLE",  target |-> TRUE,  watch |-> Settle],
   node_silence       |-> [kind |-> "SILENCE",      target |-> TRUE,  watch |-> Settle],
   ap_outage          |-> [kind |-> "AP_OUTAGE",    target |-> TRUE,  watch |-> Settle],
   drop_session       |-> [kind |-> "DROP_SESSION", target |-> TRUE,  watch |-> Settle],
   bus_load_high      |-> [kind |-> "LOAD",         target |-> FALSE, watch |-> Settle],
   bus_load_low       |-> [kind |-> "LOAD",         target |-> FALSE, watch |-> Settle],
   manual             |-> [kind |-> "MANUAL",       target |-> FALSE, watch |-> 0]]
NoRun == [state |-> "NONE"]
Nothing == [kind |-> "NONE", node |-> NoNode]

VARIABLES
  svc,      \* the figures of the session
  run,      \* the experiment in progress
  past,     \* the runs that ended, latest first
  rec,      \* what is followed outside runs too: leader, last heartbeat, links, samples
  expecting,\* the echo of the command of a run that was started here
  dialog,   \* the experiment the operator is asked about
  real,     \* what each sensor is known by, its next number and when it was last heard: not known
  clock, inputs

vars == <<svc, run, past, rec, expecting, dialog, real, clock, inputs>>

NoFigures ==
  [bus |-> Never, load |-> 0, ids |-> <<>>, link |-> <<>>, leader |-> NoNode, beat |-> Never, gap |-> 0,
   changes |-> 0, elections |-> 0, failures |-> 0, joins |-> 0, failovers |-> 0, faults |-> {}, acks |-> 0, refused |-> 0]
NoMemory == [leader |-> NoNode, beat |-> Never, link |-> <<>>, at |-> <<>>, number |-> <<>>]
NoLink == [uuid |-> "", state |-> "NONE", sessions |-> 0, down |-> Never, back |-> Never,
           count |-> 0, lost |-> 0, number |-> Never, at |-> Never, gap |-> 0]

Init ==
  /\ svc = NoFigures /\ run = NoRun /\ past = <<>> /\ rec = NoMemory
  /\ expecting = Nothing /\ dialog = "none"
  /\ real \in [Sensors -> [id : Names, next : {0}, at : {0}]]
  /\ IsInjective([s \in Sensors |-> real[s].id])
  /\ clock = 0 /\ inputs = 0

With(f, k, x) == [j \in DOMAIN f \cup {k} |-> IF j = k THEN x ELSE f[j]]
Without(f, k) == Restrict(f, DOMAIN f \ {k})
Greatest(a, b) == IF a > b THEN a ELSE b
\* Samples missing between two numbers.
Missing(last, n) == LET step == (n - last) % Modulus IN IF 1 < step /\ step < Half THEN step - 1 ELSE 0

-----------------------------------------------------------------------------
(* Measures of a run *)

Since(r) == clock - (IF r.began # Never THEN r.began ELSE r.t0)
Told(r, key) == key \in DOMAIN r.m
First(r, key) == IF Told(r, key) THEN r ELSE [r EXCEPT !.m = With(@, key, Since(r))]
FirstIf(p, r, key) == IF p THEN First(r, key) ELSE r
Most(r, key, x) == [r EXCEPT !.m = With(@, key, IF Told(r, key) THEN Greatest(r.m[key], x) ELSE x)]
Plus(r, key, n) == IF n = 0 THEN r ELSE [r EXCEPT !.m = With(@, key, n + IF Told(r, key) THEN r.m[key] ELSE 0)]

\* A run starts with the sensors heard not long ago.
Begun(key, node, seconds, origin) ==
  LET heard == {i \in DOMAIN rec.at : clock - rec.at[i] <= Recent}
  IN [state |-> "RUNNING", key |-> key, node |-> node, seconds |-> seconds, origin |-> origin, t0 |-> clock,
      began |-> IF key = "manual" THEN clock ELSE Never, ended |-> Never, fault |-> Never, beat |-> rec.beat,
      leaders |-> {rec.leader} \ {NoNode}, lost |-> FALSE, faults |-> {}, errors |-> Never,
      link |-> rec.link, at |-> Restrict(rec.at, heard), number |-> Restrict(rec.number, heard \cap DOMAIN rec.number),
      m |-> <<>>, quiet |-> {}, truth |-> 0]

\* How a run ends: sensors that did not come back count until the end.
EndedEarly(r, state) ==
  LET late == {i \in DOMAIN r.at : clock - r.at[i] >= NotResumed}
  IN [r EXCEPT !.state = state, !.quiet = late,
               !.truth = Cardinality({s \in Sensors : clock - real[s].at > NotResumed})]
Ended(r, state) ==
  LET late == {i \in DOMAIN r.at : clock - r.at[i] > NotResumed}
      counted == IF Told(r, "telemetry_gap_max_s") THEN DOMAIN r.at ELSE late
      gaps == {clock - r.at[i] : i \in counted}
  IN [(IF gaps = {} THEN r ELSE Most(r, "telemetry_gap_max_s", Max(gaps)))
        EXCEPT !.state = state, !.quiet = late,
               !.truth = Cardinality({s \in Sensors : clock - real[s].at > NotResumed})]
Kept(r) == SubSeq(<<r>> \o past, 1, IF Len(past) < RunHistory THEN Len(past) + 1 ELSE RunHistory)

Finish(state) == run' = NoRun /\ past' = Kept(Ended(run, state)) /\ expecting' = Nothing
\* A run takes the place of one in progress, which is stopped.
Start(key, node, seconds, origin) ==
  /\ run' = Begun(key, node, seconds, origin)
  /\ past' = IF run = NoRun THEN past ELSE Kept(Ended(run, "STOPPED"))
  /\ expecting' = IF origin = "TUI" THEN [kind |-> Experiments[key].kind, node |-> node] ELSE Nothing

Event == inputs < MaxInputs /\ inputs' = inputs + 1 /\ UNCHANGED <<real, clock, dialog>>
Measured(r) == run' = (IF run = NoRun THEN NoRun ELSE r) /\ UNCHANGED <<past, expecting>>
Unmeasured == UNCHANGED <<run, past, expecting>>

-----------------------------------------------------------------------------
(* Experiments *)

\* The modules an experiment may be done on.
TargetsOf(e) == IF e.target THEN Nodes ELSE {NoNode}
\* The operator chooses; the answers come later.
AskExperiment(key) ==
  /\ dialog = "none" /\ run = NoRun /\ key \in Started /\ TargetsOf(Experiments[key]) # {}
  /\ dialog' = key /\ UNCHANGED <<svc, run, past, rec, expecting, real, clock, inputs>>
GiveUp == dialog # "none" /\ dialog' = "none" /\ UNCHANGED <<svc, run, past, rec, expecting, real, clock, inputs>>

\* The command may not leave; if it does, the run starts, whatever runs by now.
Confirmed(node, seconds, sent) ==
  LET e == Experiments[dialog]
  IN /\ dialog # "none" /\ dialog' = "none" /\ node \in TargetsOf(e) /\ (e.kind = "MANUAL" => sent)
     /\ IF sent THEN Start(dialog, node, seconds, "TUI") ELSE Unmeasured
     /\ UNCHANGED <<svc, rec, real, clock, inputs>>

StopExperiment ==
  /\ run # NoRun /\ Finish("STOPPED") /\ UNCHANGED <<svc, rec, dialog, real, clock, inputs>>

Limit == IF run.key = "manual" THEN ManualMax ELSE run.seconds + Experiments[run.key].watch
Poll ==
  /\ run # NoRun /\ clock - run.t0 >= Limit
  /\ Finish("DONE") /\ UNCHANGED <<svc, rec, dialog, real, clock, inputs>>

ObservedKey(kind, node, low) ==
  CASE kind = "BUS_LOAD" -> IF low THEN "bus_load_low" ELSE "bus_load_high"
    [] kind = "POWER_CYCLE" -> IF node # NoNode /\ node = rec.leader THEN "leader_power_cycle" ELSE "node_power_cycle"
    [] kind = "SILENCE" -> "node_silence" [] kind = "AP_OUTAGE" -> "ap_outage" [] kind = "DROP_SESSION" -> "drop_session"
\* Another run gives way only if its fault is over.
Room == run = NoRun \/ run.ended # Never
\* Seen to start elsewhere: the run before is complete.
StartObserved(r) == run' = r /\ past' = (IF run = NoRun THEN past ELSE Kept(Ended(run, "DONE"))) /\ expecting' = Nothing

FaultCommand(kind, node, seconds) ==
  /\ Event /\ kind # "BUS_LOAD"
  /\ IF run # NoRun /\ expecting.kind = kind
       THEN expecting' = Nothing /\ UNCHANGED <<run, past>>
       ELSE IF Room THEN StartObserved(Begun(ObservedKey(kind, node, FALSE), node, seconds, "OBSERVED")) ELSE Unmeasured
  /\ UNCHANGED <<svc, rec>>

FaultCancel == Event /\ Unmeasured /\ UNCHANGED <<svc, rec>>

FaultBegins(kind, node, seconds, low, seq) ==
  LET other == run # NoRun /\ run.fault # Never /\ seq # run.fault /\ Room
      new == run = NoRun \/ other
      r == IF new THEN Begun(ObservedKey(kind, node, low), node, seconds, "OBSERVED") ELSE run
      s == [r EXCEPT !.began = IF @ = Never THEN clock ELSE @, !.fault = IF @ = Never THEN seq ELSE @]
  IN /\ Event /\ (node = NoNode <=> kind = "BUS_LOAD")
     /\ IF new THEN StartObserved(s) ELSE Measured(s)
     /\ UNCHANGED <<svc, rec>>

FaultEnds(seq) == Event /\ Measured([run EXCEPT !.ended = clock]) /\ UNCHANGED <<svc, rec>>
FaultRejected(seq) == Event /\ Unmeasured /\ UNCHANGED <<svc, rec>>

-----------------------------------------------------------------------------
(* Coordination *)

Heartbeat(leader) ==
  LET known == leader # NoNode /\ leader # svc.leader
      beaten == IF run.beat = Never THEN run ELSE Most(run, "heartbeat_gap_max_s", clock - run.beat)
      r == [beaten EXCEPT !.beat = clock, !.leaders = @ \cup ({leader} \ {NoNode})]
  IN /\ Event
     /\ svc' = [svc EXCEPT !.gap = IF svc.beat = Never THEN @ ELSE Greatest(@, clock - svc.beat), !.beat = clock,
                           !.changes = IF known /\ svc.leader # NoNode THEN @ + 1 ELSE @,
                           !.leader = IF leader = NoNode THEN @ ELSE leader]
     /\ rec' = [rec EXCEPT !.leader = IF leader = NoNode THEN @ ELSE leader, !.beat = clock]
     /\ Measured(FirstIf(leader # NoNode /\ run.lost, r, "leader_recovered_s"))

LeaderFailure ==
  /\ Event /\ svc' = [svc EXCEPT !.failures = @ + 1]
  /\ Measured(First([run EXCEPT !.lost = TRUE], "leader_detect_s")) /\ UNCHANGED rec
ElectionRequested ==
  /\ Event /\ svc' = [svc EXCEPT !.elections = @ + 1]
  /\ Measured(First(Plus([run EXCEPT !.lost = TRUE], "elections", 1), "leader_detect_s")) /\ UNCHANGED rec
JoinObserved(n) ==
  /\ Event /\ svc' = [svc EXCEPT !.joins = @ + 1]
  /\ Measured(FirstIf(run.node \in {NoNode, n}, run, "node_rejoined_s")) /\ UNCHANGED rec

PhysicalNode(n, state) ==
  LET r == [run EXCEPT !.faults = @ \cup {n}]
  IN /\ Event
     /\ svc' = [svc EXCEPT !.faults = IF state = "FALHA" THEN @ \cup {n} ELSE @ \ {n}]
     /\ Measured(IF state = "FALHA" /\ n \notin run.faults THEN FirstIf(run.node \in {NoNode, n}, r, "node_fault_s") ELSE run)
     /\ UNCHANGED rec

Failover ==
  /\ Event /\ svc' = [svc EXCEPT !.failovers = @ + 1]
  /\ Measured(First(Plus(run, "failovers", 1), "failover_decision_s")) /\ UNCHANGED rec

BusStats(load) ==
  /\ Event /\ svc' = [svc EXCEPT !.bus = load, !.load = Greatest(@, load)]
  /\ Measured([Most(run, "load_max", load) EXCEPT !.errors = IF @ = Never THEN load ELSE @])
  /\ UNCHANGED rec
IdStats(can, spread) ==
  /\ Event /\ svc' = [svc EXCEPT !.ids = With(@, can, clock)]
  /\ Measured(IF can = "heartbeat" THEN Most(run, "heartbeat_jitter_max_ms", spread) ELSE run) /\ UNCHANGED rec
Ack(done) ==
  /\ Event /\ svc' = [svc EXCEPT !.acks = IF done THEN @ + 1 ELSE @, !.refused = IF done THEN @ ELSE @ + 1]
  /\ Unmeasured /\ UNCHANGED rec

-----------------------------------------------------------------------------
(* Sensors *)

LinkOf(i) == IF i \in DOMAIN svc.link THEN svc.link[i] ELSE NoLink

WirelessLink(i, state) ==
  LET old == LinkOf(i)
      up == state = "SECURE" /\ old.state # "SECURE"
      fell == state # "SECURE" /\ old.state = "SECURE"
      l == [old EXCEPT !.state = state, !.sessions = IF up THEN @ + 1 ELSE @, !.number = IF up THEN Never ELSE @,
                       !.back = IF up /\ old.down # Never THEN clock - old.down ELSE @,
                       !.down = CASE up -> Never [] fell -> clock [] OTHER -> @]
      r == [run EXCEPT !.link = With(@, i, state)]
  IN /\ Event /\ svc' = [svc EXCEPT !.link = With(@, i, l)]
     /\ rec' = [rec EXCEPT !.link = With(@, i, state)]
     /\ Measured(IF i \notin DOMAIN run.link
                   THEN FirstIf(state = "SECURE" /\ (Told(run, "session_down_s") \/ Told(run, "failover_decision_s")),
                                r, "session_recovered_s")
                   ELSE FirstIf(state = "SECURE" /\ run.link[i] # "SECURE",
                                FirstIf(state # "SECURE" /\ run.link[i] = "SECURE", r, "session_down_s"),
                                "session_recovered_s"))

Association(s, state) ==
  LET i == real[s].id
      others == {o \in DOMAIN svc.link : o # i /\ svc.link[o].uuid = s}
      left == IF state \in {"ASSOCIATING", "BOUND", "ONLINE"} THEN Restrict(svc.link, DOMAIN svc.link \ others) ELSE svc.link
  IN /\ Event
     /\ svc' = [svc EXCEPT !.link = CASE state = "UNBOUND" -> Without(svc.link, i) [] state = "REJECTED" -> svc.link
                                      [] OTHER -> With(left, i, [LinkOf(i) EXCEPT !.uuid = s])]
     /\ Unmeasured /\ UNCHANGED rec

Sampled(i, n) ==
  LET old == LinkOf(i)
  IN [svc EXCEPT !.link = With(@, i,
       [old EXCEPT !.count = @ + 1, !.number = n, !.at = clock,
                   !.gap = IF old.at = Never THEN @ ELSE Greatest(@, clock - old.at),
                   !.lost = IF old.number = Never THEN @ ELSE @ + Missing(old.number, n)])]

\* A name that is new to the run goes on with the sensor silent for longest.
Quiet(i) == IF i \in DOMAIN run.at THEN {} ELSE {j \in DOMAIN run.at : clock - run.at[j] > Silent}
Oldest(js) == {j \in js : \A k \in js : run.at[j] <= run.at[k]}
Continued(r, j) == FirstIf(Told(r, "failover_decision_s"),
  [Most(r, "telemetry_gap_max_s", clock - r.at[j]) EXCEPT !.at = Without(@, j), !.number = Without(@, j)],
  "session_recovered_s")
Counted(r, i, n) ==
  LET lost == IF i \in DOMAIN r.number THEN Missing(r.number[i], n) ELSE 0
      gone == IF i \in DOMAIN r.at THEN Most(r, "telemetry_gap_max_s", clock - r.at[i]) ELSE r
  IN [Plus(gone, "telemetry_lost", lost) EXCEPT !.at = With(@, i, clock), !.number = With(@, i, n)]
Remembered(i, n, js) == [rec EXCEPT !.at = With(Restrict(@, DOMAIN @ \ js), i, clock),
                                    !.number = With(Restrict(@, DOMAIN @ \ js), i, n)]

Telemetry(i, n) ==
  /\ svc' = Sampled(i, n)
  /\ IF run = NoRun THEN rec' = Remembered(i, n, {}) /\ Unmeasured
     ELSE IF Quiet(i) = {} THEN rec' = Remembered(i, n, {}) /\ Measured(Counted(run, i, n))
     ELSE \E j \in Oldest(Quiet(i)) : rec' = Remembered(i, n, {j}) /\ Measured(Counted(Continued(run, j), i, n))

\* A sensor's sample comes, some before it lost.
Sample(s, lost) ==
  LET n == (real[s].next + lost) % Modulus
  IN /\ inputs < MaxInputs /\ inputs' = inputs + 1
     /\ Telemetry(real[s].id, n)
     /\ real' = [real EXCEPT ![s].next = (n + 1) % Modulus, ![s].at = clock]
     /\ UNCHANGED <<dialog, clock>>
\* Another module takes over a sensor that is silent: it gets a name that nobody
\* has, nor had so recently that the recorder or a run still remembers it.
Rebind(s, i) ==
  /\ clock - real[s].at >= Handover
  /\ \A t \in Sensors : real[t].id # i
  /\ i \notin DOMAIN rec.at /\ (run # NoRun => i \notin DOMAIN run.at)
  /\ real' = [real EXCEPT ![s].id = i]
  /\ UNCHANGED <<svc, run, past, rec, expecting, dialog, clock, inputs>>

-----------------------------------------------------------------------------
ResetMetrics ==
  /\ svc # NoFigures /\ svc' = NoFigures
  /\ UNCHANGED <<run, past, rec, expecting, dialog, real, clock, inputs>>
\* A recording that is opened forgets the run as well, and a connection does not.
ReplayOpened ==
  /\ rec # NoMemory /\ svc' = NoFigures /\ run' = NoRun /\ rec' = NoMemory /\ expecting' = Nothing
  /\ UNCHANGED <<past, dialog, real, clock, inputs>>
Tick == clock < Horizon /\ clock' = clock + 1 /\ UNCHANGED <<svc, run, past, rec, expecting, dialog, real, inputs>>

Lifecycle ==
  \/ \E key \in Started : AskExperiment(key)
  \/ GiveUp \/ StopExperiment \/ Poll \/ Tick
  \/ \E n \in Nodes \cup {NoNode}, s \in Seconds, sent \in BOOLEAN : Confirmed(n, s, sent)
Faults ==
  \/ \E kind \in Kinds, n \in Nodes, s \in Seconds : FaultCommand(kind, n, s)
  \/ \E kind \in Kinds, n \in Nodes \cup {NoNode}, s \in Seconds, low \in BOOLEAN, seq \in {1, 2} :
       FaultBegins(kind, n, s, low, seq)
  \/ FaultCancel \/ \E seq \in {1, 2} : FaultEnds(seq) \/ FaultRejected(seq)
Coordination ==
  \/ \E n \in Nodes \cup {NoNode} : Heartbeat(n)
  \/ LeaderFailure \/ ElectionRequested \/ Failover
  \/ \E n \in Nodes : JoinObserved(n) \/ PhysicalNode(n, "FALHA") \/ PhysicalNode(n, "ATIVO")
Bus ==
  \/ \E l \in Loads : BusStats(l) \/ IdStats("heartbeat", l) \/ IdStats("other", l)
  \/ \E done \in BOOLEAN : Ack(done)
  \/ ResetMetrics \/ ReplayOpened
Links ==
  \/ \E i \in Names, state \in {"SECURE", "DOWN"} : WirelessLink(i, state)
  \/ \E s \in Sensors, state \in {"BOUND", "UNBOUND", "REJECTED", "STALE"} : Association(s, state)
Samples ==
  \/ \E s \in Sensors : Sample(s, 0) \/ Sample(s, 1)
  \/ \E s \in Sensors, i \in Names : Rebind(s, i)

Next == Lifecycle \/ Faults \/ Coordination \/ Bus \/ Links \/ Samples
Spec == Init /\ [][Next]_vars

-----------------------------------------------------------------------------
\* Types.
TypeOK ==
  /\ run = NoRun \/ run.state = "RUNNING"
  /\ Len(past) <= RunHistory /\ \A k \in DOMAIN past : past[k].state \in {"DONE", "STOPPED"}
  /\ expecting.kind \in Kinds \cup {"NONE", "LOAD", "MANUAL"} /\ (run = NoRun => expecting = Nothing)
  /\ dialog \in {"none"} \cup Started /\ svc.leader \in Nodes \cup {NoNode}

\* A run that ends tells of no more sensors whose telemetry did not come back
\* than really are silent, although modules take sensors over during the run and
\* the console only guesses which old name a new one goes on with
\* (experiments.py _on_telemetry, _finish).
SilenceIsReal == \A k \in DOMAIN past : Cardinality(past[k].quiet) <= past[k].truth
=============================================================================
