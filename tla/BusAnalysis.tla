---------------------------- MODULE BusAnalysis ----------------------------
(* The response times of CAN messages that the console computes from what the
   Probe measured (metrics/rta.py), beside the bus itself: messages that come at
   their own pace, in bursts, and wait for the bus, which the lowest identifier
   wins and no message leaves before its end. Times are in ticks; the time of a
   bit, which the analysis adds to a window, is one tick.                     *)
EXTENDS Integers, Sequences, FiniteSets, FiniteSetsExt, Functions

CONSTANTS
  Traffic,   \* what may be sent: sequences of [frame, period, burst], by priority
  Window,    \* of the measurement
  MaxBurst,  \* frames of the largest burst recognised (64)
  MaxInstances,  \* bursts looked at (4096)
  Beyond,    \* what a response may exceed 64 times the deadline by before it is given up
  Queue      \* bound of the model: frames of a message that wait

Frames(t) == \A m \in DOMAIN t : t[m].frame > 0 /\ t[m].burst > 0 /\ t[m].period >= t[m].burst * t[m].frame
AnalysisAssumption == (\A t \in Traffic : Frames(t)) /\ {Window, MaxBurst, MaxInstances, Beyond, Queue} \subseteq Nat \ {0}

None == -1
Tau == 1
Ceil(a, b) == (a + b - 1) \div b
Round(a, b) == (2 * a + b) \div (2 * b)
Lesser(a, b) == IF a < b THEN a ELSE b
Sum(f) == FoldFunction(LAMBDA a, b : a + b, 0, f)

VARIABLES
  flows,   \* messages as the console takes them to be, by priority
  bound,   \* the response computed for each, or None
  truth,   \* what is really sent
  since,   \* ticks since the last burst of each, up to its period
  wait,    \* ages of its frames that were not sent yet, oldest first
  left,    \* ticks until the end of the frame on the bus
  owner    \* the message on the bus, 0 if idle

vars == <<flows, bound, truth, since, wait, left, owner>>

-----------------------------------------------------------------------------
(* The analysis *)

\* What a line of ID_STATS says of a message that comes regularly.
Observation(f) ==
  [count |-> f.burst * (Window \div f.period), frame |-> f.frame, avg |-> f.period \div f.burst,
   min |-> IF f.burst = 1 THEN f.period ELSE f.frame, max |-> f.period - (f.burst - 1) * f.frame]

Flow(o, period, burst) == [frame |-> o.frame, period |-> period, burst |-> burst]
\* An isolated episode, periodic bursts, or one frame at a time.
FlowFromObservation(o) ==
  LET spacing == IF o.min > o.frame THEN o.min ELSE o.frame
      episode == 2 * (o.count - 1) * o.avg < Window /\ 2 * o.max < Window
      bursts == spacing * 4 < o.avg /\ 2 * o.max > 3 * o.avg
      size == Max({2, Min({MaxBurst, o.count, Round(o.max - spacing, o.avg - spacing)})})
  IN CASE o.count < 2 -> Flow(o, Window, 1)
       [] o.count >= 2 /\ episode -> Flow(o, Window, Lesser(MaxBurst, o.count))
       [] o.count >= 2 /\ ~episode /\ bursts -> Flow(o, size * o.avg, size)
       [] OTHER -> Flow(o, IF o.min < 2 * o.frame THEN o.avg ELSE o.min, 1)

\* Where Step stands still, from below; None past the limit.
FixedPoint(start, Step(_), limit) ==
  LET from[v \in Nat] == IF Step(v) > limit THEN None ELSE IF Step(v) = v THEN v ELSE from[Step(v)]
  IN from[start]

Demand(fs, members, window) ==
  Sum([k \in members |-> fs[k].burst * Ceil(window, fs[k].period) * fs[k].frame])
Blocking(fs, m) == Max({0} \cup {fs[k].frame : k \in m + 1 .. Len(fs)})
GivenUp(f) == 64 * f.period + Beyond
\* The frames whose response is computed: the first, and the last of each burst.
FirstOnly(f, bursts) == {0}
Candidates(f, bursts) == {0} \cup {k * f.burst - 1 : k \in 1 .. bursts}

ResponseOf(fs, m) ==
  LET f == fs[m]
      b == Blocking(fs, m)
      Level(t) == b + Demand(fs, 1 .. m, t)
      busy == FixedPoint(b + f.burst * f.frame, Level, GivenUp(f))
      Queued(q) == LET Wait(w) == b + q * f.frame + Demand(fs, 1 .. m - 1, w + Tau)
                   IN FixedPoint(b + q * f.frame, Wait, GivenUp(f))
      qs == Candidates(f, Ceil(busy, f.period))
  IN IF busy = None \/ Ceil(busy, f.period) > MaxInstances \/ \E q \in qs : Queued(q) = None THEN None
     ELSE Max({Queued(q) - (q \div f.burst) * f.period + f.frame : q \in qs})

Analyze(fs) == [m \in DOMAIN fs |-> ResponseOf(fs, m)]
Schedulable(fs) == fs # <<>> /\ LET r == Analyze(fs) IN \A m \in DOMAIN fs : r[m] # None /\ r[m] <= fs[m].period

\* How many sensors more would do, up to a maximum: each sends size frames in a
\* period, below all the rest.
Template(n, frame, period, size) == [frame |-> frame, period |-> period, burst |-> n * size]
Fits(fs, n, frame, period, size) == Schedulable(Append(fs, Template(n, frame, period, size)))
Capacity(fs, maximum, frame, period, size) ==
  LET fits(n) == Fits(fs, n, frame, period, size)
      between[w \in (0 .. maximum) \X (0 .. maximum)] ==
        LET middle == (w[1] + w[2]) \div 2
        IN IF w[1] >= w[2] - 1 THEN w[1]
           ELSE IF middle = 0 \/ fits(middle) THEN between[<<middle, w[2]>>] ELSE between[<<w[1], middle>>]
  IN IF ~Schedulable(fs) THEN 0 ELSE IF fits(maximum) THEN maximum ELSE between[<<0, maximum>>]

-----------------------------------------------------------------------------
(* The bus *)

Init ==
  /\ truth \in Traffic
  /\ flows = [m \in DOMAIN truth |-> FlowFromObservation(Observation(truth[m]))]
  /\ bound = Analyze(flows)
  /\ since = [m \in DOMAIN truth |-> truth[m].period]
  /\ wait = [m \in DOMAIN truth |-> <<>>]
  /\ left = 0 /\ owner = 0

Messages == DOMAIN truth
Waiting == {m \in Messages : wait[m] # <<>>}

\* A burst is ready, no sooner than a period after the one before.
Release(m) ==
  /\ since[m] = truth[m].period /\ Len(wait[m]) + truth[m].burst <= Queue
  /\ since' = [since EXCEPT ![m] = 0]
  /\ wait' = [wait EXCEPT ![m] = @ \o [k \in 1 .. truth[m].burst |-> 0]]
  /\ UNCHANGED <<flows, bound, truth, left, owner>>

\* The lowest identifier that waits gets the bus.
Arbitrate ==
  /\ owner = 0 /\ Waiting # {}
  /\ owner' = Min(Waiting) /\ left' = truth[Min(Waiting)].frame
  /\ UNCHANGED <<flows, bound, truth, since, wait>>

Sent ==
  /\ owner # 0 /\ left = 0
  /\ wait' = [wait EXCEPT ![owner] = Tail(@)] /\ owner' = 0
  /\ UNCHANGED <<flows, bound, truth, since, left>>

Tick ==
  /\ owner # 0 => left > 0
  /\ owner = 0 => Waiting = {}
  /\ left' = IF owner = 0 THEN 0 ELSE left - 1
  /\ since' = [m \in Messages |-> Lesser(since[m] + 1, truth[m].period)]
  /\ wait' = [m \in Messages |-> [k \in DOMAIN wait[m] |-> wait[m][k] + 1]]
  /\ UNCHANGED <<flows, bound, truth, owner>>

Next == (\E m \in Messages : Release(m)) \/ Arbitrate \/ Sent \/ Tick
Spec == Init /\ [][Next]_vars

-----------------------------------------------------------------------------
\* Types.
TypeOK ==
  /\ DOMAIN bound = DOMAIN flows /\ owner \in {0} \cup Messages /\ left \in Nat
  /\ \A m \in Messages : since[m] \in 0 .. truth[m].period /\ Len(wait[m]) <= Queue

\* No frame takes longer from its release to its end than the response the
\* console computed for its message, whenever the others send within the traffic
\* they were seen to have: what it took that traffic to be, from three intervals,
\* is enough (rta.py analyze, flow_from_observation). The bus is ideal: every
\* frame that waits takes part in the arbitration, where the MCP2515 sends the
\* frames of one module in the order of their arrival, and no frame is repeated;
\* rta.py:42-45 leaves out the same.
ResponseBounded ==
  \A m \in Messages : bound[m] # None => \A k \in DOMAIN wait[m] : wait[m][k] <= bound[m]
=============================================================================
