--------------------------- MODULE SensorRegistry ---------------------------
(* What the text console knows of modules and sensors: the events of the
   protocol are applied one at a time (services/controller.py) to one store
   (core/state_store.py) with sequence tracking (protocol/sequence.py) and
   alarms (alarms.py). Events may be late, lost or repeated: the console cannot
   ask for them again. What only logs a line changes nothing here; names, texts
   and measurements are reduced to what decides.                             *)
EXTENDS Integers, Sequences, FiniteSets, FiniteSetsExt, Functions

CONSTANTS
  Nodes, Children,   \* modules and the numbers of their sensors
  Uuids,             \* identities of the sensors
  Codes,             \* fault codes
  Metrics, Levels,   \* what an alarm may watch, and its values
  Margin,            \* hysteresis of an alarm
  Modulus,           \* of the sequence number (2^16)
  Aging, Stale, Lost,    \* ages of the last news, in ticks
  Coalesce, Lookback,    \* which repeated incidents are counted together
  MaxIncidents,          \* length of the list of incidents (60)
  Horizon, MaxInputs     \* bounds of the model: the clock, the events

Ids == Nodes \X Children
Half == Modulus \div 2
Nobody == <<>>
Never == -1
Unset == -1
Corrupt == -2

RegistryAssumption ==
  /\ Nodes \subseteq Nat /\ Children \subseteq Nat \ {0}
  /\ Levels \subseteq Nat /\ Margin \in Nat
  /\ Modulus \in Nat /\ Half > 0 /\ Modulus = 2 * Half
  /\ {Aging, Stale, Lost, Coalesce, Lookback, MaxIncidents, Horizon, MaxInputs} \subseteq Nat \ {0}
  /\ Aging < Stale /\ Stale < Lost

Statuses  == {"UNKNOWN", "ONLINE", "AGING", "STALE", "LOST", "OFFLINE"}
Claims    == {"ASSOCIATING", "BOUND", "ONLINE"}
Followed  == Claims \cup {"STALE", "LOST"}   \* the module watches over these
AssocStates == Followed \cup {"UNBOUND"}
Links     == {"NONE", "DOWN", "OFFERING", "HANDSHAKE", "SECURE", "SLEEPING", "NO_KEY"}
Severities == {"INFO", "WARNING", "CRITICAL"}
Modes     == {"IDLE", "ROTATING", "LEVEL", "UNKNOWN"}
Profiles  == {"", "VIBRATION", "ACOUSTIC"}

VARIABLES
  mode,      \* of the connection
  node,      \* what is known of each module
  known,     \* the sensors there are
  sensor,    \* what is known of each
  selected,  \* the module or sensor the operator works on
  limit,     \* alarm limits per sensor, kept while it is away
  tracker,   \* last sequence number of each stream
  flagged,   \* last physical flags and acoustic report of each sensor
  net,       \* counters and state of the bus
  stream,    \* what each sensor really sent: not known to the console
  clock, inputs

vars == <<mode, node, known, sensor, selected, limit, tracker, flagged, net, stream, clock, inputs>>

\* renamed is for the properties: the identity was changed by other than the
\* word of a module since a module last gave it.
Blank ==
  [uuid |-> "", renamed |-> FALSE, assoc |-> "UNBOUND", auto |-> "UNKNOWN", status |-> "UNKNOWN", seen |-> Never,
   link |-> "NONE", rejected |-> 0, reports |-> 0, bound |-> 0,
   mode |-> "UNKNOWN", profile |-> "", applied |-> "NONE",
   rx |-> 0, lost |-> 0, dup |-> 0, late |-> 0,
   dtc |-> [c \in Codes |-> 0], incidents |-> <<>>,
   alarms |-> {}, value |-> [m \in Metrics |-> Unset], fft |-> FALSE]
BlankNode == [here |-> FALSE, host |-> FALSE, status |-> "UNKNOWN", seen |-> Never,
              found |-> {}, reports |-> 0, incidents |-> <<>>]
NoReport  == [flags |-> {}, learning |-> FALSE, ready |-> FALSE, age |-> Unset]
BlankNet  == [crc |-> 0, parse |-> 0, frames |-> 0, busOff |-> FALSE, passive |-> FALSE]
NoFlags   == [clip |-> FALSE, trigger |-> FALSE, sound |-> NoReport, heard |-> FALSE]
Silent    == [first |-> 1, tip |-> 0, got |-> {}, owed |-> 0]

Init ==
  /\ mode = "UNKNOWN" /\ selected = Nobody /\ known = {}
  /\ node = [n \in Nodes |-> BlankNode]
  /\ sensor = [i \in Ids |-> Blank]
  /\ limit = [i \in Ids |-> [m \in Metrics |-> Unset]]
  /\ tracker = [i \in Ids |-> Unset]
  /\ flagged = [i \in Ids |-> NoFlags]
  /\ net = BlankNet
  /\ stream = [i \in Ids |-> Silent]
  /\ clock = 1 /\ inputs = 0

-----------------------------------------------------------------------------
(* The store *)

Rank == [s \in Severities |-> CASE s = "INFO" -> 0 [] s = "WARNING" -> 1 [] s = "CRITICAL" -> 2]

Incident(key, severity) == [key |-> key, n |-> 1, last |-> clock, severity |-> severity]
\* One more incident: a recent one of the same key is counted again.
Pushed(list, key, severity) ==
  LET n == Len(list)
      same == {k \in 1 .. n : k > n - Lookback /\ list[k].key = key /\ clock - list[k].last <= Coalesce}
      k == Max(same)
      added == Append(list, Incident(key, severity))
  IN IF same = {} THEN IF n < MaxIncidents THEN added ELSE Tail(added)
     ELSE [list EXCEPT ![k].n = @ + 1, ![k].last = clock,
                       ![k].severity = IF Rank[severity] > Rank[@] THEN severity ELSE @]

Noted(r, key, severity) == [r EXCEPT !.incidents = Pushed(@, key, severity)]
NotedIf(p, r, key, severity) == IF p THEN Noted(r, key, severity) ELSE r
Touched(r) == [r EXCEPT !.seen = clock]

\* A module the console did not know is listed at its first event.
Listed(n) == [node[n] EXCEPT !.here = TRUE]
\* So is a sensor; the first one becomes the context if nothing was chosen.
Chosen(i, s) == IF i \notin known /\ s = Nobody THEN i ELSE s

Store(i, r) ==
  /\ sensor' = [sensor EXCEPT ![i] = r]
  /\ known' = known \cup {i}
  /\ selected' = Chosen(i, selected)
  /\ node' = [node EXCEPT ![i[1]] = [Listed(i[1]) EXCEPT !.host = mode = "SENSOR_DIRECT"]]

\* Without a sensor, its module becomes the context.
Without(gone, s) == IF s \in gone THEN <<s[1]>> ELSE s
Removed(gone) == [i \in Ids |-> IF i \in gone THEN Blank ELSE sensor[i]]

AgeStatus(age) ==
  CASE age >= Lost -> "LOST" [] age >= Stale /\ age < Lost -> "STALE"
    [] age >= Aging /\ age < Stale -> "AGING" [] age < Aging -> "ONLINE"

\* The incident of a change of freshness: a record of a module or a sensor.
Refreshed(r) ==
  LET now == AgeStatus(clock - r.seen)
      told == CASE now # r.status /\ now = "STALE" -> Noted(r, <<"stale">>, "WARNING")
                [] now # r.status /\ now = "LOST" -> Noted(r, <<"lost_contact">>, "CRITICAL")
                [] now \in {"ONLINE", "AGING"} /\ r.status \in {"STALE", "LOST"} -> Noted(r, <<"recovered">>, "INFO")
                [] OTHER -> r
  IN [told EXCEPT !.status = now]

RefreshFreshness ==
  /\ node' = [n \in Nodes |->
       IF node[n].here /\ node[n].seen # Never /\ ~(mode = "SENSOR_DIRECT" /\ node[n].host)
         THEN Refreshed(node[n]) ELSE node[n]]
  /\ sensor' = [i \in Ids |->
       CASE i \notin known \/ sensor[i].assoc \in Followed -> sensor[i]
         [] i \in known /\ sensor[i].assoc \notin Followed /\ sensor[i].seen = Never ->
              [sensor[i] EXCEPT !.status = "UNKNOWN"]
         [] OTHER -> Refreshed(sensor[i])]
  /\ <<node', sensor'>> # <<node, sensor>>
  /\ UNCHANGED <<mode, known, selected, limit, tracker, flagged, net, stream, clock, inputs>>

Tick ==
  /\ clock < Horizon /\ clock' = clock + 1
  /\ UNCHANGED <<mode, node, known, sensor, selected, limit, tracker, flagged, net, stream, inputs>>

\* The screen opened, or the command given, of a sensor or module that is known.
Select(target) ==
  /\ target \in known \/ \E n \in Nodes : target = <<n>> /\ node[n].here
  /\ selected' = target
  /\ UNCHANGED <<mode, node, known, sensor, limit, tracker, flagged, net, stream, clock, inputs>>

Event == inputs < MaxInputs /\ inputs' = inputs + 1 /\ UNCHANGED <<stream, clock>>
Sensors == <<known, sensor, selected>>
Memory  == <<limit, tracker, flagged>>

-----------------------------------------------------------------------------
(* Connection, modules and bus *)

\* A new connection: sequences start anew.
ConnectionOpened ==
  /\ inputs < MaxInputs /\ inputs' = inputs + 1
  /\ tracker' = [i \in Ids |-> Unset]
  /\ stream' = [i \in Ids |-> [Silent EXCEPT !.owed = sensor[i].lost - sensor[i].late]]
  /\ UNCHANGED <<mode, node, known, sensor, selected, limit, flagged, net, clock>>

ModeDetected(m) == Event /\ mode' = m /\ UNCHANGED <<node, Sensors, Memory, net>>

\* Module 0 is the Probe: never listed among the modules.
PhysicalNode(n, status) ==
  /\ Event
  /\ node' = IF n = 0 THEN node
             ELSE [node EXCEPT ![n] = Touched([Listed(n) EXCEPT !.status = status, !.host = FALSE])]
  /\ UNCHANGED <<mode, Sensors, Memory, net>>

\* Local readings and heartbeats say that a module is there.
NodeHeard(n) == PhysicalNode(n, "ONLINE")

Found(n, u) == Touched([Listed(n) EXCEPT !.found = @ \cup {u}, !.host = FALSE])
WirelessCandidate(n, u) ==
  /\ Event
  /\ node' = [node EXCEPT ![n] = Found(n, u)]
  /\ UNCHANGED <<mode, Sensors, Memory, net>>

\* The Probe measures the bus; so does the state of the gateway, which has no
\* flag of its own and says that all is well.
BusStats(off, passive) ==
  /\ Event /\ net' = [net EXCEPT !.busOff = off, !.passive = passive]
  /\ UNCHANGED <<mode, node, Sensors, Memory>>
GatewayStatus == BusStats(FALSE, FALSE)

Tallied(counter) == [net EXCEPT ![counter] = @ + 1]
CrcError == Event /\ net' = Tallied("crc") /\ UNCHANGED <<mode, node, Sensors, Memory>>
CanFrame == Event /\ net' = Tallied("frames") /\ UNCHANGED <<mode, node, Sensors, Memory>>

WirelessFailover(u, from, to) ==
  /\ Event
  /\ node' = [n \in Nodes |-> NotedIf(n \in {from, to} /\ node[n].here, node[n], <<"failover", u>>, "WARNING")]
  /\ UNCHANGED <<mode, Sensors, Memory, net>>

-----------------------------------------------------------------------------
(* Sensors of the modules *)

Unbound(i) ==
  /\ Event
  /\ known' = known \ {i} /\ sensor' = Removed(known \cap {i})
  /\ selected' = Without(known \cap {i}, selected)
  /\ UNCHANGED <<mode, node, Memory, net>>

\* The sensors of other modules that a claim for u takes the place of.
RivalsWhenOnline(i, u, state) ==
  IF state = "ONLINE" THEN {o \in known : o[1] # i[1] /\ sensor[o].uuid = u} ELSE {}
Rivals(i, u, state) ==
  IF state \in Claims THEN {o \in known : o[1] # i[1] /\ sensor[o].uuid = u} ELSE {}

StatusOf(state) == IF state \in {"ASSOCIATING", "BOUND"} THEN "AGING" ELSE state

Association(i, u, state, auto) ==
  LET gone == Rivals(i, u, state)
      r == [sensor[i] EXCEPT !.uuid = u, !.renamed = FALSE, !.assoc = state, !.status = StatusOf(state),
                             !.auto = IF auto = "UNKNOWN" THEN @ ELSE auto, !.seen = clock,
                             !.bound = IF state \in {"BOUND", "ONLINE"} /\ @ = 0 THEN clock ELSE @]
  IN /\ Event
     /\ sensor' = [Removed(gone) EXCEPT ![i] = r]
     /\ known' = (known \ gone) \cup {i}
     /\ selected' = Chosen(i, Without(gone, selected))
     /\ node' = [node EXCEPT ![i[1]] = [Listed(i[1]) EXCEPT !.host = mode = "SENSOR_DIRECT"]]
     /\ UNCHANGED <<mode, Memory, net>>

\* The data plane of a sensor there is.
WirelessLink(i, link, rejected) ==
  LET was == sensor[i].link
      sleeping == link = "SLEEPING" \/ (was = "SLEEPING" /\ link = "SECURE")
      told == link # was /\ ~sleeping /\ (was = "SECURE" \/ link \in {"SECURE", "NO_KEY"})
      r == [Touched(sensor[i]) EXCEPT !.link = link, !.rejected = rejected]
      s == NotedIf(told, r, <<"link", link>>, IF link = "SECURE" THEN "INFO" ELSE "WARNING")
  IN /\ i \in known /\ Event
     /\ Store(i, NotedIf(rejected > sensor[i].rejected, s, <<"rejected">>, "WARNING"))
     /\ UNCHANGED <<mode, Memory, net>>

\* A step of the data channel of a sensor there is, since so many ticks: says
\* when it was bound.
Reported(r, since) ==
  LET at == IF clock > since THEN clock - since ELSE 1
  IN [r EXCEPT !.reports = @ + 1, !.bound = IF r.reports = 0 \/ at > @ + Coalesce THEN at ELSE @]
LinkEvent(i, since) ==
  /\ i \in known /\ Event /\ sensor' = [sensor EXCEPT ![i] = Reported(@, since)]
  /\ UNCHANGED <<mode, node, known, selected, Memory, net>>

\* Module n was called by a sensor it does not have: the step goes to the one
\* that has that identity, or nowhere.
NotBoundHello(n, u, since) ==
  \E i \in known : sensor[i].uuid = u /\ LinkEvent(i, since)

NodeEvent(n) ==
  /\ Event /\ node' = [node EXCEPT ![n] = [Listed(n) EXCEPT !.reports = @ + 1]]
  /\ UNCHANGED <<mode, Sensors, Memory, net>>

ProfileOf(m) == CASE m = "ROTATING" -> "VIBRATION" [] m = "LEVEL" -> "ACOUSTIC" [] OTHER -> ""
InMode(r, m) == [r EXCEPT !.mode = m, !.profile = IF ProfileOf(m) = "" THEN @ ELSE ProfileOf(m)]

\* The configuration of a sensor there is: kept, done or refused.
WirelessConfig(i, result, m) ==
  LET r == [sensor[i] EXCEPT !.applied = IF result = "CURRENT" THEN @ ELSE result]
      s == IF m = "UNKNOWN" THEN r ELSE Touched(InMode(r, m))
  IN /\ i \in known /\ Event
     /\ Store(i, NotedIf(result = "REJECTED", s, <<"config">>, "WARNING"))
     /\ UNCHANGED <<mode, Memory, net>>

\* From here on an event of a sensor that is not listed lists it.
ConfigurationApplied(i, m) ==
  /\ Event
  /\ Store(i, [Touched(sensor[i]) EXCEPT !.applied = "APPLIED", !.status = "ONLINE",
                                         !.mode = IF m = "UNKNOWN" THEN @ ELSE m])
  /\ UNCHANGED <<mode, Memory, net>>

\* A SENSOR line gives the sensor any identity, or the one it has if it says
\* none; whether a module claims the sensor is not asked.
Renamed(r, u) == [r EXCEPT !.uuid = u, !.renamed = @ \/ u # r.uuid]
SensorStatus(i, u, status) ==
  /\ Event
  /\ Store(i, [Renamed(Touched(sensor[i]), u) EXCEPT !.status = IF status = "" THEN @ ELSE status])
  /\ UNCHANGED <<mode, Memory, net>>

Panel(i) == Event /\ Store(i, Noted(sensor[i], <<"mark">>, "INFO")) /\ UNCHANGED <<mode, Memory, net>>

Spectrum(i) ==
  /\ Event /\ Store(i, [Touched(sensor[i]) EXCEPT !.fft = TRUE]) /\ UNCHANGED <<mode, Memory, net>>

-----------------------------------------------------------------------------
(* Readings *)

Active(r) == {c \in Codes : r.dtc[c] > 0}
Cleared(r) == [r EXCEPT !.dtc = [c \in Codes |-> 0]]

\* A code is told when it goes from inactive to active; "0" is no fault.
RaisedFirst(r, c) ==
  LET added == [r EXCEPT !.dtc[c] = @ + 1]
  IN NotedIf(c # "0" /\ added.dtc[c] = 0, added, <<"dtc", c>>, "WARNING")
Raised(r, c) ==
  LET told == NotedIf(c # "0" /\ r.dtc[c] = 0, r, <<"dtc", c>>, "WARNING")
  IN [told EXCEPT !.dtc[c] = @ + 1]

Dtc(i, c) == Event /\ Store(i, Raised(sensor[i], c)) /\ UNCHANGED <<mode, Memory, net>>

DtcCleared(i, codes) ==
  LET told == NotedIf(i \in known /\ Active(sensor[i]) # {}, sensor[i], <<"cleared">>, "INFO")
  IN /\ Event
     /\ Store(i, [told EXCEPT !.dtc = [c \in Codes |-> IF c \in codes THEN 0 ELSE @[c]]])
     /\ UNCHANGED <<mode, Memory, net>>

\* Number k of a stream, as the tracker takes it: the first, the same, a newer
\* one after so many missing, or a late one.
Delta(i, k) == ((k % Modulus) - tracker[i]) % Modulus
IsFirst(i) == tracker[i] = Unset
IsNewer(i, k) == Delta(i, k) \in 1 .. Half - 1
FollowAlways(i, k) == k % Modulus
FollowUnmasked(i, k) == IF IsFirst(i) \/ IsNewer(i, k) THEN k ELSE tracker[i]
Follow(i, k) == IF IsFirst(i) \/ IsNewer(i, k) THEN k % Modulus ELSE tracker[i]

Counted(r, i, k) ==
  CASE k = Unset \/ IsFirst(i) -> r
    [] ~IsFirst(i) /\ k # Unset /\ Delta(i, k) = 0 -> [r EXCEPT !.dup = @ + 1]
    [] ~IsFirst(i) /\ k # Unset /\ IsNewer(i, k) ->
         NotedIf(Delta(i, k) > 1, [r EXCEPT !.lost = @ + Delta(i, k) - 1], <<"lost">>, "WARNING")
    [] OTHER -> [r EXCEPT !.late = @ + 1]

\* What was not so in the report before is told.
Rising(now, before, f) == f \in now /\ f \notin before

\* The end of a sound: its age starts again; a first report tells a recent one.
FreshSound(now, before, heard) ==
  now.age # Unset /\ IF heard /\ before.age # Unset THEN now.age < before.age ELSE now.age <= 2

Sounded(r, i, sound) ==
  LET f == flagged[i]
      a == NotedIf(Rising(sound.flags, f.sound.flags, "mic"), r, <<"mic">>, "CRITICAL")
      b == NotedIf(Rising(sound.flags, f.sound.flags, "overload"), a, <<"overload">>, "WARNING")
      c == NotedIf(Rising(sound.flags, f.sound.flags, "dose"), b, <<"dose">>, "WARNING")
      d == NotedIf(Rising(sound.flags, f.sound.flags, "anomaly"), c, <<"anomaly">>, "WARNING")
      e == NotedIf(sound.ready /\ f.heard /\ f.sound.learning, d, <<"baseline">>, "INFO")
  IN NotedIf(FreshSound(sound, f.sound, f.heard), e, <<"sound">>, "INFO")

Transitions(r, i, x) ==
  LET a == NotedIf(x.clip /\ ~flagged[i].clip, r, <<"clip">>, "WARNING")
      b == NotedIf(x.trigger /\ ~flagged[i].trigger, a, <<"stalta">>, "INFO")
  IN IF x.sound = NoReport THEN b ELSE Sounded(b, i, x.sound)

\* Alarms: lit above the limit, out below it by a margin or without a limit.
Lit(r, lim) == {m \in Metrics \ r.alarms : lim[m] # Unset /\ r.value[m] > lim[m]}
Out(r, lim) == {m \in r.alarms : lim[m] = Unset \/ (r.value[m] # Unset /\ r.value[m] <= lim[m] - Margin)}
AlarmsTold(r, lim) ==
  LET lit == FoldSet(LAMBDA m, q : Pushed(q, <<"alarm", m>>, "WARNING"), r.incidents, Lit(r, lim))
  IN FoldSet(LAMBDA m, q : Pushed(q, <<"alarm_clear", m>>, "INFO"), lit, Out(r, lim))
Evaluated(r, lim) ==
  [r EXCEPT !.incidents = AlarmsTold(r, lim), !.alarms = (@ \cup Lit(r, lim)) \ Out(r, lim)]

Read(r, i, x) ==
  LET s == [Touched(r) EXCEPT !.rx = @ + 1, !.status = "ONLINE", !.mode = x.mode, !.value = x.value,
                              !.fft = @ /\ ~x.fftOff,
                              !.profile = IF x.sound # NoReport THEN "ACOUSTIC"
                                          ELSE IF x.mode = "ROTATING" THEN "VIBRATION" ELSE @]
  IN Evaluated(s, limit[i])

\* The faults of a reading: none at all, or one code.
Faults(r, x) ==
  CASE x.code = "0" /\ x.faults = 0 -> Cleared(r)
    [] x.code # "0" -> Raised(r, x.code)
    [] x.code = "0" /\ x.faults # 0 -> r

\* What the sensor sent, for the properties: number k comes once, or again at
\* once, and less than half the range from the newest.
Sent(i, k) ==
  LET s == stream[i]
  IN IF k = Unset THEN UNCHANGED stream
     ELSE /\ s.got # {} => /\ k - s.tip < Half /\ s.tip - k < Half
                           /\ k \in s.got => k = s.tip
          /\ stream' = [stream EXCEPT ![i] =
               [s EXCEPT !.got = @ \cup {k}, !.first = IF s.got = {} THEN k ELSE @,
                         !.tip = IF k > @ THEN k ELSE @]]

\* A number out of range counts as an error of the line.
Telemetry(i, x) ==
  LET k == IF x.seq = Corrupt THEN Unset ELSE x.seq
      r == Counted(sensor[i], i, k)
  IN /\ inputs < MaxInputs /\ inputs' = inputs + 1 /\ Sent(i, k)
     /\ Store(i, Faults(Read(Transitions(r, i, x), i, x), x))
     /\ tracker' = IF k = Unset THEN tracker ELSE [tracker EXCEPT ![i] = Follow(i, k)]
     /\ flagged' = [flagged EXCEPT ![i] =
          [clip |-> x.clip, trigger |-> x.trigger,
           sound |-> IF x.sound = NoReport THEN @.sound ELSE x.sound, heard |-> @.heard \/ x.sound # NoReport]]
     /\ net' = IF x.seq = Corrupt THEN Tallied("parse") ELSE net
     /\ UNCHANGED <<mode, limit, clock>>

\* What the dialog of alarms lets through: a number, or none, for each.
Limits == {[m \in Metrics |-> l] : l \in Levels \cup {Unset}}
\* The operator changes the limits: the last reading is judged again.
SetAlarmLimits(i, lim) ==
  /\ Event /\ limit' = [limit EXCEPT ![i] = lim]
  /\ sensor' = IF i \in known /\ sensor[i].rx > 0
       THEN [sensor EXCEPT ![i] = Evaluated(@, lim)] ELSE sensor
  /\ UNCHANGED <<mode, node, known, selected, tracker, flagged, net>>

\* A sensor on the USB port is sensor 1 of module 1, whatever its identity.
Direct == <<1, 1>>
HostSeen == [Touched(Listed(1)) EXCEPT !.here = TRUE, !.host = TRUE, !.status = "ONLINE"]

DirectVersion(u) ==
  /\ Event
  /\ sensor' = [sensor EXCEPT ![Direct] = [Renamed(Touched(@), u) EXCEPT !.profile = "VIBRATION"]]
  /\ known' = known \cup {Direct} /\ selected' = Chosen(Direct, selected)
  /\ node' = [node EXCEPT ![1] = HostSeen]
  /\ UNCHANGED <<mode, Memory, net>>

DirectStatus(m, x) ==
  LET r == [Touched(sensor[Direct]) EXCEPT !.status = "ONLINE"]
  IN /\ Event
     /\ Store(Direct, Faults([InMode(r, m) EXCEPT !.mode = m], x))
     /\ UNCHANGED <<mode, Memory, net>>

-----------------------------------------------------------------------------
(* Specification. The events of a gateway come in four families: who has which
   sensor, what is said of modules and of their sensors, numbers, and readings;
   those of a sensor on the USB port in one.                                  *)

Quiet == [seq |-> Unset, clip |-> FALSE, trigger |-> FALSE, sound |-> NoReport, mode |-> "IDLE",
          value |-> [m \in Metrics |-> Unset], code |-> "0", faults |-> 1, fftOff |-> FALSE]
Sounds == [flags : {{}, {"mic", "overload"}, {"dose", "anomaly"}}, learning : BOOLEAN, ready : {FALSE},
           age : {0, 3}] \cup {[NoReport EXCEPT !.ready = TRUE]}
SoundReading(s) == [Quiet EXCEPT !.sound = s]
FaultReading(v, c, k) == [Quiet EXCEPT !.value = [m \in Metrics |-> v], !.code = c, !.faults = k]
SignalReading(p, q) == [Quiet EXCEPT !.clip = p, !.trigger = q, !.fftOff = TRUE, !.mode = "ROTATING"]
Samples ==
  {FaultReading(v, c, k) : v \in Levels, c \in Codes, k \in 0 .. 1}
  \cup {SoundReading(s) : s \in Sounds}
  \cup {SignalReading(p, q) : p \in BOOLEAN, q \in BOOLEAN}
Numbered == {[Quiet EXCEPT !.seq = k] : k \in 1 .. MaxInputs * Half} \cup {[Quiet EXCEPT !.seq = Corrupt]}

Ownership(is) ==
  \/ \E i \in is, u \in Uuids, s \in Followed, a \in {"AUTO", "UNKNOWN"} : Association(i, u, s, a)
  \/ \E i \in is, u \in Uuids \cup {""}, s \in {"", "ONLINE"} : SensorStatus(i, u, s)
  \/ \E i \in is : Unbound(i) \/ Telemetry(i, Quiet)
  \/ \E n \in Nodes, u \in Uuids : NotBoundHello(n, u, 0)
  \/ \E t \in is \cup {<<n>> : n \in Nodes} : Select(t)

Modules(is) ==
  \/ \E m \in {"GATEWAY_CAN", "SENSOR_DIRECT"} : ModeDetected(m)
  \/ \E n \in Nodes \cup {0}, s \in {"ONLINE", "LOST"} : PhysicalNode(n, s)
  \/ \E n \in Nodes : NodeHeard(n) \/ NodeEvent(n)
  \/ \E n \in Nodes, u \in Uuids : WirelessCandidate(n, u)
  \/ \E u \in Uuids, n, o \in Nodes : n # o /\ WirelessFailover(u, n, o)
  \/ \E off, passive \in BOOLEAN : BusStats(off, passive)
  \/ GatewayStatus \/ CrcError \/ CanFrame
  \/ \E i \in is : Panel(i) \/ Spectrum(i)
  \/ \E i \in is, u \in Uuids, s \in Followed : Association(i, u, s, "UNKNOWN")
  \/ \E i \in is, l \in Links \ {"NONE"}, k \in 0 .. 1 : WirelessLink(i, l, k)
  \/ \E i \in is, t \in 0 .. 2 : LinkEvent(i, t)
  \/ \E i \in is, m \in Modes, q \in {"CURRENT", "APPLIED", "REJECTED"} : WirelessConfig(i, q, m)
  \/ \E i \in is, m \in Modes : ConfigurationApplied(i, m)
  \/ RefreshFreshness \/ Tick

Numbering(is, xs) == ConnectionOpened \/ \E i \in is, x \in xs : Telemetry(i, x)

Readings(is, xs) ==
  \/ \E i \in is, x \in xs : Telemetry(i, x)
  \/ \E i \in is, lim \in Limits : SetAlarmLimits(i, lim)
  \/ \E i \in is, c \in Codes : Dtc(i, c)
  \/ \E i \in is : Unbound(i) \/ \E cs \in {Codes} \cup {{c} : c \in Codes} : DtcCleared(i, cs)
  \/ Tick

Port ==
  \/ \E u \in Uuids : DirectVersion(u)
  \/ \E m \in Modes, c \in Codes, k \in 0 .. 1 : DirectStatus(m, [code |-> c, faults |-> k])

Gateway == Ownership(Ids) \/ Modules(Ids) \/ Numbering(Ids, Numbered) \/ Readings(Ids, Samples)

Next == Gateway \/ Port
Spec == Init /\ [][Next]_vars

-----------------------------------------------------------------------------
(* Properties *)

\* Types of the whole.
TypeOK ==
  /\ mode \in {"UNKNOWN", "GATEWAY_CAN", "SENSOR_DIRECT"} /\ known \subseteq Ids
  /\ selected \in {Nobody} \cup Ids \cup {<<n>> : n \in Nodes}
  /\ \A n \in Nodes : node[n].status \in Statuses /\ node[n].found \subseteq Uuids
  /\ \A i \in Ids :
       /\ sensor[i].uuid \in Uuids \cup {""} /\ sensor[i].assoc \in AssocStates
       /\ sensor[i].status \in Statuses /\ sensor[i].link \in Links /\ sensor[i].mode \in Modes
       /\ sensor[i].profile \in Profiles /\ sensor[i].alarms \subseteq Metrics
       /\ Len(sensor[i].incidents) <= MaxIncidents
       /\ \A k \in DOMAIN sensor[i].incidents : sensor[i].incidents[k].severity \in Severities
       /\ i \notin known => sensor[i] = Blank
       /\ i \in known => node[i[1]].here
       /\ tracker[i] \in {Unset} \cup 0 .. Modulus - 1
  /\ clock \in 1 .. Horizon /\ inputs \in 0 .. MaxInputs

\* Two modules never both own the same sensor for the console: it goes to the
\* last one that claims it, even if the word that the other lost it is lost
\* (controller.py:266-286, _wireless_association). Excepted is a sensor that a
\* SENSOR line or the USB port has renamed since its module last claimed it:
\* these write the identity without looking for another owner.
OneOwner ==
  \A i, j \in known :
    /\ i[1] # j[1] /\ {sensor[i].assoc, sensor[j].assoc} \subseteq Claims
    /\ ~sensor[i].renamed /\ ~sensor[j].renamed
    => sensor[i].uuid # sensor[j].uuid

\* The readings missing from a stream are those counted as lost less those that
\* came late, across the wrap of the number and across a new connection, for a
\* sensor that stays listed (sequence.py, state_store.py record_sequence).
LossesAccounted ==
  \A i \in known :
    LET s == stream[i]
    IN sensor[i].lost - sensor[i].late =
         s.owed + Cardinality((s.first .. s.tip) \ s.got) - Cardinality({k \in s.got : k < s.first})

Told(r, c) ==
  FoldFunctionOnSet(+, 0, [k \in DOMAIN r.incidents |-> r.incidents[k].n],
                    {k \in DOMAIN r.incidents : r.incidents[k].key = <<"dtc", c>>})

\* A fault enters the list of incidents exactly when it goes from inactive to
\* active, by whichever of its three ways it comes, repetitions and clearings
\* in between included (controller.py _record_dtc_incident and its callers).
Announces ==
  \A i \in known \cap known', c \in Codes \ {"0"} :
    Told(sensor'[i], c) - Told(sensor[i], c) = IF c \in Active(sensor'[i]) \ Active(sensor[i]) THEN 1 ELSE 0
DtcAnnounced == [][Announces]_vars
=============================================================================
