----------------------------- MODULE EchoTrains -----------------------------
(***************************************************************************)
(* Trains of echoes that measure the network: Probe 00 sends the echoes of *)
(* one train to a sensor's module, which answers at once (LOCAL) or asks   *)
(* the sensor first (SENSOR), and prints a line for each echo; the console *)
(* rebuilds the train from those lines.                                    *)
(*   src/Codigo/node-can/src/wireless_link.cpp                             *)
(*   src/Front/pico_tui/research/service.py, research_screen.py            *)
(* Every train is for the same sensor of the same module, which may have   *)
(* it or not, with a session or without. Time passes in the choice of what *)
(* happens next; what an echo took is left out.                            *)
(***************************************************************************)
EXTENDS Naturals, Sequences, FiniteSets

CONSTANTS
  MaxPending,      \* echoes that the Probe keeps waiting at a time
  MaxTrains,       \* trains that the console remembers
  MaxEchoes, MaxStarts, MaxMishaps \* bounds: echoes of a train, trains, frames and lines lost

EchoAssumption == {MaxPending, MaxTrains, MaxEchoes, MaxStarts} \subseteq Nat \ {0} /\ MaxMishaps \in Nat

VARIABLES
  train, pending, seq, \* Probe: the train, the echoes without an answer, the last number given
  asked, session,  \* module: number of the echo the sensor was asked for, or 0; what it has of the sensor
  frames, acks,    \* echoes and answers on the bus
  lines,           \* lines on their way to the console
  trains,          \* console: the trains it remembers
  whole, stopped,  \* the newest of them was heard from its start on; the last train was cut short
  starts, mishaps

probe == <<train, pending, seq>>
node == <<asked, session>>
wires == <<frames, acks>>
console == <<trains, whole>>
counters == <<starts, mishaps>>
vars == <<probe, node, wires, lines, console, stopped, counters>>

Paths == {"LOCAL", "SENSOR"}
Sessions == {"NONE", "BOUND", "SECURE"}
Statuses == {"APPLIED", "REJECTED", "TIMEOUT"}  \* all that is not applied is called rejected
Idle == [active |-> FALSE, path |-> "LOCAL", total |-> 0, sent |-> 0, received |-> 0]
Started(p, n) == [kind |-> "ECHO_START", path |-> p, count |-> n]
Answer(p, status) == [kind |-> "ECHO", path |-> p, status |-> status]
Done(t) == [kind |-> "ECHO_DONE", path |-> t.path, sent |-> t.sent, received |-> t.received]
Mishap == mishaps < MaxMishaps /\ mishaps' = mishaps + 1

-----------------------------------------------------------------------------
(* The Probe *)

(* A train that is under way is finished first, without its last answers. *)
EchoStart(p, n) ==
  /\ starts < MaxStarts /\ starts' = starts + 1
  /\ train' = [Idle EXCEPT !.active = TRUE, !.path = p, !.total = n] /\ pending' = {} /\ stopped' = FALSE
  /\ lines' = lines \o (IF train.active THEN <<Done(train)>> ELSE <<>>) \o <<Started(p, n)>>
  /\ UNCHANGED <<seq, node, wires, console, mishaps>>

(* The echoes that wait for an answer keep waiting. *)
EchoCancel ==
  /\ train.active /\ train' = [train EXCEPT !.active = FALSE] /\ stopped' = TRUE
  /\ lines' = Append(lines, Done(train))
  /\ UNCHANGED <<pending, seq, node, wires, console, counters>>

EchoPoll(late, sends) ==
  LET waiting == (pending \ late) \cup (IF sends THEN {seq + 1} ELSE {})
      now == [train EXCEPT !.sent = IF sends THEN @ + 1 ELSE @]
      over == now.sent = now.total /\ waiting = {}
  IN  /\ train.active /\ late \subseteq pending /\ (late # {} \/ sends \/ over)
      /\ sends => (train.sent < train.total /\ Cardinality(pending \ late) < MaxPending)
      /\ pending' = waiting /\ train' = [now EXCEPT !.active = ~over]
      /\ seq' = IF sends THEN seq + 1 ELSE seq
      /\ frames' = frames \cup (IF sends THEN {[seq |-> seq + 1, path |-> train.path]} ELSE {})
      /\ lines' = lines \o [i \in 1..Cardinality(late) |-> Answer(train.path, "TIMEOUT")]
                        \o (IF over THEN <<Done(now)>> ELSE <<>>)
      /\ UNCHANGED <<node, acks, console, stopped, counters>>

(* An answer counts by the path of the train of now, and although it ended: *)
(* on the way to the sensor if it was applied, and otherwise whatever it is. *)
EchoAck(a) ==
  LET ok == train.path = "LOCAL" \/ a.status = "APPLIED"
  IN  /\ a \in acks /\ acks' = acks \ {a}
      /\ IF a.seq \in pending
         THEN /\ pending' = pending \ {a.seq} /\ lines' = Append(lines, Answer(train.path, a.status))
              /\ train' = [train EXCEPT !.received = IF ok THEN @ + 1 ELSE @]
         ELSE UNCHANGED <<pending, lines, train>>
      /\ UNCHANGED <<seq, node, frames, console, stopped, counters>>

ProbeRestart ==
  /\ Mishap /\ train' = Idle /\ pending' = {} /\ seq' = 0 /\ stopped' = TRUE /\ whole' = FALSE
  /\ UNCHANGED <<node, wires, lines, trains, starts>>

-----------------------------------------------------------------------------
(* The module *)

(* Without the sensor the module answers all the same, and it answers that *)
(* it has no such sensor; with it, the question may not leave.             *)
HandleEcho(f, leaves) ==
  LET asks == f.path = "SENSOR" /\ session = "SECURE" /\ asked = 0 /\ leaves
      applied == f.path = "LOCAL" /\ session # "NONE"
  IN  /\ f \in frames /\ frames' = frames \ {f}
      /\ asked' = IF asks THEN f.seq ELSE asked
      /\ acks' = IF asks THEN acks ELSE acks \cup {[seq |-> f.seq, status |-> IF applied THEN "APPLIED" ELSE "REJECTED"]}
      /\ UNCHANGED <<probe, session, lines, console, stopped, counters>>

(* The sensor's answer, or two seconds without it. *)
HandlePong(status) ==
  /\ asked # 0 /\ (status = "APPLIED" => session = "SECURE")
  /\ acks' = acks \cup {[seq |-> asked, status |-> status]} /\ asked' = 0
  /\ UNCHANGED <<probe, session, frames, lines, console, stopped, counters>>

(* A session ends, or one starts, perhaps in the place of another; the     *)
(* sensor is bound or taken away. An echo that it was asked for outlives   *)
(* only the end of the session.                                            *)
SessionChanges ==
  /\ Mishap /\ session' \in Sessions /\ (session' = session => session = "SECURE")
  /\ session = "NONE" => session' = "BOUND"
  /\ asked' = IF session' = "BOUND" THEN asked ELSE 0
  /\ UNCHANGED <<probe, wires, lines, console, stopped, starts>>

LoseFrame ==
  /\ Mishap
  /\ \/ \E f \in frames : frames' = frames \ {f} /\ UNCHANGED acks
     \/ \E a \in acks : acks' = acks \ {a} /\ UNCHANGED frames
  /\ UNCHANGED <<probe, node, lines, console, stopped, starts>>

-----------------------------------------------------------------------------
(* The console *)

EchoTrain(l) == [path |-> l.path, count |-> l.count, probes |-> <<>>, active |-> TRUE, sent |-> 0, received |-> 0]
Remembered(t) == LET all == Append(trains, t) IN SubSeq(all, (IF Len(all) > MaxTrains THEN 2 ELSE 1), Len(all))
Fitting(p) == {i \in DOMAIN trains : trains[i].path = p /\ trains[i].active}
OldestFor(p) == CHOOSE i \in Fitting(p) : \A j \in Fitting(p) : i <= j
TrainFor(p) == CHOOSE i \in Fitting(p) : \A j \in Fitting(p) : j <= i
Counted(t, l) == [t EXCEPT !.probes = Append(@, l.status)]
Finished(t, l) == [t EXCEPT !.active = FALSE, !.sent = l.sent, !.received = l.received]

OnLine(l) ==
  CASE l.kind = "ECHO_START" -> trains' = Remembered(EchoTrain(l)) /\ whole' = TRUE
    [] l.kind = "ECHO" /\ Fitting(l.path) # {} ->
         trains' = [trains EXCEPT ![TrainFor(l.path)] = Counted(@, l)] /\ UNCHANGED whole
    [] l.kind = "ECHO_DONE" /\ Fitting(l.path) # {} ->
         trains' = [trains EXCEPT ![TrainFor(l.path)] = Finished(@, l)] /\ UNCHANGED whole
    [] OTHER -> UNCHANGED console

Receive ==
  /\ lines # <<>> /\ OnLine(Head(lines)) /\ lines' = Tail(lines)
  /\ UNCHANGED <<probe, node, wires, stopped, counters>>

LoseLine ==
  /\ Mishap /\ lines # <<>> /\ lines' = Tail(lines) /\ whole' = FALSE
  /\ UNCHANGED <<probe, node, wires, trains, stopped, starts>>

(* The console connects anew: the lines of the meantime are gone. *)
ConnectionOpened ==
  /\ Mishap /\ lines' = <<>> /\ trains' = <<>> /\ whole' = FALSE
  /\ UNCHANGED <<probe, node, wires, stopped, starts>>

(* The answers with a time: those that were applied. *)
Answered(t) == Cardinality({i \in DOMAIN t.probes : t.probes[i] = "APPLIED"})
Sent(t) == IF t.active THEN Len(t.probes) ELSE t.sent
Received(t) == IF t.active THEN Answered(t) ELSE t.received
Lost(t) == IF Received(t) > Sent(t) THEN 0 ELSE Sent(t) - Received(t)
TrainsOf(p) == {i \in DOMAIN trains : trains[i].path = p}
LatestTrain(p) == trains[CHOOSE i \in TrainsOf(p) : \A j \in TrainsOf(p) : j <= i]

-----------------------------------------------------------------------------
Init ==
  /\ train = Idle /\ pending = {} /\ seq = 0 /\ asked = 0 /\ session \in Sessions
  /\ frames = {} /\ acks = {} /\ lines = <<>> /\ trains = <<>>
  /\ whole = FALSE /\ stopped = FALSE /\ starts = 0 /\ mishaps = 0

Probe ==
  \/ EchoCancel \/ ProbeRestart
  \/ \E p \in Paths, n \in 1..MaxEchoes : EchoStart(p, n)
  \/ \E late \in SUBSET pending, sends \in BOOLEAN : EchoPoll(late, sends)
  \/ \E a \in acks : EchoAck(a)

Next ==
  \/ Probe \/ SessionChanges \/ LoseFrame \/ Receive \/ LoseLine \/ ConnectionOpened
  \/ \E f \in frames, leaves \in BOOLEAN : HandleEcho(f, leaves)
  \/ \E status \in {"APPLIED", "REJECTED"} : HandlePong(status)

Spec == Init /\ [][Next]_vars

-----------------------------------------------------------------------------
TypeOK ==
  /\ train \in [active : BOOLEAN, path : Paths, total : 0..MaxEchoes, sent : 0..MaxEchoes, received : 0..MaxEchoes]
  /\ pending \subseteq 1..seq /\ Cardinality(pending) <= MaxPending
  /\ Len(trains) <= MaxTrains
  /\ \A i \in DOMAIN trains : trains[i].path \in Paths /\ Len(trains[i].probes) <= MaxEchoes * MaxStarts

(* The echoes of a train that the Probe counts as answered. *)
Closed(t) ==
  Cardinality({i \in DOMAIN t.probes : t.probes[i] = "APPLIED" \/ (t.path = "LOCAL" /\ t.probes[i] # "TIMEOUT")})

(* The newest train, as the screen shows it as the last of its path, when  *)
(* every line of it arrived. Once it ended, the answers it is shown with   *)
(* are those of its echoes: all that did not time out, or for the way to   *)
(* the sensor those that have a time. And unless it was cut short every    *)
(* echo is there, with or without an answer.                               *)
TrainIsWhole ==
  LET t == LatestTrain(trains[Len(trains)].path)
  IN  (whole /\ lines = <<>>) =>
        /\ ~t.active => Received(t) = Closed(t)
        /\ t.path = "SENSOR" => Received(t) = Answered(t)
        /\ (~train.active /\ ~stopped) =>
             /\ ~t.active /\ t.sent = t.count /\ Len(t.probes) = t.sent
             /\ Lost(t) = Len(t.probes) - Closed(t)
=============================================================================
