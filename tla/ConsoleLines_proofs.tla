------------------------- MODULE ConsoleLines_proofs -------------------------
(* Proofs about what the console makes of lines: the spectra it puts together
   from fragments (module Transfers), the sensor on its own port (module
   DirectSensor), the trains of echoes (module EchoTrains), the stages of a data
   channel (module DataChannel), the measures of the network (module
   NetworkMeasures) and the picture of it (module NetworkPicture), for any
   values of their constants. Each part is an instance; they have no state in
   common.                                                                    *)
EXTENDS Integers, Sequences, FiniteSets, Functions, FiniteSetTheorems, WellFoundedInduction, TLAPS

CONSTANTS Keys, Count, MaxCount, MaxActive, Timeout, Period, Sendings, Horizon, MaxLines
VARIABLES open, meta, shown, failed, tick, sending, clock, lines
Spectra == INSTANCE Transfers

CONSTANTS Modes, Gains, MaxAsked, MaxEvents
VARIABLES
  staged, active, queued, stream, once, fft, fault, todo, answers, last, conf, result, display, flow, opened, answered,
  asked, own
Direct == INSTANCE DirectSensor WITH lines <- answers, shown <- display

CONSTANTS MaxPending, MaxTrains, MaxEchoes, MaxStarts, MaxMishaps
VARIABLES train, pending, seq, pinged, session, frames, acks, reports, trains, whole, stopped, starts, mishaps
Echoes == INSTANCE EchoTrains WITH asked <- pinged, lines <- reports

CONSTANT MaxSteps
VARIABLES panel, ap, offered, station, awaiting, authentic, asleep, told, link, reading, arrived, unbroken, fresh
Channel == INSTANCE DataChannel WITH
  MaxLines <- MaxSteps, pending <- awaiting, secure <- authentic, lines <- arrived, whole <- unbroken

CONSTANTS
  Nodes, Sensors, Names, Started, Seconds, Settle, ManualMax, Silent, NotResumed, Recent, RunHistory, Modulus, Handover,
  Loads, LastMoment, MaxInputs
VARIABLES svc, run, past, rec, expecting, dialog, real, moment, inputs
Measures == INSTANCE NetworkMeasures WITH Horizon <- LastMoment, clock <- moment

CONSTANTS Modules, MaxFrames
VARIABLES leader, condition, table, commands, known, observed, printed, picture, misled, causes
Picture == INSTANCE NetworkPicture WITH real <- condition, lines <- printed, shown <- picture, frames <- causes

-----------------------------------------------------------------------------
(* The spectra. That they are whole does not follow from what is shown alone. A
   sensor that starts again uses the keys of the sending before, and what is left
   of that may still be in the table: it is too old by then, for the sensor was
   away for longer than a transfer may last, and no fragment is younger than the
   last line of its key. This is the inductive invariant, Fresh.              *)

Pieces == UNION {[S -> Nat] : S \in SUBSET Nat}
Entry == [count : Nat, crc : Nat, created : Nat, got : Pieces]

\* The values of the variables, as far as the proofs need them.
Shape ==
  /\ clock \in Nat /\ sending \in [Keys -> [n : Nat, at : Nat]]
  /\ DOMAIN open \subseteq Keys /\ \A k \in DOMAIN open : open[k] \in Entry

\* No transfer is younger than the last line of its key; and one with parts of a
\* sending before is overdue.
Fresh ==
  /\ \A k \in Keys : sending[k].at <= clock
  /\ \A k \in DOMAIN open :
       /\ open[k].created <= sending[k].at
       /\ \/ \A i \in DOMAIN open[k].got : open[k].got[i] = sending[k].n
          \/ clock - open[k].created >= Timeout

SpectraInv == Shape /\ Fresh /\ Spectra!SpectrumWhole

-----------------------------------------------------------------------------
(* The operators on the table *)

LEMMA TimeoutIsNatural == ASSUME Spectra!TransfersAssumption PROVE Timeout \in Nat /\ Count \in Nat /\ Timeout > 0
BY DEF Spectra!TransfersAssumption

\* What is not overdue is left as it was.
LEMMA ExpiredIs ==
  /\ DOMAIN Spectra!Expired \subseteq DOMAIN open
  /\ \A j \in DOMAIN Spectra!Expired : Spectra!Expired[j] = open[j] /\ ~(clock - open[j].created >= Timeout)
BY DEF Spectra!Expired, Spectra!Overdue, Spectra!Without, Spectra!Restrict

\* The transfer a fragment joins has parts of the present sending alone.
LEMMA HeldIsOfOneSending ==
  ASSUME Shape, Fresh, NEW k \in Keys, NEW f, f.count \in Nat, f.crc \in Nat
  PROVE  /\ Spectra!Held(k, f) \in Entry /\ Spectra!Held(k, f).created <= clock
         /\ \A i \in DOMAIN Spectra!Held(k, f).got : Spectra!Held(k, f).got[i] = sending[k].n
<1>1. CASE k \in DOMAIN Spectra!Expired
  <2>1. Spectra!Held(k, f) = open[k] /\ k \in DOMAIN open /\ ~(clock - open[k].created >= Timeout)
    BY <1>1, ExpiredIs DEF Spectra!Held
  <2>2. open[k].created <= sending[k].at /\ sending[k].at <= clock /\ open[k] \in Entry
        /\ clock \in Nat /\ sending[k] \in [n : Nat, at : Nat]
    BY <2>1 DEF Shape, Fresh
  <2>3. open[k].created \in Nat /\ sending[k].at \in Nat
    BY <2>2 DEF Entry
  <2>4. open[k].created <= clock
    BY <2>2, <2>3
  <2>5. \A i \in DOMAIN open[k].got : open[k].got[i] = sending[k].n
    BY <2>1 DEF Fresh
  <2> QED BY <2>1, <2>2, <2>4, <2>5
<1>2. CASE k \notin DOMAIN Spectra!Expired
  <2>1. Spectra!Held(k, f) = [count |-> f.count, crc |-> f.crc, created |-> clock, got |-> <<>>]
    BY <1>2 DEF Spectra!Held, Spectra!Started
  <2>2. <<>> \in [{} -> Nat] /\ DOMAIN <<>> = {}
    OBVIOUS
  <2>3. <<>> \in Pieces
    BY <2>2 DEF Pieces
  <2> QED BY <2>1, <2>2, <2>3 DEF Shape, Entry
<1> QED BY <1>1, <1>2

\* So has what it becomes with the fragment.
LEMMA JoinedIsOfOneSending ==
  ASSUME Shape, Fresh, NEW k \in Keys, NEW f, f.count \in Nat, f.crc \in Nat, f.index \in Nat,
         f.sending = sending[k].n
  PROVE  /\ Spectra!Joined(k, f) \in Pieces /\ DOMAIN Spectra!Joined(k, f) = DOMAIN Spectra!Held(k, f).got \cup {f.index}
         /\ \A i \in DOMAIN Spectra!Joined(k, f) : Spectra!Joined(k, f)[i] = sending[k].n
         /\ Spectra!Range(Spectra!Joined(k, f)) = {sending[k].n}
<1> DEFINE g == Spectra!Held(k, f).got
<1>1. g \in Pieces /\ \A i \in DOMAIN g : g[i] = sending[k].n
  BY HeldIsOfOneSending DEF Entry
<1>2. PICK S \in SUBSET Nat : g \in [S -> Nat]
  BY <1>1 DEF Pieces
<1>3. sending[k].n \in Nat
  BY DEF Shape
<1>4. DOMAIN Spectra!Joined(k, f) = S \cup {f.index} /\ DOMAIN g = S
  BY <1>2 DEF Spectra!Joined, Spectra!With
<1>5. \A i \in S \cup {f.index} : Spectra!Joined(k, f)[i] = sending[k].n
  BY <1>1, <1>2 DEF Spectra!Joined, Spectra!With
<1>6. Spectra!Joined(k, f) = [i \in S \cup {f.index} |-> Spectra!Joined(k, f)[i]]
  BY <1>2 DEF Spectra!Joined, Spectra!With
<1>7. Spectra!Joined(k, f) \in [S \cup {f.index} -> Nat]
  BY <1>3, <1>5, <1>6
<1>8. Spectra!Joined(k, f) \in Pieces
  BY <1>7 DEF Pieces
<1>9. Spectra!Range(Spectra!Joined(k, f)) = {sending[k].n}
  BY <1>4, <1>5 DEF Spectra!Range
<1> QED BY <1>4, <1>5, <1>8, <1>9
-----------------------------------------------------------------------------
(* A fragment *)

LEMMA FragmentKeeps ==
  ASSUME SpectraInv, NEW k \in Keys, NEW f, f.count \in Nat, f.crc \in Nat, f.index \in Nat,
         f.sending = sending[k].n, Spectra!Fragment(k, f), sending' = [sending EXCEPT ![k].at = clock]
  PROVE  SpectraInv'
<1> DEFINE v == Spectra!Verdict(k, f)
           h == Spectra!Held(k, f)
           one == [h EXCEPT !.crc = Spectra!Crc(k, f)]
           more == [h EXCEPT !.crc = Spectra!Crc(k, f), !.got = Spectra!Joined(k, f)]
<1> USE DEF SpectraInv
<1>1. h \in Entry /\ h.created <= clock /\ \A i \in DOMAIN h.got : h.got[i] = sending[k].n
  BY HeldIsOfOneSending
<1>2. /\ Spectra!Joined(k, f) \in Pieces /\ \A i \in DOMAIN Spectra!Joined(k, f) : Spectra!Joined(k, f)[i] = sending[k].n
      /\ Spectra!Range(Spectra!Joined(k, f)) = {sending[k].n}
  BY JoinedIsOfOneSending
<1>3. Spectra!Crc(k, f) \in Nat
  BY <1>1 DEF Spectra!Crc, Entry
<1>4. one \in Entry /\ one.created = h.created /\ one.got = h.got
  BY <1>1, <1>3 DEF Entry
<1>5. more \in Entry /\ more.created = h.created /\ more.got = Spectra!Joined(k, f)
  BY <1>1, <1>2, <1>3 DEF Entry
<1>6. v \in {"refused", "dropped", "repeated", "pending", "complete"}
  BY DEF Spectra!Verdict
<1>7. /\ v = "refused" => open' = Spectra!Expired
      /\ v \in {"dropped", "complete"} => open' = Spectra!Without(Spectra!Expired, {k})
      /\ v = "repeated" => open' = Spectra!With(Spectra!Expired, k, one)
      /\ v = "pending" => open' = Spectra!With(Spectra!Expired, k, more)
  BY DEF Spectra!Fragment
<1>8. clock' = clock /\ shown' = IF v = "complete" THEN shown \cup {Spectra!Spectrum(k, f)} ELSE shown
  BY DEF Spectra!Fragment
<1> HIDE DEF v, h, one, more
<1>9. DOMAIN open' \subseteq DOMAIN Spectra!Expired \cup {k} /\
      \A j \in DOMAIN open' : \/ j \in DOMAIN Spectra!Expired /\ open'[j] = Spectra!Expired[j]
                              \/ j = k /\ (open'[j] = one \/ open'[j] = more)
  <2>1. CASE v = "refused"
    BY <2>1, <1>7
  <2>2. CASE v \in {"dropped", "complete"}
    BY <2>2, <1>7 DEF Spectra!Without, Spectra!Restrict
  <2>3. CASE v = "repeated"
    BY <2>3, <1>7 DEF Spectra!With
  <2>4. CASE v = "pending"
    BY <2>4, <1>7 DEF Spectra!With
  <2> QED BY <1>6, <2>1, <2>2, <2>3, <2>4
<1>10. sending' \in [Keys -> [n : Nat, at : Nat]] /\ clock \in Nat
       /\ sending'[k].n = sending[k].n /\ sending'[k].at = clock
       /\ \A j \in Keys : j # k => sending'[j] = sending[j]
  BY DEF Shape
<1>11. Shape'
  <2>1. DOMAIN open' \subseteq Keys
    BY <1>9, ExpiredIs DEF Shape
  <2>2. ASSUME NEW j \in DOMAIN open'
        PROVE  open'[j] \in Entry
    BY <1>9, <1>4, <1>5, ExpiredIs DEF Shape
  <2> QED BY <2>1, <2>2, <1>8, <1>10 DEF Shape
<1>12. \A j \in Keys : sending'[j].at <= clock'
  BY <1>8, <1>10 DEF Fresh
<1>13. ASSUME NEW j \in DOMAIN open'
       PROVE  /\ open'[j].created <= sending'[j].at
              /\ \/ \A i \in DOMAIN open'[j].got : open'[j].got[i] = sending'[j].n
                 \/ clock' - open'[j].created >= Timeout
  <2>1. CASE j \in DOMAIN Spectra!Expired /\ open'[j] = Spectra!Expired[j]
    <3>1. j \in DOMAIN open /\ open'[j] = open[j] /\ ~(clock - open[j].created >= Timeout)
      BY <2>1, ExpiredIs
    <3>2. \A i \in DOMAIN open[j].got : open[j].got[i] = sending[j].n
      BY <3>1 DEF Fresh
    <3>3. j \in Keys /\ open[j].created <= sending[j].at /\ sending[j].at <= clock
          /\ open[j].created \in Nat /\ sending[j].at \in Nat
      BY <3>1 DEF Fresh, Shape, Entry
    <3>4. open[j].created <= clock
      BY <3>3, <1>10
    <3>5. CASE j = k
      BY <3>1, <3>2, <3>4, <3>5, <1>10
    <3>6. CASE j # k
      BY <3>1, <3>2, <3>3, <3>6, <1>10
    <3> QED BY <3>5, <3>6
  <2>2. CASE j = k /\ (open'[j] = one \/ open'[j] = more)
    <3>1. open'[j].created = h.created /\ \A i \in DOMAIN open'[j].got : open'[j].got[i] = sending[k].n
      BY <2>2, <1>1, <1>2, <1>4, <1>5
    <3> QED BY <3>1, <2>2, <1>1, <1>10
  <2> QED BY <2>1, <2>2, <1>9
<1>14. Spectra!SpectrumWhole'
  <2>1. Spectra!Spectrum(k, f).parts = {Spectra!Spectrum(k, f).scale}
    BY <1>2 DEF Spectra!Spectrum
  <2> QED BY <2>1, <1>8 DEF Spectra!SpectrumWhole
<1> QED BY <1>11, <1>12, <1>13, <1>14 DEF Fresh

-----------------------------------------------------------------------------
(* Every step *)

LEMMA SpectraInvInit == Spectra!Init => SpectraInv
BY DEF Spectra!Init, SpectraInv, Shape, Fresh, Spectra!SpectrumWhole

LEMMA SpectraInvNext == Spectra!TransfersAssumption /\ SpectraInv /\ [Spectra!Next]_Spectra!vars => SpectraInv'
<1> SUFFICES ASSUME Spectra!TransfersAssumption, SpectraInv, [Spectra!Next]_Spectra!vars PROVE SpectraInv'
  OBVIOUS
<1>1. ASSUME NEW k \in Keys, NEW i \in 0 .. Count - 1, NEW c \in BOOLEAN, Spectra!Line(k, i, c)
      PROVE  SpectraInv'
  <2> DEFINE n == sending[k].n
             f == [index |-> i, count |-> Count, sending |-> n, crc |-> IF c THEN n ELSE Spectra!None]
  <2>1. n \in Nat /\ i \in Nat /\ Count \in Nat /\ Spectra!None \in Nat
    BY TimeoutIsNatural DEF SpectraInv, Shape, Spectra!None
  <2>2. Spectra!Fragment(k, f) /\ sending' = [sending EXCEPT ![k].at = clock]
    BY <1>1 DEF Spectra!Line
  <2>3. f.count \in Nat /\ f.crc \in Nat /\ f.index \in Nat /\ f.sending = sending[k].n
    BY <2>1
  <2> HIDE DEF f
  <2> QED BY <2>2, <2>3, FragmentKeeps
<1>2. ASSUME NEW k \in Keys, NEW i \in Nat, NEW c \in Nat, Spectra!SpoiltLine(k, i, c)
      PROVE  SpectraInv'
  <2> DEFINE f == [index |-> i, count |-> c, sending |-> sending[k].n, crc |-> Spectra!None]
  <2>1. Spectra!Fragment(k, f) /\ sending' = [sending EXCEPT ![k].at = clock]
    BY <1>2 DEF Spectra!SpoiltLine
  <2>2. f.count \in Nat /\ f.crc \in Nat /\ f.index \in Nat /\ f.sending = sending[k].n
    BY DEF Spectra!None
  <2> HIDE DEF f
  <2> QED BY <2>1, <2>2, FragmentKeeps
<1>3. ASSUME NEW k \in Keys, Spectra!SendAgain(k) PROVE SpectraInv'
  <2>1. /\ clock' = clock /\ open' = open /\ shown' = shown /\ clock - sending[k].at >= Timeout
        /\ sending' = [sending EXCEPT ![k] = [n |-> @.n + 1, at |-> clock]]
    BY <1>3 DEF Spectra!SendAgain
  <2>2. sending' \in [Keys -> [n : Nat, at : Nat]] /\ clock \in Nat /\ sending'[k].at = clock
        /\ \A j \in Keys : j # k => sending'[j] = sending[j]
    BY <2>1 DEF SpectraInv, Shape
  <2>3. ASSUME NEW j \in DOMAIN open
        PROVE  /\ open[j].created <= sending'[j].at
               /\ \/ \A i \in DOMAIN open[j].got : open[j].got[i] = sending'[j].n
                  \/ clock - open[j].created >= Timeout
    <3>1. j \in Keys /\ open[j].created <= sending[j].at /\ sending[j].at <= clock
          /\ open[j].created \in Nat /\ sending[j].at \in Nat
      BY DEF SpectraInv, Fresh, Shape, Entry
    <3>2. CASE j = k
      BY <3>1, <3>2, <2>1, <2>2, TimeoutIsNatural
    <3>3. CASE j # k
      BY <3>1, <3>3, <2>2 DEF SpectraInv, Fresh
    <3> QED BY <3>2, <3>3
  <2> QED BY <2>1, <2>2, <2>3 DEF SpectraInv, Shape, Fresh, Spectra!SpectrumWhole
<1>4. CASE Spectra!ExpireFragmentTransfers
  <2>1. open' = Spectra!Expired /\ UNCHANGED <<shown, sending, clock>>
    BY <1>4 DEF Spectra!ExpireFragmentTransfers
  <2> QED BY <2>1, ExpiredIs DEF SpectraInv, Shape, Fresh, Spectra!SpectrumWhole
<1>5. CASE Spectra!ConnectionOpened
  BY <1>5 DEF Spectra!ConnectionOpened, SpectraInv, Shape, Fresh, Spectra!SpectrumWhole
<1>6. CASE Spectra!Tick
  <2>1. clock' = clock + 1 /\ UNCHANGED <<open, shown, sending>>
    BY <1>6 DEF Spectra!Tick
  <2>2. clock \in Nat /\ Timeout \in Nat /\ \A j \in DOMAIN open : open[j].created \in Nat /\ j \in Keys
    BY TimeoutIsNatural DEF SpectraInv, Shape, Entry
  <2>3. \A j \in Keys : sending[j].at \in Nat
    BY DEF SpectraInv, Shape
  <2> QED BY <2>1, <2>2, <2>3 DEF SpectraInv, Shape, Fresh, Spectra!SpectrumWhole
<1>7. CASE UNCHANGED Spectra!vars
  BY <1>7 DEF Spectra!vars, SpectraInv, Shape, Fresh, Spectra!SpectrumWhole
<1>8. 0 \in Nat /\ Count \in Nat /\ Count + 1 \in Nat
  BY TimeoutIsNatural
<1> QED
  BY <1>1, <1>2, <1>3, <1>4, <1>5, <1>6, <1>7, <1>8 DEF Spectra!Next

\* A spectrum that is shown is of one sending, parts and scale, whatever lines are
\* lost, repeated or out of order and whenever a sensor starts again, for every
\* number of fragments, of transfers at a time and every timeout (fragments.py add,
\* expire; controller.py _fragment, _consume_transfer).
THEOREM ShownSpectraAreWhole ==
  ASSUME Spectra!TransfersAssumption
  PROVE  Spectra!Spec => []Spectra!SpectrumWhole
<1>1. SpectraInv => Spectra!SpectrumWhole
  BY DEF SpectraInv
<1>2. SpectraInv /\ [Spectra!Next]_Spectra!vars => SpectraInv'
  BY SpectraInvNext
<1> QED BY <1>1, <1>2, SpectraInvInit, PTL DEF Spectra!Spec

-----------------------------------------------------------------------------
(* Types, and the limit of the table *)

(* The instance counts a set as this module does. *)
LEMMA CountsAgree == \A S : Spectra!Cardinality(S) = Cardinality(S)
BY DEF Spectra!Cardinality, Cardinality

Table == IsFiniteSet(DOMAIN open) /\ Cardinality(DOMAIN open) <= MaxActive
Slots == \A k \in DOMAIN open : DOMAIN open[k].got \subseteq 0 .. open[k].count - 1
Rest == DOMAIN meta \subseteq Keys /\ tick \in 0 .. Period

TypeInv == SpectraInv /\ Table /\ Slots /\ Rest

LEMMA ExpiredIsSmall ==
  ASSUME Table, Spectra!TransfersAssumption
  PROVE  /\ IsFiniteSet(DOMAIN Spectra!Expired) /\ Cardinality(DOMAIN Spectra!Expired) \in Nat
         /\ Cardinality(DOMAIN Spectra!Expired) <= MaxActive /\ MaxActive \in Nat
<1>1. DOMAIN Spectra!Expired \subseteq DOMAIN open
  BY ExpiredIs
<1>2. IsFiniteSet(DOMAIN Spectra!Expired) /\ Cardinality(DOMAIN Spectra!Expired) <= Cardinality(DOMAIN open)
  BY <1>1, FS_Subset DEF Table
<1>3. Cardinality(DOMAIN Spectra!Expired) \in Nat /\ Cardinality(DOMAIN open) \in Nat
  BY <1>2, FS_CardinalityType DEF Table
<1> QED BY <1>2, <1>3 DEF Table, Spectra!TransfersAssumption

\* A part of the table, or one that was not full with one transfer more.
LEMMA TableOf ==
  ASSUME Table, Spectra!TransfersAssumption, NEW k, NEW D,
         D \subseteq DOMAIN Spectra!Expired \/ (D = DOMAIN Spectra!Expired \cup {k}
           /\ (k \in DOMAIN Spectra!Expired \/ Cardinality(DOMAIN Spectra!Expired) < MaxActive))
  PROVE  IsFiniteSet(D) /\ Cardinality(D) <= MaxActive
<1> DEFINE E == DOMAIN Spectra!Expired
<1>1. IsFiniteSet(E) /\ Cardinality(E) \in Nat /\ Cardinality(E) <= MaxActive /\ MaxActive \in Nat
  BY ExpiredIsSmall
<1> HIDE DEF E
<1>2. CASE D \subseteq E
  <2>1. IsFiniteSet(D) /\ Cardinality(D) <= Cardinality(E)
    BY <1>1, <1>2, FS_Subset
  <2>2. Cardinality(D) \in Nat
    BY <2>1, FS_CardinalityType
  <2> QED BY <1>1, <2>1, <2>2
<1>3. CASE D = E \cup {k} /\ k \notin E /\ Cardinality(E) < MaxActive
  <2>1. IsFiniteSet(D) /\ Cardinality(D) = Cardinality(E) + 1
    BY <1>1, <1>3, FS_AddElement
  <2> QED BY <1>1, <1>3, <2>1
<1>4. D \subseteq E \/ (D = E \cup {k} /\ k \notin E /\ Cardinality(E) < MaxActive)
  BY DEF E
<1> QED BY <1>2, <1>3, <1>4

LEMMA FragmentKeepsTypes ==
  ASSUME Spectra!TransfersAssumption, TypeInv, NEW k \in Keys, NEW f, f.count \in Nat, f.crc \in Nat, f.index \in Nat,
         f.sending = sending[k].n, Spectra!Fragment(k, f)
  PROVE  (Table /\ Slots /\ Rest)'
<1> DEFINE v == Spectra!Verdict(k, f)
           h == Spectra!Held(k, f)
           one == [h EXCEPT !.crc = Spectra!Crc(k, f)]
           more == [h EXCEPT !.crc = Spectra!Crc(k, f), !.got = Spectra!Joined(k, f)]
<1>1. h \in Entry /\ DOMAIN Spectra!Joined(k, f) = DOMAIN h.got \cup {f.index}
  BY HeldIsOfOneSending, JoinedIsOfOneSending DEF TypeInv, SpectraInv
<1>2. one.got = h.got /\ one.count = h.count /\ more.got = Spectra!Joined(k, f) /\ more.count = h.count
  BY <1>1 DEF Entry
<1>3. DOMAIN h.got \subseteq 0 .. h.count - 1
  <2>1. CASE k \in DOMAIN Spectra!Expired
    BY <2>1, ExpiredIs DEF Spectra!Held, TypeInv, Slots
  <2>2. CASE k \notin DOMAIN Spectra!Expired
    BY <2>2 DEF Spectra!Held, Spectra!Started
  <2> QED BY <2>1, <2>2
<1>4. v \in {"refused", "dropped", "repeated", "pending", "complete"}
  BY DEF Spectra!Verdict
<1>5. v \in {"repeated", "pending"} => ~Spectra!OutOfBounds(f) /\ ~Spectra!Full(k) /\ ~Spectra!Conflicts(k, f)
  BY DEF Spectra!Verdict
<1>6. v \in {"repeated", "pending"} => h.count = f.count /\ f.index \in 0 .. f.count - 1
  BY <1>5 DEF Spectra!OutOfBounds, Spectra!Conflicts
<1>7. /\ v = "refused" => open' = Spectra!Expired
      /\ v \in {"dropped", "complete"} => open' = Spectra!Without(Spectra!Expired, {k})
      /\ v = "repeated" => open' = Spectra!With(Spectra!Expired, k, one)
      /\ v = "pending" => open' = Spectra!With(Spectra!Expired, k, more)
      /\ meta' = Spectra!With(meta, k, f.sending) \/ meta' = Spectra!Without(meta, {k})
      /\ tick' = tick
  BY DEF Spectra!Fragment
<1> HIDE DEF v, h, one, more
<1>8. Rest'
  BY <1>7 DEF TypeInv, Rest, Spectra!With, Spectra!Without, Spectra!Restrict
<1>9. CASE v = "refused"
  <2>1. open' = Spectra!Expired
    BY <1>9, <1>7
  <2>2. Table'
    BY <2>1, ExpiredIsSmall DEF TypeInv, Table
  <2>3. Slots'
    BY <2>1, ExpiredIs DEF TypeInv, Slots
  <2> QED BY <2>2, <2>3, <1>8
<1>10. CASE v \in {"dropped", "complete"}
  <2>1. DOMAIN open' \subseteq DOMAIN Spectra!Expired /\ \A j \in DOMAIN open' : open'[j] = Spectra!Expired[j]
    BY <1>10, <1>7 DEF Spectra!Without, Spectra!Restrict
  <2>2. Table'
    BY <2>1, TableOf DEF TypeInv, Table
  <2>3. Slots'
    BY <2>1, ExpiredIs DEF TypeInv, Slots
  <2> QED BY <2>2, <2>3, <1>8
<1>11. CASE v \in {"repeated", "pending"}
  <2>1. PICK e \in {one, more} : open' = Spectra!With(Spectra!Expired, k, e)
    BY <1>11, <1>7
  <2>2. DOMAIN open' = DOMAIN Spectra!Expired \cup {k} /\ open'[k] = e
        /\ \A j \in DOMAIN open' : j # k => j \in DOMAIN Spectra!Expired /\ open'[j] = Spectra!Expired[j]
    BY <2>1 DEF Spectra!With
  <2>3. Table'
    <3>1. k \in DOMAIN Spectra!Expired \/ Cardinality(DOMAIN Spectra!Expired) < MaxActive
      BY <1>5, <1>11, ExpiredIsSmall, CountsAgree DEF Spectra!Full, TypeInv
    <3> HIDE DEF TypeInv
    <3> QED BY <3>1, <2>2, TableOf DEF TypeInv, Table
  <2>4. DOMAIN e.got \subseteq 0 .. e.count - 1
    BY <1>1, <1>2, <1>3, <1>6, <1>11
  <2>5. Slots'
    BY <2>2, <2>4, ExpiredIs DEF TypeInv, Slots
  <2> QED BY <2>3, <2>5, <1>8
<1> QED BY <1>4, <1>9, <1>10, <1>11

LEMMA SpectraTypesInit == Spectra!TransfersAssumption /\ Spectra!Init => TypeInv
<1> SUFFICES ASSUME Spectra!TransfersAssumption, Spectra!Init PROVE TypeInv
  OBVIOUS
<1>1. DOMAIN open = {} /\ DOMAIN meta = {} /\ tick = 0 /\ SpectraInv
  BY SpectraInvInit DEF Spectra!Init
<1>2. MaxActive \in Nat /\ Period \in Nat
  BY DEF Spectra!TransfersAssumption
<1> QED BY <1>1, <1>2, FS_EmptySet DEF TypeInv, Table, Slots, Rest

LEMMA SpectraTypesNext == Spectra!TransfersAssumption /\ TypeInv /\ [Spectra!Next]_Spectra!vars => TypeInv'
<1> SUFFICES ASSUME Spectra!TransfersAssumption, TypeInv, [Spectra!Next]_Spectra!vars PROVE TypeInv'
  OBVIOUS
<1>1. (Table /\ Slots /\ Rest)' => TypeInv'
  BY SpectraInvNext DEF TypeInv
<1>2. Count \in Nat /\ Count + 1 \in Nat /\ 0 \in Nat /\ Spectra!None \in Nat /\ Period \in Nat
  BY TimeoutIsNatural DEF Spectra!TransfersAssumption, Spectra!None
<1>3. ASSUME NEW k \in Keys, NEW i \in Nat, NEW c \in Nat, NEW r \in Nat,
             Spectra!Fragment(k, [index |-> i, count |-> c, sending |-> sending[k].n, crc |-> r])
      PROVE  (Table /\ Slots /\ Rest)'
  <2> DEFINE f == [index |-> i, count |-> c, sending |-> sending[k].n, crc |-> r]
  <2>1. f.count \in Nat /\ f.crc \in Nat /\ f.index \in Nat /\ f.sending = sending[k].n /\ Spectra!Fragment(k, f)
    BY <1>3
  <2> HIDE DEF f
  <2> QED BY <2>1, FragmentKeepsTypes
<1>4. ASSUME NEW k \in Keys, NEW i \in 0 .. Count - 1, NEW c \in BOOLEAN, Spectra!Line(k, i, c)
      PROVE  (Table /\ Slots /\ Rest)'
  <2>1. i \in Nat /\ sending[k].n \in Nat
    BY <1>2 DEF TypeInv, SpectraInv, Shape
  <2>2. PICK r \in Nat : Spectra!Fragment(k, [index |-> i, count |-> Count, sending |-> sending[k].n, crc |-> r])
    BY <1>2, <1>4, <2>1 DEF Spectra!Line
  <2> QED BY <1>2, <1>3, <2>1, <2>2
<1>5. ASSUME NEW k \in Keys, NEW i \in Nat, NEW c \in Nat, Spectra!SpoiltLine(k, i, c)
      PROVE  (Table /\ Slots /\ Rest)'
  BY <1>2, <1>3, <1>5 DEF Spectra!SpoiltLine
<1>6. ASSUME NEW k \in Keys, Spectra!SendAgain(k) PROVE (Table /\ Slots /\ Rest)'
  BY <1>6 DEF Spectra!SendAgain, TypeInv, Table, Slots, Rest
<1>7. CASE Spectra!ExpireFragmentTransfers
  <2>1. open' = Spectra!Expired /\ meta' = Spectra!Without(meta, Spectra!Overdue) /\ tick' = 0
    BY <1>7 DEF Spectra!ExpireFragmentTransfers
  <2>2. Table'
    BY <2>1, ExpiredIsSmall DEF TypeInv, Table
  <2>3. Slots'
    BY <2>1, ExpiredIs DEF TypeInv, Slots
  <2>4. Rest'
    BY <1>2, <2>1 DEF TypeInv, Rest, Spectra!Without, Spectra!Restrict
  <2> QED BY <1>1, <2>2, <2>3, <2>4
<1>8. CASE Spectra!ConnectionOpened
  <2>1. DOMAIN open' = {} /\ DOMAIN meta' = {} /\ tick' = tick
    BY <1>8 DEF Spectra!ConnectionOpened
  <2>2. MaxActive \in Nat
    BY DEF Spectra!TransfersAssumption
  <2> QED BY <1>1, <2>1, <2>2, FS_EmptySet DEF TypeInv, Table, Slots, Rest
<1>9. CASE Spectra!Tick
  <2>1. UNCHANGED <<open, meta>> /\ tick' = tick + 1 /\ tick < Period
    BY <1>9 DEF Spectra!Tick
  <2> QED BY <1>1, <1>2, <2>1 DEF TypeInv, Table, Slots, Rest
<1>10. CASE UNCHANGED Spectra!vars
  BY <1>1, <1>10 DEF Spectra!vars, TypeInv, Table, Slots, Rest
<1> QED
  BY <1>1, <1>2, <1>4, <1>5, <1>6, <1>7, <1>8, <1>9, <1>10 DEF Spectra!Next

\* The types, with the limit of the table: no more than so many transfers are in
\* progress, whatever lines come, and each has parts only where its count says
\* (fragments.py add).
THEOREM TransferTypes ==
  ASSUME Spectra!TransfersAssumption
  PROVE  Spectra!Spec => []Spectra!TypeOK
<1>1. TypeInv => Spectra!TypeOK
  <2> SUFFICES ASSUME TypeInv, NEW k \in DOMAIN open PROVE open[k].created <= clock
    BY CountsAgree DEF TypeInv, Spectra!TypeOK, Table, Slots, Rest, SpectraInv, Shape
  <2>1. open[k].created <= sending[k].at /\ sending[k].at <= clock
    BY DEF TypeInv, SpectraInv, Shape, Fresh
  <2>2. open[k].created \in Nat /\ sending[k].at \in Nat /\ clock \in Nat
    BY DEF TypeInv, SpectraInv, Shape, Entry
  <2> QED BY <2>1, <2>2
<1>2. Spectra!Init => TypeInv
  BY SpectraTypesInit
<1>3. TypeInv /\ [Spectra!Next]_Spectra!vars => TypeInv'
  BY SpectraTypesNext
<1> QED BY <1>1, <1>2, <1>3, PTL DEF Spectra!Spec

-----------------------------------------------------------------------------
(* The sensor on its own port *)

\* The commands and the lines on the wire.
Orders ==
  [do : {"STATUS", "GET", "APPLY", "ON", "OFF", "ONCE", "FFT", "DTC", "CLEAR", "ACQ"}, field : {Direct!None},
    value : {Direct!None}]
  \cup [do : {"SET"}, field : {"mode"}, value : Modes] \cup [do : {"SET"}, field : {"gain"}, value : Gains]
Words == {"ON", "OFF", "ONCE"}
OkForms ==
  [staged : Direct!Fields] \cup [apply : {"QUEUED"}] \cup [stream : Words] \cup [clear : {TRUE}]
    \cup [acq : {"POLLING"}] \cup {Direct!Nothing}
Statuses == [mode : Modes, gain : Gains, stream : {"ON", "OFF"}, fault : BOOLEAN]
Forms ==
  [token : {"STATUS"}, p : Statuses] \cup [token : {"STAGED"}, p : Direct!Configs]
  \cup [token : {"CONFIG_APPLIED"}, p : [mode : Modes]] \cup [token : {"OK"}, p : OkForms]
  \cup [token : {"TEL"}, p : [mode : Modes, valid : BOOLEAN, fault : BOOLEAN]]
  \cup [token : {"FFT"}, p : [valid : BOOLEAN]] \cup [token : {"DTC"}, p : [fault : BOOLEAN]]
  \cup [token : {"ERR", "DTC_EVENT"}, p : {Direct!Nothing}]
Wires == todo \in Seq(Orders) /\ flow \in Seq(Orders) /\ answers \in Seq(Forms)
Copied ==
  /\ Direct!Get(last, "mode", Direct!Missing) \in Modes \cup {Direct!Missing}
     /\ Direct!Get(last, "gain", Direct!Missing) \in Gains \cup {Direct!Missing}
  /\ Direct!Get(last, "fault", FALSE) \in BOOLEAN
Types == Direct!TypeOK /\ Wires /\ Copied

\* The copy of the last STATUS takes nothing but the word of telemetry from an
\* acknowledgement.
LEMMA NotedKeeps ==
  ASSUME NEW p
  PROVE  /\ Direct!Get(Direct!Noted(p), "mode", Direct!Missing) = Direct!Get(last, "mode", Direct!Missing)
         /\ Direct!Get(Direct!Noted(p), "gain", Direct!Missing) = Direct!Get(last, "gain", Direct!Missing)
         /\ Direct!Get(Direct!Noted(p), "fault", FALSE) = Direct!Get(last, "fault", FALSE)
BY DEF Direct!Noted, Direct!Get

LEMMA ConfigsAre ==
  ASSUME NEW c \in Direct!Configs
  PROVE  c["mode"] \in Modes /\ c["gain"] \in Gains /\ c = [k \in Direct!Fields |-> c[k]]
BY DEF Direct!Configs

LEMMA DirectTypesInit == Direct!Init => Types
<1> SUFFICES ASSUME Direct!Init PROVE Types
  OBVIOUS
<1>1. Direct!TypeOK
  BY ConfigsAre DEF Direct!Init, Direct!TypeOK
<1>2. Wires
  BY DEF Direct!Init, Wires, Direct!Cmd, Orders
<1>3. Copied
  BY DEF Direct!Init, Copied, Direct!Get, Direct!Nothing
<1> QED BY <1>1, <1>2, <1>3 DEF Types

LEMMA SayTypes ==
  ASSUME answers \in Seq(Forms), NEW l \in Forms, Direct!Says(<<l>>)
  PROVE  answers' \in Seq(Forms)
BY DEF Direct!Says

LEMMA ObeyTypes ==
  ASSUME Direct!TypeOK, answers \in Seq(Forms), NEW c \in Orders, Direct!Obey(c)
  PROVE  /\ staged' \in Direct!Configs /\ active' \in Direct!Configs /\ queued' \in {{}} \cup {{g} : g \in Direct!Configs}
         /\ stream' \in BOOLEAN /\ once' \in BOOLEAN /\ fft' \in BOOLEAN /\ fault' \in BOOLEAN
         /\ answers' \in Seq(Forms)
<1>1. CASE c.do \in {"STATUS", "GET", "DTC", "ACQ"}
  <2>1. UNCHANGED Direct!sensor
    BY <1>1 DEF Direct!Obey
  <2>2. Direct!Status \in Statuses
    BY ConfigsAre DEF Direct!TypeOK, Direct!Status, Statuses, Direct!Word
  <2>3. answers' \in Seq(Forms)
    <3>1. CASE c.do = "STATUS"
      BY <2>2, <3>1, SayTypes DEF Direct!Obey, Direct!L, Forms
    <3>2. CASE c.do = "GET"
      BY <3>2, SayTypes DEF Direct!Obey, Direct!L, Forms, Direct!TypeOK
    <3>3. CASE c.do = "DTC"
      BY <3>3, SayTypes DEF Direct!Obey, Direct!L, Forms, Direct!TypeOK
    <3>4. CASE c.do = "ACQ"
      <4>1. Direct!Ok([acq |-> "POLLING"]) \in Forms /\ Direct!L("ERR", Direct!Nothing) \in Forms
        BY DEF Direct!L, Direct!Ok, Forms, OkForms
      <4> QED BY <3>4, <4>1, SayTypes DEF Direct!Obey
    <3> QED BY <1>1, <3>1, <3>2, <3>3, <3>4
  <2> QED BY <2>1, <2>3 DEF Direct!TypeOK, Direct!sensor, Direct!config, Direct!output
<1>2. CASE c.do = "SET"
  <2>1. c.field \in Direct!Fields /\ staged' = [staged EXCEPT ![c.field] = c.value]
    BY <1>2 DEF Direct!Obey, Orders, Direct!Fields
  <2>2. staged' \in Direct!Configs
    BY <1>2, <2>1 DEF Orders, Direct!Configs, Direct!Fields, Direct!TypeOK
  <2>3. Direct!Ok([staged |-> c.field]) \in Forms
    BY <2>1 DEF Direct!L, Direct!Ok, Forms, OkForms
  <2>4. Direct!Says(<<Direct!Ok([staged |-> c.field])>>) /\ UNCHANGED <<active, queued, stream, once, fft, fault>>
    BY <1>2 DEF Direct!Obey, Direct!output
  <2> QED BY <2>2, <2>3, <2>4, SayTypes DEF Direct!TypeOK
<1>3. CASE c.do = "APPLY"
  <2>1. Direct!Ok([apply |-> "QUEUED"]) \in Forms
    BY DEF Direct!L, Direct!Ok, Forms, OkForms
  <2>2. Direct!Says(<<Direct!Ok([apply |-> "QUEUED"])>>) /\ queued' = {staged}
          /\ UNCHANGED <<staged, active, stream, once, fft, fault>>
    BY <1>3 DEF Direct!Obey, Direct!output
  <2> QED BY <2>1, <2>2, SayTypes DEF Direct!TypeOK
<1>4. CASE c.do \in {"ON", "OFF", "ONCE"}
  <2>1. PICK s \in BOOLEAN, o \in BOOLEAN, w \in Words : Direct!Telemetry(s, o, w)
    BY <1>4 DEF Direct!Obey, Direct!TypeOK, Words
  <2>2. Direct!Ok([stream |-> w]) \in Forms
    BY DEF Direct!L, Direct!Ok, Forms, OkForms
  <2>3. /\ stream' = s /\ once' = o /\ Direct!Says(<<Direct!Ok([stream |-> w])>>)
        /\ UNCHANGED <<staged, active, queued, fft, fault>>
    BY <2>1 DEF Direct!Telemetry, Direct!config
  <2>4. answers' \in Seq(Forms)
    BY <2>2, <2>3, SayTypes
  <2> QED BY <2>3, <2>4 DEF Direct!TypeOK
<1>5. CASE c.do \in {"FFT", "CLEAR"}
  <2>1. Direct!Ok(Direct!Nothing) \in Forms /\ Direct!Ok([clear |-> TRUE]) \in Forms
    BY DEF Direct!L, Direct!Ok, Forms, OkForms
  <2>2. /\ Direct!Says(<<Direct!Ok(Direct!Nothing)>>) \/ Direct!Says(<<Direct!Ok([clear |-> TRUE])>>)
        /\ UNCHANGED <<staged, active, queued, stream, once>>
        /\ fft' \in {fft, TRUE} /\ fault' \in {fault, FALSE}
    BY <1>5 DEF Direct!Obey, Direct!config, Direct!output
  <2>3. answers' \in Seq(Forms)
    BY <2>1, <2>2, SayTypes
  <2> QED BY <2>2, <2>3 DEF Direct!TypeOK
<1> QED BY <1>1, <1>2, <1>3, <1>4, <1>5 DEF Orders

\* What the firmware does leaves the console alone.
SensorTypes ==
  /\ staged \in Direct!Configs /\ active \in Direct!Configs /\ queued \in {{}} \cup {{g} : g \in Direct!Configs}
  /\ stream \in BOOLEAN /\ once \in BOOLEAN /\ fft \in BOOLEAN /\ fault \in BOOLEAN
ConsoleSame == UNCHANGED <<last, conf, result, display, answered, flow, opened>>

LEMMA FirmwareLeaves ==
  ASSUME Types, SensorTypes', todo' \in Seq(Orders), answers' \in Seq(Forms), ConsoleSame
  PROVE  Types'
<1>1. Direct!TypeOK'
  BY DEF Types, Direct!TypeOK, SensorTypes, ConsoleSame
<1>2. Wires'
  BY DEF Types, Wires, ConsoleSame
<1>3. Copied'
  BY DEF Types, Copied, ConsoleSame
<1> QED BY <1>1, <1>2, <1>3 DEF Types

LEMMA FirmwareTypes ==
  ASSUME Types, Direct!Firmware
  PROVE  Types'
<1>1. ASSUME Direct!Execute PROVE Types'
  <2>1. Head(todo) \in Orders /\ todo' \in Seq(Orders) /\ Direct!Obey(Head(todo))
    BY <1>1 DEF Direct!Execute, Types, Wires
  <2>2. SensorTypes' /\ answers' \in Seq(Forms)
    BY <2>1, ObeyTypes DEF Types, Wires, SensorTypes
  <2>3. ConsoleSame
    BY <1>1 DEF Direct!Execute, Direct!screen, Direct!operator, ConsoleSame
  <2> QED BY <2>1, <2>2, <2>3, FirmwareLeaves
<1>2. ASSUME Direct!ApplyPending PROVE Types'
  <2>1. active' \in Direct!Configs /\ queued' = {}
    BY <1>2 DEF Direct!ApplyPending, Types, Direct!TypeOK
  <2>2. Direct!L("CONFIG_APPLIED", [mode |-> active'["mode"]]) \in Forms
    BY <2>1, ConfigsAre DEF Direct!L, Forms
  <2>3. answers' \in Seq(Forms)
    BY <1>2, <2>2, SayTypes DEF Direct!ApplyPending, Types, Wires
  <2>4. UNCHANGED <<staged, stream, once, fft, fault, todo>> /\ ConsoleSame
    BY <1>2 DEF Direct!ApplyPending, Direct!output, Direct!screen, Direct!operator, ConsoleSame
  <2>5. SensorTypes'
    BY <2>1, <2>4 DEF SensorTypes, Types, Direct!TypeOK
  <2> QED BY <2>3, <2>4, <2>5, FirmwareLeaves DEF Types, Wires
<1>3. ASSUME Direct!Analyse PROVE Types'
  <2> DEFINE a == IF fft THEN <<Direct!L("FFT", [valid |-> Direct!Computed])>> ELSE <<>>
             b == IF once \/ stream THEN <<Direct!L("TEL", [mode |-> active["mode"], valid |-> Direct!Computed,
               fault |-> fault])>> ELSE <<>>
  <2>1. Direct!Computed \in BOOLEAN /\ active["mode"] \in Modes /\ fault \in BOOLEAN
    BY ConfigsAre DEF Direct!Computed, Types, Direct!TypeOK
  <2>2. Direct!L("FFT", [valid |-> Direct!Computed]) \in Forms
    BY <2>1 DEF Direct!L, Forms
  <2>3. Direct!L("TEL", [mode |-> active["mode"], valid |-> Direct!Computed, fault |-> fault]) \in Forms
    BY <2>1 DEF Direct!L, Forms
  <2>4. a \in Seq(Forms) /\ b \in Seq(Forms)
    BY <2>2, <2>3
  <2>5. answers' = answers \o (a \o b)
    BY <1>3 DEF Direct!Analyse, Direct!Says
  <2> HIDE DEF a, b
  <2>6. answers' \in Seq(Forms)
    BY <2>4, <2>5 DEF Types, Wires
  <2>7. UNCHANGED <<staged, active, queued, stream, fault, todo>> /\ ConsoleSame /\ once' = FALSE /\ fft' = FALSE
    BY <1>3 DEF Direct!Analyse, Direct!config, Direct!screen, Direct!operator, ConsoleSame
  <2>8. SensorTypes'
    BY <2>7 DEF SensorTypes, Types, Direct!TypeOK
  <2> QED BY <2>6, <2>7, <2>8, FirmwareLeaves DEF Types, Wires
<1>4. ASSUME Direct!ReadFails \/ Direct!Fault PROVE Types'
  <2>1. Direct!L("ERR", Direct!Nothing) \in Forms /\ Direct!L("DTC_EVENT", Direct!Nothing) \in Forms
    BY DEF Direct!L, Forms
  <2>2. Direct!Says(<<Direct!L("ERR", Direct!Nothing)>>) \/ Direct!Says(<<Direct!L("DTC_EVENT", Direct!Nothing)>>)
    BY <1>4 DEF Direct!ReadFails, Direct!Fault
  <2>3. answers' \in Seq(Forms)
    BY <2>1, <2>2, SayTypes DEF Types, Wires
  <2>4. UNCHANGED <<staged, active, queued, stream, once, fft, todo>> /\ ConsoleSame /\ (fault' = fault \/ fault' = TRUE)
    BY <1>4 DEF Direct!ReadFails, Direct!Fault, Direct!sensor, Direct!config, Direct!output, Direct!screen,
         Direct!operator, ConsoleSame
  <2>5. SensorTypes'
    BY <2>4 DEF SensorTypes, Types, Direct!TypeOK
  <2> QED BY <2>3, <2>4, <2>5, FirmwareLeaves DEF Types, Wires
<1> QED BY <1>1, <1>2, <1>3, <1>4 DEF Direct!Firmware

-----------------------------------------------------------------------------
(* The console reads a line. *)

LEMMA StatusTypes ==
  ASSUME Types, NEW p, Direct!DirectStatus(p),
         Direct!Get(p, "mode", Direct!Missing) \in Modes \cup {Direct!Missing},
         Direct!Get(p, "gain", Direct!Missing) \in Gains \cup {Direct!Missing},
         Direct!Get(p, "fault", FALSE) \in BOOLEAN
  PROVE  /\ conf' \in [Direct!Fields -> Modes \cup Gains \cup {Direct!Missing}]
         /\ display' \in [stream : BOOLEAN, fault : BOOLEAN, mode : Modes \cup {Direct!Missing},
                        spectrum : {Direct!None, "old", "new"}, valid : BOOLEAN]
         /\ display'.spectrum = display.spectrum
<1>1. conf' \in [Direct!Fields -> Modes \cup Gains \cup {Direct!Missing}]
  BY DEF Direct!DirectStatus, Direct!Fields
<1>2. DEFINE s == Direct!Get(p, "stream", "OFF") = "ON"
             m == Direct!Get(p, "mode", Direct!Missing)
             f == Direct!Get(p, "fault", FALSE)
<1>3. display' = [display EXCEPT !.stream = s, !.mode = m, !.fault = f]
  BY DEF Direct!DirectStatus
<1>4. s \in BOOLEAN /\ m \in Modes \cup {Direct!Missing} /\ f \in BOOLEAN
  OBVIOUS
<1> HIDE DEF s, m, f
<1> QED BY <1>1, <1>3, <1>4 DEF Types, Direct!TypeOK

\* Each token comes with its own payload.
LEMMA FormsAre ==
  ASSUME NEW l \in Forms
  PROVE  /\ l.token = "STATUS" => l.p \in Statuses
         /\ l.token = "STAGED" => l.p \in Direct!Configs
         /\ l.token = "CONFIG_APPLIED" => l.p \in [mode : Modes]
         /\ l.token = "OK" => l.p \in OkForms
         /\ l.token = "TEL" => l.p \in [mode : Modes, valid : BOOLEAN, fault : BOOLEAN]
         /\ l.token = "FFT" => l.p \in [valid : BOOLEAN]
         /\ l.token = "DTC" => l.p \in [fault : BOOLEAN]
         /\ l.token \in {"ERR", "DTC_EVENT"} => l.p = Direct!Nothing
         /\ l.token \in {"STATUS", "STAGED", "CONFIG_APPLIED", "OK", "TEL", "FFT", "DTC", "ERR", "DTC_EVENT"}
BY DEF Forms

\* An acknowledgement says one thing.
LEMMA OkIsOne ==
  ASSUME NEW p \in OkForms
  PROVE  /\ DOMAIN p \cap {"stream", "acq"} # {} => "clear" \notin DOMAIN p
         /\ "staged" \in DOMAIN p => "apply" \notin DOMAIN p
<1>1. CASE p = Direct!Nothing
  BY <1>1 DEF Direct!Nothing
<1>2. CASE p # Direct!Nothing
  <2>1. DOMAIN p \in {{"staged"}, {"apply"}, {"stream"}, {"clear"}, {"acq"}}
    BY <1>2 DEF OkForms
  <2> QED BY <2>1
<1> QED BY <1>1, <1>2

Shows ==
  [stream : BOOLEAN, fault : BOOLEAN, mode : Modes \cup {Direct!Missing}, spectrum : {Direct!None, "old", "new"},
    valid : BOOLEAN]

\* What a line leaves on the screen; only a spectrum and a reading touch the spectrum.
LEMMA DecodeTypes ==
  ASSUME Types, NEW l \in Forms, Direct!Decode(l)
  PROVE  /\ conf' \in [Direct!Fields -> Modes \cup Gains \cup {Direct!Missing}] /\ display' \in Shows /\ Copied'
         /\ l.token \notin {"TEL", "FFT"} => display'.spectrum = display.spectrum
         /\ l.token = "TEL" /\ l.p.valid => display'.spectrum = display.spectrum
         /\ l.token = "FFT" /\ l.p.valid => display'.spectrum = "new"
<1> USE FormsAre
<1>0. conf \in [Direct!Fields -> Modes \cup Gains \cup {Direct!Missing}] /\ display \in Shows /\ Copied
  BY DEF Types, Direct!TypeOK, Shows
<1>1. CASE l.token = "STATUS"
  <2>1. last' = l.p /\ Direct!DirectStatus(l.p) /\ l.p \in Statuses
    BY <1>1 DEF Direct!Decode, Direct!StatusLine
  <2>2. /\ Direct!Get(l.p, "mode", Direct!Missing) \in Modes \cup {Direct!Missing}
           /\ Direct!Get(l.p, "gain", Direct!Missing) \in Gains \cup {Direct!Missing}
        /\ Direct!Get(l.p, "fault", FALSE) \in BOOLEAN
    BY <2>1 DEF Statuses, Direct!Get
  <2>3. Copied'
    BY <2>1, <2>2 DEF Copied
  <2> QED BY <1>1, <2>1, <2>2, <2>3, StatusTypes DEF Shows
<1>2. CASE l.token = "CONFIG_APPLIED"
  <2>1. Direct!ConfigurationApplied(l.p) /\ last' = last /\ l.p \in [mode : Modes]
    BY <1>2 DEF Direct!Decode, Direct!AppliedLine
  <2>2. Direct!Get(l.p, "mode", Direct!Missing) \in Modes /\ Direct!Get(l.p, "gain", Direct!Missing) = Direct!Missing
    BY <2>1 DEF Direct!Get
  <2>3. conf' \in [Direct!Fields -> Modes \cup Gains \cup {Direct!Missing}]
    BY <2>1, <2>2 DEF Direct!ConfigurationApplied, Direct!Fields
  <2>4. display' \in Shows /\ display'.spectrum = display.spectrum
    BY <1>0, <2>1 DEF Direct!ConfigurationApplied, Shows
  <2>5. Copied'
    BY <1>0, <2>1 DEF Copied
  <2> QED BY <1>2, <2>3, <2>4, <2>5
<1>3. CASE l.token = "OK"
  <2>1. Direct!Acknowledged(l.p)
    BY <1>3 DEF Direct!Decode
  <2>2. last' = Direct!Noted(l.p)
    BY <2>1 DEF Direct!Acknowledged
  <2>3. /\ Direct!Get(last', "mode", Direct!Missing) = Direct!Get(last, "mode", Direct!Missing)
        /\ Direct!Get(last', "gain", Direct!Missing) = Direct!Get(last, "gain", Direct!Missing)
        /\ Direct!Get(last', "fault", FALSE) = Direct!Get(last, "fault", FALSE)
    BY <2>2, NotedKeeps
  <2>4. Copied'
    BY <1>0, <2>3 DEF Copied
  <2>5. CASE DOMAIN l.p \cap {"stream", "acq"} # {}
    <3>1. Direct!DirectStatus(Direct!Noted(l.p))
      BY <2>1, <2>5, OkIsOne, <1>3 DEF Direct!Acknowledged
    <3>2. Direct!DirectStatus(last')
      BY <2>2, <3>1
    <3> QED BY <1>0, <1>3, <2>2, <2>3, <2>4, <3>1, StatusTypes DEF Copied, Shows
  <2>6. CASE "clear" \in DOMAIN l.p
    <3>1. Direct!Faulty(FALSE)
      BY <2>1, <2>6, OkIsOne, <1>3 DEF Direct!Acknowledged
    <3> QED BY <1>0, <1>3, <2>4, <3>1 DEF Direct!Faulty, Shows
  <2>7. CASE DOMAIN l.p \cap {"stream", "acq"} = {} /\ "clear" \notin DOMAIN l.p
    <3>1. UNCHANGED <<conf, display>>
      BY <2>1, <2>7 DEF Direct!Acknowledged
    <3> QED BY <1>0, <1>3, <2>4, <3>1
  <2> QED BY <2>5, <2>6, <2>7
<1>4. CASE l.token \in {"DTC", "DTC_EVENT"}
  <2>1. PICK f \in BOOLEAN : Direct!Faulty(f) /\ last' = last
    BY <1>4 DEF Direct!Decode, Direct!DtcLine, Direct!DtcEvent
  <2>2. display' \in Shows /\ display'.spectrum = display.spectrum /\ conf' = conf
    BY <1>0, <2>1 DEF Direct!Faulty, Shows
  <2>3. Copied'
    BY <1>0, <2>1 DEF Copied
  <2> QED BY <1>0, <1>4, <2>2, <2>3
<1>5. CASE l.token = "TEL"
  <2>1. Direct!Telemetered(l.p) /\ last' = last /\ l.p \in [mode : Modes, valid : BOOLEAN, fault : BOOLEAN]
    BY <1>5 DEF Direct!Decode, Direct!TelemetryLine
  <2>2. conf' \in [Direct!Fields -> Modes \cup Gains \cup {Direct!Missing}]
    BY <1>0, <2>1 DEF Direct!Telemetered, Direct!Fields
  <2>3. display' \in Shows /\ (l.p.valid => display'.spectrum = display.spectrum)
    BY <1>0, <2>1 DEF Direct!Telemetered, Shows
  <2>4. Copied'
    BY <1>0, <2>1 DEF Copied
  <2> QED BY <1>5, <2>2, <2>3, <2>4
<1>6. CASE l.token = "FFT"
  <2>1. Direct!SpectrumLine(l.p) /\ l.p \in [valid : BOOLEAN]
    BY <1>6 DEF Direct!Decode
  <2>2. display' \in Shows /\ (l.p.valid => display'.spectrum = "new") /\ conf' = conf /\ last' = last
    BY <1>0, <2>1 DEF Direct!SpectrumLine, Shows
  <2>3. Copied'
    BY <1>0, <2>2 DEF Copied
  <2> QED BY <1>0, <1>6, <2>2, <2>3
<1>7. CASE l.token \in {"STAGED", "ERR"}
  <2>1. UNCHANGED <<last, conf, display>>
    BY <1>7 DEF Direct!Decode, Direct!NotedOnly
  <2>2. Copied'
    BY <1>0, <2>1 DEF Copied
  <2> QED BY <1>0, <1>7, <2>1, <2>2
<1> QED BY <1>1, <1>2, <1>3, <1>4, <1>5, <1>6, <1>7

LEMMA ReceiveTypes ==
  ASSUME Types, Direct!Receive
  PROVE  Types'
<1>1. PICK l \in Forms :
        /\ l = Head(answers) /\ answers' \in Seq(Forms) /\ Direct!Decode(l) /\ result' = Direct!AckOf(l)
           /\ answered' = Direct!Answers(l)
        /\ todo' = todo \o Direct!Follow(l)
  <2>1. Head(answers) \in Forms /\ Tail(answers) \in Seq(Forms)
    BY DEF Direct!Receive, Types, Wires
  <2> QED BY <2>1 DEF Direct!Receive
<1>2. UNCHANGED <<staged, active, queued, stream, once, fft, fault, flow, opened>>
  BY DEF Direct!Receive, Direct!sensor, Direct!config, Direct!output, Direct!operator
<1>3. conf' \in [Direct!Fields -> Modes \cup Gains \cup {Direct!Missing}] /\ display' \in Shows /\ Copied'
  BY <1>1, DecodeTypes
<1>4. result' \in {"IDLE", "STAGED", "QUEUED", "APPLIED", "FAILED"}
  <2>1. CASE l.token = "STAGED" \/ "staged" \in DOMAIN l.p
    BY <1>1, <2>1, FormsAre DEF Direct!AckOf, OkForms, Statuses, Direct!Nothing
  <2>2. CASE ~(l.token = "STAGED" \/ "staged" \in DOMAIN l.p)
    BY <1>1, <2>2, FormsAre DEF Direct!AckOf, OkForms, Statuses, Direct!Nothing, Types, Direct!TypeOK
  <2> QED BY <2>1, <2>2
<1>5. answered' \in BOOLEAN
  BY <1>1, FormsAre DEF Direct!Answers, Types, Direct!TypeOK
<1>6. todo' \in Seq(Orders)
  <2>1. Direct!Follow(l) \in Seq(Orders)
    <3>1. Direct!Cmd("STATUS") \in Orders
      BY DEF Direct!Cmd, Orders
    <3> QED BY <3>1 DEF Direct!Follow
  <2> QED BY <1>1, <2>1 DEF Types, Wires
<1>7. Direct!TypeOK'
  BY <1>2, <1>3, <1>4, <1>5 DEF Types, Direct!TypeOK, Shows
<1>8. Wires'
  BY <1>1, <1>2, <1>6 DEF Types, Wires
<1> QED BY <1>3, <1>7, <1>8 DEF Types

-----------------------------------------------------------------------------
(* The operator *)

LEMMA RequestTypes ==
  ASSUME Types, Direct!Requests(Direct!Single)
  PROVE  Types'
<1>0. display \in Shows /\ todo \in Seq(Orders) /\ flow \in Seq(Orders)
  BY DEF Types, Direct!TypeOK, Wires, Shows
<1>1. ASSUME Direct!Rest, todo' \in Seq(Orders), flow' \in Seq(Orders), opened' \in BOOLEAN, answered' \in BOOLEAN,
               display' \in Shows
      PROVE  Types'
  <2>1. UNCHANGED <<staged, active, queued, stream, once, fft, fault, answers, last, conf, result>>
    BY <1>1 DEF Direct!Rest, Direct!sensor, Direct!config, Direct!output
  <2>2. Direct!TypeOK'
    BY <1>1, <2>1 DEF Types, Direct!TypeOK, Shows
  <2>3. Wires'
    BY <1>1, <2>1 DEF Types, Wires
  <2>4. Copied'
    BY <2>1 DEF Types, Copied
  <2> QED BY <2>2, <2>3, <2>4 DEF Types
<1>2. ASSUME NEW c \in Direct!Single, Direct!Command(c) PROVE Types'
  <2>1. Direct!Cmd(c) \in Orders
    BY DEF Direct!Cmd, Orders, Direct!Single
  <2>2. todo' \in Seq(Orders)
    BY <1>0, <1>2, <2>1 DEF Direct!Command, Direct!Asks
  <2> QED BY <1>0, <1>1, <1>2, <2>2 DEF Direct!Command, Types, Direct!TypeOK
<1>3. ASSUME NEW c \in Direct!Configs, Direct!Configure(c) PROVE Types'
  <2>1. Direct!Set("mode", c["mode"]) \in Orders /\ Direct!Set("gain", c["gain"]) \in Orders
          /\ Direct!Cmd("APPLY") \in Orders
    BY ConfigsAre DEF Direct!Set, Direct!Cmd, Orders
  <2>2. todo' \in Seq(Orders) /\ flow' \in Seq(Orders)
    BY <1>0, <1>3, <2>1 DEF Direct!Configure, Direct!Asks
  <2> QED BY <1>0, <1>1, <1>3, <2>2 DEF Direct!Configure, Types, Direct!TypeOK
<1>4. ASSUME Direct!Spectrum PROVE Types'
  <2>1. Direct!Cmd("FFT") \in Orders /\ Direct!Cmd("ONCE") \in Orders
    BY DEF Direct!Cmd, Orders
  <2>2. todo' \in Seq(Orders) /\ flow' \in Seq(Orders)
    BY <1>0, <1>4, <2>1 DEF Direct!Spectrum, Direct!Asks
  <2>3. display' \in Shows
    BY <1>0, <1>4 DEF Direct!Spectrum, Direct!Outdated, Shows
  <2> QED BY <1>1, <1>4, <2>2, <2>3 DEF Direct!Spectrum
<1>5. ASSUME Direct!SendRest PROVE Types'
  <2>1. todo' \in Seq(Orders) /\ flow' \in Seq(Orders) /\ opened' \in BOOLEAN
    BY <1>0, <1>5 DEF Direct!SendRest, Types, Direct!TypeOK
  <2> QED BY <1>0, <1>1, <1>5, <2>1 DEF Direct!SendRest, Types, Direct!TypeOK
<1> QED BY <1>2, <1>3, <1>4, <1>5 DEF Direct!Requests

LEMMA DirectTypesNext == Types /\ [Direct!Next]_Direct!vars => Types'
<1>1. ASSUME Types, UNCHANGED Direct!vars PROVE Types'
  <2>1. UNCHANGED <<staged, active, queued, stream, once, fft, fault, todo, answers, last, conf, result, display,
          answered, flow, opened>>
    BY <1>1 DEF Direct!vars, Direct!sensor, Direct!config, Direct!output, Direct!screen, Direct!operator
  <2>2. SensorTypes' /\ ConsoleSame
    BY <1>1, <2>1 DEF SensorTypes, ConsoleSame, Types, Direct!TypeOK
  <2> QED BY <1>1, <2>1, <2>2, FirmwareLeaves DEF Types, Wires
<1> QED BY <1>1, FirmwareTypes, ReceiveTypes, RequestTypes DEF Direct!Next

\* The types of the sensor, of what is on the wire and of what is shown
\* (main.c, serial_console.c, sensor_direct.py, models.py), for any modes and gains.
THEOREM DirectTypes == Direct!Spec => []Direct!TypeOK
<1>1. Types => Direct!TypeOK
  BY DEF Types
<1> QED BY <1>1, DirectTypesInit, DirectTypesNext, PTL DEF Direct!Spec

-----------------------------------------------------------------------------
(* A spectrum that was answered *)

SpectrumTold == answered => display.spectrum = "new"

LEMMA SpectrumStep ==
  ASSUME Types, SpectrumTold, [Direct!Next]_Direct!vars
  PROVE  SpectrumTold'
<1>1. CASE Direct!Firmware \/ UNCHANGED Direct!vars
  <2>1. UNCHANGED <<answered, display>>
    BY <1>1 DEF Direct!Firmware, Direct!Execute, Direct!ApplyPending, Direct!Analyse, Direct!ReadFails, Direct!Fault,
         Direct!vars, Direct!screen
  <2> QED BY <2>1 DEF SpectrumTold
<1>2. CASE Direct!Receive
  <2>1. Head(answers) \in Forms
    BY <1>2 DEF Direct!Receive, Types, Wires
  <2>2. PICK l \in Forms : Direct!Decode(l) /\ answered' = Direct!Answers(l)
    BY <1>2, <2>1 DEF Direct!Receive
  <2> QED BY <2>2, DecodeTypes, FormsAre DEF SpectrumTold, Direct!Answers
<1>3. CASE Direct!Requests(Direct!Single)
  <2>1. UNCHANGED <<answered, display>> \/ answered' = FALSE
    BY <1>3 DEF Direct!Requests, Direct!Command, Direct!Configure, Direct!Spectrum, Direct!SendRest
  <2> QED BY <2>1 DEF SpectrumTold
<1> QED BY <1>1, <1>2, <1>3 DEF Direct!Next

-----------------------------------------------------------------------------
(* The configuration shown *)

\* A line that leaves the screen as it should be, if it is that already.
Agrees(l) ==
  /\ l.token # "CONFIG_APPLIED"
  /\ l.token \in {"STATUS", "TEL"} => l.p.mode = active["mode"]
  /\ l.token = "STATUS" => l.p.gain = active["gain"]
AgreeFrom(i) == \A k \in DOMAIN answers : i <= k => Agrees(answers[k])

\* Something that brings the configuration in force to the screen is under way,
\* and nothing behind it takes it back; or it is there.
ToBeRead == \E k \in DOMAIN answers : answers[k].token = "CONFIG_APPLIED"
ToBeAsked == \E k \in DOMAIN todo : todo[k].do = "STATUS"
ToBeTold == \E k \in DOMAIN answers : answers[k].token = "STATUS" /\ AgreeFrom(k)
InForce(m, g) == m = active["mode"] /\ g = active["gain"]
Told ==
  /\ InForce(conf["mode"], conf["gain"])
     /\ InForce(Direct!Get(last, "mode", Direct!Missing), Direct!Get(last, "gain", Direct!Missing))
  /\ AgreeFrom(1)
Informed == ToBeRead \/ ToBeAsked \/ ToBeTold \/ Told

\* A change that is queued will be reported, unless the report is there already.
ToBeDone(l) == l.token = "OK" /\ "apply" \in DOMAIN l.p
Reported ==
  queued = {} =>
    /\ result = "QUEUED" => ToBeRead
    /\ \A k \in DOMAIN answers :
          ToBeDone(answers[k]) => \E j \in DOMAIN answers : k < j /\ answers[j].token = "CONFIG_APPLIED"

LEMMA Appended ==
  ASSUME answers \in Seq(Forms), NEW ls \in Seq(Forms), Direct!Says(ls)
  PROVE  /\ DOMAIN answers \subseteq DOMAIN answers' /\ \A k \in DOMAIN answers : answers'[k] = answers[k]
         /\ \A k \in DOMAIN answers' \ DOMAIN answers : (\E i \in DOMAIN ls : answers'[k] = ls[i])
            /\ \A j \in DOMAIN answers : j < k
         /\ \A i \in DOMAIN ls : Len(answers) + i \in DOMAIN answers' /\ answers'[Len(answers) + i] = ls[i]
BY DEF Direct!Says

\* Lines that agree with the screen may follow.
LEMMA MoreIsSaid ==
  ASSUME answers \in Seq(Forms), NEW ls \in Seq(Forms), Direct!Says(ls), \A i \in DOMAIN ls : Agrees(ls[i]),
         UNCHANGED <<active, last, conf>>, ToBeAsked => ToBeAsked', Informed
  PROVE  Informed'
<1>1. \A l : Agrees(l)' <=> Agrees(l)
  BY DEF Agrees
<1>2. ASSUME NEW i \in Int, AgreeFrom(i) PROVE AgreeFrom(i)'
  BY <1>1, <1>2, Appended DEF AgreeFrom
<1>3. ToBeRead => ToBeRead'
  BY Appended DEF ToBeRead
<1>4. ToBeTold => ToBeTold'
  BY <1>2, Appended DEF ToBeTold
<1>5. Told => Told'
  BY <1>2 DEF Told, InForce
<1> QED BY <1>3, <1>4, <1>5 DEF Informed

LEMMA MoreIsReported ==
  ASSUME answers \in Seq(Forms), NEW ls \in Seq(Forms), Direct!Says(ls), \A i \in DOMAIN ls : ~ToBeDone(ls[i]),
         UNCHANGED <<queued, result>>, Reported
  PROVE  Reported'
<1>1. ToBeRead => ToBeRead'
  BY Appended DEF ToBeRead
<1> QED BY <1>1, Appended DEF Reported

\* What a command is answered.
LEMMA ObeySays ==
  ASSUME Types, NEW c \in Orders, Direct!Obey(c)
  PROVE  \E l \in Forms :
           /\ Direct!Says(<<l>>) /\ active' = active
           /\ l = Direct!L("STATUS", Direct!Status) \/ (c.do # "STATUS" /\ l.token \in {"STAGED", "OK", "DTC", "ERR"})
           /\ IF ToBeDone(l) THEN queued' # {} ELSE queued' = queued
<1>1. CASE c.do = "STATUS"
  <2>1. Direct!Status \in Statuses
    BY ConfigsAre DEF Types, Direct!TypeOK, Direct!Status, Statuses, Direct!Word
  <2>2. Direct!L("STATUS", Direct!Status) \in Forms /\ ~ToBeDone(Direct!L("STATUS", Direct!Status))
    BY <2>1 DEF Direct!L, Forms, ToBeDone
  <2>3. Direct!Says(<<Direct!L("STATUS", Direct!Status)>>) /\ active' = active /\ queued' = queued
    BY <1>1 DEF Direct!Obey, Direct!sensor, Direct!config
  <2> QED BY <2>2, <2>3
<1>2. CASE c.do = "GET"
  <2>1. Direct!L("STAGED", staged) \in Forms /\ Direct!L("STAGED", staged).token = "STAGED"
    BY DEF Direct!L, Forms, Types, Direct!TypeOK
  <2>2. Direct!Says(<<Direct!L("STAGED", staged)>>) /\ active' = active /\ queued' = queued
    BY <1>2 DEF Direct!Obey, Direct!sensor, Direct!config
  <2> QED BY <1>2, <2>1, <2>2 DEF ToBeDone
<1>3. CASE c.do = "DTC"
  <2>1. Direct!L("DTC", [fault |-> fault]) \in Forms /\ Direct!L("DTC", [fault |-> fault]).token = "DTC"
    BY DEF Direct!L, Forms, Types, Direct!TypeOK
  <2>2. Direct!Says(<<Direct!L("DTC", [fault |-> fault])>>) /\ active' = active /\ queued' = queued
    BY <1>3 DEF Direct!Obey, Direct!sensor, Direct!config
  <2> QED BY <1>3, <2>1, <2>2 DEF ToBeDone
<1>4. ASSUME NEW p \in OkForms, Direct!Says(<<Direct!Ok(p)>>), active' = active, c.do # "STATUS",
             IF "apply" \in DOMAIN p THEN queued' # {} ELSE queued' = queued
      PROVE  \E l \in Forms :
               /\ Direct!Says(<<l>>) /\ active' = active
               /\ l = Direct!L("STATUS", Direct!Status) \/ (c.do # "STATUS" /\ l.token \in {"STAGED", "OK", "DTC", "ERR"})
               /\ IF ToBeDone(l) THEN queued' # {} ELSE queued' = queued
  <2>1. Direct!Ok(p) \in Forms /\ Direct!Ok(p).token = "OK" /\ Direct!Ok(p).p = p
    BY DEF Direct!Ok, Direct!L, Forms
  <2> QED BY <1>4, <2>1 DEF ToBeDone
<1>5. CASE c.do = "ACQ"
  <2>1. UNCHANGED <<active, queued>>
    BY <1>5 DEF Direct!Obey, Direct!sensor, Direct!config
  <2>2. CASE active["mode"] # "IDLE"
    <3>1. Direct!Says(<<Direct!Ok([acq |-> "POLLING"])>>)
      BY <1>5, <2>2 DEF Direct!Obey
    <3>2. [acq |-> "POLLING"] \in OkForms
      BY DEF OkForms
    <3> QED BY <1>4, <1>5, <2>1, <3>1, <3>2
  <2>3. CASE active["mode"] = "IDLE"
    <3>1. Direct!Says(<<Direct!L("ERR", Direct!Nothing)>>)
      BY <1>5, <2>3 DEF Direct!Obey
    <3>2. Direct!L("ERR", Direct!Nothing) \in Forms /\ Direct!L("ERR", Direct!Nothing).token = "ERR"
      BY DEF Direct!L, Forms
    <3> QED BY <1>5, <2>1, <3>1, <3>2 DEF ToBeDone
  <2> QED BY <2>2, <2>3
<1>6. CASE c.do = "SET"
  <2>1. Direct!Says(<<Direct!Ok([staged |-> c.field])>>) /\ UNCHANGED <<active, queued>>
    BY <1>6 DEF Direct!Obey
  <2>2. [staged |-> c.field] \in OkForms
    BY <1>6 DEF OkForms, Orders, Direct!Fields
  <2> QED BY <1>4, <1>6, <2>1, <2>2
<1>7. CASE c.do = "APPLY"
  <2>1. Direct!Says(<<Direct!Ok([apply |-> "QUEUED"])>>) /\ active' = active /\ queued' # {}
    BY <1>7 DEF Direct!Obey
  <2>2. [apply |-> "QUEUED"] \in OkForms
    BY DEF OkForms
  <2> QED BY <1>4, <1>7, <2>1, <2>2
<1>8. CASE c.do \in {"ON", "OFF", "ONCE"}
  <2>1. PICK w \in Words : Direct!Says(<<Direct!Ok([stream |-> w])>>) /\ UNCHANGED <<active, queued>>
    BY <1>8 DEF Direct!Obey, Direct!Telemetry, Direct!config, Words
  <2>2. [stream |-> w] \in OkForms
    BY DEF OkForms
  <2> QED BY <1>4, <1>8, <2>1, <2>2
<1>9. CASE c.do = "FFT"
  <2>1. Direct!Says(<<Direct!Ok(Direct!Nothing)>>) /\ UNCHANGED <<active, queued>>
    BY <1>9 DEF Direct!Obey, Direct!config
  <2>2. Direct!Nothing \in OkForms /\ "apply" \notin DOMAIN Direct!Nothing
    BY DEF OkForms, Direct!Nothing
  <2> QED BY <1>4, <1>9, <2>1, <2>2
<1>10. CASE c.do = "CLEAR"
  <2>1. Direct!Says(<<Direct!Ok([clear |-> TRUE])>>) /\ UNCHANGED <<active, queued>>
    BY <1>10 DEF Direct!Obey, Direct!config
  <2>2. [clear |-> TRUE] \in OkForms
    BY DEF OkForms
  <2> QED BY <1>4, <1>10, <2>1, <2>2
<1> QED BY <1>1, <1>2, <1>3, <1>5, <1>6, <1>7, <1>8, <1>9, <1>10 DEF Orders

LEMMA FirmwareInforms ==
  ASSUME Types, Informed, Reported, Direct!Firmware
  PROVE  Informed' /\ Reported'
<1>0. answers \in Seq(Forms) /\ todo \in Seq(Orders)
  BY DEF Types, Wires
<1>1. ASSUME Direct!Execute PROVE Informed' /\ Reported'
  <2> DEFINE c == Head(todo)
  <2>1. c \in Orders /\ todo' = Tail(todo) /\ Direct!Obey(c) /\ UNCHANGED <<last, conf, result>>
    BY <1>0, <1>1 DEF Direct!Execute, Direct!screen
  <2>2. PICK l \in Forms :
          /\ Direct!Says(<<l>>) /\ active' = active
          /\ l = Direct!L("STATUS", Direct!Status) \/ (c.do # "STATUS" /\ l.token \in {"STAGED", "OK", "DTC", "ERR"})
          /\ IF ToBeDone(l) THEN queued' # {} ELSE queued' = queued
    BY <2>1, ObeySays
  <2>3. Agrees(l)
    <3>1. CASE l = Direct!L("STATUS", Direct!Status)
      BY <3>1 DEF Direct!L, Direct!Status, Agrees
    <3>2. CASE l # Direct!L("STATUS", Direct!Status)
      BY <2>2, <3>2 DEF Agrees
    <3> QED BY <3>1, <3>2
  <2>4. <<l>> \in Seq(Forms) /\ \A i \in DOMAIN <<l>> : <<l>>[i] = l
    OBVIOUS
  <2>5. ASSUME c.do = "STATUS" PROVE Informed'
    <3>1. l = Direct!L("STATUS", Direct!Status) /\ l.token = "STATUS"
      BY <2>2, <2>5 DEF Direct!L
    <3> DEFINE k == Len(answers) + 1
    <3>2. k \in DOMAIN answers' /\ answers'[k] = l /\ \A j \in DOMAIN answers' : k <= j => j = k
      BY <1>0, <2>2 DEF Direct!Says
    <3>3. Agrees(l)'
      BY <2>2, <2>3 DEF Agrees
    <3>4. ToBeTold'
      BY <3>1, <3>2, <3>3 DEF ToBeTold, AgreeFrom
    <3> QED BY <3>4 DEF Informed
  <2>6. ASSUME c.do # "STATUS" PROVE Informed'
    <3>1. ToBeAsked => ToBeAsked'
      <4>1. SUFFICES ASSUME NEW k \in DOMAIN todo, todo[k].do = "STATUS" PROVE ToBeAsked'
        BY DEF ToBeAsked
      <4>2. k # 1
        BY <1>0, <2>6, <4>1
      <4>3. k - 1 \in DOMAIN todo' /\ todo'[k - 1] = todo[k]
        BY <1>0, <1>1, <2>1, <4>1, <4>2 DEF Direct!Execute
      <4> QED BY <4>1, <4>3 DEF ToBeAsked
    <3>2. \A i \in DOMAIN <<l>> : Agrees(<<l>>[i])
      BY <2>3, <2>4
    <3> QED BY <1>0, <2>1, <2>2, <2>4, <3>1, <3>2, MoreIsSaid
  <2>7. Informed'
    BY <2>5, <2>6
  <2>8. Reported'
    <3>1. CASE ToBeDone(l)
      BY <2>2, <3>1 DEF Reported
    <3>2. CASE ~ToBeDone(l)
      <4>1. \A i \in DOMAIN <<l>> : ~ToBeDone(<<l>>[i])
        BY <2>4, <3>2
      <4> QED BY <1>0, <2>1, <2>2, <2>4, <3>2, <4>1, MoreIsReported
    <3> QED BY <3>1, <3>2
  <2> QED BY <2>7, <2>8
<1>2. ASSUME Direct!ApplyPending PROVE Informed' /\ Reported'
  <2> DEFINE l == Direct!L("CONFIG_APPLIED", [mode |-> active'["mode"]])
             k == Len(answers) + 1
  <2>1. Direct!Says(<<l>>)
    BY <1>2 DEF Direct!ApplyPending
  <2>2. l.token = "CONFIG_APPLIED" /\ ~ToBeDone(l)
    BY DEF Direct!L, ToBeDone
  <2> HIDE DEF l
  <2>3. /\ k \in DOMAIN answers' /\ answers'[k] = l
        /\ \A j \in DOMAIN answers' : j < k \/ j = k
    BY <1>0, <2>1 DEF Direct!Says
  <2>4. ToBeRead'
    BY <2>2, <2>3 DEF ToBeRead
  <2>5. \A j \in DOMAIN answers' : ToBeDone(answers'[j]) => j < k
    BY <2>2, <2>3
  <2>6. Reported'
    BY <2>2, <2>3, <2>4, <2>5 DEF Reported
  <2> QED BY <2>4, <2>6 DEF Informed
<1>3. ASSUME NEW ls \in Seq(Forms), Direct!Says(ls), \A i \in DOMAIN ls : Agrees(ls[i]) /\ ~ToBeDone(ls[i]),
             UNCHANGED <<active, queued, last, conf, result, todo>>
      PROVE  Informed' /\ Reported'
  <2>1. ToBeAsked => ToBeAsked'
    BY <1>3 DEF ToBeAsked
  <2> QED BY <1>0, <1>3, <2>1, MoreIsSaid, MoreIsReported
<1>4. ASSUME Direct!Analyse PROVE Informed' /\ Reported'
  <2> DEFINE f == Direct!L("FFT", [valid |-> Direct!Computed])
             t == Direct!L("TEL", [mode |-> active["mode"], valid |-> Direct!Computed, fault |-> fault])
             a == IF fft THEN <<f>> ELSE <<>>
             b == IF once \/ stream THEN <<t>> ELSE <<>>
  <2>1. Direct!Computed \in BOOLEAN /\ active["mode"] \in Modes /\ fault \in BOOLEAN
    BY ConfigsAre DEF Direct!Computed, Types, Direct!TypeOK
  <2>2. f \in Forms /\ Agrees(f) /\ ~ToBeDone(f)
    BY <2>1 DEF Direct!L, Forms, Agrees, ToBeDone
  <2>3. t \in Forms /\ Agrees(t) /\ ~ToBeDone(t)
    BY <2>1 DEF Direct!L, Forms, Agrees, ToBeDone
  <2>4. Direct!Says(a \o b) /\ UNCHANGED <<active, queued, last, conf, result, todo>>
    BY <1>4 DEF Direct!Analyse, Direct!config, Direct!screen
  <2> HIDE DEF f, t
  <2>5. a \in Seq(Forms) /\ \A i \in DOMAIN a : Agrees(a[i]) /\ ~ToBeDone(a[i])
    BY <2>2
  <2>6. b \in Seq(Forms) /\ \A i \in DOMAIN b : Agrees(b[i]) /\ ~ToBeDone(b[i])
    BY <2>3
  <2> HIDE DEF a, b
  <2>7. /\ a \o b \in Seq(Forms)
        /\ \A i \in DOMAIN (a \o b) : (\E j \in DOMAIN a : (a \o b)[i] = a[j]) \/ (\E j \in DOMAIN b : (a \o b)[i] = b[j])
    BY <2>5, <2>6
  <2>8. \A i \in DOMAIN (a \o b) : Agrees((a \o b)[i]) /\ ~ToBeDone((a \o b)[i])
    BY <2>5, <2>6, <2>7
  <2> QED BY <1>3, <2>4, <2>7, <2>8
<1>5. ASSUME NEW l \in {Direct!L("ERR", Direct!Nothing), Direct!L("DTC_EVENT", Direct!Nothing)}, Direct!Says(<<l>>),
             UNCHANGED <<active, queued, last, conf, result, todo>>
      PROVE  Informed' /\ Reported'
  <2>1. l \in Forms /\ Agrees(l) /\ ~ToBeDone(l)
    BY DEF Direct!L, Forms, Agrees, ToBeDone
  <2>2. <<l>> \in Seq(Forms) /\ \A i \in DOMAIN <<l>> : <<l>>[i] = l
    BY <2>1
  <2> QED BY <1>3, <1>5, <2>1, <2>2
<1>6. ASSUME Direct!ReadFails \/ Direct!Fault PROVE Informed' /\ Reported'
  BY <1>5, <1>6 DEF Direct!ReadFails, Direct!Fault, Direct!sensor, Direct!config, Direct!screen
<1> QED BY <1>1, <1>2, <1>4, <1>6 DEF Direct!Firmware

LEMMA RequestsInform ==
  ASSUME Types, Informed, Reported, Direct!Requests(Direct!Single)
  PROVE  Informed' /\ Reported'
<1>1. \E c \in Orders : todo' = Append(todo, c)
  <2>1. \A c \in Direct!Single : Direct!Cmd(c) \in Orders
    BY DEF Direct!Cmd, Orders, Direct!Single
  <2>2. Direct!Cmd("FFT") \in Orders
    BY DEF Direct!Cmd, Orders
  <2>3. \A c \in Direct!Configs : Direct!Set("mode", c["mode"]) \in Orders
    BY ConfigsAre DEF Direct!Set, Orders
  <2>4. flow # <<>> => Head(flow) \in Orders
    BY DEF Types, Wires
  <2> QED BY <2>1, <2>2, <2>3, <2>4 DEF Direct!Requests, Direct!Command, Direct!Configure, Direct!Spectrum,
               Direct!SendRest, Direct!Asks
<1>2. ToBeAsked => ToBeAsked'
  BY <1>1 DEF ToBeAsked, Types, Wires
<1>3. UNCHANGED <<active, queued, answers, last, conf, result>>
  BY DEF Direct!Requests, Direct!Command, Direct!Configure, Direct!Spectrum, Direct!SendRest, Direct!Rest,
           Direct!sensor, Direct!config
<1>4. Informed'
  BY <1>2, <1>3 DEF Informed, ToBeRead, ToBeTold, Told, AgreeFrom, Agrees, InForce
<1>5. Reported'
  BY <1>3 DEF Reported, ToBeRead
<1> QED BY <1>4, <1>5

\* The console reads a line: what it says is on the screen, or it is not the one
\* that matters.
LEMMA LineInforms ==
  ASSUME Types, NEW l \in Forms, Direct!Decode(l), active' = active,
         l.token # "CONFIG_APPLIED"
  PROVE  /\ l.token = "STATUS" /\ Agrees(l) =>
              InForce(conf["mode"], conf["gain"])'
                /\ InForce(Direct!Get(last, "mode", Direct!Missing), Direct!Get(last, "gain", Direct!Missing))'
         /\ /\ Agrees(l)
            /\ InForce(conf["mode"], conf["gain"])
               /\ InForce(Direct!Get(last, "mode", Direct!Missing), Direct!Get(last, "gain", Direct!Missing))
            => InForce(conf["mode"], conf["gain"])'
               /\ InForce(Direct!Get(last, "mode", Direct!Missing), Direct!Get(last, "gain", Direct!Missing))'
<1> USE FormsAre
<1>1. CASE l.token = "STATUS"
  <2>1. last' = l.p /\ l.p \in Statuses /\ conf' = [k \in Direct!Fields |-> Direct!Get(l.p, k, Direct!Missing)]
    BY <1>1 DEF Direct!Decode, Direct!StatusLine, Direct!DirectStatus
  <2>2. Direct!Get(l.p, "mode", Direct!Missing) = l.p.mode /\ Direct!Get(l.p, "gain", Direct!Missing) = l.p.gain
    BY <2>1 DEF Direct!Get, Statuses
  <2>3. conf'["mode"] = l.p.mode /\ conf'["gain"] = l.p.gain
    BY <2>1, <2>2 DEF Direct!Fields
  <2> QED BY <1>1, <2>1, <2>2, <2>3 DEF Agrees, InForce
<1>2. CASE l.token = "OK"
  <2>1. last' = Direct!Noted(l.p) /\ Direct!Acknowledged(l.p)
    BY <1>2 DEF Direct!Decode, Direct!Acknowledged
  <2>2. /\ Direct!Get(last', "mode", Direct!Missing) = Direct!Get(last, "mode", Direct!Missing)
        /\ Direct!Get(last', "gain", Direct!Missing) = Direct!Get(last, "gain", Direct!Missing)
    BY <2>1, NotedKeeps
  <2>3. CASE DOMAIN l.p \cap {"stream", "acq"} # {}
    <3>1. Direct!DirectStatus(Direct!Noted(l.p))
      BY <1>2, <2>1, <2>3, OkIsOne DEF Direct!Acknowledged
    <3>2. conf' = [k \in Direct!Fields |-> Direct!Get(last', k, Direct!Missing)]
      BY <2>1, <3>1 DEF Direct!DirectStatus
    <3>3. conf'["mode"] = Direct!Get(last', "mode", Direct!Missing)
            /\ conf'["gain"] = Direct!Get(last', "gain", Direct!Missing)
      BY <3>2 DEF Direct!Fields
    <3> QED BY <1>2, <2>2, <3>3 DEF InForce
  <2>4. CASE DOMAIN l.p \cap {"stream", "acq"} = {}
    <3>1. conf' = conf
      BY <1>2, <2>1, <2>4, OkIsOne DEF Direct!Acknowledged, Direct!Faulty
    <3> QED BY <1>2, <2>2, <3>1 DEF InForce
  <2> QED BY <2>3, <2>4
<1>3. CASE l.token = "TEL"
  <2>1. conf' = [conf EXCEPT !["mode"] = l.p["mode"]] /\ last' = last
    BY <1>3 DEF Direct!Decode, Direct!TelemetryLine, Direct!Telemetered
  <2>2. conf'["mode"] = l.p.mode /\ conf'["gain"] = conf["gain"]
    BY <2>1 DEF Types, Direct!TypeOK, Direct!Fields
  <2> QED BY <1>3, <2>1, <2>2 DEF Agrees, InForce
<1>4. CASE l.token \in {"DTC", "DTC_EVENT", "FFT", "STAGED", "ERR"}
  <2>1. conf' = conf /\ last' = last
    BY <1>4 DEF Direct!Decode, Direct!DtcLine, Direct!DtcEvent, Direct!Faulty, Direct!SpectrumLine, Direct!NotedOnly
  <2> QED BY <1>4, <2>1 DEF InForce
<1> QED BY <1>1, <1>2, <1>3, <1>4

LEMMA ReceiveInforms ==
  ASSUME Types, Informed, Reported, Direct!Receive
  PROVE  Informed' /\ Reported'
<1> DEFINE l == Head(answers)
<1>0. /\ answers \in Seq(Forms) /\ answers # <<>> /\ answers' = Tail(answers) /\ l \in Forms /\ l = answers[1]
      /\ todo \in Seq(Orders) /\ todo' = todo \o Direct!Follow(l)
      /\ Direct!Decode(l) /\ result' = Direct!AckOf(l) /\ UNCHANGED <<active, queued>>
  BY DEF Direct!Receive, Types, Wires, Direct!sensor, Direct!config
<1> HIDE DEF l
<1>1. /\ 1 \in DOMAIN answers /\ \A k \in DOMAIN answers :
                                     k # 1 => k - 1 \in DOMAIN answers' /\ answers'[k - 1] = answers[k]
      /\ \A k \in DOMAIN answers' : k + 1 \in DOMAIN answers /\ answers'[k] = answers[k + 1]
      /\ DOMAIN answers \subseteq Nat \ {0} /\ DOMAIN answers' \subseteq Nat \ {0}
  BY <1>0
<1>2. \A m : Agrees(m)' <=> Agrees(m)
  BY <1>0 DEF Agrees
<1>3. ASSUME NEW i \in Int, AgreeFrom(i + 1) PROVE AgreeFrom(i)'
  <2> SUFFICES ASSUME NEW k \in DOMAIN answers', i <= k PROVE Agrees(answers[k])'
    BY DEF AgreeFrom
  <2>1. k + 1 \in DOMAIN answers /\ answers'[k] = answers[k + 1] /\ i + 1 <= k + 1
    BY <1>1
  <2>2. Agrees(answers[k + 1])
    BY <1>3, <2>1 DEF AgreeFrom
  <2> QED BY <1>0, <2>1, <2>2 DEF Agrees
<1>4. ToBeAsked => ToBeAsked'
  <2>1. Direct!Follow(l) \in Seq(Orders)
    <3>1. Direct!Cmd("STATUS") \in Orders
      BY DEF Direct!Cmd, Orders
    <3> QED BY <3>1 DEF Direct!Follow
  <2>2. SUFFICES ASSUME NEW k \in DOMAIN todo, todo[k].do = "STATUS" PROVE ToBeAsked'
    BY DEF ToBeAsked
  <2>3. k \in DOMAIN todo' /\ todo'[k] = todo[k]
    BY <1>0, <2>1
  <2> QED BY <2>2, <2>3 DEF ToBeAsked
<1>5. l.token # "CONFIG_APPLIED" => (ToBeRead => ToBeRead')
  BY <1>0, <1>1 DEF ToBeRead
<1>6. Informed'
  <2>1. CASE l.token = "CONFIG_APPLIED"
    <3>1. todo' = Append(todo, Direct!Cmd("STATUS"))
      BY <1>0, <2>1 DEF Direct!Follow
    <3>2. Direct!Cmd("STATUS").do = "STATUS"
      BY DEF Direct!Cmd
    <3>3. ToBeAsked'
      BY <1>0, <3>1, <3>2 DEF ToBeAsked
    <3> QED BY <3>3 DEF Informed
  <2>2. CASE l.token # "CONFIG_APPLIED" /\ (ToBeRead \/ ToBeAsked)
    BY <1>4, <1>5, <2>2 DEF Informed
  <2>3. CASE l.token # "CONFIG_APPLIED" /\ ToBeTold
    <3>1. PICK k \in DOMAIN answers : answers[k].token = "STATUS" /\ AgreeFrom(k)
      BY <2>3 DEF ToBeTold
    <3>2. k \in Int
      BY <1>0
    <3>3. CASE k = 1
      <4>1. l.token = "STATUS" /\ Agrees(l)
        BY <1>0, <1>1, <3>1, <3>3 DEF AgreeFrom
      <4>2. AgreeFrom(1)'
        <5>1. AgreeFrom(1 + 1)
          BY <1>1, <3>1, <3>3 DEF AgreeFrom
        <5> QED BY <1>3, <5>1
      <4>3. Told'
        BY <1>0, <2>3, <4>1, <4>2, LineInforms DEF Told
      <4> QED BY <4>3 DEF Informed
    <3>4. CASE k # 1
      <4>1. AgreeFrom(k - 1)'
        BY <1>3, <3>1, <3>2
      <4>2. ToBeTold'
        BY <1>1, <3>1, <3>4, <4>1 DEF ToBeTold
      <4> QED BY <4>2 DEF Informed
    <3> QED BY <3>3, <3>4
  <2>4. CASE l.token # "CONFIG_APPLIED" /\ Told
    <3>1. Agrees(l)
      BY <1>0, <1>1, <2>4 DEF Told, AgreeFrom
    <3>2. AgreeFrom(1)'
      <4>1. AgreeFrom(1 + 1)
        BY <1>1, <2>4 DEF Told, AgreeFrom
      <4> QED BY <1>3, <4>1
    <3>3. Told'
      BY <1>0, <2>4, <3>1, <3>2, LineInforms DEF Told
    <3> QED BY <3>3 DEF Informed
  <2> QED BY <2>1, <2>2, <2>3, <2>4 DEF Informed
<1>7. Reported'
  <2> SUFFICES ASSUME queued' = {}
               PROVE  /\ result' = "QUEUED" => ToBeRead'
                      /\ \A k \in DOMAIN answers' : ToBeDone(answers'[k]) =>
                           \E j \in DOMAIN answers' : k < j /\ answers'[j].token = "CONFIG_APPLIED"
    BY DEF Reported
  <2>1. queued = {}
    BY <1>0
  <2>2. ASSUME result' = "QUEUED" PROVE ToBeRead'
    <3>1. ToBeDone(l) \/ (result = "QUEUED" /\ l.token # "CONFIG_APPLIED")
      <4>1. CASE l.token \in {"STATUS", "TEL", "FFT", "DTC", "DTC_EVENT"}
        <5>1. "staged" \notin DOMAIN l.p /\ "apply" \notin DOMAIN l.p
          <6>1. l.token = "STATUS" => DOMAIN l.p = {"mode", "gain", "stream", "fault"}
            BY <1>0, FormsAre DEF Statuses
          <6>2. l.token = "TEL" => DOMAIN l.p = {"mode", "valid", "fault"}
            BY <1>0, FormsAre
          <6>3. (l.token = "FFT" => DOMAIN l.p = {"valid"}) /\ (l.token = "DTC" => DOMAIN l.p = {"fault"})
            BY <1>0, FormsAre
          <6>4. l.token = "DTC_EVENT" => DOMAIN l.p = {}
            BY <1>0, FormsAre DEF Direct!Nothing
          <6> QED BY <4>1, <6>1, <6>2, <6>3, <6>4
        <5> QED BY <1>0, <2>2, <4>1, <5>1 DEF Direct!AckOf
      <4>2. CASE l.token = "CONFIG_APPLIED"
        <5>1. "staged" \notin DOMAIN l.p /\ "apply" \notin DOMAIN l.p
          BY <1>0, <4>2, FormsAre
        <5> QED BY <1>0, <2>2, <4>2, <5>1 DEF Direct!AckOf
      <4>3. CASE l.token = "ERR"
        <5>1. "staged" \notin DOMAIN l.p /\ "apply" \notin DOMAIN l.p
          BY <1>0, <4>3, FormsAre DEF Direct!Nothing
        <5> QED BY <1>0, <2>2, <4>3, <5>1 DEF Direct!AckOf
      <4>4. CASE l.token = "STAGED"
        <5>1. DOMAIN l.p = Direct!Fields
          BY <1>0, <4>4, FormsAre DEF Direct!Configs
        <5> QED BY <1>0, <2>2, <4>4, <5>1 DEF Direct!AckOf, Direct!Fields
      <4>5. CASE l.token = "OK"
        <5>1. "staged" \in DOMAIN l.p => "apply" \notin DOMAIN l.p
          BY <1>0, <4>5, FormsAre, OkIsOne
        <5> QED BY <1>0, <2>2, <4>5, <5>1 DEF Direct!AckOf, ToBeDone
      <4> QED BY <1>0, <4>1, <4>2, <4>3, <4>4, <4>5, FormsAre
    <3>2. CASE ToBeDone(l)
      <4>1. PICK j \in DOMAIN answers : 1 < j /\ answers[j].token = "CONFIG_APPLIED"
        BY <1>0, <1>1, <2>1, <3>2 DEF Reported
      <4> QED BY <1>1, <4>1 DEF ToBeRead
    <3>3. CASE result = "QUEUED" /\ l.token # "CONFIG_APPLIED"
      BY <1>5, <2>1, <3>3 DEF Reported
    <3> QED BY <3>1, <3>2, <3>3
  <2>3. ASSUME NEW k \in DOMAIN answers', ToBeDone(answers'[k])
        PROVE  \E j \in DOMAIN answers' : k < j /\ answers'[j].token = "CONFIG_APPLIED"
    <3>1. k + 1 \in DOMAIN answers /\ ToBeDone(answers[k + 1])
      BY <1>1, <2>3
    <3>2. PICK j \in DOMAIN answers : k + 1 < j /\ answers[j].token = "CONFIG_APPLIED"
      BY <2>1, <3>1 DEF Reported
    <3>3. k \in Int /\ j \in Int /\ k > 0
      BY <1>0
    <3> QED BY <1>1, <3>2, <3>3
  <2> QED BY <2>2, <2>3
<1> QED BY <1>6, <1>7

-----------------------------------------------------------------------------
(* The theorem *)

DirectInv == Types /\ SpectrumTold /\ Informed /\ Reported

LEMMA DirectInvInit == Direct!Init => DirectInv
<1> SUFFICES ASSUME Direct!Init PROVE DirectInv
  OBVIOUS
<1>1. SpectrumTold
  BY DEF Direct!Init, SpectrumTold
<1>2. Informed
  <2>1. todo[1].do = "STATUS" /\ 1 \in DOMAIN todo
    BY DEF Direct!Init, Direct!Cmd
  <2> QED BY <2>1 DEF Informed, ToBeAsked
<1>3. Reported
  BY DEF Direct!Init, Reported
<1> QED BY <1>1, <1>2, <1>3, DirectTypesInit DEF DirectInv

LEMMA DirectInvNext == DirectInv /\ [Direct!Next]_Direct!vars => DirectInv'
<1>1. ASSUME DirectInv, UNCHANGED Direct!vars PROVE Informed' /\ Reported'
  <2>1. UNCHANGED <<active, queued, todo, answers, last, conf, result>>
    BY <1>1 DEF Direct!vars, Direct!sensor, Direct!config, Direct!screen
  <2> QED BY <1>1, <2>1
          DEF DirectInv, Informed, ToBeRead, ToBeAsked, ToBeTold, Told, AgreeFrom, Agrees, InForce, Reported
<1> QED BY <1>1, DirectTypesNext, SpectrumStep, FirmwareInforms, ReceiveInforms, RequestsInform DEF DirectInv, Direct!Next

LEMMA DirectInvTells == DirectInv => Direct!ScreenIsRight
<1> SUFFICES ASSUME DirectInv PROVE Direct!ScreenIsRight
  OBVIOUS
<1>1. Direct!SpectrumIsShown
  BY DEF DirectInv, SpectrumTold, Direct!SpectrumIsShown
<1>2. ASSUME Direct!Quiet PROVE conf = active /\ result # "QUEUED"
  <2>1. Told
    BY <1>2 DEF Direct!Quiet, DirectInv, Informed, ToBeRead, ToBeAsked, ToBeTold
  <2>2. conf = active
    BY <2>1 DEF Told, InForce, DirectInv, Types, Direct!TypeOK, Direct!Configs, Direct!Fields
  <2> QED BY <1>2, <2>2 DEF Direct!Quiet, DirectInv, Reported, ToBeRead
<1> QED BY <1>1, <1>2 DEF Direct!ScreenIsRight, Direct!Settles

\* What is shown of a sensor on the port is what is in force there once all is
\* answered, and a spectrum that was answered is shown (sensor_direct.py,
\* controller.py, serial_console.c): for any modes and gains, and whatever the
\* operator asks for and the sensor does in between.
THEOREM TheScreenIsRight == Direct!Spec => []Direct!ScreenIsRight
BY DirectInvInit, DirectInvNext, DirectInvTells, PTL DEF Direct!Spec

-----------------------------------------------------------------------------
(* The trains of echoes. Between the Probe and the console are lines, any number
   of them, of this train and of earlier ones. The invariant follows what these
   lines will make of the newest train that the console heard the start of, one
   by one to the last, and says that this is what the Probe has of it. A train
   that was cut short has fewer echoes, and one that was not heard from its start
   on is not followed.                                                        *)

\* What the console will have of the newest train that it heard the start of,
\* as far as the lines go: here is FALSE if there is none.
EchoViews ==
  [here : BOOLEAN, active : BOOLEAN, path : Echoes!Paths, count : Nat, echoes : Nat, oks : Nat,
   sent : Nat, received : Nat]
Unseen ==
  [here |-> FALSE, active |-> FALSE, path |-> "LOCAL", count |-> 0, echoes |-> 0, oks |-> 0, sent |-> 0, received |-> 0]
ViewOf(t) ==
  [here |-> TRUE, active |-> t.active, path |-> t.path, count |-> t.count, echoes |-> Len(t.probes),
   oks |-> Echoes!Closed(t), sent |-> t.sent, received |-> t.received]
EchoView == IF whole THEN ViewOf(trains[Len(trains)]) ELSE Unseen

\* An answer of this status counts.
Closes(p, status) == status = "APPLIED" \/ (p = "LOCAL" /\ status # "TIMEOUT")

\* What a line makes of it.
StartedBy(l) ==
  [here |-> TRUE, active |-> TRUE, path |-> l.path, count |-> l.count, echoes |-> 0, oks |-> 0,
   sent |-> 0, received |-> 0]
IsFor(w, l) == w.here /\ w.active /\ l.path = w.path
Echoed(w, l) ==
  [here |-> w.here, active |-> w.active, path |-> w.path, count |-> w.count, echoes |-> w.echoes + 1,
   oks |-> IF Closes(l.path, l.status) THEN w.oks + 1 ELSE w.oks, sent |-> w.sent, received |-> w.received]
EndedBy(w, l) ==
  [here |-> w.here, active |-> FALSE, path |-> w.path, count |-> w.count, echoes |-> w.echoes, oks |-> w.oks,
   sent |-> l.sent, received |-> l.received]
AfterLine(w, l) ==
  IF l.kind = "ECHO_START" THEN StartedBy(l)
  ELSE IF ~IsFor(w, l) THEN w
  ELSE IF l.kind = "ECHO" THEN Echoed(w, l) ELSE EndedBy(w, l)

\* The lines ls make z of w.
Leads(w, ls, z) ==
  \E u \in [0 .. Len(ls) -> EchoViews] :
    u[0] = w /\ u[Len(ls)] = z /\ \A k \in DOMAIN ls : u[k] = AfterLine(u[k - 1], ls[k])

\* Types, as far as they are needed.
EchoLine ==
  [kind : {"ECHO_START"}, path : Echoes!Paths, count : Nat] \cup [kind : {"ECHO"}, path : Echoes!Paths, status : Echoes!Statuses]
  \cup [kind : {"ECHO_DONE"}, path : Echoes!Paths, sent : Nat, received : Nat]
TrainType == [path : Echoes!Paths, count : Nat, probes : Seq(Echoes!Statuses), active : BOOLEAN, sent : Nat, received : Nat]
ProbeTrain == [active : BOOLEAN, path : Echoes!Paths, total : Nat, sent : Nat, received : Nat]
EchoTypes ==
  /\ train \in ProbeTrain /\ seq \in Nat /\ pending \subseteq 1 .. seq
  /\ (\A a \in acks : a.status \in {"APPLIED", "REJECTED"}) /\ reports \in Seq(EchoLine)
  /\ trains \in Seq(TrainType) /\ whole \in BOOLEAN /\ (whole => trains # <<>>)

\* What is heard of the train, when all is heard, is what the Probe has.
Fits(w) ==
  w.here =>
    /\ ~w.active => w.oks = w.received
    /\ train.active =>
         /\ w.active /\ w.path = train.path /\ w.count = train.total /\ w.oks = train.received
         /\ w.echoes + Cardinality(pending) = train.sent
    /\ (~train.active /\ ~stopped) => ~w.active /\ w.sent = w.count /\ w.echoes = w.sent
Followed == \E z \in EchoViews : Leads(EchoView, reports, z) /\ Fits(z)
NoneWaits == (~train.active /\ ~stopped) => pending = {}

EchoInv == EchoTypes /\ NoneWaits /\ Followed

-----------------------------------------------------------------------------
(* Lines and what they lead to *)

LEMMA AfterTypes ==
  ASSUME NEW w \in EchoViews, NEW l \in EchoLine
  PROVE  AfterLine(w, l) \in EchoViews
<1>1. CASE l.kind = "ECHO_START"
  <2>1. l.path \in Echoes!Paths /\ l.count \in Nat
    BY <1>1 DEF EchoLine
  <2> QED BY <1>1, <2>1 DEF AfterLine, StartedBy, EchoViews
<1>2. CASE l.kind = "ECHO"
  <2>2. w.echoes + 1 \in Nat /\ (IF Closes(l.path, l.status) THEN w.oks + 1 ELSE w.oks) \in Nat
    BY DEF EchoViews
  <2>3. Echoed(w, l) \in EchoViews
    BY <2>2 DEF Echoed, EchoViews
  <2> QED BY <1>2, <2>3 DEF AfterLine
<1>3. CASE l.kind = "ECHO_DONE"
  <2>1. l.sent \in Nat /\ l.received \in Nat
    BY <1>3 DEF EchoLine
  <2> QED BY <1>3, <2>1 DEF AfterLine, EndedBy, EchoViews
<1> QED BY <1>1, <1>2, <1>3 DEF EchoLine

LEMMA LeadsNone ==
  ASSUME NEW w \in EchoViews
  PROVE  Leads(w, <<>>, w)
<1> DEFINE u == [k \in 0 .. 0 |-> w]
<1>1. u \in [0 .. Len(<<>>) -> EchoViews] /\ u[0] = w /\ u[Len(<<>>)] = w
  OBVIOUS
<1>2. \A k \in DOMAIN <<>> : u[k] = AfterLine(u[k - 1], <<>>[k])
  OBVIOUS
<1> HIDE DEF u
<1> QED BY <1>1, <1>2 DEF Leads

LEMMA LeadsOne ==
  ASSUME NEW w \in EchoViews, NEW l \in EchoLine
  PROVE  Leads(w, <<l>>, AfterLine(w, l))
<1> DEFINE u == [k \in 0 .. 1 |-> IF k = 0 THEN w ELSE AfterLine(w, l)]
<1>1. u \in [0 .. Len(<<l>>) -> EchoViews] /\ u[0] = w /\ u[Len(<<l>>)] = AfterLine(w, l)
  BY AfterTypes
<1>2. \A k \in DOMAIN <<l>> : u[k] = AfterLine(u[k - 1], <<l>>[k])
  OBVIOUS
<1> QED BY <1>1, <1>2 DEF Leads

LEMMA LeadsOn ==
  ASSUME NEW a \in Seq(EchoLine), NEW b \in Seq(EchoLine), NEW w, NEW x, NEW z, Leads(w, a, x), Leads(x, b, z)
  PROVE  Leads(w, a \o b, z)
<1>1. PICK u \in [0 .. Len(a) -> EchoViews] :
        u[0] = w /\ u[Len(a)] = x /\ \A k \in DOMAIN a : u[k] = AfterLine(u[k - 1], a[k])
  BY DEF Leads
<1>2. PICK v \in [0 .. Len(b) -> EchoViews] :
        v[0] = x /\ v[Len(b)] = z /\ \A k \in DOMAIN b : v[k] = AfterLine(v[k - 1], b[k])
  BY DEF Leads
<1> DEFINE y == [k \in 0 .. Len(a) + Len(b) |-> IF k <= Len(a) THEN u[k] ELSE v[k - Len(a)]]
<1>3. Len(a \o b) = Len(a) + Len(b) /\ Len(a) \in Nat /\ Len(b) \in Nat
  OBVIOUS
<1>4. y \in [0 .. Len(a \o b) -> EchoViews]
  BY <1>3
<1>5. y[0] = w /\ y[Len(a \o b)] = z
  <2>1. y[0] = u[0]
    BY <1>3
  <2>2. CASE Len(b) = 0
    <3>1. y[Len(a) + Len(b)] = u[Len(a)]
      BY <2>2, <1>3
    <3> QED BY <3>1, <2>1, <2>2, <1>1, <1>2, <1>3
  <2>3. CASE Len(b) # 0
    <3>1. y[Len(a) + Len(b)] = v[Len(a) + Len(b) - Len(a)]
      BY <2>3, <1>3
    <3>2. Len(a) + Len(b) - Len(a) = Len(b)
      BY <1>3
    <3> QED BY <3>1, <3>2, <2>1, <1>1, <1>2, <1>3
  <2> QED BY <2>2, <2>3
<1>6. ASSUME NEW k \in DOMAIN (a \o b)
      PROVE  y[k] = AfterLine(y[k - 1], (a \o b)[k])
  <2>1. k \in 1 .. Len(a) + Len(b)
    BY <1>3
  <2>2. CASE k <= Len(a)
    <3>1. k \in DOMAIN a /\ (a \o b)[k] = a[k]
      BY <2>1, <2>2
    <3>2. y[k] = u[k] /\ y[k - 1] = u[k - 1]
      BY <2>1, <2>2, <1>3
    <3> QED BY <3>1, <3>2, <1>1
  <2>3. CASE ~(k <= Len(a))
    <3>1. k - Len(a) \in DOMAIN b /\ (a \o b)[k] = b[k - Len(a)]
      BY <2>1, <2>3, <1>3
    <3>2. y[k] = v[k - Len(a)] /\ y[k - 1] = v[k - Len(a) - 1]
      BY <2>1, <2>3, <1>1, <1>2, <1>3
    <3> QED BY <3>1, <3>2, <1>2
  <2> QED BY <2>2, <2>3
<1> HIDE DEF y
<1> QED BY <1>4, <1>5, <1>6 DEF Leads

LEMMA LeadsTail ==
  ASSUME NEW ls \in Seq(EchoLine), ls # <<>>, NEW w, NEW z, Leads(w, ls, z)
  PROVE  Leads(AfterLine(w, Head(ls)), Tail(ls), z)
<1>1. PICK u \in [0 .. Len(ls) -> EchoViews] :
        u[0] = w /\ u[Len(ls)] = z /\ \A k \in DOMAIN ls : u[k] = AfterLine(u[k - 1], ls[k])
  BY DEF Leads
<1>2. Len(ls) \in Nat /\ Len(ls) > 0 /\ Len(Tail(ls)) = Len(ls) - 1 /\ DOMAIN ls = 1 .. Len(ls)
  OBVIOUS
<1> DEFINE y == [k \in 0 .. Len(ls) - 1 |-> u[k + 1]]
<1>3. y \in [0 .. Len(Tail(ls)) -> EchoViews]
  BY <1>2
<1>4. y[0] = AfterLine(w, Head(ls)) /\ y[Len(Tail(ls))] = z
  BY <1>1, <1>2
<1>5. ASSUME NEW k \in DOMAIN Tail(ls)
      PROVE  y[k] = AfterLine(y[k - 1], Tail(ls)[k])
  <2>1. k \in 1 .. Len(ls) - 1
    BY <1>2
  <2>2. Tail(ls)[k] = ls[k + 1] /\ k + 1 \in DOMAIN ls
    BY <2>1, <1>2
  <2>3. y[k] = u[k + 1] /\ y[k - 1] = u[k]
    BY <2>1, <1>2
  <2> QED BY <2>2, <2>3, <1>1, <2>1
<1> HIDE DEF y
<1> QED BY <1>3, <1>4, <1>5 DEF Leads

\* If the lines so far do not count, the same is led to, or nothing.
LEMMA LeadsAnyway ==
  ASSUME NEW ls \in Seq(EchoLine), NEW w, NEW z, Leads(w, ls, z)
  PROVE  \E x \in EchoViews : Leads(Unseen, ls, x) /\ (x = z \/ ~x.here)
<1>1. PICK u \in [0 .. Len(ls) -> EchoViews] :
        u[0] = w /\ u[Len(ls)] = z /\ \A k \in DOMAIN ls : u[k] = AfterLine(u[k - 1], ls[k])
  BY DEF Leads
<1> DEFINE S(k) == \E j \in 1 .. k : ls[j].kind = "ECHO_START"
           y == [k \in 0 .. Len(ls) |-> IF S(k) THEN u[k] ELSE Unseen]
<1>2. Len(ls) \in Nat /\ DOMAIN ls = 1 .. Len(ls) /\ Unseen \in EchoViews
  BY DEF Unseen, EchoViews, Echoes!Paths
<1>3. y \in [0 .. Len(ls) -> EchoViews] /\ y[0] = Unseen
  BY <1>2
<1>4. y[Len(ls)] \in EchoViews /\ (y[Len(ls)] = z \/ ~y[Len(ls)].here)
  BY <1>1, <1>2, <1>3 DEF Unseen
<1>5. ASSUME NEW k \in DOMAIN ls
      PROVE  y[k] = AfterLine(y[k - 1], ls[k])
  <2>1. k \in 1 .. Len(ls) /\ k - 1 \in 0 .. Len(ls) /\ k \in 0 .. Len(ls)
    BY <1>2
  <2>2. S(k) <=> S(k - 1) \/ ls[k].kind = "ECHO_START"
    BY <2>1
  <2>3. CASE S(k - 1)
    BY <2>1, <2>2, <2>3, <1>1
  <2>4. CASE ~S(k - 1) /\ ls[k].kind = "ECHO_START"
    <3>1. y[k] = u[k]
      BY <2>1, <2>2, <2>4
    <3>2. u[k] = StartedBy(ls[k]) /\ AfterLine(y[k - 1], ls[k]) = StartedBy(ls[k])
      BY <2>4, <1>1 DEF AfterLine
    <3> QED BY <3>1, <3>2
  <2>5. CASE ~S(k - 1) /\ ls[k].kind # "ECHO_START"
    <3>1. y[k] = Unseen /\ y[k - 1] = Unseen
      BY <2>1, <2>2, <2>5
    <3> QED BY <3>1, <2>5 DEF AfterLine, IsFor, Unseen
  <2> QED BY <2>3, <2>4, <2>5
<1> HIDE DEF y
<1> QED BY <1>3, <1>4, <1>5 DEF Leads

-----------------------------------------------------------------------------
(* The console *)

LEMMA EchoesAgree == \A S : Echoes!Cardinality(S) = Cardinality(S)
BY DEF Echoes!Cardinality, Cardinality

ClosedOnes(t) == {i \in DOMAIN t.probes : Closes(t.path, t.probes[i])}

LEMMA ClosedIs ==
  ASSUME NEW t
  PROVE  Echoes!Closed(t) = Cardinality(ClosedOnes(t))
BY EchoesAgree DEF Echoes!Closed, ClosedOnes, Closes

LEMMA ClosedCounts ==
  ASSUME NEW t \in TrainType
  PROVE  Echoes!Closed(t) \in Nat /\ IsFiniteSet(ClosedOnes(t))
<1>1. IsFiniteSet(1 .. Len(t.probes)) /\ DOMAIN t.probes = 1 .. Len(t.probes)
  BY FS_Interval DEF TrainType
<1>2. IsFiniteSet(ClosedOnes(t))
  BY <1>1, FS_Subset DEF ClosedOnes
<1> QED BY <1>2, ClosedIs, FS_CardinalityType

LEMMA ViewTypes ==
  ASSUME EchoTypes
  PROVE  EchoView \in EchoViews
<1>1. Unseen \in EchoViews
  BY DEF Unseen, EchoViews, Echoes!Paths
<1>2. ASSUME NEW t \in TrainType PROVE ViewOf(t) \in EchoViews
  <2>1. Len(t.probes) \in Nat
    BY DEF TrainType
  <2> QED BY <2>1, ClosedCounts DEF ViewOf, EchoViews, TrainType
<1>3. whole => trains[Len(trains)] \in TrainType
  BY DEF EchoTypes
<1> QED BY <1>1, <1>2, <1>3 DEF EchoView

\* An echo of a train is one more, with an answer or without.
LEMMA CountedCloses ==
  ASSUME NEW t \in TrainType, NEW l, l.status \in Echoes!Statuses, l.path = t.path
  PROVE  /\ Echoes!Counted(t, l) \in TrainType /\ Len(Echoes!Counted(t, l).probes) = Len(t.probes) + 1
         /\ Echoes!Closed(Echoes!Counted(t, l)) =
              IF Closes(l.path, l.status) THEN Echoes!Closed(t) + 1 ELSE Echoes!Closed(t)
<1> DEFINE p == t.probes
           q == Append(p, l.status)
           S == ClosedOnes(t)
           T == ClosedOnes(Echoes!Counted(t, l))
<1>1. p \in Seq(Echoes!Statuses) /\ q \in Seq(Echoes!Statuses) /\ Len(q) = Len(p) + 1 /\ Len(p) \in Nat
      /\ DOMAIN p = 1 .. Len(p) /\ DOMAIN q = 1 .. Len(p) + 1
  BY DEF TrainType
<1>2. Echoes!Counted(t, l) \in TrainType /\ Echoes!Counted(t, l).probes = q /\ Echoes!Counted(t, l).path = t.path
  BY <1>1 DEF Echoes!Counted, TrainType
<1>3. (\A i \in 1 .. Len(p) : q[i] = p[i]) /\ q[Len(p) + 1] = l.status
  BY <1>1
<1>4. T = IF Closes(l.path, l.status) THEN S \cup {Len(p) + 1} ELSE S
  <2>1. T = {i \in DOMAIN q : Closes(l.path, q[i])} /\ S = {i \in DOMAIN p : Closes(l.path, p[i])}
    BY <1>2 DEF ClosedOnes
  <2>2. ASSUME NEW i PROVE i \in T <=> (i \in S \/ (i = Len(p) + 1 /\ Closes(l.path, l.status)))
    <3> HIDE DEF q, S, T
    <3> QED BY <1>1, <1>3, <2>1
  <2> HIDE DEF S, T
  <2> QED BY <2>2
<1>5. Len(p) + 1 \notin S /\ IsFiniteSet(S) /\ Echoes!Closed(t) = Cardinality(S)
  <2>1. Len(p) + 1 \notin S
    BY <1>1 DEF ClosedOnes
  <2>2. IsFiniteSet(S)
    BY ClosedCounts
  <2>3. Echoes!Closed(t) = Cardinality(S)
    BY ClosedIs
  <2> QED BY <2>1, <2>2, <2>3
<1>6. Echoes!Closed(Echoes!Counted(t, l)) = Cardinality(T)
  BY <1>2, ClosedIs
<1> HIDE DEF S, T, q
<1>7. Cardinality(S \cup {Len(p) + 1}) = Cardinality(S) + 1
  BY <1>5, FS_AddElement
<1> QED BY <1>1, <1>2, <1>4, <1>5, <1>6, <1>7

LEMMA GreatestIndex ==
  ASSUME NEW n \in Nat, NEW S, S \subseteq 1 .. n, S # {}
  PROVE  \E i \in S : \A j \in S : j <= i
<1> DEFINE T == {n - i : i \in S}
<1>1. T \subseteq Nat /\ T # {}
  <2>1. T \subseteq Nat
    OBVIOUS
  <2>2. PICK i \in S : TRUE
    OBVIOUS
  <2>3. n - i \in T
    BY <2>2
  <2> QED BY <2>1, <2>3
<1>2. PICK x \in T : \A y \in T : <<y, x>> \notin OpToRel(<, Nat)
  BY <1>1, NatLessThanWellFounded, WFMin
<1>3. \A y \in T : ~(y < x)
  BY <1>1, <1>2 DEF OpToRel
<1>4. PICK i \in S : x = n - i
  BY <1>2
<1>5. ASSUME NEW j \in S PROVE j <= i
  <2>1. ~(n - j < n - i)
    BY <1>3, <1>4
  <2> QED BY <2>1
<1> QED BY <1>5

\* The train that a line of path p is for.
LEMMA TrainForIs ==
  ASSUME EchoTypes, NEW p, Echoes!Fitting(p) # {}
  PROVE  /\ Echoes!TrainFor(p) \in Echoes!Fitting(p)
         /\ Len(trains) \in Echoes!Fitting(p) => Echoes!TrainFor(p) = Len(trains)
<1>1. Echoes!Fitting(p) \subseteq 1 .. Len(trains) /\ Len(trains) \in Nat
  BY DEF Echoes!Fitting, EchoTypes
<1>2. \E i \in Echoes!Fitting(p) : \A j \in Echoes!Fitting(p) : j <= i
  BY <1>1, GreatestIndex
<1>3. Echoes!TrainFor(p) \in Echoes!Fitting(p) /\ \A j \in Echoes!Fitting(p) : j <= Echoes!TrainFor(p)
  BY <1>2 DEF Echoes!TrainFor
<1> QED BY <1>1, <1>3

\* The newest train after one of the trains has changed.
LEMMA NewestAfter ==
  ASSUME EchoTypes, NEW i \in DOMAIN trains, NEW t \in TrainType, trains' = [trains EXCEPT ![i] = t]
  PROVE  /\ trains' \in Seq(TrainType) /\ trains' # <<>> /\ Len(trains') = Len(trains)
         /\ trains'[Len(trains')] = IF i = Len(trains) THEN t ELSE trains[Len(trains)]
BY DEF EchoTypes

LEMMA ReceiveView ==
  ASSUME EchoTypes, Echoes!EchoAssumption, NEW l \in EchoLine, Echoes!OnLine(l)
  PROVE  /\ trains' \in Seq(TrainType) /\ whole' \in BOOLEAN /\ (whole' => trains' # <<>>)
         /\ EchoView' = AfterLine(EchoView, l)
<1> DEFINE n == Len(trains)
<1>1. CASE l.kind = "ECHO_START"
  <2>1. trains' = Echoes!Remembered(Echoes!EchoTrain(l)) /\ whole' = TRUE
    BY <1>1 DEF Echoes!OnLine
  <2>2. Echoes!EchoTrain(l) \in TrainType
    BY <1>1 DEF EchoLine, Echoes!EchoTrain, TrainType
  <2> DEFINE all == Append(trains, Echoes!EchoTrain(l))
             first == IF Len(all) > MaxTrains THEN 2 ELSE 1
  <2>3. all \in Seq(TrainType) /\ Len(all) = n + 1 /\ n \in Nat /\ all[n + 1] = Echoes!EchoTrain(l)
        /\ MaxTrains \in Nat /\ MaxTrains > 0
    BY <2>2 DEF EchoTypes, Echoes!EchoAssumption
  <2>4. first \in 1 .. n + 1
    BY <2>3
  <2>5. trains' = SubSeq(all, first, n + 1)
    BY <2>1, <2>3 DEF Echoes!Remembered
  <2> HIDE DEF all, first
  <2>6. trains' \in Seq(TrainType) /\ Len(trains') = n + 1 - first + 1 /\ trains'[n + 1 - first + 1] = all[n + 1]
    BY <2>3, <2>4, <2>5
  <2>7. trains' # <<>> /\ trains'[Len(trains')] = Echoes!EchoTrain(l)
    BY <2>3, <2>4, <2>6
  <2>8. ViewOf(Echoes!EchoTrain(l)) = StartedBy(l)
    <3>1. Echoes!EchoTrain(l).probes = <<>> /\ ClosedOnes(Echoes!EchoTrain(l)) = {}
      BY DEF Echoes!EchoTrain, ClosedOnes
    <3>2. Echoes!Closed(Echoes!EchoTrain(l)) = 0
      BY <3>1, FS_EmptySet, ClosedIs
    <3> QED BY <3>1, <3>2 DEF ViewOf, Echoes!EchoTrain, StartedBy
  <2>9. EchoView' = ViewOf(Echoes!EchoTrain(l))
    BY <2>1, <2>7 DEF EchoView
  <2> QED BY <1>1, <2>1, <2>6, <2>7, <2>8, <2>9 DEF AfterLine
<1>2. CASE l.kind # "ECHO_START" /\ Echoes!Fitting(l.path) = {}
  <2>1. UNCHANGED <<trains, whole>>
    BY <1>2 DEF Echoes!OnLine, Echoes!console
  <2>2. ~IsFor(EchoView, l)
    <3> SUFFICES ASSUME IsFor(EchoView, l) PROVE FALSE
      OBVIOUS
    <3>1. whole /\ trains[n].active /\ trains[n].path = l.path /\ n \in DOMAIN trains
      BY DEF IsFor, EchoView, ViewOf, Unseen, EchoTypes
    <3> QED BY <3>1, <1>2 DEF Echoes!Fitting
  <2>3. EchoView' = EchoView
    BY <2>1 DEF EchoView
  <2> QED BY <1>2, <2>1, <2>2, <2>3 DEF AfterLine, EchoTypes
<1>3. CASE l.kind # "ECHO_START" /\ Echoes!Fitting(l.path) # {}
  <2> DEFINE i == Echoes!TrainFor(l.path)
             t == IF l.kind = "ECHO" THEN Echoes!Counted(trains[i], l) ELSE Echoes!Finished(trains[i], l)
  <2>1. i \in DOMAIN trains /\ trains[i] \in TrainType /\ trains[i].path = l.path /\ trains[i].active
        /\ (n \in Echoes!Fitting(l.path) => i = n)
    BY <1>3, TrainForIs DEF Echoes!Fitting, EchoTypes
  <2>2. trains' = [trains EXCEPT ![i] = t] /\ whole' = whole
    BY <1>3 DEF Echoes!OnLine, EchoLine
  <2>3. t \in TrainType
    <3>1. CASE l.kind = "ECHO"
      BY <3>1, <2>1, CountedCloses DEF EchoLine
    <3>2. CASE l.kind = "ECHO_DONE"
      <4>1. l.sent \in Nat /\ l.received \in Nat
        BY <3>2 DEF EchoLine
      <4> QED BY <3>2, <4>1, <2>1 DEF Echoes!Finished, TrainType
    <3> QED BY <1>3, <3>1, <3>2 DEF EchoLine
  <2> HIDE DEF i, t
  <2>4. /\ trains' \in Seq(TrainType) /\ trains' # <<>> /\ Len(trains') = n
        /\ trains'[Len(trains')] = IF i = n THEN t ELSE trains[n]
    BY <2>1, <2>2, <2>3, NewestAfter
  <2>5. CASE ~whole
    <3>1. EchoView = Unseen /\ EchoView' = Unseen /\ ~IsFor(Unseen, l) /\ whole' = FALSE
      BY <2>2, <2>5 DEF EchoView, IsFor, Unseen, EchoTypes
    <3>2. AfterLine(EchoView, l) = Unseen
      BY <3>1, <1>3 DEF AfterLine
    <3> QED BY <3>1, <3>2, <2>4
  <2>6. CASE whole /\ i # n
    <3>1. EchoView' = EchoView
      BY <2>2, <2>4, <2>6 DEF EchoView
    <3>2. ~IsFor(EchoView, l)
      BY <2>1, <2>6 DEF IsFor, EchoView, ViewOf, Echoes!Fitting, EchoTypes
    <3> QED BY <3>1, <3>2, <2>2, <2>4, <1>3 DEF AfterLine, EchoTypes
  <2>7. CASE whole /\ i = n
    <3>1. EchoView = ViewOf(trains[n]) /\ EchoView' = ViewOf(t) /\ IsFor(EchoView, l)
      BY <2>1, <2>2, <2>4, <2>7 DEF EchoView, IsFor, ViewOf
    <3>2. ASSUME l.kind = "ECHO" PROVE ViewOf(t) = Echoed(EchoView, l)
      <4>1. l.status \in Echoes!Statuses /\ l.path = trains[n].path
        BY <3>2, <2>1, <2>7 DEF EchoLine
      <4>2. t = Echoes!Counted(trains[n], l)
        BY <3>2, <2>7 DEF t
      <4>3. Len(t.probes) = Len(trains[n].probes) + 1
            /\ Echoes!Closed(t) =
                 IF Closes(l.path, l.status) THEN Echoes!Closed(trains[n]) + 1 ELSE Echoes!Closed(trains[n])
        BY <4>1, <4>2, <2>1, <2>7, CountedCloses
      <4>4. t.active = trains[n].active /\ t.path = trains[n].path /\ t.count = trains[n].count
            /\ t.sent = trains[n].sent /\ t.received = trains[n].received
        BY <4>2, <2>1, <2>7 DEF Echoes!Counted, TrainType
      <4> QED BY <4>3, <4>4, <3>1 DEF ViewOf, Echoed
    <3>3. ASSUME l.kind # "ECHO" PROVE ViewOf(t) = EndedBy(EchoView, l)
      <4>1. t = Echoes!Finished(trains[n], l)
        BY <3>3, <2>7 DEF t
      <4>2. t.active = FALSE /\ t.path = trains[n].path /\ t.count = trains[n].count
            /\ t.sent = l.sent /\ t.received = l.received /\ t.probes = trains[n].probes
        BY <4>1, <2>1, <2>7 DEF Echoes!Finished, TrainType
      <4>3. Echoes!Closed(t) = Echoes!Closed(trains[n])
        BY <4>2 DEF Echoes!Closed
      <4> QED BY <4>2, <4>3, <3>1 DEF ViewOf, EndedBy
    <3> QED BY <3>1, <3>2, <3>3, <2>2, <2>4, <1>3 DEF AfterLine, EchoTypes
  <2> QED BY <2>5, <2>6, <2>7
<1> QED BY <1>1, <1>2, <1>3

-----------------------------------------------------------------------------
(* The Probe *)

\* Lines are added, and what they lead to fits.
LEMMA EchoesAdded ==
  ASSUME EchoTypes, EchoTypes', NEW ls \in Seq(EchoLine), reports' = reports \o ls, UNCHANGED <<trains, whole>>,
         NEW z \in EchoViews, Leads(EchoView, reports, z), NEW x \in EchoViews, Leads(z, ls, x), Fits(x)'
  PROVE  Followed'
<1>1. EchoView' = EchoView
  BY DEF EchoView
<1>2. Leads(EchoView, reports \o ls, x)
  BY LeadsOn DEF EchoTypes
<1>3. Leads(EchoView', reports', x)
  BY <1>1, <1>2
<1>4. Leads(EchoView, reports, x)' <=> Leads(EchoView', reports', x)
  BY DEF Leads
<1> QED BY <1>3, <1>4 DEF Followed

\* Nothing is added, and what there is goes on to fit.
LEMMA EchoesStay ==
  ASSUME EchoTypes, Followed, UNCHANGED <<reports, trains, whole>>, \A z \in EchoViews : Fits(z) => Fits(z)'
  PROVE  Followed'
<1>1. PICK z \in EchoViews : Leads(EchoView, reports, z) /\ Fits(z)
  BY DEF Followed
<1>2. EchoView' = EchoView
  BY DEF EchoView
<1>3. Leads(EchoView, reports, z)' <=> Leads(EchoView', reports', z)
  BY DEF Leads
<1> QED BY <1>1, <1>2, <1>3 DEF Followed

LEMMA EchoesWaiting ==
  ASSUME EchoTypes
  PROVE  IsFiniteSet(pending) /\ Cardinality(pending) \in Nat
<1>1. IsFiniteSet(1 .. seq)
  BY FS_Interval DEF EchoTypes
<1> QED BY <1>1, FS_Subset, FS_CardinalityType DEF EchoTypes

LEMMA DoneIsWire ==
  ASSUME EchoTypes
  PROVE  Echoes!Done(train) \in EchoLine
BY DEF EchoTypes, Echoes!Done, EchoLine, ProbeTrain

LEMMA EchoStartStep ==
  ASSUME EchoInv, Echoes!EchoAssumption, NEW p \in Echoes!Paths, NEW n \in 1 .. MaxEchoes, Echoes!EchoStart(p, n)
  PROVE  EchoInv'
<1>1. n \in Nat
  BY DEF Echoes!EchoAssumption
<1> DEFINE before == IF train.active THEN <<Echoes!Done(train)>> ELSE <<>>
<1>2. Echoes!Started(p, n) \in EchoLine /\ before \in Seq(EchoLine)
  <2>1. Echoes!Started(p, n) \in EchoLine
    BY <1>1 DEF Echoes!Started, EchoLine
  <2> QED BY <2>1, DoneIsWire DEF EchoInv
<1>3. train' = [active |-> TRUE, path |-> p, total |-> n, sent |-> 0, received |-> 0]
  BY DEF Echoes!EchoStart, Echoes!Idle
<1>4. pending' = {} /\ stopped' = FALSE /\ reports' = (reports \o before) \o <<Echoes!Started(p, n)>>
      /\ UNCHANGED <<seq, acks, trains, whole>>
  BY DEF Echoes!EchoStart, Echoes!wires, Echoes!console
<1> HIDE DEF before
<1>5. reports' = reports \o (before \o <<Echoes!Started(p, n)>>) /\ reports' \in Seq(EchoLine)
  BY <1>2, <1>4 DEF EchoInv, EchoTypes
<1>6. EchoTypes'
  BY <1>1, <1>3, <1>4, <1>5 DEF EchoInv, EchoTypes, ProbeTrain
<1>7. PICK z \in EchoViews : Leads(EchoView, reports, z)
  BY DEF EchoInv, Followed
<1>8. PICK y \in EchoViews : Leads(z, before, y)
  <2>1. CASE train.active
    BY <2>1, DoneIsWire, LeadsOne, AfterTypes DEF before, EchoInv
  <2>2. CASE ~train.active
    BY <2>2, LeadsNone DEF before
  <2> QED BY <2>1, <2>2
<1>9. /\ AfterLine(y, Echoes!Started(p, n)) = StartedBy(Echoes!Started(p, n))
      /\ AfterLine(y, Echoes!Started(p, n)) \in EchoViews
  BY <1>2, AfterTypes DEF AfterLine, Echoes!Started
<1>10. Leads(z, before \o <<Echoes!Started(p, n)>>, AfterLine(y, Echoes!Started(p, n)))
  <2>1. /\ <<Echoes!Started(p, n)>> \in Seq(EchoLine)
        /\ Leads(y, <<Echoes!Started(p, n)>>, AfterLine(y, Echoes!Started(p, n)))
    BY <1>2, LeadsOne
  <2> QED BY <2>1, <1>2, <1>8, LeadsOn
<1>11. Fits(StartedBy(Echoes!Started(p, n)))'
  BY <1>3, <1>4, FS_EmptySet, <1>1 DEF Fits, StartedBy, Echoes!Started
<1>12. before \o <<Echoes!Started(p, n)>> \in Seq(EchoLine)
  BY <1>2
<1>13. Followed'
  BY <1>4, <1>5, <1>6, <1>7, <1>9, <1>10, <1>11, <1>12, EchoesAdded DEF EchoInv
<1> QED BY <1>3, <1>6, <1>13 DEF EchoInv, NoneWaits

LEMMA EchoCancelStep ==
  ASSUME EchoInv, Echoes!EchoCancel
  PROVE  EchoInv'
<1>1. train.active /\ train' = [train EXCEPT !.active = FALSE] /\ stopped' = TRUE
      /\ reports' = reports \o <<Echoes!Done(train)>> /\ UNCHANGED <<pending, seq, acks, trains, whole>>
  BY DEF Echoes!EchoCancel, Echoes!wires, Echoes!console, EchoInv, EchoTypes
<1>2. Echoes!Done(train) \in EchoLine
  BY DoneIsWire DEF EchoInv
<1>3. EchoTypes'
  <2>1. reports' \in Seq(EchoLine)
    BY <1>1, <1>2 DEF EchoInv, EchoTypes
  <2>2. train' \in ProbeTrain
    BY <1>1 DEF EchoInv, EchoTypes, ProbeTrain
  <2> QED BY <1>1, <2>1, <2>2 DEF EchoInv, EchoTypes
<1>4. PICK z \in EchoViews : Leads(EchoView, reports, z) /\ Fits(z)
  BY DEF EchoInv, Followed
<1>5. PICK y \in EchoViews : y = AfterLine(z, Echoes!Done(train)) /\ Leads(z, <<Echoes!Done(train)>>, y)
  BY <1>2, AfterTypes, LeadsOne
<1>6. Fits(y)'
  <2>1. ~train'.active /\ stopped'
    BY <1>1 DEF EchoInv, EchoTypes, ProbeTrain
  <2>2. y.here /\ ~y.active => y.oks = y.received
    BY <1>1, <1>4, <1>5 DEF Fits, AfterLine, IsFor, EndedBy, Echoes!Done
  <2> QED BY <2>1, <2>2 DEF Fits
<1>7. Followed'
  <2>1. <<Echoes!Done(train)>> \in Seq(EchoLine)
    BY <1>2
  <2> QED BY <1>1, <1>3, <1>4, <1>5, <1>6, <2>1, EchoesAdded DEF EchoInv
<1>8. ~train'.active /\ stopped'
  BY <1>1 DEF EchoInv, EchoTypes, ProbeTrain
<1> QED BY <1>3, <1>7, <1>8 DEF EchoInv, NoneWaits

\* Echoes that are given up are as many echoes without an answer.
GivenUpAfter(w, m) ==
  [here |-> w.here, active |-> w.active, path |-> w.path, count |-> w.count, echoes |-> w.echoes + m,
   oks |-> w.oks, sent |-> w.sent, received |-> w.received]
LEMMA SilentIs ==
  ASSUME NEW w \in EchoViews, NEW m \in Nat
  PROVE  GivenUpAfter(w, m) \in EchoViews /\ GivenUpAfter(w, 0) = w
BY DEF GivenUpAfter, EchoViews

Failures(m) == [i \in 1 .. m |-> Echoes!Answer(train.path, "TIMEOUT")]

LEMMA GivenUp ==
  ASSUME EchoTypes, NEW z \in EchoViews, z.here, z.active, z.path = train.path, NEW m \in Nat
  PROVE  Failures(m) \in Seq(EchoLine) /\ Leads(z, Failures(m), GivenUpAfter(z, m))
<1> DEFINE l == Echoes!Answer(train.path, "TIMEOUT")
           ls == [i \in 1 .. m |-> l]
           u == [k \in 0 .. m |-> GivenUpAfter(z, k)]
<1>1. l \in EchoLine
  BY DEF Echoes!Answer, EchoLine, EchoTypes, ProbeTrain, Echoes!Statuses
<1>2. ls \in Seq(EchoLine) /\ Len(ls) = m /\ DOMAIN ls = 1 .. m
  <2> HIDE DEF l
  <2> QED BY <1>1
<1>3. u \in [0 .. Len(ls) -> EchoViews] /\ u[Len(ls)] = GivenUpAfter(z, m) /\ u[0] = z
  <2> HIDE DEF ls
  <2>1. \A k \in 0 .. m : GivenUpAfter(z, k) \in EchoViews
    BY SilentIs
  <2> QED BY <1>2, <2>1, SilentIs
<1>4. ASSUME NEW k \in 1 .. m PROVE u[k] = AfterLine(u[k - 1], ls[k])
  <2>1. u[k] = GivenUpAfter(z, k) /\ u[k - 1] = GivenUpAfter(z, k - 1) /\ ls[k] = l
    OBVIOUS
  <2>2. z.echoes + (k - 1) + 1 = z.echoes + k
    BY DEF EchoViews
  <2>3. AfterLine(GivenUpAfter(z, k - 1), l) = Echoed(GivenUpAfter(z, k - 1), l)
    BY DEF AfterLine, IsFor, Echoes!Answer, GivenUpAfter
  <2>4. Echoed(GivenUpAfter(z, k - 1), l) = GivenUpAfter(z, k)
    BY <2>2 DEF Echoed, Echoes!Answer, GivenUpAfter, Closes
  <2> QED BY <2>1, <2>3, <2>4
<1> HIDE DEF u, ls
<1>5. Leads(z, ls, GivenUpAfter(z, m))
  BY <1>2, <1>3, <1>4 DEF Leads
<1> QED BY <1>2, <1>5 DEF ls, Failures

LEMMA EchoAckStep ==
  ASSUME EchoInv, NEW a \in acks, Echoes!EchoAck(a)
  PROVE  EchoInv'
<1> DEFINE ok == train.path = "LOCAL" \/ a.status = "APPLIED"
           l == Echoes!Answer(train.path, a.status)
<1>1. UNCHANGED <<seq, trains, whole, stopped>> /\ acks' \subseteq acks
  BY DEF Echoes!EchoAck, Echoes!console
<1>2. CASE a.seq \notin pending
  <2>1. UNCHANGED <<pending, reports, train>>
    BY <1>2 DEF Echoes!EchoAck
  <2>2. EchoTypes' /\ NoneWaits'
    BY <1>1, <2>1 DEF EchoInv, EchoTypes, NoneWaits
  <2> QED BY <1>1, <2>1, <2>2, EchoesStay DEF EchoInv, Fits
<1>3. CASE a.seq \in pending
  <2>1. /\ pending' = pending \ {a.seq} /\ reports' = reports \o <<l>>
        /\ train' = [train EXCEPT !.received = IF ok THEN @ + 1 ELSE @]
    <3>1. /\ pending' = pending \ {a.seq} /\ reports' = Append(reports, l)
          /\ train' = [train EXCEPT !.received = IF ok THEN @ + 1 ELSE @]
      BY <1>3 DEF Echoes!EchoAck
    <3>2. reports \in Seq(EchoLine) /\ l \in {l}
      BY DEF EchoInv, EchoTypes
    <3> HIDE DEF l
    <3>3. Append(reports, l) = reports \o <<l>>
      BY <3>2
    <3> QED BY <3>1, <3>3
  <2>2. ok \in BOOLEAN /\ l \in EchoLine /\ (ok <=> Closes(l.path, l.status))
    <3>1. a.status \in {"APPLIED", "REJECTED"} /\ train.path \in Echoes!Paths
      BY DEF EchoInv, EchoTypes, ProbeTrain
    <3> QED BY <3>1 DEF Echoes!Answer, EchoLine, Echoes!Statuses, Echoes!Paths, Closes
  <2> HIDE DEF ok
  <2>3. EchoTypes'
    <3>1. reports' \in Seq(EchoLine)
      BY <2>1, <2>2 DEF EchoInv, EchoTypes
    <3>2. train.received \in Nat /\ train.received + 1 \in Nat /\ train \in ProbeTrain
      BY DEF EchoInv, EchoTypes, ProbeTrain
    <3>3. train' \in ProbeTrain
      BY <2>1, <3>2 DEF ProbeTrain
    <3> QED BY <1>1, <2>1, <3>1, <3>3 DEF EchoInv, EchoTypes
  <2>4. PICK z \in EchoViews : Leads(EchoView, reports, z) /\ Fits(z)
    BY DEF EchoInv, Followed
  <2>5. PICK y \in EchoViews : y = AfterLine(z, l) /\ Leads(z, <<l>>, y)
    BY <2>2, AfterTypes, LeadsOne
  <2>6. Cardinality(pending) = Cardinality(pending') + 1 /\ Cardinality(pending') \in Nat
    <3>1. IsFiniteSet(pending) /\ Cardinality(pending) \in Nat
      BY EchoesWaiting DEF EchoInv
    <3>2. IsFiniteSet(pending \ {a.seq}) /\ Cardinality(pending \ {a.seq}) = Cardinality(pending) - 1
      BY <1>3, <3>1, FS_RemoveElement
    <3>3. Cardinality(pending \ {a.seq}) \in Nat
      BY <3>2, FS_CardinalityType
    <3> QED BY <2>1, <3>1, <3>2, <3>3
  <2>7. train.active <=> train'.active
    BY <2>1 DEF EchoInv, EchoTypes, ProbeTrain
  <2>8. train.active \/ stopped
    BY <1>3 DEF EchoInv, NoneWaits
  <2>9. Fits(y)'
    <3>1. CASE z.here /\ train.active
      <4>1. z.active /\ z.path = train.path /\ z.count = train.total /\ z.oks = train.received
            /\ z.echoes + Cardinality(pending) = train.sent
        BY <2>4, <3>1 DEF Fits
      <4>2. y = Echoed(z, l)
        BY <2>5, <3>1, <4>1 DEF AfterLine, IsFor, Echoes!Answer
      <4>3. /\ train'.path = train.path /\ train'.total = train.total /\ train'.sent = train.sent
            /\ train'.received = IF ok THEN train.received + 1 ELSE train.received
        BY <2>1 DEF EchoInv, EchoTypes, ProbeTrain
      <4>4. z.echoes + 1 + Cardinality(pending') = train'.sent
        <5>1. z.echoes \in Nat
          BY DEF EchoViews
        <5> QED BY <2>6, <4>1, <4>3, <5>1
      <4>5. /\ y.active /\ y.path = train'.path /\ y.count = train'.total
            /\ y.oks = train'.received /\ y.echoes = z.echoes + 1
        BY <2>2, <4>1, <4>2, <4>3 DEF Echoed
      <4> QED BY <2>7, <3>1, <4>4, <4>5 DEF Fits
    <3>2. CASE ~z.here
      <4>1. y = z
        BY <2>5, <3>2 DEF AfterLine, IsFor, Echoes!Answer
      <4> QED BY <3>2, <4>1 DEF Fits
    <3>3. CASE z.here /\ ~train.active
      <4>1. ~train'.active /\ stopped'
        BY <1>1, <2>7, <2>8, <3>3
      <4>2. y.active \/ y = z
        BY <2>5 DEF AfterLine, IsFor, Echoes!Answer, Echoed
      <4>3. ~y.active => y.oks = y.received
        BY <2>4, <3>3, <4>2 DEF Fits
      <4> QED BY <4>1, <4>3 DEF Fits
    <3> QED BY <3>1, <3>2, <3>3
  <2>10. Followed'
    <3>1. <<l>> \in Seq(EchoLine)
      BY <2>2
    <3> QED BY <1>1, <2>1, <2>3, <2>4, <2>5, <2>9, <3>1, EchoesAdded DEF EchoInv
  <2> QED BY <1>1, <2>3, <2>7, <2>8, <2>10 DEF EchoInv, NoneWaits
<1> QED BY <1>2, <1>3

LEMMA EchoesJoined ==
  ASSUME NEW a \in Seq(EchoLine), NEW b \in Seq(EchoLine), NEW c \in Seq(EchoLine)
  PROVE  (a \o b) \o c = a \o (b \o c)
OBVIOUS

\* Without the start of a train, its lines are not heard.
LEMMA Unheard ==
  ASSUME NEW z \in EchoViews, ~z.here, NEW ls \in Seq(EchoLine), \A k \in DOMAIN ls : ls[k].kind # "ECHO_START"
  PROVE  Leads(z, ls, z)
<1> DEFINE u == [k \in 0 .. Len(ls) |-> z]
<1>1. Len(ls) \in Nat /\ DOMAIN ls = 1 .. Len(ls)
  OBVIOUS
<1>2. u \in [0 .. Len(ls) -> EchoViews] /\ u[0] = z /\ u[Len(ls)] = z
  BY <1>1
<1>3. ASSUME NEW k \in DOMAIN ls PROVE u[k] = AfterLine(u[k - 1], ls[k])
  BY <1>1, <1>3 DEF AfterLine, IsFor
<1> HIDE DEF u
<1> QED BY <1>2, <1>3 DEF Leads

LEMMA WaitingAfter ==
  ASSUME EchoTypes, NEW late \in SUBSET pending, NEW sends \in BOOLEAN,
         pending' = (pending \ late) \cup (IF sends THEN {seq + 1} ELSE {})
  PROVE  /\ Cardinality(late) \in Nat /\ Cardinality(pending') \in Nat /\ Cardinality(pending) \in Nat
         /\ Cardinality(pending') + Cardinality(late) = Cardinality(pending) + (IF sends THEN 1 ELSE 0)
<1>1. IsFiniteSet(pending) /\ Cardinality(pending) \in Nat
  BY EchoesWaiting
<1>2. IsFiniteSet(late) /\ Cardinality(late) \in Nat
  BY <1>1, FS_Subset, FS_CardinalityType
<1>3. IsFiniteSet(pending \ late) /\ Cardinality(pending \ late) = Cardinality(pending) - Cardinality(pending \cap late)
  BY <1>1, FS_Difference
<1>4. Cardinality(pending \ late) = Cardinality(pending) - Cardinality(late)
  <2>1. pending \cap late = late
    OBVIOUS
  <2> QED BY <1>3, <2>1
<1>5. Cardinality(pending \ late) \in Nat
  BY <1>3, FS_CardinalityType
<1>6. seq + 1 \notin pending \ late
  BY DEF EchoTypes
<1>7. CASE sends
  <2>1. pending' = (pending \ late) \cup {seq + 1}
    BY <1>7
  <2>2. Cardinality(pending') = Cardinality(pending \ late) + 1
    BY <2>1, <1>3, <1>6, FS_AddElement
  <2> QED BY <1>1, <1>2, <1>4, <1>5, <1>7, <2>2
<1>8. CASE ~sends
  <2>1. Cardinality(pending') = Cardinality(pending \ late)
    BY <1>8
  <2> QED BY <1>1, <1>2, <1>4, <1>5, <1>8, <2>1
<1> QED BY <1>7, <1>8

LEMMA EchoPollStep ==
  ASSUME EchoInv, NEW late \in SUBSET pending, NEW sends \in BOOLEAN, Echoes!EchoPoll(late, sends)
  PROVE  EchoInv'
<1> DEFINE waiting == (pending \ late) \cup (IF sends THEN {seq + 1} ELSE {})
           now == [train EXCEPT !.sent = IF sends THEN @ + 1 ELSE @]
           over == now.sent = now.total /\ waiting = {}
           n == Echoes!Cardinality(late)
           given == [i \in 1 .. n |-> Echoes!Answer(train.path, "TIMEOUT")]
           done == IF over THEN <<Echoes!Done(now)>> ELSE <<>>
<1>1. /\ train.active /\ pending' = waiting /\ train' = [now EXCEPT !.active = ~over]
      /\ seq' = (IF sends THEN seq + 1 ELSE seq) /\ reports' = (reports \o given) \o done
      /\ UNCHANGED <<acks, trains, whole, stopped>>
  BY DEF Echoes!EchoPoll, Echoes!console
<1>2. n \in Nat /\ Cardinality(pending') \in Nat /\ Cardinality(pending) \in Nat
      /\ Cardinality(pending') + n = Cardinality(pending) + (IF sends THEN 1 ELSE 0)
  BY <1>1, WaitingAfter, EchoesAgree DEF EchoInv
<1>3. now \in ProbeTrain /\ now.sent = (IF sends THEN train.sent + 1 ELSE train.sent) /\ now.active
      /\ now.path = train.path /\ now.total = train.total /\ now.received = train.received
  <2> DEFINE e == IF sends THEN train.sent + 1 ELSE train.sent
  <2>1. train \in ProbeTrain /\ e \in Nat /\ now = [train EXCEPT !.sent = e]
    BY DEF EchoInv, EchoTypes, ProbeTrain
  <2> HIDE DEF e, now
  <2>2. now \in ProbeTrain /\ now.sent = e /\ now.active = train.active
        /\ now.path = train.path /\ now.total = train.total /\ now.received = train.received
    BY <2>1 DEF ProbeTrain
  <2> QED BY <1>1, <2>2 DEF e
<1> HIDE DEF now
<1>4. over \in BOOLEAN /\ train' \in ProbeTrain /\ train'.active = ~over /\ train'.path = train.path
      /\ train'.total = train.total /\ train'.received = train.received /\ train'.sent = now.sent
  BY <1>1, <1>3 DEF ProbeTrain
<1>5. given \in Seq(EchoLine) /\ \A k \in DOMAIN given : given[k].kind # "ECHO_START"
  <2> DEFINE a == Echoes!Answer(train.path, "TIMEOUT")
  <2>1. a \in EchoLine /\ a.kind = "ECHO"
    BY DEF Echoes!Answer, EchoLine, EchoInv, EchoTypes, ProbeTrain, Echoes!Statuses
  <2>2. given = [i \in 1 .. n |-> a]
    OBVIOUS
  <2> HIDE DEF n, a, given
  <2> QED BY <1>2, <2>1, <2>2
<1>6. Echoes!Done(now) \in EchoLine /\ Echoes!Done(now).kind = "ECHO_DONE"
  BY <1>3 DEF Echoes!Done, EchoLine, ProbeTrain
<1>7. done \in Seq(EchoLine) /\ \A k \in DOMAIN done : done[k].kind # "ECHO_START"
  <2> HIDE DEF over
  <2> QED BY <1>6
<1> DEFINE ls == given \o done
<1> HIDE DEF given, done
<1>8. ls \in Seq(EchoLine) /\ reports' = reports \o ls /\ \A k \in DOMAIN ls : ls[k].kind # "ECHO_START"
  <2>1. ls \in Seq(EchoLine)
    BY <1>5, <1>7
  <2>2. reports' = reports \o ls
    <3>1. reports \in Seq(EchoLine)
      BY DEF EchoInv, EchoTypes
    <3> QED BY <1>1, <1>5, <1>7, <3>1, EchoesJoined
  <2>3. \A k \in DOMAIN ls : ls[k].kind # "ECHO_START"
    BY <1>5, <1>7
  <2> QED BY <2>1, <2>2, <2>3
<1>9. EchoTypes'
  <2>1. reports' \in Seq(EchoLine)
    BY <1>8 DEF EchoInv, EchoTypes
  <2>2. seq' \in Nat /\ pending' \subseteq 1 .. seq'
    BY <1>1 DEF EchoInv, EchoTypes
  <2> QED BY <1>1, <1>4, <2>1, <2>2 DEF EchoInv, EchoTypes
<1>10. PICK z \in EchoViews : Leads(EchoView, reports, z) /\ Fits(z)
  BY DEF EchoInv, Followed
<1>11. CASE ~z.here
  <2>1. Leads(z, ls, z)
    BY <1>8, <1>11, Unheard
  <2>2. Fits(z)'
    BY <1>11 DEF Fits
  <2>3. Followed'
    BY <1>1, <1>8, <1>9, <1>10, <2>1, <2>2, EchoesAdded DEF EchoInv
  <2>4. NoneWaits'
    BY <1>1, <1>4 DEF NoneWaits
  <2> QED BY <1>9, <2>3, <2>4 DEF EchoInv
<1>12. CASE z.here
  <2>1. z.active /\ z.path = train.path /\ z.count = train.total /\ z.oks = train.received
        /\ z.echoes + Cardinality(pending) = train.sent /\ z.echoes \in Nat
    BY <1>1, <1>10, <1>12 DEF Fits, EchoViews
  <2>2. Leads(z, given, GivenUpAfter(z, n)) /\ GivenUpAfter(z, n) \in EchoViews
    BY <1>2, <1>12, <2>1, GivenUp, SilentIs DEF given, Failures, EchoInv
  <2>3. PICK x \in EchoViews : x = GivenUpAfter(z, n) /\ Leads(z, given, x)
    BY <2>2
  <2>4. x.here /\ x.active /\ x.path = train.path /\ x.count = train.total /\ x.oks = train.received
        /\ x.echoes + Cardinality(pending') = now.sent /\ x.echoes \in Nat /\ train.sent \in Nat
    <3>1. x.echoes = z.echoes + n /\ train.sent \in Nat
      BY <2>3 DEF GivenUpAfter, EchoInv, EchoTypes, ProbeTrain
    <3>2. z.echoes + n + Cardinality(pending') = now.sent
      BY <1>2, <1>3, <2>1, <3>1
    <3> QED BY <1>2, <1>12, <2>1, <2>3, <3>1, <3>2 DEF GivenUpAfter
  <2>5. CASE over
    <3>1. done = <<Echoes!Done(now)>>
      BY <2>5 DEF done
    <3>2. PICK y \in EchoViews : y = AfterLine(x, Echoes!Done(now)) /\ Leads(x, done, y)
      BY <1>6, <3>1, AfterTypes, LeadsOne
    <3>3. Leads(z, ls, y)
      BY <1>5, <1>7, <2>3, <3>2, LeadsOn
    <3>4. Cardinality(pending') = 0 /\ pending' = {} /\ now.sent = now.total
      BY <1>1, <2>5, FS_EmptySet
    <3>5. y.here /\ ~y.active /\ y.count = train.total /\ y.oks = train.received /\ y.received = train.received
          /\ y.echoes = x.echoes /\ y.sent = now.sent
      BY <1>3, <2>4, <3>2 DEF AfterLine, IsFor, EndedBy, Echoes!Done
    <3>6. Fits(y)'
      BY <1>3, <1>4, <2>4, <2>5, <3>4, <3>5 DEF Fits
    <3>7. Followed'
      BY <1>1, <1>8, <1>9, <1>10, <3>3, <3>6, EchoesAdded DEF EchoInv
    <3> QED BY <1>9, <3>4, <3>7 DEF EchoInv, NoneWaits
  <2>6. CASE ~over
    <3>1. done = <<>>
      BY <2>6 DEF done
    <3>2. Leads(z, ls, x)
      BY <1>5, <1>7, <2>3, <3>1, LeadsNone, LeadsOn
    <3>3. Fits(x)'
      BY <1>4, <2>4, <2>6 DEF Fits
    <3>4. Followed'
      BY <1>1, <1>8, <1>9, <1>10, <3>2, <3>3, EchoesAdded DEF EchoInv
    <3> QED BY <1>4, <1>9, <2>6, <3>4 DEF EchoInv, NoneWaits
  <2> QED BY <2>5, <2>6
<1> QED BY <1>11, <1>12

-----------------------------------------------------------------------------
(* What is not of the Probe alone *)

\* From now on the newest train is not heard of.
LEMMA EchoesLost ==
  ASSUME EchoTypes', whole' = FALSE, NEW z, NEW w, Leads(w, reports', z),
         \A x \in EchoViews : x = z \/ ~x.here => Fits(x)'
  PROVE  Followed'
<1>1. PICK x \in EchoViews : Leads(Unseen, reports', x) /\ (x = z \/ ~x.here)
  BY LeadsAnyway DEF EchoTypes
<1>2. EchoView' = Unseen
  BY DEF EchoView
<1>3. Leads(EchoView, reports, x)' <=> Leads(EchoView', reports', x)
  BY DEF Leads
<1> QED BY <1>1, <1>2, <1>3 DEF Followed

LEMMA ProbeRestartStep ==
  ASSUME EchoInv, Echoes!ProbeRestart
  PROVE  EchoInv'
<1>1. train' = Echoes!Idle /\ pending' = {} /\ seq' = 0 /\ stopped' = TRUE /\ whole' = FALSE
      /\ UNCHANGED <<acks, reports, trains>>
  BY DEF Echoes!ProbeRestart, Echoes!wires
<1>2. EchoTypes'
  BY <1>1 DEF EchoInv, EchoTypes, Echoes!Idle, ProbeTrain, Echoes!Paths
<1>3. PICK z \in EchoViews : Leads(EchoView, reports, z) /\ Fits(z)
  BY DEF EchoInv, Followed
<1>4. ~train'.active
  BY <1>1 DEF Echoes!Idle
<1>5. ASSUME NEW x \in EchoViews, x = z \/ ~x.here PROVE Fits(x)'
  BY <1>1, <1>3, <1>4, <1>5 DEF Fits
<1>6. Followed'
  BY <1>1, <1>2, <1>3, <1>5, EchoesLost
<1> QED BY <1>1, <1>2, <1>6 DEF EchoInv, NoneWaits

LEMMA LoseLineStep ==
  ASSUME EchoInv, Echoes!LoseLine
  PROVE  EchoInv'
<1>1. reports # <<>> /\ reports' = Tail(reports) /\ whole' = FALSE
      /\ UNCHANGED <<train, pending, seq, acks, trains, stopped>>
  BY DEF Echoes!LoseLine, Echoes!probe, Echoes!wires
<1>2. reports' \in Seq(EchoLine)
  BY <1>1 DEF EchoInv, EchoTypes
<1>3. EchoTypes' /\ NoneWaits'
  BY <1>1, <1>2 DEF EchoInv, EchoTypes, NoneWaits
<1>4. PICK z \in EchoViews : Leads(EchoView, reports, z) /\ Fits(z)
  BY DEF EchoInv, Followed
<1>5. PICK w : Leads(w, reports', z)
  BY <1>1, <1>4, LeadsTail DEF EchoInv, EchoTypes
<1>6. ASSUME NEW x \in EchoViews, x = z \/ ~x.here PROVE Fits(x)'
  BY <1>1, <1>4, <1>6 DEF Fits
<1>7. Followed'
  BY <1>1, <1>3, <1>5, <1>6, EchoesLost
<1> QED BY <1>3, <1>7 DEF EchoInv

LEMMA ReconnectStep ==
  ASSUME EchoInv, Echoes!ConnectionOpened
  PROVE  EchoInv'
<1>1. reports' = <<>> /\ trains' = <<>> /\ whole' = FALSE /\ UNCHANGED <<train, pending, seq, acks, stopped>>
  BY DEF Echoes!ConnectionOpened, Echoes!probe, Echoes!wires
<1>2. EchoTypes' /\ NoneWaits'
  <2>1. <<>> \in Seq(EchoLine) /\ <<>> \in Seq(TrainType)
    OBVIOUS
  <2>2. reports' \in Seq(EchoLine) /\ trains' \in Seq(TrainType)
    BY <1>1, <2>1
  <2>3. EchoTypes'
    BY <1>1, <2>2 DEF EchoInv, EchoTypes
  <2> QED BY <1>1, <2>3 DEF EchoInv, NoneWaits
<1>3. Unseen \in EchoViews /\ ~Unseen.here
  BY DEF Unseen, EchoViews, Echoes!Paths
<1>4. Leads(Unseen, reports', Unseen)
  BY <1>1, <1>3, LeadsNone
<1>5. ASSUME NEW x \in EchoViews, x = Unseen \/ ~x.here PROVE Fits(x)'
  BY <1>3, <1>5 DEF Fits
<1>6. Followed'
  BY <1>1, <1>2, <1>4, <1>5, EchoesLost
<1> QED BY <1>2, <1>6 DEF EchoInv

LEMMA EchoReceiveStep ==
  ASSUME EchoInv, Echoes!EchoAssumption, Echoes!Receive
  PROVE  EchoInv'
<1>1. reports # <<>> /\ Echoes!OnLine(Head(reports)) /\ reports' = Tail(reports)
      /\ UNCHANGED <<train, pending, seq, acks, stopped>>
  BY DEF Echoes!Receive, Echoes!probe, Echoes!wires
<1>2. Head(reports) \in EchoLine /\ reports' \in Seq(EchoLine) /\ reports \in Seq(EchoLine)
  BY <1>1 DEF EchoInv, EchoTypes
<1>3. /\ trains' \in Seq(TrainType) /\ whole' \in BOOLEAN /\ (whole' => trains' # <<>>)
      /\ EchoView' = AfterLine(EchoView, Head(reports))
  BY <1>1, <1>2, ReceiveView DEF EchoInv
<1>4. EchoTypes' /\ NoneWaits'
  BY <1>1, <1>2, <1>3 DEF EchoInv, EchoTypes, NoneWaits
<1>5. PICK z \in EchoViews : Leads(EchoView, reports, z) /\ Fits(z)
  BY DEF EchoInv, Followed
<1>6. Leads(EchoView', reports', z)
  BY <1>1, <1>2, <1>3, <1>5, LeadsTail
<1>7. Leads(EchoView, reports, z)' <=> Leads(EchoView', reports', z)
  BY DEF Leads
<1>8. Fits(z)'
  BY <1>1, <1>5 DEF Fits
<1>9. Followed'
  BY <1>6, <1>7, <1>8 DEF Followed
<1> QED BY <1>4, <1>9 DEF EchoInv

\* The module, the bus and a step that changes nothing.
LEMMA ElsewhereStep ==
  ASSUME EchoInv, UNCHANGED <<train, pending, seq, reports, trains, whole, stopped>>, \A a \in acks' : a.status \in {"APPLIED", "REJECTED"}
  PROVE  EchoInv'
<1>1. EchoTypes' /\ NoneWaits'
  BY DEF EchoInv, EchoTypes, NoneWaits
<1>2. \A z \in EchoViews : Fits(z) => Fits(z)'
  BY DEF Fits
<1>3. Followed'
  BY <1>2, EchoesStay DEF EchoInv
<1> QED BY <1>1, <1>3 DEF EchoInv

ModuleSteps ==
  \/ Echoes!SessionChanges \/ Echoes!LoseFrame
  \/ (\E f \in frames, leaves \in BOOLEAN : Echoes!HandleEcho(f, leaves))
  \/ (\E status \in {"APPLIED", "REJECTED"} : Echoes!HandlePong(status))

LEMMA ModuleStep ==
  ASSUME EchoInv, ModuleSteps
  PROVE  EchoInv'
<1>1. UNCHANGED <<train, pending, seq, reports, trains, whole, stopped>>
  BY DEF ModuleSteps, Echoes!SessionChanges, Echoes!LoseFrame, Echoes!HandleEcho, Echoes!HandlePong,
         Echoes!probe, Echoes!console
<1>2. \A a \in acks' : a.status \in {"APPLIED", "REJECTED"}
  <2>1. \A a \in acks : a.status \in {"APPLIED", "REJECTED"}
    BY DEF EchoInv, EchoTypes
  <2>2. CASE Echoes!SessionChanges
    BY <2>1, <2>2 DEF Echoes!SessionChanges, Echoes!wires
  <2>3. CASE Echoes!LoseFrame
    BY <2>1, <2>3 DEF Echoes!LoseFrame
  <2>4. ASSUME NEW f \in frames, NEW leaves \in BOOLEAN, Echoes!HandleEcho(f, leaves)
        PROVE  \A a \in acks' : a.status \in {"APPLIED", "REJECTED"}
    <3>1. PICK b \in {"APPLIED", "REJECTED"} : acks' = acks \/ acks' = acks \cup {[seq |-> f.seq, status |-> b]}
      BY <2>4 DEF Echoes!HandleEcho
    <3> QED BY <2>1, <3>1
  <2>5. ASSUME NEW status \in {"APPLIED", "REJECTED"}, Echoes!HandlePong(status)
        PROVE  \A a \in acks' : a.status \in {"APPLIED", "REJECTED"}
    <3>1. acks' = acks \cup {[seq |-> pinged, status |-> status]}
      BY <2>5 DEF Echoes!HandlePong
    <3> QED BY <2>1, <3>1
  <2> QED BY <2>2, <2>3, <2>4, <2>5 DEF ModuleSteps
<1> QED BY <1>1, <1>2, ElsewhereStep

LEMMA EchoInvInit ==
  Echoes!Init => EchoInv
<1> SUFFICES ASSUME Echoes!Init PROVE EchoInv
  OBVIOUS
<1>1. <<>> \in Seq(EchoLine) /\ <<>> \in Seq(TrainType)
  OBVIOUS
<1>2. EchoTypes
  BY <1>1 DEF Echoes!Init, EchoTypes, Echoes!Idle, ProbeTrain, Echoes!Paths
<1>3. Unseen \in EchoViews /\ ~Unseen.here /\ EchoView = Unseen
  BY DEF Echoes!Init, EchoView, Unseen, EchoViews, Echoes!Paths
<1>4. Leads(EchoView, reports, Unseen)
  BY <1>3, LeadsNone DEF Echoes!Init
<1>5. Followed
  BY <1>3, <1>4 DEF Followed, Fits
<1> QED BY <1>2, <1>5 DEF EchoInv, NoneWaits, Echoes!Init

LEMMA EchoInvNext ==
  ASSUME Echoes!EchoAssumption, EchoInv, [Echoes!Next]_Echoes!vars
  PROVE  EchoInv'
<1>1. CASE Echoes!Probe
  BY <1>1, EchoStartStep, EchoCancelStep, EchoPollStep, EchoAckStep, ProbeRestartStep DEF Echoes!Probe
<1>2. CASE Echoes!Receive
  BY <1>2, EchoReceiveStep
<1>3. CASE Echoes!LoseLine
  BY <1>3, LoseLineStep
<1>4. CASE Echoes!ConnectionOpened
  BY <1>4, ReconnectStep
<1>5. CASE ModuleSteps
  BY <1>5, ModuleStep
<1>6. CASE UNCHANGED Echoes!vars
  <2>1. UNCHANGED <<train, pending, seq, reports, trains, whole, stopped, acks>>
    BY <1>6 DEF Echoes!vars, Echoes!probe, Echoes!wires, Echoes!console
  <2> QED BY <2>1, ElsewhereStep DEF EchoInv, EchoTypes
<1> QED BY <1>1, <1>2, <1>3, <1>4, <1>5, <1>6 DEF Echoes!Next, ModuleSteps

-----------------------------------------------------------------------------
(* What the screen shows *)

\* The greatest of the indexes that a set has.
LEMMA LastOfPath ==
  ASSUME trains # <<>>, trains \in Seq(TrainType)
  PROVE  Echoes!LatestTrain(trains[Len(trains)].path) = trains[Len(trains)]
<1> DEFINE p == trains[Len(trains)].path
           i == CHOOSE i \in Echoes!TrainsOf(p) : \A j \in Echoes!TrainsOf(p) : j <= i
<1>1. Len(trains) \in Echoes!TrainsOf(p) /\ \A j \in Echoes!TrainsOf(p) : j \in Nat /\ j <= Len(trains)
  BY DEF Echoes!TrainsOf
<1>2. \E k \in Echoes!TrainsOf(p) : \A j \in Echoes!TrainsOf(p) : j <= k
  BY <1>1
<1>3. i \in Echoes!TrainsOf(p) /\ \A j \in Echoes!TrainsOf(p) : j <= i
  BY <1>2
<1>4. i = Len(trains)
  <2>1. Len(trains) <= i /\ i <= Len(trains) /\ i \in Nat /\ Len(trains) \in Nat
    BY <1>1, <1>3
  <2> QED BY <2>1
<1> QED BY <1>4 DEF Echoes!LatestTrain

\* On the way to the sensor only the answers with a time count.
LEMMA SensorAnswers ==
  ASSUME NEW t \in TrainType, t.path = "SENSOR"
  PROVE  Echoes!Answered(t) = Echoes!Closed(t)
<1>1. {i \in DOMAIN t.probes : t.probes[i] = "APPLIED"} = ClosedOnes(t)
  BY DEF ClosedOnes, Closes
<1> QED BY <1>1, ClosedIs, EchoesAgree DEF Echoes!Answered

LEMMA ClosedAtMost ==
  ASSUME NEW t \in TrainType
  PROVE  Echoes!Closed(t) \in Nat /\ Echoes!Closed(t) <= Len(t.probes)
<1>1. DOMAIN t.probes = 1 .. Len(t.probes) /\ Len(t.probes) \in Nat
  BY DEF TrainType
<1>2. IsFiniteSet(1 .. Len(t.probes)) /\ Cardinality(1 .. Len(t.probes)) = Len(t.probes)
  <2> DEFINE n == Len(t.probes)
  <2>1. n \in Nat
    BY <1>1
  <2> HIDE DEF n
  <2>2. IsFiniteSet(1 .. n) /\ Cardinality(1 .. n) = n
    BY <2>1, FS_Interval
  <2> QED BY <2>2 DEF n
<1>3. Cardinality(ClosedOnes(t)) <= Len(t.probes)
  <2>1. ClosedOnes(t) \subseteq 1 .. Len(t.probes)
    BY <1>1 DEF ClosedOnes
  <2> QED BY <1>2, <2>1, FS_Subset
<1> QED BY <1>3, ClosedIs, ClosedCounts

LEMMA EchoInvTells ==
  EchoInv => Echoes!TrainIsWhole
<1> SUFFICES ASSUME EchoInv, whole, reports = <<>>
             PROVE  LET t == trains[Len(trains)]
                    IN  /\ ~t.active => Echoes!Received(t) = Echoes!Closed(t)
                        /\ t.path = "SENSOR" => Echoes!Received(t) = Echoes!Answered(t)
                        /\ (~train.active /\ ~stopped) =>
                             /\ ~t.active /\ t.sent = t.count /\ Len(t.probes) = t.sent
                             /\ Echoes!Lost(t) = Len(t.probes) - Echoes!Closed(t)
  BY LastOfPath DEF Echoes!TrainIsWhole, EchoInv, EchoTypes
<1> DEFINE t == trains[Len(trains)]
<1>1. t \in TrainType
  BY DEF EchoInv, EchoTypes
<1>2. EchoView = ViewOf(t)
  BY DEF EchoView
<1> HIDE DEF t
<1>3. PICK z \in EchoViews : Leads(EchoView, reports, z) /\ Fits(z)
  BY DEF EchoInv, Followed
<1>4. z = ViewOf(t)
  BY <1>2, <1>3 DEF Leads
<1>5. z.here /\ z.active = t.active /\ z.oks = Echoes!Closed(t) /\ z.received = t.received /\ z.sent = t.sent
      /\ z.count = t.count /\ z.echoes = Len(t.probes)
  BY <1>4 DEF ViewOf
<1>6. ~t.active => Echoes!Received(t) = Echoes!Closed(t)
  BY <1>3, <1>5 DEF Fits, Echoes!Received
<1>7. t.path = "SENSOR" => Echoes!Received(t) = Echoes!Answered(t)
  BY <1>1, <1>6, SensorAnswers DEF Echoes!Received
<1>8. (~train.active /\ ~stopped) => ~t.active /\ t.sent = t.count /\ Len(t.probes) = t.sent
  BY <1>3, <1>5 DEF Fits
<1>9. (~train.active /\ ~stopped) => Echoes!Lost(t) = Len(t.probes) - Echoes!Closed(t)
  <2> SUFFICES ASSUME ~train.active, ~stopped
               PROVE  Echoes!Lost(t) = Len(t.probes) - Echoes!Closed(t)
    OBVIOUS
  <2>1. Echoes!Sent(t) = Len(t.probes) /\ Echoes!Received(t) = Echoes!Closed(t) /\ Len(t.probes) \in Nat
    BY <1>1, <1>6, <1>8 DEF Echoes!Sent, TrainType
  <2> QED BY <1>1, <2>1, ClosedAtMost DEF Echoes!Lost
<1> QED BY <1>6, <1>7, <1>8, <1>9 DEF t

\* When every line of the newest train arrived, it is shown with the answers of
\* its echoes once it ended: all that did not time out, or for the way to the
\* sensor those with a time; and unless the train was cut short with every echo
\* of it, the lost ones among them (wireless_link.cpp, research/service.py).
THEOREM TrainsAreWhole ==
  ASSUME Echoes!EchoAssumption
  PROVE  Echoes!Spec => []Echoes!TrainIsWhole
<1>1. Echoes!Init => EchoInv
  BY EchoInvInit
<1>2. EchoInv /\ [Echoes!Next]_Echoes!vars => EchoInv'
  BY EchoInvNext
<1>3. EchoInv => Echoes!TrainIsWhole
  BY EchoInvTells
<1> QED BY <1>1, <1>2, <1>3, PTL DEF Echoes!Spec

-----------------------------------------------------------------------------
(* The stages of a data channel. No stage is later than the last line, so a
   report of the link that came last prevails over all of them; and the line of
   an outage leaves the access point failed, which no report of the link undoes. *)

StageStates == {"pending", "done", "failed"}
StageType == [state : StageStates, at : Nat]
LinkStates == {"NONE", "SECURE", "HANDSHAKE", "SLEEPING", "OFFERING"}
StepKinds ==
  {"AP_UP", "AP_DOWN", "AP_ERROR", "OFFER", "OFFER_ERROR", "STATION_JOIN", "STATION_LEAVE", "HELLO_OK",
   "HANDSHAKE_TIMEOUT", "SESSION_UP", "SESSION_DOWN"}
ChannelLines ==
  [kind : StepKinds] \cup [kind : {"HELLO_REJECT"}, reason : Channel!Reasons] \cup [kind : {"LINK"}, state : LinkStates]

\* Stages none of which is later than at; that of the binding is done.
StagesUntil(s, at) == s \in [Channel!Keys -> StageType] /\ (\A k \in Channel!Keys : s[k].at <= at)
  /\ s["bind"].state = "done"
\* What the console has of the channel.
ChannelKept(c) ==
  /\ c \in [told : [Channel!Keys -> StageType], link : [state : LinkStates, at : Nat], at : Nat]
  /\ StagesUntil(c.told, c.at)

LEMMA StageKeysAre == Channel!Keys = {"bind", "ap", "offer", "station", "hello", "session", "telemetry"}
<1>1. 1 .. 7 = {1, 2, 3, 4, 5, 6, 7}
  OBVIOUS
<1>2. /\ Channel!Stages[1] = "bind" /\ Channel!Stages[2] = "ap" /\ Channel!Stages[3] = "offer"
           /\ Channel!Stages[4] = "station"
      /\ Channel!Stages[5] = "hello" /\ Channel!Stages[6] = "session" /\ Channel!Stages[7] = "telemetry"
  BY DEF Channel!Stages
<1>3. Channel!Keys = {Channel!Stages[1], Channel!Stages[2], Channel!Stages[3], Channel!Stages[4], Channel!Stages[5],
      Channel!Stages[6], Channel!Stages[7]}
  BY <1>1 DEF Channel!Keys
<1> QED BY <1>2, <1>3

LEMMA MarkKeeps ==
  ASSUME NEW at \in Nat, NEW s, StagesUntil(s, at), NEW k \in Channel!Keys \ {"bind"}, NEW state \in StageStates
  PROVE  StagesUntil(Channel!Mark(s, k, state, at), at)
BY StageKeysAre DEF StagesUntil, Channel!Mark, StageType

LEMMA ResetKeeps ==
  ASSUME NEW at \in Nat, NEW s, StagesUntil(s, at), NEW ks, "bind" \notin ks
  PROVE  StagesUntil(Channel!Reset(s, ks), at)
BY StageKeysAre DEF StagesUntil, Channel!Reset, Channel!Blank, StageType, StageStates

LEMMA ReachedKeeps ==
  ASSUME NEW at \in Nat, NEW s, StagesUntil(s, at)
  PROVE  StagesUntil(Channel!Reached(s, at), at)
BY StageKeysAre DEF StagesUntil, Channel!Reached, StageType, StageStates

LEMMA StepKeeps ==
  ASSUME NEW at \in Nat, NEW s, StagesUntil(s, at), NEW e \in ChannelLines, e.kind # "LINK"
  PROVE  StagesUntil(Channel!Step(s, e, at), at)
<1> USE DEF StageStates
<1>1. "bind" \notin Channel!Later /\ {"ap", "offer", "station", "hello", "session"} \subseteq Channel!Keys \ {"bind"}
  BY StageKeysAre DEF Channel!Later
<1>2. CASE e.kind \in {"AP_DOWN", "AP_ERROR"}
  <2>1. Channel!Step(s, e, at) = Channel!Mark(Channel!Reset(s, Channel!Later), "ap", "failed", at)
    BY <1>2 DEF Channel!Step
  <2> QED BY <1>1, <2>1, ResetKeeps, MarkKeeps
<1>3. CASE e.kind = "HELLO_OK"
  <2>1. Channel!Step(s, e, at) = Channel!Reset(Channel!Mark(Channel!Reached(s, at), "hello", "done", at), {"session"})
    BY <1>3 DEF Channel!Step
  <2> QED BY <1>1, <2>1, ReachedKeeps, MarkKeeps, ResetKeeps
<1>4. CASE e.kind = "HELLO_REJECT"
  <2>1. PICK r : /\ r = s \/ r = Channel!Reached(s, at)
                 /\ Channel!Step(s, e, at) \in {s, r, Channel!Mark(r, "hello", "failed", at)}
    BY <1>4 DEF Channel!Step
  <2> QED BY <1>1, <2>1, ReachedKeeps, MarkKeeps
<1>5. CASE e.kind = "SESSION_UP"
  <2>1. PICK r : /\ r \in {Channel!Reached(s, at), Channel!Mark(Channel!Reached(s, at), "hello", "done", at)}
                 /\ Channel!Step(s, e, at) = Channel!Mark(r, "session", "done", at)
    BY <1>5 DEF Channel!Step
  <2>2. StagesUntil(r, at)
    BY <1>1, <2>1, ReachedKeeps, MarkKeeps
  <2> QED BY <1>1, <2>1, <2>2, MarkKeeps
<1>6. CASE e.kind \in {"AP_UP", "OFFER", "OFFER_ERROR"}
  <2>1. Channel!Step(s, e, at) \in {Channel!Mark(s, "ap", "done", at), Channel!Mark(s, "offer", "done", at),
        Channel!Mark(s, "offer", "failed", at)}
    BY <1>6 DEF Channel!Step
  <2> QED BY <1>1, <2>1, MarkKeeps
<1>7. CASE e.kind \in {"STATION_JOIN", "HANDSHAKE_TIMEOUT"}
  <2>1. Channel!Step(s, e, at) \in {s, Channel!Mark(s, "station", "done", at), Channel!Mark(s, "session", "failed", at)}
    BY <1>7 DEF Channel!Step
  <2> QED BY <1>1, <2>1, MarkKeeps
<1>8. CASE e.kind \in {"STATION_LEAVE", "SESSION_DOWN"}
  <2>1. Channel!Step(s, e, at) \in {s, Channel!Reset(s, {"station", "hello"}), Channel!Reset(s, Channel!Later)}
    BY <1>8 DEF Channel!Step
  <2> QED BY <1>1, <2>1, ResetKeeps
<1> QED BY <1>2, <1>3, <1>4, <1>5, <1>6, <1>7, <1>8 DEF ChannelLines, StepKinds

LEMMA TakenKeeps ==
  ASSUME NEW c, ChannelKept(c), NEW es, NEW heard, NEW k, k \in heard => es[k] \in ChannelLines
  PROVE  /\ ChannelKept(Channel!Taken(c, es, heard, k))
         /\ k \notin heard => Channel!Taken(c, es, heard, k) = c
<1>1. CASE k \notin heard
  BY <1>1 DEF Channel!Taken
<1>2. CASE k \in heard
  <2> DEFINE e == es[k]
             at == c.at + 1
  <2>1. e \in ChannelLines /\ Channel!Taken(c, es, heard, k) = Channel!Heard(c, e) /\ at \in Nat /\ c.at \in Nat
    BY <1>2 DEF Channel!Taken, ChannelKept
  <2> HIDE DEF e
  <2>2. c.told \in [Channel!Keys -> StageType] /\ c.link \in [state : LinkStates, at : Nat] /\ StagesUntil(c.told, at)
    <3>1. \A i \in Channel!Keys : c.told[i].at \in Nat
      BY DEF ChannelKept, StageType
    <3> QED BY <2>1, <3>1 DEF ChannelKept, StagesUntil
  <2>3. CASE e.kind = "LINK"
    <3>1. e.state \in LinkStates
      BY <2>1, <2>3 DEF ChannelLines, StepKinds
    <3>2. Channel!Heard(c, e) = [told |-> c.told, link |-> [state |-> e.state, at |-> at], at |-> at]
      BY <2>3 DEF Channel!Heard
    <3> QED BY <1>2, <2>1, <2>2, <2>3, <3>1, <3>2 DEF ChannelKept, e
  <2>4. CASE e.kind # "LINK"
    <3>1. Channel!Heard(c, e) = [told |-> Channel!Step(c.told, e, at), link |-> c.link, at |-> at]
      BY <2>4 DEF Channel!Heard
    <3>2. StagesUntil(Channel!Step(c.told, e, at), at)
      BY <2>1, <2>2, <2>4, StepKeeps
    <3>3. Channel!Step(c.told, e, at) \in [Channel!Keys -> StageType]
      BY <3>2 DEF StagesUntil
    <3> QED BY <1>2, <2>1, <2>2, <2>4, <3>1, <3>2, <3>3 DEF ChannelKept, e
  <2> QED BY <2>3, <2>4
<1> QED BY <1>1, <1>2

-----------------------------------------------------------------------------
(* Lines that are sent *)

\* What the console has now.
ChannelHeld == [told |-> told, link |-> link, at |-> arrived]

LEMMA LinesKeep ==
  ASSUME ChannelKept(ChannelHeld), NEW es \in Seq(ChannelLines), Len(es) \in 1 .. 3, Channel!Lines(es)
  PROVE  /\ ChannelKept(ChannelHeld)'
         /\ fresh' => /\ link' = [state |-> es[Len(es)].state, at |-> arrived']
                      /\ es[Len(es)].kind = "LINK" /\ \A k \in Channel!Keys : told'[k].at < arrived'
         /\ unbroken' => unbroken /\ IF es[Len(es)].kind # "LINK"
                                 THEN \E s, at : told' = Channel!Step(s, es[Len(es)], at)
                                   /\ s \in [Channel!Keys -> StageType]
                                 ELSE Len(es) = 1 => told' = told
         /\ fresh' \in BOOLEAN /\ (unbroken \in BOOLEAN => unbroken' \in BOOLEAN) /\ UNCHANGED <<panel, reading>>
<1>1. PICK heard \in SUBSET DOMAIN es :
        LET first == Channel!Taken(ChannelHeld, es, heard, 1)
            c == Channel!Taken(Channel!Taken(first, es, heard, 2), es, heard, 3)
        IN /\ told' = c.told /\ link' = c.link /\ arrived' = c.at
           /\ fresh' = (es[Len(es)].kind = "LINK" /\ Len(es) \in heard)
           /\ unbroken' = (unbroken /\ heard = DOMAIN es)
           /\ UNCHANGED <<panel, reading>>
  BY DEF Channel!Lines, ChannelHeld
<1> DEFINE c1 == Channel!Taken(ChannelHeld, es, heard, 1)
           c2 == Channel!Taken(c1, es, heard, 2)
           c3 == Channel!Taken(c2, es, heard, 3)
           n == Len(es)
<1>2. \A k \in heard : k \in 1 .. n /\ es[k] \in ChannelLines
  OBVIOUS
<1>3. \A k \in 1 .. 3 : k \in heard => es[k] \in ChannelLines
  BY <1>2
<1>4. ChannelKept(c1)
  <2>1. 1 \in heard => es[1] \in ChannelLines
    BY <1>3
  <2> QED BY <2>1, TakenKeeps
<1> HIDE DEF c1
<1>5. ChannelKept(c2)
  <2>1. 2 \in heard => es[2] \in ChannelLines
    BY <1>3
  <2> QED BY <1>4, <2>1, TakenKeeps
<1> HIDE DEF c2
<1>6. ChannelKept(c3)
  <2>1. 3 \in heard => es[3] \in ChannelLines
    BY <1>3
  <2> QED BY <1>5, <2>1, TakenKeeps
<1> HIDE DEF c3
<1>7. told' = c3.told /\ link' = c3.link /\ arrived' = c3.at
  BY <1>1 DEF c1, c2, c3
<1>8. ChannelKept(ChannelHeld)'
  <2>1. c3 = [told |-> c3.told, link |-> c3.link, at |-> c3.at]
    BY <1>6 DEF ChannelKept
  <2>2. ChannelHeld' = c3
    BY <1>7, <2>1 DEF ChannelHeld
  <2> QED BY <1>6, <2>2
\* The state before the last of the lines sent, and that after it.
<1>9. PICK b, a : /\ ChannelKept(b) /\ a = Channel!Taken(b, es, heard, n) /\ a = c3
                  /\ n = 1 => b = ChannelHeld
  <2>1. CASE n = 1
    <3>1. 2 \notin heard /\ 3 \notin heard
      BY <1>2, <2>1
    <3>2. c2 = c1 /\ c3 = c2
      BY <3>1 DEF Channel!Taken, c2, c3
    <3> QED BY <2>1, <3>2 DEF c1
  <2>2. CASE n = 2
    <3>1. 3 \notin heard
      BY <1>2, <2>2
    <3>2. c3 = c2
      BY <3>1 DEF Channel!Taken, c3
    <3> QED BY <1>4, <2>2, <3>2 DEF c2
  <2>3. CASE n = 3
    BY <1>5, <2>3 DEF c3
  <2> QED BY <2>1, <2>2, <2>3
<1>10. es[n] \in ChannelLines /\ n \in DOMAIN es
  <2>1. n \in 1 .. n /\ DOMAIN es = 1 .. n
    OBVIOUS
  <2> QED BY <2>1
<1> HIDE DEF n
<1>11. n \in heard /\ es[n].kind = "LINK" =>
         a.at = b.at + 1 /\ a.told = b.told /\ a.link = [state |-> es[n].state, at |-> b.at + 1]
  BY <1>9 DEF Channel!Taken, Channel!Heard
<1>12. n \in heard /\ es[n].kind # "LINK" => a.told = Channel!Step(b.told, es[n], b.at + 1)
  BY <1>9 DEF Channel!Taken, Channel!Heard
<1>13. b.at \in Nat /\ b.told \in [Channel!Keys -> StageType] /\ \A k \in Channel!Keys : b.told[k].at <= b.at
       /\ b.told[k].at \in Nat
  BY <1>9 DEF ChannelKept, StagesUntil, StageType
<1>14. fresh' => /\ link' = [state |-> es[n].state, at |-> arrived']
                 /\ es[n].kind = "LINK" /\ \A k \in Channel!Keys : told'[k].at < arrived'
  <2> SUFFICES ASSUME fresh' PROVE /\ link' = [state |-> es[n].state, at |-> arrived']
                                   /\ es[n].kind = "LINK" /\ \A k \in Channel!Keys : told'[k].at < arrived'
    OBVIOUS
  <2>1. es[n].kind = "LINK" /\ n \in heard
    BY <1>1 DEF n
  <2>2. arrived' = b.at + 1 /\ told' = b.told /\ link' = [state |-> es[n].state, at |-> b.at + 1]
    BY <1>7, <1>9, <1>11, <2>1
  <2>3. \A k \in Channel!Keys : told'[k].at < arrived'
    BY <1>13, <2>2
  <2> QED BY <2>1, <2>2, <2>3
<1>15. unbroken' => unbroken /\ n \in heard
  BY <1>1, <1>10 DEF n
<1>16. unbroken' => IF es[n].kind # "LINK" THEN \E s, at : told' = Channel!Step(s, es[n], at)
       /\ s \in [Channel!Keys -> StageType]
                                        ELSE n = 1 => told' = told
  BY <1>7, <1>9, <1>11, <1>12, <1>13, <1>15 DEF ChannelHeld
<1>17. fresh' \in BOOLEAN /\ (unbroken \in BOOLEAN => unbroken' \in BOOLEAN) /\ UNCHANGED <<panel, reading>>
  BY <1>1
<1> QED BY <1>8, <1>14, <1>15, <1>16, <1>17 DEF n

-----------------------------------------------------------------------------
(* The module *)

ChannelFlags == authentic \in BOOLEAN /\ awaiting \in BOOLEAN /\ asleep \in BOOLEAN /\ fresh \in BOOLEAN
  /\ unbroken \in BOOLEAN
FreshReport == fresh => /\ link = [state |-> Channel!LinkState(awaiting, authentic, asleep), at |-> arrived]
                  /\ \A k \in Channel!Keys : told[k].at < arrived
\* Without its access point the module has neither a station nor a session.
WithoutAccessPoint ==
  /\ ap # "on" => station = FALSE /\ awaiting = FALSE /\ authentic = FALSE
  /\ unbroken /\ ap = "off" => told["ap"].state = "failed"
ChannelInv == ChannelKept(ChannelHeld) /\ ChannelFlags /\ FreshReport /\ WithoutAccessPoint

LEMMA OneChannelLine ==
  ASSUME NEW e \in ChannelLines
  PROVE  /\ <<e>> \in Seq(ChannelLines) /\ Len(<<e>>) = 1 /\ Len(<<e>>) \in 1 .. 3 /\ <<e>>[1] = e
OBVIOUS

LEMMA ManyChannelLines ==
  ASSUME NEW d \in ChannelLines, NEW e \in ChannelLines, NEW f \in ChannelLines
  PROVE  /\ <<d, e>> \in Seq(ChannelLines) /\ Len(<<d, e>>) = 2 /\ Len(<<d, e>>) \in 1 .. 3 /\ <<d, e>>[2] = e
         /\ <<d, e, f>> \in Seq(ChannelLines) /\ Len(<<d, e, f>>) = 3 /\ Len(<<d, e, f>>) \in 1 .. 3
         /\ <<d, e, f>>[3] = f
OBVIOUS

LEMMA ChannelLinesAre ==
  /\ \A k \in StepKinds : Channel!E(k) \in ChannelLines /\ Channel!E(k).kind = k
  /\ \A p, s, z \in BOOLEAN :
        /\ Channel!Report(p, s, z) \in ChannelLines /\ Channel!Report(p, s, z).kind = "LINK"
        /\ Channel!Report(p, s, z).state = Channel!LinkState(p, s, z)
  /\ \A r \in Channel!Reasons : [kind |-> "HELLO_REJECT", reason |-> r] \in ChannelLines
BY DEF Channel!E, Channel!Report, Channel!LinkState, ChannelLines, StepKinds, LinkStates

\* One line, after which there is no report.
LEMMA TellsStep ==
  ASSUME ChannelInv, NEW e \in ChannelLines, e.kind # "LINK", Channel!Lines(<<e>>), authentic' \in BOOLEAN,
         awaiting' \in BOOLEAN,
         asleep' \in BOOLEAN, ap' # "on" => station' = FALSE /\ awaiting' = FALSE /\ authentic' = FALSE,
         ap' = "off" => e.kind = "AP_ERROR"
  PROVE  ChannelInv'
<1>1. /\ ChannelKept(ChannelHeld)' /\ (fresh' => e.kind = "LINK") /\ fresh' \in BOOLEAN /\ unbroken' \in BOOLEAN
      /\ unbroken' => \E s, at : told' = Channel!Step(s, e, at) /\ s \in [Channel!Keys -> StageType]
  BY OneChannelLine, LinesKeep DEF ChannelInv, ChannelFlags
<1>2. ASSUME NEW s \in [Channel!Keys -> StageType], NEW at, e.kind = "AP_ERROR"
      PROVE Channel!Step(s, e, at)["ap"].state = "failed"
  BY <1>2, StageKeysAre DEF Channel!Step, Channel!Mark, Channel!Reset
<1> QED BY <1>1, <1>2 DEF ChannelInv, ChannelFlags, FreshReport, WithoutAccessPoint

\* A line and a report of the link.
LEMMA ReportsStep ==
  ASSUME ChannelInv, NEW es \in Seq(ChannelLines), Len(es) \in 1 .. 3, Channel!Lines(es),
         authentic' \in BOOLEAN, awaiting' \in BOOLEAN, asleep' \in BOOLEAN,
         es[Len(es)].state = Channel!LinkState(awaiting, authentic, asleep)',
         ap' # "on" => station' = FALSE /\ awaiting' = FALSE /\ authentic' = FALSE,
         ap' = "off" => ap = "off" /\ Len(es) = 1 /\ es[1].kind = "LINK"
  PROVE  ChannelInv'
<1>1. /\ ChannelKept(ChannelHeld)' /\ fresh' \in BOOLEAN /\ unbroken' \in BOOLEAN
      /\ fresh' => /\ link' = [state |-> es[Len(es)].state, at |-> arrived']
                   /\ \A k \in Channel!Keys : told'[k].at < arrived'
      /\ unbroken' => unbroken /\ (es[Len(es)].kind = "LINK" /\ Len(es) = 1 => told' = told)
  BY LinesKeep DEF ChannelInv, ChannelFlags
<1> QED BY <1>1 DEF ChannelInv, ChannelFlags, FreshReport, WithoutAccessPoint

\* Steps with one line, and no report of the link.
LEMMA AccessPointSteps ==
  ASSUME ChannelInv, Channel!StartAccessPoint \/ Channel!AccessPointError
  PROVE  ChannelInv'
<1> USE ChannelLinesAre DEF StepKinds
<1>1. CASE Channel!StartAccessPoint
  <2>1. Channel!Lines(<<Channel!E("AP_UP")>>) /\ ap' = "on" /\ UNCHANGED <<authentic, awaiting, asleep>>
    BY <1>1 DEF Channel!StartAccessPoint
  <2> QED BY <2>1, TellsStep DEF ChannelInv, ChannelFlags
<1>2. CASE Channel!AccessPointError
  <2>1. Channel!Lines(<<Channel!E("AP_ERROR")>>) /\ UNCHANGED <<ap, station, authentic, awaiting, asleep>>
    BY <1>2 DEF Channel!AccessPointError, Channel!module
  <2> QED BY <2>1, TellsStep DEF ChannelInv, ChannelFlags, WithoutAccessPoint
<1> QED BY <1>1, <1>2

LEMMA OutageStep ==
  ASSUME ChannelInv, Channel!AccessPointOutage
  PROVE  ChannelInv'
<1>1. /\ ap' = "off" /\ station' = FALSE /\ awaiting' = FALSE /\ authentic' = FALSE /\ asleep' = asleep
      /\ Channel!Lines(IF authentic THEN <<Channel!E("SESSION_DOWN"), Channel!Report(FALSE, FALSE, asleep),
           Channel!E("AP_DOWN")>> ELSE <<Channel!E("AP_DOWN")>>)
  BY DEF Channel!AccessPointOutage
<1>2. PICK es \in Seq(ChannelLines) : Channel!Lines(es) /\ Len(es) \in 1 .. 3 /\ es[Len(es)] = Channel!E("AP_DOWN")
  <2>1. Channel!E("SESSION_DOWN") \in ChannelLines /\ Channel!E("AP_DOWN") \in ChannelLines
        /\ Channel!Report(FALSE, FALSE, asleep) \in ChannelLines
    BY ChannelLinesAre DEF StepKinds, ChannelInv, ChannelFlags
  <2>2. CASE authentic
    <3> DEFINE es == <<Channel!E("SESSION_DOWN"), Channel!Report(FALSE, FALSE, asleep), Channel!E("AP_DOWN")>>
    <3>1. es \in Seq(ChannelLines) /\ Len(es) = 3 /\ Len(es) \in 1 .. 3 /\ es[3] = Channel!E("AP_DOWN")
      BY <2>1, ManyChannelLines
    <3>2. Channel!Lines(es)
      BY <1>1, <2>2
    <3> HIDE DEF es
    <3> QED BY <3>1, <3>2
  <2>3. CASE ~authentic
    BY <1>1, <2>1, <2>3, OneChannelLine
  <2> QED BY <2>2, <2>3
<1>3. Channel!E("AP_DOWN").kind = "AP_DOWN"
  BY DEF Channel!E
<1>4. /\ ChannelKept(ChannelHeld)' /\ ~fresh' /\ fresh' \in BOOLEAN /\ unbroken' \in BOOLEAN
      /\ unbroken' => \E s, at : told' = Channel!Step(s, Channel!E("AP_DOWN"), at) /\ s \in [Channel!Keys -> StageType]
  BY <1>2, <1>3, LinesKeep DEF ChannelInv, ChannelFlags
<1>5. ASSUME NEW s \in [Channel!Keys -> StageType], NEW at
      PROVE Channel!Step(s, Channel!E("AP_DOWN"), at)["ap"].state = "failed"
  BY <1>3, StageKeysAre DEF Channel!Step, Channel!Mark, Channel!Reset
<1> QED BY <1>1, <1>4, <1>5 DEF ChannelInv, ChannelFlags, FreshReport, WithoutAccessPoint

LEMMA OfferStationSteps ==
  ASSUME ChannelInv, Channel!Offer \/ Channel!OfferError \/ Channel!StationJoin \/ Channel!StationLeave
  PROVE  ChannelInv'
<1> USE ChannelLinesAre DEF StepKinds
<1>1. CASE Channel!Offer
  <2>1. Channel!Lines(<<Channel!E("OFFER")>>) /\ ap = "on" /\ UNCHANGED <<ap, authentic, awaiting, asleep>>
    BY <1>1 DEF Channel!Offer
  <2> QED BY <2>1, TellsStep DEF ChannelInv, ChannelFlags
<1>2. CASE Channel!OfferError
  <2>1. Channel!Lines(<<Channel!E("OFFER_ERROR")>>) /\ ap = "on" /\ UNCHANGED <<ap, authentic, awaiting, asleep>>
    BY <1>2 DEF Channel!OfferError, Channel!module
  <2> QED BY <2>1, TellsStep DEF ChannelInv, ChannelFlags
<1>3. CASE Channel!StationJoin
  <2>1. Channel!Lines(<<Channel!E("STATION_JOIN")>>) /\ ap = "on" /\ UNCHANGED <<ap, authentic, awaiting, asleep>>
    BY <1>3 DEF Channel!StationJoin
  <2> QED BY <2>1, TellsStep DEF ChannelInv, ChannelFlags
<1>4. CASE Channel!StationLeave
  <2>1. Channel!Lines(<<Channel!E("STATION_LEAVE")>>) /\ station /\ UNCHANGED <<ap, authentic, awaiting, asleep>>
    BY <1>4 DEF Channel!StationLeave
  <2>2. ap = "on"
    BY <2>1 DEF ChannelInv, WithoutAccessPoint
  <2> QED BY <2>1, <2>2, TellsStep DEF ChannelInv, ChannelFlags
<1> QED BY <1>1, <1>2, <1>3, <1>4

LEMMA RejectStep ==
  ASSUME ChannelInv, NEW r \in Channel!Reasons, Channel!HelloReject(r)
  PROVE  ChannelInv'
<1>1. Channel!Lines(<<[kind |-> "HELLO_REJECT", reason |-> r]>>) /\ station
      /\ UNCHANGED <<ap, authentic, awaiting, asleep>>
  BY DEF Channel!HelloReject, Channel!module
<1>2. ap = "on"
  BY <1>1 DEF ChannelInv, WithoutAccessPoint
<1> QED BY <1>1, <1>2, ChannelLinesAre, TellsStep DEF ChannelInv, ChannelFlags

\* A line, and a report of the link with it.
LEMMA SessionSteps ==
  ASSUME ChannelInv, Channel!Hello \/ Channel!HandshakeTimeout \/ Channel!SessionUp
  PROVE  ChannelInv'
<1>1. PICK k \in StepKinds, p \in BOOLEAN, s \in BOOLEAN, z \in BOOLEAN :
        /\ Channel!Lines(<<Channel!E(k), Channel!Report(p, s, z)>>)
             /\ Channel!LinkState(p, s, z) = Channel!LinkState(awaiting, authentic, asleep)'
        /\ awaiting' \in BOOLEAN /\ authentic' \in BOOLEAN /\ asleep' \in BOOLEAN
  <2> USE DEF StepKinds
  <2>1. authentic \in BOOLEAN /\ awaiting \in BOOLEAN /\ asleep \in BOOLEAN
    BY DEF ChannelInv, ChannelFlags
  <2>2. CASE Channel!Hello
    <3>1. Channel!Lines(<<Channel!E("HELLO_OK"), Channel!Report(TRUE, authentic, FALSE)>>) /\ awaiting' = TRUE
          /\ UNCHANGED <<authentic, asleep>>
      BY <2>2 DEF Channel!Hello
    <3>2. Channel!LinkState(TRUE, authentic, FALSE) = Channel!LinkState(awaiting, authentic, asleep)'
      BY <3>1 DEF Channel!LinkState
    <3> QED BY <2>1, <3>1, <3>2
  <2>3. CASE Channel!HandshakeTimeout
    <3>1. Channel!Lines(<<Channel!E("HANDSHAKE_TIMEOUT"), Channel!Report(FALSE, authentic, asleep)>>) /\ awaiting' = FALSE
          /\ UNCHANGED <<authentic, asleep>>
      BY <2>3 DEF Channel!HandshakeTimeout
    <3>2. Channel!LinkState(FALSE, authentic, asleep) = Channel!LinkState(awaiting, authentic, asleep)'
      BY <3>1 DEF Channel!LinkState
    <3> QED BY <2>1, <3>1, <3>2
  <2>4. CASE Channel!SessionUp
    <3>1. Channel!Lines(<<Channel!E("SESSION_UP"), Channel!Report(FALSE, TRUE, FALSE)>>) /\ awaiting' = FALSE
          /\ authentic' = TRUE /\ asleep' = FALSE
      BY <2>4 DEF Channel!SessionUp
    <3>2. Channel!LinkState(FALSE, TRUE, FALSE) = Channel!LinkState(awaiting, authentic, asleep)'
      BY <3>1 DEF Channel!LinkState
    <3> QED BY <3>1, <3>2
  <2> QED BY <2>2, <2>3, <2>4
<1>2. ap = "on" /\ ap' = "on"
  BY DEF ChannelInv, WithoutAccessPoint, Channel!Hello, Channel!HandshakeTimeout, Channel!SessionUp
<1>3. Channel!E(k) \in ChannelLines /\ Channel!Report(p, s, z) \in ChannelLines
      /\ Channel!Report(p, s, z).state = Channel!LinkState(p, s, z)
  BY ChannelLinesAre
<1> QED BY <1>1, <1>2, <1>3, ManyChannelLines, ReportsStep

LEMMA DownStep ==
  ASSUME ChannelInv, NEW sleeps \in BOOLEAN, Channel!SessionDown(sleeps)
  PROVE  ChannelInv'
<1>1. /\ Channel!Lines(<<Channel!E("SESSION_DOWN"), Channel!Report(awaiting, FALSE, sleeps)>>) /\ authentic
           /\ authentic' = FALSE /\ asleep' = sleeps
      /\ UNCHANGED <<ap, awaiting>>
  BY DEF Channel!SessionDown
<1>2. ap = "on"
  BY <1>1 DEF ChannelInv, WithoutAccessPoint
<1>3. awaiting \in BOOLEAN /\ Channel!LinkState(awaiting, FALSE, sleeps) = Channel!LinkState(awaiting, authentic, asleep)'
  BY <1>1 DEF ChannelInv, ChannelFlags, Channel!LinkState
<1>4. Channel!E("SESSION_DOWN") \in ChannelLines /\ Channel!Report(awaiting, FALSE, sleeps) \in ChannelLines
      /\ Channel!Report(awaiting, FALSE, sleeps).state = Channel!LinkState(awaiting, FALSE, sleeps)
  BY <1>3, ChannelLinesAre DEF StepKinds
<1> QED BY <1>1, <1>2, <1>3, <1>4, ManyChannelLines, ReportsStep

LEMMA ReportedStep ==
  ASSUME ChannelInv, Channel!Reported
  PROVE  ChannelInv'
<1>1. Channel!Lines(<<Channel!Report(awaiting, authentic, asleep)>>)
      /\ UNCHANGED <<ap, station, authentic, awaiting, asleep>>
  BY DEF Channel!Reported, Channel!module
<1>2. /\ Channel!Report(awaiting, authentic, asleep) \in ChannelLines
           /\ Channel!Report(awaiting, authentic, asleep).kind = "LINK"
      /\ Channel!Report(awaiting, authentic, asleep).state = Channel!LinkState(awaiting, authentic, asleep)
  BY ChannelLinesAre DEF ChannelInv, ChannelFlags
<1>3. Channel!LinkState(awaiting, authentic, asleep)' = Channel!LinkState(awaiting, authentic, asleep)
  BY <1>1 DEF Channel!LinkState
<1> QED BY <1>1, <1>2, <1>3, OneChannelLine, ReportsStep DEF ChannelInv, ChannelFlags, WithoutAccessPoint

LEMMA ReadingStep ==
  ASSUME ChannelInv, Channel!Reading
  PROVE  ChannelInv'
<1>1. arrived' = arrived + 1 /\ fresh' = FALSE /\ UNCHANGED <<ap, station, authentic, awaiting, asleep, told, link,
      unbroken>>
  BY DEF Channel!Reading, Channel!module
<1>2. arrived \in Nat /\ told \in [Channel!Keys -> StageType] /\ link \in [state : LinkStates, at : Nat]
      /\ StagesUntil(told, arrived)
  BY DEF ChannelInv, ChannelKept, ChannelHeld
<1>3. StagesUntil(told, arrived + 1)
  <2>1. \A k \in Channel!Keys : told[k].at \in Nat
    BY <1>2 DEF StageType
  <2> QED BY <1>2, <2>1 DEF StagesUntil
<1>4. ChannelHeld' = [told |-> told, link |-> link, at |-> arrived + 1]
  BY <1>1 DEF ChannelHeld
<1>5. ChannelKept(ChannelHeld)'
  <2>1. ChannelKept([told |-> told, link |-> link, at |-> arrived + 1])
    BY <1>2, <1>3 DEF ChannelKept
  <2> QED BY <1>4, <2>1
<1> QED BY <1>1, <1>5 DEF ChannelInv, ChannelFlags, FreshReport, WithoutAccessPoint

LEMMA ChannelInvInit == Channel!Init => ChannelInv
<1> SUFFICES ASSUME Channel!Init PROVE ChannelInv
  OBVIOUS
<1>1. told \in [Channel!Keys -> StageType] /\ StagesUntil(told, 0)
  BY StageKeysAre DEF Channel!Init, StagesUntil, StageType, StageStates, Channel!Blank
<1>2. ChannelKept(ChannelHeld)
  BY <1>1 DEF Channel!Init, ChannelKept, ChannelHeld, LinkStates, Channel!Never
<1> QED BY <1>2 DEF ChannelInv, Channel!Init, ChannelFlags, FreshReport, WithoutAccessPoint

LEMMA ChannelInvNext ==
  ASSUME ChannelInv, [Channel!Next]_Channel!vars
  PROVE  ChannelInv'
<1>1. CASE Channel!Next
  BY <1>1, AccessPointSteps, OutageStep, OfferStationSteps, RejectStep, SessionSteps, DownStep, ReportedStep,
     ReadingStep DEF Channel!Next
<1>2. CASE UNCHANGED Channel!vars
  BY <1>2 DEF Channel!vars, Channel!module, ChannelInv, ChannelHeld, ChannelFlags, FreshReport, WithoutAccessPoint,
     Channel!LinkState, ChannelKept
<1> QED BY <1>1, <1>2

-----------------------------------------------------------------------------
(* What is shown *)

LEMMA ChannelInvTells == ChannelInv => Channel!TellsStage
<1> SUFFICES ASSUME ChannelInv PROVE Channel!TellsStage
  OBVIOUS
<1>1. told \in [Channel!Keys -> StageType] /\ link \in [state : LinkStates, at : Nat] /\ StagesUntil(told, arrived)
  BY DEF ChannelInv, ChannelKept, ChannelHeld
<1> DEFINE d == Channel!Deduced(told)
           o == Channel!Overruled(d)
<1>2. Channel!Shown = Channel!Read(o)
  BY <1>1 DEF Channel!Shown, LinkStates
<1>3. {"session", "ap", "bind"} \subseteq Channel!Keys /\ d \in [Channel!Keys -> StageType]
  BY <1>1, StageKeysAre DEF Channel!Deduced, StageType, StageStates
<1>4. o \in [Channel!Keys -> StageType] /\ \A k \in Channel!Keys \ {"session", "telemetry"} : o[k] = d[k]
  BY <1>3 DEF Channel!Overruled, Channel!Reset, Channel!Blank, StageType, StageStates
<1>5. \A k \in Channel!Keys \ {"telemetry"} : Channel!Shown[k] = o[k]
  BY <1>2, <1>4 DEF Channel!Read, Channel!Mark
<1>6. fresh => (Channel!Done(Channel!Shown, "session") <=> authentic)
  <2> SUFFICES ASSUME fresh PROVE Channel!Done(Channel!Shown, "session") <=> authentic
    OBVIOUS
  <2>1. link = [state |-> Channel!LinkState(awaiting, authentic, asleep), at |-> arrived] /\ told["session"].at < arrived
        /\ arrived \in Nat /\ told["session"].at \in Nat
    BY <1>1, <1>3 DEF ChannelInv, FreshReport, ChannelKept, ChannelHeld, StageType
  <2>2. CASE authentic
    <3>1. link.state = "SECURE"
      BY <2>1, <2>2 DEF Channel!LinkState
    <3>2. Channel!Done(d, "session")
      BY <1>1, <1>3, <2>1, <3>1 DEF Channel!Deduced, Channel!Implied, Channel!Done, StageType
    <3>3. o = d
      BY <3>1 DEF Channel!Overruled
    <3> QED BY <1>3, <1>5, <2>2, <3>2, <3>3 DEF Channel!Done
  <2>3. CASE ~authentic
    <3>1. link.state # "SECURE" /\ link.at = arrived
      BY <2>1, <2>3 DEF Channel!LinkState
    <3>2. d["session"] = told["session"]
      BY <1>1, <1>3, <3>1 DEF Channel!Deduced, Channel!Implied
    <3>3. o["session"].state # "done"
      BY <1>3, <2>1, <3>1, <3>2 DEF Channel!Overruled, Channel!Reset, Channel!Blank, Channel!Done
    <3> QED BY <1>3, <1>5, <2>3, <3>3 DEF Channel!Done
  <2> QED BY <2>2, <2>3
<1>7. unbroken /\ ap = "off" => Channel!Current = "ap"
  <2> SUFFICES ASSUME unbroken, ap = "off" PROVE Channel!Current = "ap"
    OBVIOUS
  <2>1. told["ap"].state = "failed" /\ told["bind"].state = "done"
    BY <1>1 DEF ChannelInv, WithoutAccessPoint, StagesUntil
  <2>2. d["ap"] = told["ap"] /\ d["bind"] = told["bind"]
    BY <1>1, <1>3, <2>1 DEF Channel!Deduced, Channel!Implied, Channel!Done
  <2>3. ~Channel!Done(Channel!Shown, "ap") /\ Channel!Done(Channel!Shown, "bind")
    BY <1>3, <1>4, <1>5, <2>1, <2>2 DEF Channel!Done
  <2>4. 1 \notin Channel!Open /\ 2 \in Channel!Open /\ Channel!Stages[2] = "ap"
    BY <2>3 DEF Channel!Open, Channel!Stages
  <2>5. \A j \in Channel!Open : j \in Nat /\ 2 <= j
    BY <2>4 DEF Channel!Open
  <2>6. (CHOOSE k \in Channel!Open : \A j \in Channel!Open : k <= j) = 2
    <3> DEFINE c == CHOOSE k \in Channel!Open : \A j \in Channel!Open : k <= j
    <3>1. c \in Channel!Open /\ \A j \in Channel!Open : c <= j
      BY <2>4, <2>5
    <3>2. c <= 2 /\ 2 <= c /\ c \in Nat
      BY <2>4, <2>5, <3>1
    <3> QED BY <3>2
  <2> QED BY <2>4, <2>6 DEF Channel!Current
<1> QED BY <1>6, <1>7 DEF Channel!TellsStage

\* The screen shows a session as authenticated if and only if there is one, once
\* a report of the link has come after what happened last; and a module without
\* its access point is shown as such when no line was lost.
THEOREM StageIsTold == Channel!Spec => []Channel!TellsStage
BY ChannelInvInit, ChannelInvNext, ChannelInvTells, PTL DEF Channel!Spec

-----------------------------------------------------------------------------
(* The measures of the network. Each sensor a run knows by name stands for one
   of its own that is silent for as long: not always the one that has the name,
   for the console guesses which name a new one goes on with. A name that was
   heard not long ago is still a sensor's, and what is known of a sensor's name
   is when that was heard last.                                               *)

RunParts == {"state", "at", "number", "quiet", "truth"}
Running(r) == RunParts \subseteq DOMAIN r /\ r.state = "RUNNING"
\* A run goes on, and its samples are the same.
GoesOn(q, r) == DOMAIN q = DOMAIN r /\ q.state = r.state /\ q.at = r.at

SensorsAre(R, c) ==
  /\ DOMAIN R = Sensors /\ c \in Int
  /\ \A s \in Sensors : {"id", "next", "at"} \subseteq DOMAIN R[s] /\ R[s].at \in Int /\ R[s].at <= c
  /\ \A s, t \in Sensors : R[s].id = R[t].id => s = t
HeardOf(R, c, m) ==
  /\ \A s \in Sensors : R[s].id \in DOMAIN m => m[R[s].id] = R[s].at
  /\ \A i \in DOMAIN m : m[i] \in Int /\ m[i] <= c /\ (c - m[i] < Handover => \E s \in Sensors : R[s].id = i)
\* Each name stands for a sensor of its own that is silent for as long.
StandsFor(f, R, m) ==
  /\ f \in [DOMAIN m -> Sensors]
  /\ \A i \in DOMAIN m : R[f[i]].at <= m[i]
  /\ \A i, j \in DOMAIN m : f[i] = f[j] => i = j
Matched(R, m) == \E f : StandsFor(f, R, m)

Recorded == {"leader", "beat", "link", "at", "number"} \subseteq DOMAIN rec /\ HeardOf(real, moment, rec.at)
RunIs(r, R, c) == r # Measures!NoRun => Running(r) /\ HeardOf(R, c, r.at) /\ Matched(R, r.at)
Truthful(r) == Measures!Cardinality(r.quiet) <= r.truth
Histories(h) == \E S : h \in Seq(S) /\ \A r \in S : Truthful(r)
SilenceInv == SensorsAre(real, moment) /\ Recorded /\ RunIs(run, real, moment) /\ Histories(past)

LEMMA NoRunIsNotRunning == ASSUME NEW r, Running(r) PROVE r # Measures!NoRun
BY DEF Running, Measures!NoRun

LEMMA GoesOnStill == ASSUME NEW q, NEW r, GoesOn(q, r), NEW p, GoesOn(p, q) PROVE GoesOn(p, r)
BY DEF GoesOn

LEMMA MeasuresGoOn ==
  ASSUME NEW r, Running(r), NEW key, NEW x
  PROVE  /\ GoesOn(r, r) /\ GoesOn(Measures!First(r, key), r) /\ GoesOn(Measures!Most(r, key, x), r)
         /\ GoesOn(Measures!Plus(r, key, x), r)
         /\ \A p \in BOOLEAN : GoesOn(Measures!FirstIf(p, r, key), r)
BY DEF GoesOn, Running, RunParts, Measures!First, Measures!Most, Measures!Plus, Measures!FirstIf

LEMMA OnIsRunning == ASSUME NEW q, NEW r, GoesOn(q, r), Running(r) PROVE Running(q)
BY DEF GoesOn, Running, RunParts

\* The instance counts as this module does.
LEMMA MeasuresAgree == \A S : Measures!Cardinality(S) = Cardinality(S) /\ (Measures!IsFiniteSet(S) <=> IsFiniteSet(S))
BY DEF Measures!Cardinality, Cardinality, Measures!IsFiniteSet, IsFiniteSet

LEMMA PairsAreFinite == ASSUME NEW a, NEW b PROVE Measures!IsFiniteSet({a, b})
<1>1. IsFiniteSet({a} \cup {b})
  BY FS_Singleton, FS_AddElement
<1>2. {a, b} = {a} \cup {b}
  OBVIOUS
<1> QED BY <1>1, <1>2, MeasuresAgree

-----------------------------------------------------------------------------
(* A run that ends *)

LEMMA EndedIsTruthful ==
  ASSUME Measures!MeasuresAssumption, SensorsAre(real, moment), NEW r, Running(r), Matched(real, r.at),
         HeardOf(real, moment, r.at), NEW state
  PROVE  Truthful(Measures!Ended(r, state))
<1> DEFINE late == {i \in DOMAIN r.at : moment - r.at[i] > NotResumed}
           silent == {s \in Sensors : moment - real[s].at > NotResumed}
<1>1. Measures!Ended(r, state).quiet = late /\ Measures!Ended(r, state).truth = Measures!Cardinality(silent)
  BY DEF Measures!Ended, Running, RunParts, Measures!Most
<1>2. IsFiniteSet(silent)
  <2>1. silent \subseteq Sensors /\ IsFiniteSet(Sensors)
    BY MeasuresAgree DEF Measures!MeasuresAssumption
  <2> QED BY <2>1, FS_Subset
<1>3. PICK f : StandsFor(f, real, r.at)
  BY DEF Matched
<1>4. [i \in late |-> f[i]] \in Injection(late, silent)
  <2>1. ASSUME NEW i \in late PROVE f[i] \in silent
    <3>1. /\ i \in DOMAIN r.at /\ f[i] \in Sensors /\ real[f[i]].at <= r.at[i] /\ r.at[i] \in Int
          /\ moment - r.at[i] > NotResumed
      BY <1>3 DEF StandsFor, HeardOf
    <3>2. real[f[i]].at \in Int /\ moment \in Int /\ NotResumed \in Int
      BY <3>1 DEF SensorsAre, Measures!MeasuresAssumption
    <3>3. moment - real[f[i]].at > NotResumed
      BY <3>1, <3>2
    <3> QED BY <3>1, <3>3
  <2>2. \A i, j \in late : f[i] = f[j] => i = j
    BY <1>3 DEF StandsFor
  <2> QED BY <2>1, <2>2 DEF Injection, IsInjective
<1>5. Cardinality(late) <= Cardinality(silent)
  BY <1>2, <1>4, FS_Injection
<1> QED BY <1>1, <1>5, MeasuresAgree DEF Truthful

LEMMA KeptIsTruthful ==
  ASSUME Measures!MeasuresAssumption, Histories(past), NEW r, Truthful(r)
  PROVE  Histories(Measures!Kept(r))
<1>1. PICK S : past \in Seq(S) /\ \A x \in S : Truthful(x)
  BY DEF Histories
<1> DEFINE T == S \cup {r}
           h == <<r>> \o past
           n == IF Len(past) < RunHistory THEN Len(past) + 1 ELSE RunHistory
<1>2. past \in Seq(T) /\ <<r>> \in Seq(T)
  BY <1>1
<1>3. h \in Seq(T) /\ Len(h) = Len(past) + 1 /\ Len(past) \in Nat
  BY <1>2
<1>4. n \in 0 .. Len(h)
  BY <1>3 DEF Measures!MeasuresAssumption
<1>5. SubSeq(h, 1, n) \in Seq(T)
  <2> HIDE DEF h, n
  <2> QED BY <1>3, <1>4
<1>6. Measures!Kept(r) = SubSeq(h, 1, n)
  BY DEF Measures!Kept
<1>7. \A x \in T : Truthful(x)
  BY <1>1
<1> QED BY <1>5, <1>6, <1>7 DEF Histories

LEMMA EndedIsKept ==
  ASSUME Measures!MeasuresAssumption, SilenceInv, run # Measures!NoRun, NEW state
  PROVE  Histories(Measures!Kept(Measures!Ended(run, state)))
BY EndedIsTruthful, KeptIsTruthful DEF SilenceInv, RunIs

-----------------------------------------------------------------------------
(* A run that begins *)

LEMMA HeardByName ==
  ASSUME NEW R, NEW c, SensorsAre(R, c), NEW m, HeardOf(R, c, m), NEW D, D \subseteq DOMAIN m,
         \A i \in D : c - m[i] < Handover
  PROVE  \E h \in [D -> Sensors] : \A i \in D : R[h[i]].id = i /\ R[h[i]].at = m[i]
<1> DEFINE h == [i \in D |-> CHOOSE s \in Sensors : R[s].id = i]
<1>1. ASSUME NEW i \in D PROVE h[i] \in Sensors /\ R[h[i]].id = i /\ R[h[i]].at = m[i]
  <2>1. \E s \in Sensors : R[s].id = i
    BY DEF HeardOf
  <2>2. h[i] \in Sensors /\ R[h[i]].id = i
    BY <2>1
  <2> QED BY <2>2 DEF HeardOf
<1>2. h \in [D -> Sensors]
  BY <1>1
<1> HIDE DEF h
<1> QED BY <1>1, <1>2

LEMMA BegunIsMatched ==
  ASSUME Measures!MeasuresAssumption, SensorsAre(real, moment), Recorded,
         NEW key, NEW node, NEW seconds, NEW origin, NEW r, r = Measures!Begun(key, node, seconds, origin)
  PROVE  Running(r) /\ HeardOf(real, moment, r.at) /\ Matched(real, r.at)
<1> DEFINE heard == {i \in DOMAIN rec.at : moment - rec.at[i] <= Recent}
           m == [i \in heard |-> rec.at[i]]
<1>1. Running(r) /\ r.at = m
  BY DEF Measures!Begun, Running, RunParts, Measures!Restrict
<1>2. \A i \in heard : rec.at[i] \in Int /\ moment - rec.at[i] < Handover
  BY DEF Measures!MeasuresAssumption, Recorded, HeardOf, SensorsAre
<1>3. HeardOf(real, moment, rec.at) /\ heard \subseteq DOMAIN rec.at
  BY DEF Recorded
<1>4. DOMAIN m = heard /\ \A i \in heard : m[i] = rec.at[i]
  OBVIOUS
<1> HIDE DEF m, heard
<1>5. HeardOf(real, moment, m)
  BY <1>3, <1>4 DEF HeardOf
<1>6. PICK h : h \in [heard -> Sensors] /\ \A i \in heard : real[h[i]].id = i /\ real[h[i]].at = rec.at[i]
  BY <1>2, <1>3, HeardByName
<1>7. StandsFor(h, real, m)
  BY <1>2, <1>4, <1>6 DEF StandsFor, SensorsAre
<1> QED BY <1>1, <1>5, <1>7 DEF Matched

-----------------------------------------------------------------------------
(* The steps but those of samples *)

\* A step that leaves the samples as they are: a run goes on, ends or begins.
SameSamples == UNCHANGED <<real, moment>> /\ rec'.at = rec.at /\ DOMAIN rec' = DOMAIN rec
RunGoesOn ==
  past' = past /\ (run = Measures!NoRun => run' = Measures!NoRun) /\ (run # Measures!NoRun => GoesOn(run', run))
RunEnds == past' = past \/ (run # Measures!NoRun /\ \E state : past' = Measures!Kept(Measures!Ended(run, state)))
RunBegins ==
  run' = Measures!NoRun \/ \E key, node, seconds, origin : GoesOn(run', Measures!Begun(key, node, seconds, origin))

LEMMA SilenceKept ==
  ASSUME Measures!MeasuresAssumption, SilenceInv, SameSamples, RunGoesOn \/ (RunEnds /\ RunBegins)
  PROVE  SilenceInv'
<1>1. SensorsAre(real', moment') /\ Recorded'
  BY DEF SilenceInv, SameSamples, Recorded
<1>2. CASE RunGoesOn
  <2>1. Histories(past')
    BY <1>2 DEF RunGoesOn, SilenceInv
  <2>2. ASSUME run' # Measures!NoRun PROVE Running(run') /\ run'.at = run.at /\ run # Measures!NoRun
    BY <1>2, <2>2, OnIsRunning DEF RunGoesOn, SilenceInv, RunIs, GoesOn
  <2>3. RunIs(run', real', moment')
    BY <2>2 DEF RunIs, SilenceInv, SameSamples
  <2> QED BY <1>1, <2>1, <2>3 DEF SilenceInv
<1>3. CASE RunEnds /\ RunBegins
  <2>1. Histories(past')
    BY <1>3, EndedIsKept DEF RunEnds, SilenceInv
  <2>2. CASE run' = Measures!NoRun
    BY <1>1, <2>1, <2>2 DEF SilenceInv, RunIs
  <2>3. ASSUME NEW key, NEW node, NEW seconds, NEW origin, GoesOn(run', Measures!Begun(key, node, seconds, origin))
        PROVE  SilenceInv'
    <3> DEFINE r == Measures!Begun(key, node, seconds, origin)
    <3>1. Running(r) /\ HeardOf(real, moment, r.at) /\ Matched(real, r.at)
      BY BegunIsMatched DEF SilenceInv
    <3>2. Running(run') /\ run'.at = r.at
      BY <2>3, <3>1, OnIsRunning DEF GoesOn
    <3>3. RunIs(run', real', moment')
      BY <3>1, <3>2 DEF RunIs, SameSamples
    <3> QED BY <1>1, <2>1, <3>3 DEF SilenceInv
  <2> QED BY <1>3, <2>2, <2>3 DEF RunBegins
<1> QED BY <1>2, <1>3

LEMMA LifecycleKeeps ==
  ASSUME Measures!MeasuresAssumption, SilenceInv, Measures!Lifecycle
  PROVE  SilenceInv'
<1>1. ASSUME NEW key, Measures!AskExperiment(key) \/ Measures!GiveUp PROVE SilenceInv'
  <2>1. SameSamples /\ UNCHANGED <<run, past>>
    BY <1>1 DEF Measures!AskExperiment, Measures!GiveUp, SameSamples
  <2>2. RunGoesOn
    BY <2>1 DEF RunGoesOn, GoesOn
  <2> QED BY <2>1, <2>2, SilenceKept
<1>2. ASSUME Measures!StopExperiment \/ Measures!Poll PROVE SilenceInv'
  <2>1. SameSamples /\ run # Measures!NoRun /\ run' = Measures!NoRun
        /\ \E state : past' = Measures!Kept(Measures!Ended(run, state))
    BY <1>2 DEF Measures!StopExperiment, Measures!Poll, Measures!Finish, SameSamples
  <2>2. RunEnds /\ RunBegins
    BY <2>1 DEF RunEnds, RunBegins
  <2> QED BY <2>1, <2>2, SilenceKept
<1>3. ASSUME NEW n, NEW s, NEW sent, Measures!Confirmed(n, s, sent) PROVE SilenceInv'
  <2>1. SameSamples
    BY <1>3 DEF Measures!Confirmed, SameSamples
  <2>2. CASE ~sent
    <3>1. UNCHANGED <<run, past>>
      BY <1>3, <2>2 DEF Measures!Confirmed, Measures!Unmeasured
    <3>2. RunGoesOn
      BY <3>1 DEF RunGoesOn, GoesOn
    <3> QED BY <2>1, <3>2, SilenceKept
  <2>3. CASE sent
    <3>1. Measures!Start(dialog, n, s, "TUI")
      BY <1>3, <2>3 DEF Measures!Confirmed
    <3>2. RunEnds
      BY <3>1 DEF Measures!Start, RunEnds
    <3>3. RunBegins
      BY <3>1 DEF Measures!Start, RunBegins, GoesOn
    <3> QED BY <2>1, <3>2, <3>3, SilenceKept
  <2> QED BY <2>2, <2>3
<1>4. ASSUME Measures!Tick PROVE SilenceInv'
  <2>1. moment' = moment + 1 /\ UNCHANGED <<run, past, rec, real>> /\ moment \in Int
    BY <1>4 DEF Measures!Tick, SilenceInv, SensorsAre
  <2>2. SensorsAre(real', moment')
    BY <2>1 DEF SilenceInv, SensorsAre
  <2>3. ASSUME NEW m, HeardOf(real, moment, m) PROVE HeardOf(real', moment', m)
    BY <2>1, <2>3 DEF HeardOf, Measures!MeasuresAssumption
  <2>4. Recorded'
    BY <2>1, <2>3 DEF SilenceInv, Recorded
  <2>5. RunIs(run', real', moment')
    BY <2>1, <2>3 DEF SilenceInv, RunIs
  <2> QED BY <2>1, <2>2, <2>4, <2>5 DEF SilenceInv
<1> QED BY <1>1, <1>2, <1>3, <1>4 DEF Measures!Lifecycle

\* An event that measures something of the run, if there is one.
LEMMA MeasuredKeeps ==
  ASSUME Measures!MeasuresAssumption, SilenceInv, Measures!Event, rec'.at = rec.at, DOMAIN rec' = DOMAIN rec,
         NEW r, run # Measures!NoRun => GoesOn(r, run), Measures!Measured(r)
  PROVE  SilenceInv'
<1>1. SameSamples
  BY DEF Measures!Event, SameSamples
<1>2. RunGoesOn
  BY DEF Measures!Measured, RunGoesOn
<1> QED BY <1>1, <1>2, SilenceKept

LEMMA UnmeasuredKeeps ==
  ASSUME Measures!MeasuresAssumption, SilenceInv, Measures!Event, rec'.at = rec.at, DOMAIN rec' = DOMAIN rec,
         Measures!Unmeasured
  PROVE  SilenceInv'
<1>1. Measures!Measured(run)
  BY DEF Measures!Unmeasured, Measures!Measured
<1> QED BY <1>1, MeasuredKeeps DEF GoesOn

LEMMA ObservedKeeps ==
  ASSUME Measures!MeasuresAssumption, SilenceInv, Measures!Event, rec' = rec, NEW r,
         NEW key, NEW node, NEW seconds, NEW origin, GoesOn(r, Measures!Begun(key, node, seconds, origin)),
           Measures!StartObserved(r)
  PROVE  SilenceInv'
<1>1. SameSamples
  BY DEF Measures!Event, SameSamples
<1>2. RunEnds /\ RunBegins
  BY DEF Measures!StartObserved, RunEnds, RunBegins
<1> QED BY <1>1, <1>2, SilenceKept

LEMMA BegunGoesOn ==
  ASSUME NEW key, NEW node, NEW seconds, NEW origin, NEW r, r = Measures!Begun(key, node, seconds, origin)
  PROVE  GoesOn(r, r) /\ \A a, b : GoesOn([r EXCEPT !.began = a, !.fault = b], r)
BY DEF GoesOn, Measures!Begun

LEMMA RunGoes ==
  ASSUME SilenceInv, run # Measures!NoRun
  PROVE  /\ GoesOn(run, run) /\ \A a, b : GoesOn([run EXCEPT !.began = a, !.fault = b], run)
         /\ \A a : GoesOn([run EXCEPT !.ended = a], run) /\ GoesOn([run EXCEPT !.lost = a], run)
                   /\ GoesOn([run EXCEPT !.faults = a], run) /\ GoesOn([run EXCEPT !.link = a], run)
                   /\ GoesOn([run EXCEPT !.errors = a], run)
         /\ \A a, b : GoesOn([run EXCEPT !.beat = a, !.leaders = b], run)
BY DEF GoesOn, SilenceInv, RunIs, Running, RunParts

LEMMA FaultsKeep ==
  ASSUME Measures!MeasuresAssumption, SilenceInv, Measures!Faults
  PROVE  SilenceInv'
<1>1. ASSUME NEW kind, NEW n, NEW s, Measures!FaultCommand(kind, n, s) PROVE SilenceInv'
  <2>1. Measures!Event /\ rec' = rec
    BY <1>1 DEF Measures!FaultCommand
  <2>2. CASE UNCHANGED <<run, past>>
    <3>1. SameSamples /\ RunGoesOn
      BY <2>1, <2>2 DEF SameSamples, RunGoesOn, GoesOn, Measures!Event
    <3> QED BY <3>1, SilenceKept
  <2>3. CASE Measures!StartObserved(Measures!Begun(Measures!ObservedKey(kind, n, FALSE), n, s, "OBSERVED"))
    BY <2>1, <2>3, BegunGoesOn, ObservedKeeps
  <2> QED BY <1>1, <2>2, <2>3 DEF Measures!FaultCommand, Measures!Unmeasured
<1>2. ASSUME NEW kind, NEW n, NEW s, NEW low, NEW num, Measures!FaultBegins(kind, n, s, low, num) PROVE SilenceInv'
  <2>1. Measures!Event /\ rec' = rec
    BY <1>2 DEF Measures!FaultBegins
  <2> DEFINE b == Measures!Begun(Measures!ObservedKey(kind, n, low), n, s, "OBSERVED")
  <2>2. \/ \E x, y : Measures!StartObserved([b EXCEPT !.began = x, !.fault = y])
        \/ run # Measures!NoRun /\ \E x, y : Measures!Measured([run EXCEPT !.began = x, !.fault = y])
    BY <1>2 DEF Measures!FaultBegins
  <2>3. ASSUME NEW x, NEW y, Measures!StartObserved([b EXCEPT !.began = x, !.fault = y]) PROVE SilenceInv'
    BY <2>1, <2>3, BegunGoesOn, ObservedKeeps
  <2>4. ASSUME NEW x, NEW y, run # Measures!NoRun, Measures!Measured([run EXCEPT !.began = x, !.fault = y])
        PROVE SilenceInv'
    BY <2>1, <2>4, RunGoes, MeasuredKeeps
  <2> QED BY <2>2, <2>3, <2>4
<1>3. ASSUME NEW num, Measures!FaultEnds(num) PROVE SilenceInv'
  BY <1>3, RunGoes, MeasuredKeeps DEF Measures!FaultEnds
<1>4. ASSUME NEW num, Measures!FaultCancel \/ Measures!FaultRejected(num) PROVE SilenceInv'
  BY <1>4, UnmeasuredKeeps DEF Measures!FaultCancel, Measures!FaultRejected
<1> QED BY <1>1, <1>2, <1>3, <1>4 DEF Measures!Faults

\* Some values of a run's measures.
LEMMA FurtherMeasures ==
  ASSUME NEW r, Running(r), NEW q, GoesOn(q, r), NEW key, NEW x
  PROVE  /\ GoesOn(Measures!First(q, key), r) /\ GoesOn(Measures!Most(q, key, x), r)
         /\ GoesOn(Measures!Plus(q, key, x), r)
         /\ \A p \in BOOLEAN : GoesOn(Measures!FirstIf(p, q, key), r)
BY OnIsRunning, MeasuresGoOn, GoesOnStill

LEMMA CoordinationKeeps ==
  ASSUME Measures!MeasuresAssumption, SilenceInv, Measures!Coordination
  PROVE  SilenceInv'
<1>1. run # Measures!NoRun => Running(run)
  BY DEF SilenceInv, RunIs
<1>2. ASSUME NEW n, Measures!Heartbeat(n) PROVE SilenceInv'
  <2> DEFINE q == IF run.beat = Measures!Never THEN run ELSE Measures!Most(run, "heartbeat_gap_max_s", moment - run.beat)
             r == [q EXCEPT !.beat = moment, !.leaders = @ \cup ({n} \ {Measures!NoNode})]
  <2>1. Measures!Event /\ rec'.at = rec.at /\ DOMAIN rec' = DOMAIN rec
    BY <1>2 DEF Measures!Heartbeat, SilenceInv, Recorded
  <2>2. Measures!Measured(Measures!FirstIf(n # Measures!NoNode /\ run.lost, r, "leader_recovered_s"))
    BY <1>2 DEF Measures!Heartbeat
  <2>3. ASSUME run # Measures!NoRun PROVE GoesOn(r, run)
    <3>1. GoesOn(q, run)
      BY <1>1, <2>3, MeasuresGoOn
    <3> HIDE DEF q
    <3> QED BY <1>1, <2>3, <3>1 DEF GoesOn, Running, RunParts
  <2> HIDE DEF r
  <2>4. run # Measures!NoRun => GoesOn(Measures!First(r, "leader_recovered_s"), run) /\ GoesOn(r, run)
    BY <1>1, <2>3, FurtherMeasures
  <2>5. Measures!Measured(r) \/ Measures!Measured(Measures!First(r, "leader_recovered_s"))
    BY <2>2 DEF Measures!FirstIf
  <2> QED BY <2>1, <2>4, <2>5, MeasuredKeeps
<1>3. CASE Measures!LeaderFailure
  <2>1. run # Measures!NoRun => GoesOn(Measures!First([run EXCEPT !.lost = TRUE], "leader_detect_s"), run)
    BY <1>1, RunGoes, FurtherMeasures
  <2> QED BY <1>3, <2>1, MeasuredKeeps DEF Measures!LeaderFailure
<1>4. CASE Measures!ElectionRequested
  <2>1. run # Measures!NoRun =>
          GoesOn(Measures!First(Measures!Plus([run EXCEPT !.lost = TRUE], "elections", 1), "leader_detect_s"), run)
    BY <1>1, RunGoes, FurtherMeasures
  <2> QED BY <1>4, <2>1, MeasuredKeeps DEF Measures!ElectionRequested
<1>5. CASE Measures!Failover
  <2>1. run # Measures!NoRun => GoesOn(Measures!First(Measures!Plus(run, "failovers", 1), "failover_decision_s"), run)
    BY <1>1, RunGoes, FurtherMeasures
  <2> QED BY <1>5, <2>1, MeasuredKeeps DEF Measures!Failover
<1>6. ASSUME NEW n, Measures!JoinObserved(n) PROVE SilenceInv'
  <2>1. /\ Measures!Event /\ rec' = rec
        /\ Measures!Measured(run) \/ Measures!Measured(Measures!First(run, "node_rejoined_s"))
    BY <1>6 DEF Measures!JoinObserved, Measures!FirstIf
  <2> QED BY <1>1, <2>1, MeasuresGoOn, MeasuredKeeps
<1>7. ASSUME NEW n, NEW state, Measures!PhysicalNode(n, state) PROVE SilenceInv'
  <2> DEFINE r == [run EXCEPT !.faults = @ \cup {n}]
  <2>1. /\ Measures!Event /\ rec' = rec
        /\ Measures!Measured(run) \/ Measures!Measured(r) \/ Measures!Measured(Measures!First(r, "node_fault_s"))
    BY <1>7 DEF Measures!PhysicalNode, Measures!FirstIf
  <2>2. run # Measures!NoRun => GoesOn(r, run)
    BY RunGoes
  <2> HIDE DEF r
  <2>3. run # Measures!NoRun => GoesOn(run, run) /\ GoesOn(Measures!First(r, "node_fault_s"), run)
    BY <1>1, <2>2, FurtherMeasures, RunGoes
  <2> QED BY <2>1, <2>2, <2>3, MeasuredKeeps
<1> QED BY <1>2, <1>3, <1>4, <1>5, <1>6, <1>7 DEF Measures!Coordination

LEMMA BusKeeps ==
  ASSUME Measures!MeasuresAssumption, SilenceInv, Measures!Bus
  PROVE  SilenceInv'
<1>1. run # Measures!NoRun => Running(run)
  BY DEF SilenceInv, RunIs
<1>2. ASSUME NEW l, Measures!BusStats(l) PROVE SilenceInv'
  <2>1. PICK x : Measures!Measured([Measures!Most(run, "load_max", l) EXCEPT !.errors = x]) /\ Measures!Event
        /\ rec' = rec
    BY <1>2 DEF Measures!BusStats
  <2>2. run # Measures!NoRun => GoesOn([Measures!Most(run, "load_max", l) EXCEPT !.errors = x], run)
    BY <1>1, MeasuresGoOn DEF GoesOn, Running, RunParts
  <2> QED BY <2>1, <2>2, MeasuredKeeps
<1>3. ASSUME NEW can, NEW l, Measures!IdStats(can, l) PROVE SilenceInv'
  <2>1. /\ Measures!Event /\ rec' = rec
        /\ Measures!Measured(run) \/ Measures!Measured(Measures!Most(run, "heartbeat_jitter_max_ms", l))
    BY <1>3 DEF Measures!IdStats
  <2> QED BY <1>1, <2>1, MeasuresGoOn, MeasuredKeeps
<1>4. ASSUME NEW done, Measures!Ack(done) PROVE SilenceInv'
  BY <1>4, UnmeasuredKeeps DEF Measures!Ack
<1>5. CASE Measures!ResetMetrics
  <2>1. SameSamples /\ RunGoesOn
    BY <1>5 DEF Measures!ResetMetrics, SameSamples, RunGoesOn, GoesOn
  <2> QED BY <2>1, SilenceKept
<1>6. CASE Measures!ReplayOpened
  <2>1. UNCHANGED <<real, moment, past>> /\ rec' = Measures!NoMemory /\ run' = Measures!NoRun
    BY <1>6 DEF Measures!ReplayOpened
  <2>2. HeardOf(real', moment', rec'.at)
    BY <2>1 DEF HeardOf, Measures!NoMemory
  <2>3. Recorded'
    BY <2>1, <2>2 DEF Recorded, Measures!NoMemory
  <2> QED BY <2>1, <2>3 DEF SilenceInv, RunIs
<1> QED BY <1>2, <1>3, <1>4, <1>5, <1>6 DEF Measures!Bus

LEMMA LinksKeep ==
  ASSUME Measures!MeasuresAssumption, SilenceInv, Measures!Links
  PROVE  SilenceInv'
<1>1. run # Measures!NoRun => Running(run)
  BY DEF SilenceInv, RunIs
<1>2. ASSUME NEW i, NEW state, Measures!WirelessLink(i, state) PROVE SilenceInv'
  <2> DEFINE r == [run EXCEPT !.link = Measures!With(@, i, state)]
  <2>1. Measures!Event /\ rec'.at = rec.at /\ DOMAIN rec' = DOMAIN rec
    BY <1>2 DEF Measures!WirelessLink, SilenceInv, Recorded
  <2>2. \/ \E p \in BOOLEAN : Measures!Measured(Measures!FirstIf(p, r, "session_recovered_s"))
        \/ \E p, q \in BOOLEAN : Measures!Measured(Measures!FirstIf(p, Measures!FirstIf(q, r, "session_down_s"),
                                                                  "session_recovered_s"))
    BY <1>2 DEF Measures!WirelessLink
  <2>3. run # Measures!NoRun => GoesOn(r, run)
    BY RunGoes
  <2> HIDE DEF r
  <2>4. ASSUME NEW p \in BOOLEAN, NEW q \in BOOLEAN, run # Measures!NoRun
        PROVE  /\ GoesOn(Measures!FirstIf(p, r, "session_recovered_s"), run)
               /\ GoesOn(Measures!FirstIf(p, Measures!FirstIf(q, r, "session_down_s"), "session_recovered_s"), run)
    BY <1>1, <2>3, <2>4, FurtherMeasures
  <2> QED BY <2>1, <2>2, <2>4, MeasuredKeeps
<1>3. ASSUME NEW s, NEW state, Measures!Association(s, state) PROVE SilenceInv'
  BY <1>3, UnmeasuredKeeps DEF Measures!Association
<1> QED BY <1>2, <1>3 DEF Measures!Links

-----------------------------------------------------------------------------
(* A sample *)

\* The tables after a sample of sensor s, which is known as i.
SensorSampled(R, c, s, Q) ==
  /\ DOMAIN Q = Sensors /\ \A t \in Sensors : {"id", "next", "at"} \subseteq DOMAIN Q[t] /\ Q[t].id = R[t].id
  /\ \A t \in Sensors : Q[t].at = IF t = s THEN c ELSE R[t].at
NameSampled(m, c, i, J, l) ==
  /\ DOMAIN l = (DOMAIN m \ J) \cup {i} /\ i \notin J
  /\ \A k \in DOMAIN l : l[k] = IF k = i THEN c ELSE m[k]

LEMMA SampledHeardOf ==
  ASSUME Measures!MeasuresAssumption, NEW R, NEW c, SensorsAre(R, c), NEW m, HeardOf(R, c, m), NEW s \in Sensors,
         NEW Q, NEW J, NEW l,
         SensorSampled(R, c, s, Q), NameSampled(m, c, R[s].id, J, l)
  PROVE  SensorsAre(Q, c) /\ HeardOf(Q, c, l)
<1>1. SensorsAre(Q, c)
  BY DEF SensorsAre, SensorSampled
<1>2. ASSUME NEW t \in Sensors, Q[t].id \in DOMAIN l PROVE l[Q[t].id] = Q[t].at
  BY <1>2 DEF SensorsAre, SensorSampled, NameSampled, HeardOf
<1>3. ASSUME NEW k \in DOMAIN l
      PROVE  l[k] \in Int /\ l[k] <= c /\ (c - l[k] < Handover => \E t \in Sensors : Q[t].id = k)
  <2>1. CASE k = R[s].id
    BY <2>1 DEF SensorsAre, SensorSampled, NameSampled
  <2>2. CASE k # R[s].id
    BY <1>3, <2>2 DEF SensorsAre, SensorSampled, NameSampled, HeardOf
  <2> QED BY <2>1, <2>2
<1> QED BY <1>1, <1>2, <1>3 DEF HeardOf

\* A name that is known: whoever stood for it stands for the name its sensor
\* stood for.
LEMMA KnownIsMatched ==
  ASSUME Measures!MeasuresAssumption, NEW R, NEW c, SensorsAre(R, c), NEW m, HeardOf(R, c, m), Matched(R, m),
         NEW s \in Sensors,
         NEW Q, NEW l, SensorSampled(R, c, s, Q), NameSampled(m, c, R[s].id, {}, l),
         R[s].id \in DOMAIN m
  PROVE  Matched(Q, l)
<1> DEFINE i == R[s].id
<1>1. PICK f : StandsFor(f, R, m)
  BY DEF Matched
<1>2. DOMAIN l = DOMAIN m /\ f \in [DOMAIN m -> Sensors] /\ i \in DOMAIN m
  BY <1>1 DEF NameSampled, StandsFor
<1> DEFINE g == [k \in DOMAIN m |-> IF k = i THEN s ELSE IF f[k] = s THEN f[i] ELSE f[k]]
<1>3. g \in [DOMAIN l -> Sensors]
  BY <1>2
<1>4. ASSUME NEW k \in DOMAIN l PROVE Q[g[k]].at <= l[k]
  <2>1. CASE k = i
    BY <1>2, <2>1 DEF NameSampled, SensorSampled, SensorsAre
  <2>2. CASE k # i /\ f[k] = s
    <3>1. g[k] = f[i] /\ l[k] = m[k] /\ k \in DOMAIN m /\ f[i] # s /\ f[i] \in Sensors
      BY <1>1, <1>2, <1>4, <2>2 DEF NameSampled, StandsFor
    <3>2. Q[f[i]].at = R[f[i]].at /\ R[f[i]].at <= m[i] /\ m[i] = R[s].at /\ R[s].at <= m[k]
      BY <1>1, <1>2, <2>2, <3>1 DEF SensorSampled, StandsFor, HeardOf
    <3>3. R[f[i]].at \in Int /\ R[s].at \in Int /\ m[k] \in Int
      BY <3>1 DEF SensorsAre, HeardOf
    <3> QED BY <3>1, <3>2, <3>3
  <2>3. CASE k # i /\ f[k] # s
    BY <1>1, <1>2, <1>4, <2>3 DEF NameSampled, SensorSampled, StandsFor
  <2> QED BY <2>1, <2>2, <2>3
<1>5. \A k, h \in DOMAIN l : g[k] = g[h] => k = h
  BY <1>1, <1>2 DEF StandsFor
<1> HIDE DEF g
<1>6. StandsFor(g, Q, l)
  BY <1>3, <1>4, <1>5 DEF StandsFor
<1> QED BY <1>6 DEF Matched

\* A name that is new, in the place of the one that was silent for longest.
LEMMA ContinuedIsMatched ==
  ASSUME Measures!MeasuresAssumption, NEW R, NEW c, SensorsAre(R, c), NEW m, HeardOf(R, c, m), Matched(R, m),
         NEW s \in Sensors,
         NEW Q, NEW j, NEW l, SensorSampled(R, c, s, Q), NameSampled(m, c, R[s].id, {j}, l),
         R[s].id \notin DOMAIN m, j \in DOMAIN m, \A k \in DOMAIN m : m[j] <= m[k]
  PROVE  Matched(Q, l)
<1> DEFINE i == R[s].id
<1>1. PICK f : StandsFor(f, R, m)
  BY DEF Matched
<1>2. DOMAIN l = (DOMAIN m \ {j}) \cup {i} /\ f \in [DOMAIN m -> Sensors] /\ i \notin DOMAIN m
  BY <1>1 DEF NameSampled, StandsFor
<1> DEFINE g == [k \in DOMAIN l |-> IF k = i THEN s ELSE IF f[k] = s THEN f[j] ELSE f[k]]
<1>3. g \in [DOMAIN l -> Sensors]
  BY <1>2
<1>4. ASSUME NEW k \in DOMAIN l PROVE Q[g[k]].at <= l[k]
  <2>1. CASE k = i
    BY <1>2, <2>1 DEF NameSampled, SensorSampled, SensorsAre
  <2>2. CASE k # i /\ f[k] = s
    <3>1. g[k] = f[j] /\ l[k] = m[k] /\ k \in DOMAIN m /\ f[j] # s /\ f[j] \in Sensors
      BY <1>1, <1>2, <1>4, <2>2 DEF NameSampled, StandsFor
    <3>2. Q[f[j]].at = R[f[j]].at /\ R[f[j]].at <= m[j] /\ m[j] <= m[k]
      BY <1>1, <3>1 DEF SensorSampled, StandsFor
    <3>3. R[f[j]].at \in Int /\ m[j] \in Int /\ m[k] \in Int
      BY <3>1 DEF SensorsAre, HeardOf
    <3> QED BY <3>1, <3>2, <3>3
  <2>3. CASE k # i /\ f[k] # s
    BY <1>1, <1>2, <1>4, <2>3 DEF NameSampled, SensorSampled, StandsFor
  <2> QED BY <2>1, <2>2, <2>3
<1>5. \A k, h \in DOMAIN l : g[k] = g[h] => k = h
  BY <1>1, <1>2 DEF StandsFor
<1> HIDE DEF g
<1>6. StandsFor(g, Q, l)
  BY <1>3, <1>4, <1>5 DEF StandsFor
<1> QED BY <1>6 DEF Matched

\* A name that is new, and no other is silent: each is its own sensor's.
LEMMA NewIsMatched ==
  ASSUME Measures!MeasuresAssumption, NEW R, NEW c, SensorsAre(R, c), NEW m, HeardOf(R, c, m), NEW s \in Sensors,
         NEW Q, NEW l, SensorSampled(R, c, s, Q), NameSampled(m, c, R[s].id, {}, l),
         R[s].id \notin DOMAIN m, \A k \in DOMAIN m : c - m[k] <= Silent
  PROVE  Matched(Q, l)
<1> DEFINE i == R[s].id
<1>1. \A k \in DOMAIN m : c - m[k] < Handover
  BY DEF Measures!MeasuresAssumption, HeardOf, SensorsAre
<1>2. PICK h \in [DOMAIN m -> Sensors] : \A k \in DOMAIN m : R[h[k]].id = k /\ R[h[k]].at = m[k]
  BY <1>1, HeardByName
<1>3. DOMAIN l = DOMAIN m \cup {i} /\ i \notin DOMAIN m
  BY DEF NameSampled
<1> DEFINE g == [k \in DOMAIN l |-> IF k = i THEN s ELSE h[k]]
<1>4. g \in [DOMAIN l -> Sensors]
  BY <1>2, <1>3
<1>5. ASSUME NEW k \in DOMAIN l PROVE Q[g[k]].at <= l[k] /\ Q[g[k]].id = k
  <2>1. CASE k = i
    BY <1>3, <2>1 DEF NameSampled, SensorSampled, SensorsAre
  <2>2. CASE k # i
    <3>1. k \in DOMAIN m /\ g[k] = h[k] /\ l[k] = m[k] /\ h[k] \in Sensors /\ h[k] # s
      BY <1>2, <1>3, <1>5, <2>2 DEF NameSampled
    <3>2. Q[h[k]].at = R[h[k]].at /\ Q[h[k]].id = R[h[k]].id /\ m[k] \in Int
      BY <3>1 DEF SensorSampled, HeardOf
    <3> QED BY <1>2, <3>1, <3>2
  <2> QED BY <2>1, <2>2
<1> HIDE DEF g
<1>6. StandsFor(g, Q, l)
  BY <1>4, <1>5 DEF StandsFor
<1> QED BY <1>6 DEF Matched

\* What a sample does to the tables.
LEMMA WithoutIsSampled ==
  ASSUME NEW m, NEW J, NEW c, NEW i, i \notin J
  PROVE  NameSampled(m, c, i, J, Measures!With(Measures!Restrict(m, DOMAIN m \ J), i, c))
BY DEF NameSampled, Measures!With, Measures!Restrict

LEMMA CountedGoesOn ==
  ASSUME NEW r, Running(r), NEW i, NEW n
  PROVE  /\ DOMAIN Measures!Counted(r, i, n) = DOMAIN r /\ Measures!Counted(r, i, n).state = r.state
         /\ Measures!Counted(r, i, n).at = Measures!With(r.at, i, moment)
<1>1. PICK q : /\ GoesOn(q, r)
               /\ Measures!Counted(r, i, n)
                  = [q EXCEPT !.at = Measures!With(@, i, moment), !.number = Measures!With(@, i, n)]
  <2> DEFINE lost == IF i \in DOMAIN r.number THEN Measures!Missing(r.number[i], n) ELSE 0
             gone == IF i \in DOMAIN r.at THEN Measures!Most(r, "telemetry_gap_max_s", moment - r.at[i]) ELSE r
             q == Measures!Plus(gone, "telemetry_lost", lost)
  <2>1. GoesOn(gone, r)
    BY MeasuresGoOn
  <2> HIDE DEF gone, lost
  <2>2. GoesOn(q, r)
    BY <2>1, FurtherMeasures
  <2> USE DEF gone, lost
  <2>3. Measures!Counted(r, i, n) = [q EXCEPT !.at = Measures!With(@, i, moment), !.number = Measures!With(@, i, n)]
    BY DEF Measures!Counted
  <2> QED BY <2>2, <2>3
<1> QED BY <1>1 DEF GoesOn, Running, RunParts

LEMMA ContinuedGoesOn ==
  ASSUME NEW r, Running(r), NEW j
  PROVE  /\ DOMAIN Measures!Continued(r, j) = DOMAIN r /\ Measures!Continued(r, j).state = r.state
         /\ Measures!Continued(r, j).at = Measures!Without(r.at, j)
<1> DEFINE q == Measures!Most(r, "telemetry_gap_max_s", moment - r.at[j])
           p == [q EXCEPT !.at = Measures!Without(@, j), !.number = Measures!Without(@, j)]
<1>1. GoesOn(q, r)
  BY MeasuresGoOn
<1> HIDE DEF q
<1>2. DOMAIN p = DOMAIN r /\ p.state = r.state /\ p.at = Measures!Without(r.at, j)
  BY <1>1 DEF GoesOn, Running, RunParts
<1>3. GoesOn(Measures!First(p, "session_recovered_s"), p)
  BY <1>2, MeasuresGoOn DEF Running, RunParts
<1>4. Measures!Continued(r, j) = p \/ Measures!Continued(r, j) = Measures!First(p, "session_recovered_s")
  BY DEF Measures!Continued, Measures!FirstIf, q
<1> QED BY <1>2, <1>3, <1>4 DEF GoesOn

LEMMA WithIsSampled ==
  ASSUME NEW m, NEW c, NEW i
  PROVE  NameSampled(m, c, i, {}, Measures!With(m, i, c))
BY DEF NameSampled, Measures!With

LEMMA ReplacedIsSampled ==
  ASSUME NEW m, NEW c, NEW i, NEW j, i # j
  PROVE  NameSampled(m, c, i, {j}, Measures!With(Measures!Without(m, j), i, c))
BY DEF NameSampled, Measures!With, Measures!Without, Measures!Restrict

LEMMA SampleKeeps ==
  ASSUME Measures!MeasuresAssumption, SilenceInv, NEW s \in Sensors, NEW lost, Measures!Sample(s, lost)
  PROVE  SilenceInv'
<1> DEFINE i == real[s].id
           n == (real[s].next + lost) % Modulus
<1>1. Measures!Telemetry(i, n) /\ moment' = moment /\ SensorSampled(real, moment, s, real') /\ SensorsAre(real, moment)
  BY DEF Measures!Sample, SensorSampled, SilenceInv, SensorsAre
<1>2. run # Measures!NoRun => Running(run) /\ HeardOf(real, moment, run.at) /\ Matched(real, run.at)
  BY DEF SilenceInv, RunIs
<1>3. HeardOf(real, moment, rec.at) /\ {"leader", "beat", "link", "at", "number"} \subseteq DOMAIN rec
  BY DEF SilenceInv, Recorded
<1> HIDE DEF n
<1>4. ASSUME NEW J, i \notin J, rec' = Measures!Remembered(i, n, J)
      PROVE  SensorsAre(real', moment') /\ Recorded'
  <2>1. rec'.at = Measures!With(Measures!Restrict(rec.at, DOMAIN rec.at \ J), i, moment)
        /\ {"leader", "beat", "link", "at", "number"} \subseteq DOMAIN rec'
    BY <1>3, <1>4 DEF Measures!Remembered
  <2>2. NameSampled(rec.at, moment, i, J, rec'.at)
    BY <1>4, <2>1, WithoutIsSampled
  <2>3. SensorsAre(real', moment) /\ HeardOf(real', moment, rec'.at)
    BY <1>1, <1>3, <2>2, SampledHeardOf
  <2> QED BY <1>1, <2>1, <2>3 DEF Recorded
<1>5. ASSUME run # Measures!NoRun, NEW J, NameSampled(run.at, moment, i, J, run'.at),
             DOMAIN run' = DOMAIN run, run'.state = run.state, Matched(real', run'.at)
      PROVE  RunIs(run', real', moment')
  <2>1. HeardOf(real', moment, run'.at)
    BY <1>1, <1>2, <1>5, SampledHeardOf
  <2>2. Running(run')
    BY <1>2, <1>5 DEF Running
  <2> QED BY <1>1, <1>5, <2>1, <2>2 DEF RunIs
<1>6. CASE run = Measures!NoRun
  <2>1. rec' = Measures!Remembered(i, n, {}) /\ UNCHANGED <<run, past>>
    BY <1>1, <1>6 DEF Measures!Telemetry, Measures!Unmeasured
  <2> QED BY <1>4, <1>6, <2>1 DEF SilenceInv, RunIs
<1>7. CASE run # Measures!NoRun /\ Measures!Quiet(i) = {}
  <2>1. rec' = Measures!Remembered(i, n, {}) /\ run' = Measures!Counted(run, i, n) /\ past' = past
    BY <1>1, <1>7 DEF Measures!Telemetry, Measures!Measured
  <2>2. DOMAIN run' = DOMAIN run /\ run'.state = run.state /\ run'.at = Measures!With(run.at, i, moment)
    BY <1>2, <1>7, <2>1, CountedGoesOn
  <2>3. NameSampled(run.at, moment, i, {}, run'.at)
    BY <2>2, WithIsSampled
  <2>4. CASE i \in DOMAIN run.at
    <3>1. Matched(real', run'.at)
      BY <1>1, <1>2, <1>7, <2>3, <2>4, KnownIsMatched
    <3> QED BY <1>4, <1>5, <1>7, <2>1, <2>2, <2>3, <3>1 DEF SilenceInv
  <2>5. CASE i \notin DOMAIN run.at
    <3>1. \A k \in DOMAIN run.at : moment - run.at[k] <= Silent
      BY <1>1, <1>2, <1>7, <2>5 DEF Measures!Quiet, HeardOf, SensorsAre, Measures!MeasuresAssumption
    <3>2. Matched(real', run'.at)
      BY <1>1, <1>2, <1>7, <2>3, <2>5, <3>1, NewIsMatched
    <3> QED BY <1>4, <1>5, <1>7, <2>1, <2>2, <2>3, <3>2 DEF SilenceInv
  <2> QED BY <2>4, <2>5
<1>8. CASE run # Measures!NoRun /\ Measures!Quiet(i) # {}
  <2>1. PICK j \in Measures!Oldest(Measures!Quiet(i)) :
          rec' = Measures!Remembered(i, n, {j}) /\ run' = Measures!Counted(Measures!Continued(run, j), i, n)
            /\ past' = past
    BY <1>1, <1>8 DEF Measures!Telemetry, Measures!Measured
  <2>2. i \notin DOMAIN run.at /\ j \in DOMAIN run.at /\ i # j
    BY <1>8, <2>1 DEF Measures!Quiet, Measures!Oldest
  <2>3. \A k \in DOMAIN run.at : run.at[j] <= run.at[k]
    <3>1. ASSUME NEW k \in DOMAIN run.at PROVE run.at[j] <= run.at[k]
      <4>1. run.at[j] \in Int /\ run.at[k] \in Int /\ moment \in Int /\ Silent \in Int
        BY <1>1, <1>2, <1>8, <2>2 DEF HeardOf, SensorsAre, Measures!MeasuresAssumption
      <4>2. moment - run.at[j] > Silent
        BY <2>1, <2>2 DEF Measures!Quiet, Measures!Oldest
      <4>3. CASE moment - run.at[k] > Silent
        BY <2>1, <2>2, <4>3 DEF Measures!Quiet, Measures!Oldest
      <4>4. CASE ~(moment - run.at[k] > Silent)
        BY <4>1, <4>2, <4>4
      <4> QED BY <4>3, <4>4
    <3> QED BY <3>1
  <2>4. DOMAIN run' = DOMAIN run /\ run'.state = run.state
        /\ run'.at = Measures!With(Measures!Without(run.at, j), i, moment)
    <3>1. /\ DOMAIN Measures!Continued(run, j) = DOMAIN run /\ Measures!Continued(run, j).state = run.state
          /\ Measures!Continued(run, j).at = Measures!Without(run.at, j)
      BY <1>2, <1>8, ContinuedGoesOn
    <3>2. Running(Measures!Continued(run, j))
      BY <1>2, <1>8, <3>1 DEF Running
    <3> QED BY <2>1, <3>1, <3>2, CountedGoesOn
  <2>5. NameSampled(run.at, moment, i, {j}, run'.at)
    BY <2>2, <2>4, ReplacedIsSampled
  <2>6. Matched(real', run'.at)
    BY <1>1, <1>2, <1>8, <2>2, <2>3, <2>5, ContinuedIsMatched
  <2>7. i \notin {j}
    BY <2>2
  <2> QED BY <1>4, <1>5, <1>8, <2>1, <2>4, <2>5, <2>6, <2>7 DEF SilenceInv
<1> QED BY <1>6, <1>7, <1>8

LEMMA RebindKeeps ==
  ASSUME Measures!MeasuresAssumption, SilenceInv, NEW s \in Sensors, NEW i, Measures!Rebind(s, i)
  PROVE  SilenceInv'
<1>1. /\ UNCHANGED <<run, past, rec, moment>> /\ moment - real[s].at >= Handover
      /\ \A t \in Sensors : real[t].id # i
      /\ i \notin DOMAIN rec.at /\ (run # Measures!NoRun => i \notin DOMAIN run.at)
  BY DEF Measures!Rebind
<1>2. /\ DOMAIN real' = Sensors /\ \A t \in Sensors : {"id", "next", "at"} \subseteq DOMAIN real'[t]
           /\ real'[t].at = real[t].at
      /\ \A t \in Sensors : real'[t].id = IF t = s THEN i ELSE real[t].id
  BY DEF Measures!Rebind, SilenceInv, SensorsAre
<1>3. SensorsAre(real', moment')
  BY <1>1, <1>2 DEF SilenceInv, SensorsAre
<1>4. ASSUME NEW m, HeardOf(real, moment, m), i \notin DOMAIN m PROVE HeardOf(real', moment', m)
  <2>1. \A t \in Sensors : real'[t].id \in DOMAIN m => m[real'[t].id] = real'[t].at
    BY <1>2, <1>4 DEF HeardOf
  <2>2. ASSUME NEW k \in DOMAIN m, moment - m[k] < Handover PROVE \E t \in Sensors : real'[t].id = k
    <3>1. PICK t \in Sensors : real[t].id = k
      BY <1>4, <2>2 DEF HeardOf
    <3>2. m[k] = real[t].at
      BY <1>4, <3>1 DEF HeardOf
    <3>3. t # s
      BY <1>1, <2>2, <3>2 DEF SilenceInv, SensorsAre, Measures!MeasuresAssumption
    <3> QED BY <1>2, <3>1, <3>3
  <2> QED BY <1>1, <1>4, <2>1, <2>2 DEF HeardOf
<1>5. ASSUME NEW m, Matched(real, m) PROVE Matched(real', m)
  <2>1. PICK f : StandsFor(f, real, m)
    BY <1>5 DEF Matched
  <2>2. StandsFor(f, real', m)
    BY <1>2, <2>1 DEF StandsFor
  <2> QED BY <2>2 DEF Matched
<1>6. Recorded'
  BY <1>1, <1>4 DEF SilenceInv, Recorded
<1>7. RunIs(run', real', moment')
  BY <1>1, <1>4, <1>5 DEF SilenceInv, RunIs
<1> QED BY <1>1, <1>3, <1>6, <1>7 DEF SilenceInv

LEMMA SilenceInvInit == Measures!Init => SilenceInv
<1> SUFFICES ASSUME Measures!Init PROVE SilenceInv
  OBVIOUS
<1>1. SensorsAre(real, moment)
  BY DEF Measures!Init, SensorsAre, Measures!IsInjective
<1>2. Recorded /\ RunIs(run, real, moment)
  BY DEF Measures!Init, Recorded, Measures!NoMemory, HeardOf, RunIs
<1>3. Histories(past)
  <2>1. past \in Seq({}) /\ \A r \in {} : Truthful(r)
    BY DEF Measures!Init
  <2> QED BY <2>1 DEF Histories
<1> QED BY <1>1, <1>2, <1>3 DEF SilenceInv

LEMMA SilenceInvNext == Measures!MeasuresAssumption /\ SilenceInv /\ [Measures!Next]_Measures!vars => SilenceInv'
<1> SUFFICES ASSUME Measures!MeasuresAssumption, SilenceInv, [Measures!Next]_Measures!vars PROVE SilenceInv'
  OBVIOUS
<1>1. CASE Measures!Samples
  BY <1>1, SampleKeeps, RebindKeeps DEF Measures!Samples
<1>2. CASE UNCHANGED Measures!vars
  <2>1. SameSamples /\ RunGoesOn
    BY <1>2 DEF Measures!vars, SameSamples, RunGoesOn, GoesOn
  <2> QED BY <2>1, SilenceKept
<1> QED BY <1>1, <1>2, LifecycleKeeps, FaultsKeep, CoordinationKeeps, BusKeeps, LinksKeep DEF Measures!Next

LEMMA SilenceInvTells == SilenceInv => Measures!SilenceIsReal
<1> SUFFICES ASSUME Histories(past), NEW k \in DOMAIN past PROVE Truthful(past[k])
  BY DEF SilenceInv, Measures!SilenceIsReal, Truthful
<1>1. PICK S : past \in Seq(S) /\ \A r \in S : Truthful(r)
  BY DEF Histories
<1>2. past[k] \in S
  BY <1>1
<1> QED BY <1>1, <1>2

\* No run that ended tells of more silent sensors than there were, for any number
\* of sensors, names, modules that take them over and guesses of who is who
\* (experiments.py _on_telemetry, _finish).
THEOREM SilenceIsTold ==
  ASSUME Measures!MeasuresAssumption
  PROVE  Measures!Spec => []Measures!SilenceIsReal
<1>1. Measures!Init => SilenceInv
  BY SilenceInvInit
<1>2. SilenceInv /\ [Measures!Next]_Measures!vars => SilenceInv'
  BY SilenceInvNext
<1>3. SilenceInv => Measures!SilenceIsReal
  BY SilenceInvTells
<1> QED BY <1>1, <1>2, <1>3, PTL DEF Measures!Spec

-----------------------------------------------------------------------------
(* The picture of the network. What a module will be shown as is in the last line
   about it that is still to be decoded or, where there is none, in what is shown
   already. That line tells its fault as it is when nothing is on its way to the
   module, and calls no module the leader but the one that leads. An election has
   the lines of all that take part in it, in one order or another.             *)

States == {"ATIVO", "DESATIVADO", "FALHA"}
Actions == {"OFF", "ON", "CLEAR_FAULT", "DISABLE_FAULT"}
PictureWords == States \cup Actions \cup {"", "LIDER", "1"}
PictureLine ==
  [kind : {"CONTROL", "COMMAND", "SENSOR", "HEARTBEAT", "STATUS", "DISCOVERED", "LEADER", "ANNOUNCED", "CONTROL_ACK",
           "CMD_ACK", "ELECTION", "JOIN", "OTHER"},
   node : Modules, word : PictureWords]

\* None of the lines ls is of a kind in K about module n.
Mute(ls, n, K) == \A i \in DOMAIN ls : ~(ls[i].node = n /\ ls[i].kind \in K)

\* There are such lines, and the last of them is in B.
Tells(ls, n, K, B) ==
  /\ ~Mute(ls, n, K)
  /\ \A i \in DOMAIN ls :
       (ls[i].node = n /\ ls[i].kind \in K /\ \A j \in DOMAIN ls : j > i => ~(ls[j].node = n /\ ls[j].kind \in K)) =>
         ls[i] \in B

LEMMA MuteAfter ==
  ASSUME NEW R \in Seq(PictureLine), NEW S \in Seq(PictureLine), NEW n, NEW K
  PROVE  Mute(R \o S, n, K) <=> Mute(R, n, K) /\ Mute(S, n, K)
<1>1. Len(R \o S) = Len(R) + Len(S) /\ R \o S \in Seq(PictureLine) /\ Len(R) \in Nat /\ Len(S) \in Nat
  OBVIOUS
<1>2. \A i \in 1 .. Len(R) : (R \o S)[i] = R[i]
  OBVIOUS
<1>3. \A i \in 1 .. Len(S) : (R \o S)[Len(R) + i] = S[i]
  OBVIOUS
<1>4. DOMAIN R = 1 .. Len(R) /\ DOMAIN S = 1 .. Len(S) /\ DOMAIN (R \o S) = 1 .. Len(R) + Len(S)
  OBVIOUS
<1>5. ASSUME Mute(R \o S, n, K) PROVE Mute(R, n, K) /\ Mute(S, n, K)
  <2>1. ASSUME NEW i \in 1 .. Len(R) PROVE ~(R[i].node = n /\ R[i].kind \in K)
    BY <1>1, <1>2, <1>4, <1>5 DEF Mute
  <2>2. ASSUME NEW i \in 1 .. Len(S) PROVE ~(S[i].node = n /\ S[i].kind \in K)
    <3>1. Len(R) + i \in DOMAIN (R \o S) /\ (R \o S)[Len(R) + i] = S[i]
      BY <1>1, <1>3, <1>4
    <3> QED BY <3>1, <1>5 DEF Mute
  <2> QED BY <2>1, <2>2, <1>4 DEF Mute
<1>6. ASSUME Mute(R, n, K), Mute(S, n, K), NEW i \in DOMAIN (R \o S)
      PROVE  ~((R \o S)[i].node = n /\ (R \o S)[i].kind \in K)
  <2>1. CASE i <= Len(R)
    BY <2>1, <1>6, <1>1, <1>2, <1>4 DEF Mute
  <2>2. CASE i > Len(R)
    <3>1. i - Len(R) \in DOMAIN S /\ (R \o S)[i] = S[i - Len(R)]
      BY <2>2, <1>1, <1>3, <1>4, <1>6
    <3> QED BY <3>1, <1>6 DEF Mute
  <2> QED BY <2>1, <2>2, <1>1, <1>4
<1> QED BY <1>5, <1>6 DEF Mute

LEMMA TellsAfter ==
  ASSUME NEW R \in Seq(PictureLine), NEW S \in Seq(PictureLine), NEW n, NEW K, NEW B,
         Tells(S, n, K, B) \/ (Mute(S, n, K) /\ Tells(R, n, K, B))
  PROVE  Tells(R \o S, n, K, B)
<1>1. Len(R \o S) = Len(R) + Len(S) /\ R \o S \in Seq(PictureLine) /\ Len(R) \in Nat /\ Len(S) \in Nat
  OBVIOUS
<1>2. \A i \in 1 .. Len(R) : (R \o S)[i] = R[i]
  OBVIOUS
<1>3. \A i \in 1 .. Len(S) : (R \o S)[Len(R) + i] = S[i]
  OBVIOUS
<1>4. DOMAIN R = 1 .. Len(R) /\ DOMAIN S = 1 .. Len(S) /\ DOMAIN (R \o S) = 1 .. Len(R) + Len(S)
  OBVIOUS
<1>5. ~Mute(R \o S, n, K)
  BY MuteAfter DEF Tells
<1>6. ASSUME NEW i \in DOMAIN (R \o S), (R \o S)[i].node = n, (R \o S)[i].kind \in K,
             \A j \in DOMAIN (R \o S) : j > i => ~((R \o S)[j].node = n /\ (R \o S)[j].kind \in K)
      PROVE  (R \o S)[i] \in B
  <2>1. CASE i <= Len(R)
    <3>1. ASSUME NEW k \in DOMAIN S PROVE ~(S[k].node = n /\ S[k].kind \in K)
      <4>1. Len(R) + k \in DOMAIN (R \o S) /\ (R \o S)[Len(R) + k] = S[k] /\ Len(R) + k > i
        BY <2>1, <1>1, <1>3, <1>4
      <4> QED BY <4>1, <1>6
    <3>2. Tells(R, n, K, B)
      BY <3>1 DEF Tells, Mute
    <3>3. i \in DOMAIN R /\ R[i] = (R \o S)[i]
      BY <2>1, <1>1, <1>2, <1>4
    <3>4. ASSUME NEW k \in DOMAIN R, k > i PROVE ~(R[k].node = n /\ R[k].kind \in K)
      <4>1. k \in DOMAIN (R \o S) /\ (R \o S)[k] = R[k]
        BY <1>1, <1>2, <1>4
      <4> QED BY <4>1, <3>4, <1>6
    <3> QED BY <3>2, <3>3, <3>4, <1>6 DEF Tells
  <2>2. CASE i > Len(R)
    <3> DEFINE k == i - Len(R)
    <3>1. k \in DOMAIN S /\ (R \o S)[i] = S[k]
      BY <2>2, <1>1, <1>3, <1>4
    <3>2. ASSUME NEW j \in DOMAIN S, j > k PROVE ~(S[j].node = n /\ S[j].kind \in K)
      <4>1. Len(R) + j \in DOMAIN (R \o S) /\ (R \o S)[Len(R) + j] = S[j] /\ Len(R) + j > i
        BY <3>2, <2>2, <1>1, <1>3, <1>4
      <4> QED BY <4>1, <1>6
    <3>3. Tells(S, n, K, B)
      BY <3>1, <1>6 DEF Mute
    <3> QED BY <3>1, <3>2, <3>3, <1>6 DEF Tells
  <2> QED BY <2>1, <2>2, <1>1, <1>4
<1> QED BY <1>5, <1>6 DEF Tells

\* A single line.
LEMMA OneLine ==
  ASSUME NEW l \in PictureLine
  PROVE  /\ <<l>> \in Seq(PictureLine)
         /\ \A n, K : Mute(<<l>>, n, K) <=> ~(l.node = n /\ l.kind \in K)
         /\ \A n, K, B : Tells(<<l>>, n, K, B) <=> l.node = n /\ l.kind \in K /\ l \in B
<1>1. DOMAIN <<l>> = {1} /\ <<l>>[1] = l
  OBVIOUS
<1>2. <<l>> \in Seq(PictureLine)
  OBVIOUS
<1>3. \A n, K : Mute(<<l>>, n, K) <=> ~(l.node = n /\ l.kind \in K)
  BY <1>1 DEF Mute
<1>4. \A n, K, B : Tells(<<l>>, n, K, B) <=> l.node = n /\ l.kind \in K /\ l \in B
  BY <1>1, <1>3 DEF Tells
<1> QED BY <1>2, <1>3, <1>4

\* What is still to be decoded, after the first line of it is.
LEMMA AfterFirst ==
  ASSUME NEW R \in Seq(PictureLine), R # <<>>, NEW n, NEW K, NEW B
  PROVE  /\ Mute(R, n, K) => Mute(Tail(R), n, K) /\ ~(Head(R).node = n /\ Head(R).kind \in K)
         /\ Tells(R, n, K, B) =>
              \/ Tells(Tail(R), n, K, B)
              \/ Mute(Tail(R), n, K) /\ Head(R).node = n /\ Head(R).kind \in K /\ Head(R) \in B
<1>1. Len(R) \in Nat /\ Len(R) > 0 /\ DOMAIN R = 1 .. Len(R) /\ Tail(R) \in Seq(PictureLine)
      /\ DOMAIN Tail(R) = 1 .. Len(R) - 1 /\ Head(R) = R[1]
  OBVIOUS
<1>2. \A i \in DOMAIN Tail(R) : Tail(R)[i] = R[i + 1] /\ i + 1 \in DOMAIN R
  OBVIOUS
<1>3. Mute(R, n, K) => Mute(Tail(R), n, K) /\ ~(Head(R).node = n /\ Head(R).kind \in K)
  BY <1>1, <1>2 DEF Mute
<1>4. ASSUME Tells(R, n, K, B), Mute(Tail(R), n, K)
      PROVE  Head(R).node = n /\ Head(R).kind \in K /\ Head(R) \in B
  <2>1. ASSUME NEW i \in DOMAIN R, i > 1 PROVE ~(R[i].node = n /\ R[i].kind \in K)
    <3>1. i - 1 \in DOMAIN Tail(R) /\ Tail(R)[i - 1] = R[i]
      BY <2>1, <1>1, <1>2
    <3> QED BY <3>1, <1>4 DEF Mute
  <2>2. PICK i \in DOMAIN R : R[i].node = n /\ R[i].kind \in K
    BY <1>4 DEF Tells, Mute
  <2>3. i = 1
    BY <2>1, <2>2, <1>1
  <2> QED BY <2>1, <2>2, <2>3, <1>1, <1>4 DEF Tells
<1>5. ASSUME Tells(R, n, K, B), NEW i \in DOMAIN Tail(R), Tail(R)[i].node = n, Tail(R)[i].kind \in K,
             \A j \in DOMAIN Tail(R) : j > i => ~(Tail(R)[j].node = n /\ Tail(R)[j].kind \in K)
      PROVE  Tail(R)[i] \in B
  <2>1. ASSUME NEW j \in DOMAIN R, j > i + 1 PROVE ~(R[j].node = n /\ R[j].kind \in K)
    <3>1. j - 1 \in DOMAIN Tail(R) /\ Tail(R)[j - 1] = R[j] /\ j - 1 > i
      BY <2>1, <1>1, <1>2
    <3> QED BY <3>1, <1>5
  <2> QED BY <2>1, <1>2, <1>5 DEF Tells
<1> QED BY <1>3, <1>4, <1>5 DEF Tells

-----------------------------------------------------------------------------
(* The lines of several frames *)

LEMMA LeastOf ==
  ASSUME NEW S, S \subseteq Nat, S # {}
  PROVE  \E i \in S : \A j \in S : i <= j
<1>1. PICK x \in S : \A y \in S : <<y, x>> \notin OpToRel(<, Nat)
  BY NatLessThanWellFounded, WFMin
<1>2. \A y \in S : ~(y < x)
  BY <1>1 DEF OpToRel
<1>3. ASSUME NEW y \in S PROVE x <= y
  <2>1. x \in Nat /\ y \in Nat /\ ~(y < x)
    BY <1>2
  <2> QED BY <2>1
<1> QED BY <1>3

LEMMA LengthIs == \A T : \A q \in Seq(T) : Len(q) \in Nat /\ DOMAIN q = 1 .. Len(q)
OBVIOUS

Joins(f, seqs) ==
  /\ f \in [1 .. Len(seqs) -> Seq(PictureLine)]
  /\ \A i \in 1 .. Len(seqs) : f[i] = IF i = 1 THEN seqs[i] ELSE f[i - 1] \o seqs[i]

Upto(f, seqs, k) ==
  /\ f \in [1 .. k -> Seq(PictureLine)]
  /\ \A i \in 1 .. k : f[i] = IF i = 1 THEN seqs[i] ELSE f[i - 1] \o seqs[i]

LEMMA SomeJoins ==
  ASSUME NEW seqs \in Seq(Seq(PictureLine))
  PROVE  \E f : Joins(f, seqs)
<1> DEFINE S == {k \in Nat : k <= Len(seqs) /\ ~\E f : Upto(f, seqs, k)}
<1>1. ASSUME S # {} PROVE FALSE
  <2>1. PICK k \in S : \A j \in S : k <= j
    <3>1. S \subseteq Nat
      BY LengthIs
    <3> HIDE DEF S
    <3> QED BY <3>1, <1>1, LeastOf
  <2>2. k \in Nat /\ k <= Len(seqs) /\ Len(seqs) \in Nat /\ ~\E f : Upto(f, seqs, k)
    BY <2>1
  <2>3. k # 0
    <3>1. SUFFICES Upto([i \in 1 .. 0 |-> <<>>], seqs, 0)
      BY <2>2
    <3> QED BY DEF Upto
  <2>4. k - 1 \notin S /\ k - 1 \in Nat /\ k - 1 <= Len(seqs)
    <3>1. k - 1 \in Nat /\ k - 1 <= Len(seqs) /\ ~(k <= k - 1)
      BY <2>2, <2>3
    <3> HIDE DEF S
    <3> QED BY <3>1, <2>1
  <2>5. PICK f : Upto(f, seqs, k - 1)
    BY <2>4
  <2> DEFINE g == [i \in 1 .. k |-> IF i < k THEN f[i] ELSE IF k = 1 THEN seqs[k] ELSE f[k - 1] \o seqs[k]]
  <2>6. seqs[k] \in Seq(PictureLine)
    BY <2>2, <2>3
  <2>7. ASSUME NEW i \in 1 .. k - 1 PROVE f[i] \in Seq(PictureLine)
    BY <2>5, <2>7 DEF Upto
  <2>8. ASSUME NEW i \in 1 .. k PROVE g[i] \in Seq(PictureLine)
    <3>1. CASE i < k
      BY <3>1, <2>2, <2>7
    <3>2. CASE i = k /\ k = 1
      BY <3>2, <2>6
    <3>3. CASE i = k /\ k # 1
      <4>1. f[k - 1] \in Seq(PictureLine)
        BY <3>3, <2>2, <2>3, <2>7
      <4>2. f[k - 1] \o seqs[k] \in Seq(PictureLine)
        BY <4>1, <2>6
      <4> QED BY <4>2, <3>3, <2>2
    <3> QED BY <3>1, <3>2, <3>3, <2>2
  <2>9. ASSUME NEW i \in 1 .. k PROVE g[i] = IF i = 1 THEN seqs[i] ELSE g[i - 1] \o seqs[i]
    <3>1. CASE i < k
      <4>1. g[i] = f[i] /\ (i # 1 => g[i - 1] = f[i - 1]) /\ i \in 1 .. k - 1
        BY <3>1, <2>2
      <4> HIDE DEF g
      <4> QED BY <4>1, <2>5 DEF Upto
    <3>2. CASE i = k
      <4>1. k # 1 => g[k - 1] = f[k - 1]
        BY <2>2, <2>3
      <4>2. g[k] = IF k = 1 THEN seqs[k] ELSE f[k - 1] \o seqs[k]
        BY <2>2, <2>3
      <4> HIDE DEF g
      <4> QED BY <4>1, <4>2, <3>2
    <3> QED BY <3>1, <3>2, <2>2
  <2>10. g \in [1 .. k -> Seq(PictureLine)]
    <3>1. DOMAIN g = 1 .. k /\ g = [i \in 1 .. k |-> g[i]]
      OBVIOUS
    <3> HIDE DEF g
    <3> QED BY <3>1, <2>8
  <2> HIDE DEF g
  <2>11. Upto(g, seqs, k)
    BY <2>9, <2>10 DEF Upto
  <2> QED BY <2>11, <2>2
<1>2. Len(seqs) \notin S /\ Len(seqs) \in Nat
  <2>1. Len(seqs) \in Nat
    OBVIOUS
  <2> HIDE DEF S
  <2> QED BY <1>1, <2>1
<1> QED BY <1>2 DEF Joins, Upto

LEMMA FlattenJoins ==
  ASSUME NEW seqs \in Seq(Seq(PictureLine)), Len(seqs) # 0
  PROVE  \E f : Joins(f, seqs) /\ Picture!FlattenSeq(seqs) = f[Len(seqs)]
<1> DEFINE F(g) == [i \in 1 .. Len(seqs) |-> IF i = 1 THEN seqs[i] ELSE g[i - 1] \o seqs[i]]
<1> DEFINE h == CHOOSE g : g = F(g)
<1>1. Picture!FlattenSeq(seqs) = h[Len(seqs)]
  BY DEF Picture!FlattenSeq
<1>2. PICK f : Joins(f, seqs)
  BY SomeJoins
<1>3. f = F(f)
  <2>1. f = [i \in 1 .. Len(seqs) |-> f[i]]
    BY <1>2 DEF Joins
  <2> QED BY <2>1, <1>2 DEF Joins
<1>4. h = F(h)
  <2> HIDE DEF F
  <2> QED BY <1>3
<1> HIDE DEF h
<1>5. \A i \in 1 .. Len(seqs) : h[i] = IF i = 1 THEN seqs[i] ELSE h[i - 1] \o seqs[i]
  BY <1>4
<1>6. DOMAIN h = 1 .. Len(seqs) /\ h = [i \in 1 .. Len(seqs) |-> h[i]]
  BY <1>4
<1>7. \A i \in 1 .. Len(seqs) : h[i] \in Seq(PictureLine)
  <2> DEFINE S == {i \in 1 .. Len(seqs) : h[i] \notin Seq(PictureLine)}
  <2>1. ASSUME S # {} PROVE FALSE
    <3>1. PICK i \in S : \A j \in S : i <= j
      <4>1. S \subseteq Nat
        BY LengthIs
      <4> HIDE DEF S
      <4> QED BY <4>1, <2>1, LeastOf
    <3>2. i \in 1 .. Len(seqs) /\ h[i] \notin Seq(PictureLine) /\ Len(seqs) \in Nat /\ seqs[i] \in Seq(PictureLine)
      BY <3>1
    <3>3. i # 1
      BY <3>2, <1>5
    <3>4. i - 1 \in 1 .. Len(seqs) /\ i - 1 \notin S
      BY <3>1, <3>2, <3>3
    <3>5. h[i - 1] \in Seq(PictureLine)
      BY <3>4
    <3>6. h[i] = h[i - 1] \o seqs[i]
      BY <3>2, <3>3, <1>5
    <3> QED BY <3>2, <3>5, <3>6
  <2> QED BY <2>1
<1>8. Joins(h, seqs)
  BY <1>5, <1>6, <1>7 DEF Joins
<1> QED BY <1>1, <1>8

\* What the lines of all frames end in, from the frames.
LEMMA FlattenIs ==
  ASSUME NEW seqs \in Seq(Seq(PictureLine))
  PROVE  Picture!FlattenSeq(seqs) \in Seq(PictureLine)
<1>1. CASE Len(seqs) = 0
  <2>1. Picture!FlattenSeq(seqs) = seqs
    BY <1>1 DEF Picture!FlattenSeq
  <2>2. \A q \in Seq(Seq(PictureLine)) : Len(q) = 0 => q \in Seq(PictureLine)
    OBVIOUS
  <2> QED BY <1>1, <2>1, <2>2
<1>2. CASE Len(seqs) # 0
  <2>1. PICK f : Joins(f, seqs) /\ Picture!FlattenSeq(seqs) = f[Len(seqs)]
    BY <1>2, FlattenJoins
  <2>2. f \in [1 .. Len(seqs) -> Seq(PictureLine)]
    BY <2>1 DEF Joins
  <2>3. Len(seqs) \in 1 .. Len(seqs)
    BY <1>2
  <2> QED BY <2>1, <2>2, <2>3
<1> QED BY <1>1, <1>2

LEMMA FlattenMute ==
  ASSUME NEW seqs \in Seq(Seq(PictureLine)), NEW n, NEW K, \A i \in DOMAIN seqs : Mute(seqs[i], n, K)
  PROVE  Mute(Picture!FlattenSeq(seqs), n, K)
<1>1. CASE Len(seqs) = 0
  BY <1>1 DEF Picture!FlattenSeq, Mute
<1>2. CASE Len(seqs) # 0
  <2>1. PICK f : Joins(f, seqs) /\ Picture!FlattenSeq(seqs) = f[Len(seqs)]
    BY <1>2, FlattenJoins
  <2> DEFINE S == {i \in 1 .. Len(seqs) : ~Mute(f[i], n, K)}
  <2>2. ASSUME S # {} PROVE FALSE
    <3>1. PICK i \in S : \A j \in S : i <= j
      <4>1. S \subseteq Nat
        BY LengthIs
      <4> HIDE DEF S
      <4> QED BY <4>1, <2>2, LeastOf
    <3>2. i \in 1 .. Len(seqs) /\ ~Mute(f[i], n, K) /\ Len(seqs) \in Nat /\ Mute(seqs[i], n, K)
          /\ seqs[i] \in Seq(PictureLine)
      BY <3>1
    <3>3. i # 1
      BY <3>2, <2>1 DEF Joins
    <3>4. i - 1 \in 1 .. Len(seqs) /\ i - 1 \notin S
      BY <3>1, <3>2, <3>3
    <3>5. Mute(f[i - 1], n, K) /\ f[i - 1] \in Seq(PictureLine) /\ f[i] = f[i - 1] \o seqs[i]
      BY <3>2, <3>3, <3>4, <2>1 DEF Joins
    <3> QED BY <3>2, <3>5, MuteAfter
  <2>3. Len(seqs) \in 1 .. Len(seqs)
    BY <1>2
  <2> QED BY <2>1, <2>2, <2>3
<1> QED BY <1>1, <1>2

LEMMA FlattenTells ==
  ASSUME NEW seqs \in Seq(Seq(PictureLine)), NEW n, NEW K, NEW B,
         \A i \in DOMAIN seqs : Mute(seqs[i], n, K) \/ Tells(seqs[i], n, K, B),
         NEW at \in DOMAIN seqs, Tells(seqs[at], n, K, B)
  PROVE  Tells(Picture!FlattenSeq(seqs), n, K, B)
<1>1. Len(seqs) # 0 /\ Len(seqs) \in Nat /\ at \in 1 .. Len(seqs)
  OBVIOUS
<1>2. PICK f : Joins(f, seqs) /\ Picture!FlattenSeq(seqs) = f[Len(seqs)]
  BY <1>1, FlattenJoins
<1> DEFINE S == {i \in at .. Len(seqs) : ~Tells(f[i], n, K, B)}
<1>3. ASSUME S # {} PROVE FALSE
  <2>1. PICK i \in S : \A j \in S : i <= j
    <3>1. S \subseteq Nat
      <4>1. at .. Len(seqs) \subseteq Nat
        BY <1>1
      <4> QED BY <4>1
    <3> HIDE DEF S
    <3> QED BY <3>1, <1>1, <1>3, LeastOf
  <2>2. i \in at .. Len(seqs) /\ ~Tells(f[i], n, K, B) /\ i \in 1 .. Len(seqs) /\ seqs[i] \in Seq(PictureLine)
    <3>1. i \in at .. Len(seqs) /\ ~Tells(f[i], n, K, B)
      BY <2>1
    <3>2. i \in 1 .. Len(seqs)
      BY <1>1, <3>1
    <3>3. seqs[i] \in Seq(PictureLine)
      BY <3>2
    <3> HIDE DEF S
    <3> QED BY <3>1, <3>2, <3>3
  <2>3. CASE i = 1
    <3>1. at = 1 /\ f[1] = seqs[1]
      <4>1. at = 1
        BY <2>2, <2>3, <1>1
      <4> QED BY <4>1, <1>1, <1>2 DEF Joins
    <3>2. Tells(f[i], n, K, B)
      BY <3>1, <2>3
    <3> QED BY <3>2, <2>2
  <2>4. CASE i # 1
    <3>1. f[i - 1] \in Seq(PictureLine) /\ f[i] = f[i - 1] \o seqs[i]
      <4>1. i - 1 \in 1 .. Len(seqs)
        BY <2>2, <2>4, <1>1
      <4> QED BY <4>1, <2>2, <2>4, <1>2 DEF Joins
    <3>2. CASE i = at
      <4>1. Tells(seqs[i], n, K, B)
        BY <3>2
      <4> QED BY <4>1, <3>1, <2>2, TellsAfter
    <3>3. CASE i # at
      <4>1. i - 1 \in at .. Len(seqs) /\ i - 1 \notin S
        <5>1. i - 1 \in at .. Len(seqs) /\ ~(i <= i - 1)
          BY <2>2, <3>3, <1>1
        <5> HIDE DEF S
        <5> QED BY <5>1, <2>1
      <4>2. Tells(f[i - 1], n, K, B)
        BY <4>1
      <4>3. Mute(seqs[i], n, K) \/ Tells(seqs[i], n, K, B)
        <5>1. i \in DOMAIN seqs
          BY <2>2
        <5> QED BY <5>1
      <4> QED BY <4>2, <4>3, <3>1, <2>2, TellsAfter
    <3> QED BY <3>2, <3>3
  <2> QED BY <2>3, <2>4
<1>4. Len(seqs) \in at .. Len(seqs)
  BY <1>1
<1> QED BY <1>2, <1>3, <1>4

LEMMA InAnyOrder ==
  ASSUME NEW R \in Seq(PictureLine), NEW S \in Seq(PictureLine), NEW T \in Seq(PictureLine)
  PROVE  (R \o S) \o T = R \o (S \o T)
OBVIOUS

\* The instance counts as this module does.
LEMMA PictureAgrees == \A S : Picture!Cardinality(S) = Cardinality(S) /\ (Picture!IsFiniteSet(S) <=> IsFiniteSet(S))
BY DEF Picture!Cardinality, Cardinality, Picture!IsFiniteSet, IsFiniteSet

LEMMA TwoArePictured == ASSUME NEW a, NEW b PROVE Picture!IsFiniteSet({a, b})
BY PictureAgrees, MeasuresAgree, PairsAreFinite

\* A set in some order.
LEMMA AllInOrder ==
  ASSUME NEW S, IsFiniteSet(S)
  PROVE  Picture!SetToSeq(S) \in Seq(S) /\ \A m \in S : \E i \in DOMAIN Picture!SetToSeq(S) : Picture!SetToSeq(S)[i] = m
<1> DEFINE n == Cardinality(S)
<1>1. n \in Nat /\ Bijection(1 .. n, S) # {}
  BY FS_CardinalityType DEF ExistsBijection
<1>2. PICK g \in [1 .. n -> S] : Picture!IsInjective(g)
  BY <1>1 DEF Bijection, Injection, IsInjective, Picture!IsInjective
<1>3. Picture!SetToSeq(S) \in [1 .. n -> S] /\ Picture!IsInjective(Picture!SetToSeq(S))
  BY <1>2, PictureAgrees DEF Picture!SetToSeq
<1>4. Picture!SetToSeq(S) \in Injection(1 .. n, S)
  BY <1>3 DEF Injection, IsInjective, Picture!IsInjective
<1>5. IsFiniteSet(1 .. n) /\ Cardinality(1 .. n) = n
  BY <1>1, FS_Interval
<1>6. Picture!SetToSeq(S) \in Surjection(1 .. n, S)
  BY <1>4, <1>5, FS_Injection
<1> DEFINE s == Picture!SetToSeq(S)
<1> HIDE DEF n, s
<1>7. s \in [1 .. n -> S] /\ n \in Nat
  BY <1>1, <1>3 DEF s
<1>8. s \in Seq(S) /\ DOMAIN s = 1 .. n
  BY <1>7
<1>9. ASSUME NEW m \in S PROVE \E i \in DOMAIN s : s[i] = m
  BY <1>6, <1>8 DEF s, Surjection
<1> QED BY <1>8, <1>9 DEF s

-----------------------------------------------------------------------------
(* The invariant *)

FaultKinds == {"CONTROL", "COMMAND", "STATUS", "DISCOVERED", "LEADER", "ANNOUNCED"}
RoleKinds == FaultKinds \cup {"HEARTBEAT"}
CanOf(l) ==
  CASE l.kind = "CONTROL" -> Picture!StatusName(l.word) [] l.kind = "COMMAND" -> Picture!ActionState(l.word)
    [] l.kind = "STATUS" -> l.word [] l.kind = "DISCOVERED" -> "ONLINE" [] OTHER -> "LEADER"

\* Lines after which a module is shown in fault exactly if its state is r, and
\* lines after which it is not shown as the leader.
Agreeing(r) == {l \in PictureLine : CanOf(l) = "FALHA" <=> r = "FALHA"}
Following == {l \in PictureLine : l.kind # "HEARTBEAT" /\ CanOf(l) # "LEADER"}

Cans == PictureWords \cup {"LEADER", "ONLINE", "OFFLINE", "UNKNOWN"}
Shown == [here : BOOLEAN, status : {"UNKNOWN", "ONLINE", "STALE", "OFFLINE", "LOST"},
          role : {"UNKNOWN", "LEADER", "FOLLOWER"}, can : Cans, sensor : PictureWords \cup {"UNKNOWN"}]
PictureShape ==
  /\ printed \in Seq(PictureLine)
  /\ leader \in Modules \cup {0} /\ misled \subseteq Modules /\ known \subseteq Modules /\ observed \in Modules \cup {0}
  /\ condition \in [Modules -> States] /\ table \in [Modules -> States \cup {"LIDER"}]
  /\ commands \in [Modules -> Seq(Actions)]
  /\ picture \in [Modules -> Shown]

\* The leader is not in fault.
LeaderWorks == leader # 0 => condition[leader] # "FALHA"

Quiet(m) == commands[m] = <<>> /\ m \notin misled /\ (table[m] = "FALHA" <=> condition[m] = "FALHA")
FaultTold(m) ==
  Quiet(m) =>
    \/ Tells(printed, m, FaultKinds, Agreeing(condition[m]))
    \/ Mute(printed, m, FaultKinds) /\ (picture[m].can = "FALHA" <=> condition[m] = "FALHA")
RoleTold(m) ==
  m # leader =>
    \/ Tells(printed, m, RoleKinds, Following)
    \/ Mute(printed, m, RoleKinds) /\ picture[m].role # "LEADER"

PictureInv == PictureShape /\ LeaderWorks /\ \A m \in Modules : FaultTold(m) /\ RoleTold(m)

-----------------------------------------------------------------------------
(* The frames *)

LEMMA LineIs ==
  ASSUME NEW k \in {"CONTROL", "COMMAND", "SENSOR", "HEARTBEAT", "STATUS", "DISCOVERED", "LEADER", "ANNOUNCED",
                    "CONTROL_ACK", "CMD_ACK", "ELECTION", "JOIN", "OTHER"},
         NEW n \in Modules, NEW w \in PictureWords
  PROVE  Picture!Line(k, n, w) \in PictureLine /\ Picture!Line(k, n, w).kind = k /\ Picture!Line(k, n, w).node = n
    /\ Picture!Line(k, n, w).word = w
BY DEF Picture!Line, PictureLine

\* A set of lines about module n, as the kinds K take them, and about no other.
About(ls, n) == ls \in Seq(PictureLine) /\ \A m : m # n => Mute(ls, m, FaultKinds) /\ Mute(ls, m, RoleKinds)

LEMMA AboutOne ==
  ASSUME NEW l \in PictureLine
  PROVE  About(<<l>>, l.node)
BY OneLine DEF About

LEMMA AboutBoth ==
  ASSUME NEW R, NEW S, NEW n, About(R, n), About(S, n)
  PROVE  About(R \o S, n)
<1>1. R \in Seq(PictureLine) /\ S \in Seq(PictureLine)
  BY DEF About
<1>2. R \o S \in Seq(PictureLine)
  BY <1>1
<1>3. ASSUME NEW m, m # n PROVE Mute(R \o S, m, FaultKinds) /\ Mute(R \o S, m, RoleKinds)
  BY <1>1, <1>3, MuteAfter DEF About
<1> QED BY <1>2, <1>3 DEF About

LEMMA DiscoveredIs ==
  ASSUME NEW n \in Modules
  PROVE  /\ About(Picture!Discovered(n), n)
         /\ \A K, B : Picture!Line("DISCOVERED", n, "") \in B /\ "DISCOVERED" \in K =>
              Tells(Picture!Discovered(n), n, K, B) \/ Mute(Picture!Discovered(n), n, K)
<1>1. Picture!Line("DISCOVERED", n, "") \in PictureLine /\ Picture!Line("DISCOVERED", n, "").node = n
      /\ Picture!Line("DISCOVERED", n, "").kind = "DISCOVERED"
  BY DEF Picture!Line, PictureLine, PictureWords
<1>2. PICK l \in PictureLine : l = Picture!Line("DISCOVERED", n, "") /\ l.node = n /\ l.kind = "DISCOVERED"
  BY <1>1
<1>3. Picture!Discovered(n) = <<>> \/ Picture!Discovered(n) = <<l>>
  BY <1>2 DEF Picture!Discovered
<1>4. CASE Picture!Discovered(n) = <<>>
  BY <1>4 DEF About, Mute
<1>5. CASE Picture!Discovered(n) = <<l>>
  <2>1. About(<<l>>, n)
    BY <1>2, AboutOne
  <2>2. ASSUME NEW K, NEW B, l \in B, "DISCOVERED" \in K
        PROVE  Tells(<<l>>, n, K, B)
    <3>1. l.node = n /\ l.kind \in K /\ l \in B
      BY <2>2, <1>2
    <3> QED BY <3>1, OneLine
  <2> QED BY <2>1, <2>2, <1>2, <1>5
<1> QED BY <1>3, <1>4, <1>5

LEMMA StatusIs ==
  ASSUME NEW R, NEW n \in Modules, About(R, n), NEW s \in States \cup {"LIDER"}
  PROVE  /\ About(R \o <<Picture!Line("STATUS", n, s)>>, n)
         /\ \A K, B : Picture!Line("STATUS", n, s) \in B /\ "STATUS" \in K =>
              Tells(R \o <<Picture!Line("STATUS", n, s)>>, n, K, B)
<1>1. PICK l \in PictureLine : l = Picture!Line("STATUS", n, s) /\ l.node = n /\ l.kind = "STATUS"
  <2>1. Picture!Line("STATUS", n, s) \in PictureLine /\ Picture!Line("STATUS", n, s).node = n
        /\ Picture!Line("STATUS", n, s).kind = "STATUS"
    BY DEF Picture!Line, PictureLine, PictureWords, States
  <2> QED BY <2>1
<1>2. About(<<l>>, n)
  BY <1>1, AboutOne
<1>3. About(R \o <<l>>, n)
  BY <1>2, AboutBoth
<1>4. ASSUME NEW K, NEW B, l \in B, "STATUS" \in K PROVE Tells(R \o <<l>>, n, K, B)
  <2>1. Tells(<<l>>, n, K, B)
    BY <1>1, <1>4, OneLine
  <2>2. R \in Seq(PictureLine) /\ <<l>> \in Seq(PictureLine)
    BY <1>2 DEF About
  <2> QED BY <2>1, <2>2, TellsAfter
<1> QED BY <1>1, <1>3, <1>4

LEMMA ControlIs ==
  ASSUME NEW n \in Modules, NEW s \in States \cup {"LIDER"}
  PROVE  About(Picture!Control(n, s), n)
<1>1. Picture!Line("CONTROL", n, s) \in PictureLine /\ Picture!Line("CONTROL", n, s).node = n
  BY DEF Picture!Line, PictureLine, PictureWords, States, Actions
<1> QED BY <1>1, AboutOne DEF Picture!Control

LEMMA StateFrameIs ==
  ASSUME NEW n \in Modules, NEW s \in States \cup {"LIDER"}
  PROVE  /\ About(Picture!StateFrame(n, s), n)
         /\ \A K, B : Picture!Line("STATUS", n, s) \in B /\ "STATUS" \in K => Tells(Picture!StateFrame(n, s), n, K, B)
<1>1. About(Picture!Control(n, s) \o Picture!Discovered(n), n)
  BY ControlIs, DiscoveredIs, AboutBoth
<1>2. Picture!StateFrame(n, s) = (Picture!Control(n, s) \o Picture!Discovered(n)) \o <<Picture!Line("STATUS", n, s)>>
  BY DEF Picture!StateFrame
<1> QED BY <1>1, <1>2, StatusIs

LEMMA AnswerFrameIs ==
  ASSUME NEW n \in Modules, NEW s \in States \cup {"LIDER"}
  PROVE  /\ About(Picture!AnswerFrame(n, s), n)
         /\ \A K, B : Picture!Line("STATUS", n, s) \in B /\ "STATUS" \in K => Tells(Picture!AnswerFrame(n, s), n, K, B)
BY ControlIs, StatusIs DEF Picture!AnswerFrame

\* Lines that say nothing of any module.
LEMMA SaysNothing ==
  ASSUME NEW n \in Modules, NEW k \in {"SENSOR", "CONTROL_ACK", "CMD_ACK", "ELECTION", "JOIN", "OTHER"},
         NEW w \in PictureWords
  PROVE  /\ About(<<Picture!Line(k, n, w)>>, n)
         /\ Mute(<<Picture!Line(k, n, w)>>, n, FaultKinds) /\ Mute(<<Picture!Line(k, n, w)>>, n, RoleKinds)
<1>1. PICK l \in PictureLine : l = Picture!Line(k, n, w) /\ l.node = n /\ l.kind = k
  BY LineIs
<1>2. k \notin FaultKinds /\ k \notin RoleKinds
  BY DEF FaultKinds, RoleKinds
<1> QED BY <1>1, <1>2, AboutOne, OneLine

LEMMA AckFrameIs ==
  ASSUME NEW n \in Modules
  PROVE  About(Picture!AckFrame(n), n) /\ Mute(Picture!AckFrame(n), n, FaultKinds)
    /\ Mute(Picture!AckFrame(n), n, RoleKinds)
<1>1. Picture!Line("CONTROL_ACK", n, "") \in PictureLine /\ Picture!Line("CMD_ACK", n, "") \in PictureLine
      /\ Picture!Line("CONTROL_ACK", n, "").kind = "CONTROL_ACK" /\ Picture!Line("CMD_ACK", n, "").kind = "CMD_ACK"
  BY DEF Picture!Line, PictureLine, PictureWords
<1>2. PICK l \in PictureLine, m \in PictureLine : Picture!AckFrame(n) = <<l, m>> /\ l.kind = "CONTROL_ACK"
      /\ m.kind = "CMD_ACK"
  BY <1>1 DEF Picture!AckFrame
<1>3. <<l, m>> \in Seq(PictureLine) /\ DOMAIN <<l, m>> = {1, 2} /\ <<l, m>>[1] = l /\ <<l, m>>[2] = m
  OBVIOUS
<1>4. ASSUME NEW i \in DOMAIN <<l, m>> PROVE <<l, m>>[i].kind \notin FaultKinds /\ <<l, m>>[i].kind \notin RoleKinds
  BY <1>2, <1>3 DEF FaultKinds, RoleKinds
<1>5. \A k : Mute(<<l, m>>, k, FaultKinds) /\ Mute(<<l, m>>, k, RoleKinds)
  BY <1>4 DEF Mute
<1> QED BY <1>2, <1>3, <1>5 DEF About

\* A discovery before something that says nothing.
LEMMA DiscoveryIs ==
  ASSUME NEW n \in Modules, NEW k \in {"SENSOR", "ELECTION", "JOIN"}, NEW w \in PictureWords
  PROVE  /\ About(Picture!Discovered(n) \o <<Picture!Line(k, n, w)>>, n)
         /\ \A B : \A K \in {FaultKinds, RoleKinds} : Picture!Line("DISCOVERED", n, "") \in B =>
              \/ Tells(Picture!Discovered(n) \o <<Picture!Line(k, n, w)>>, n, K, B)
              \/ Mute(Picture!Discovered(n) \o <<Picture!Line(k, n, w)>>, n, K)
<1> DEFINE R == Picture!Discovered(n)
           S == <<Picture!Line(k, n, w)>>
<1>1. About(S, n) /\ \A K \in {FaultKinds, RoleKinds} : Mute(S, n, K)
  BY SaysNothing
<1>2. About(R, n)
  BY DiscoveredIs
<1>3. ASSUME NEW K \in {FaultKinds, RoleKinds}, NEW B, Picture!Line("DISCOVERED", n, "") \in B
      PROVE  Tells(R, n, K, B) \/ Mute(R, n, K)
  <2>1. "DISCOVERED" \in K
    BY DEF FaultKinds, RoleKinds
  <2> QED BY <2>1, <1>3, DiscoveredIs
<1> HIDE DEF R, S
<1>4. R \in Seq(PictureLine) /\ S \in Seq(PictureLine)
  BY <1>1, <1>2 DEF About
<1>5. ASSUME NEW K \in {FaultKinds, RoleKinds}, NEW B, Picture!Line("DISCOVERED", n, "") \in B
      PROVE  Tells(R \o S, n, K, B) \/ Mute(R \o S, n, K)
  BY <1>1, <1>3, <1>4, <1>5, TellsAfter, MuteAfter
<1>6. About(R \o S, n)
  BY <1>1, <1>2, AboutBoth
<1> QED BY <1>5, <1>6 DEF R, S

LEMMA CommandFrameIs ==
  ASSUME NEW n \in Modules, NEW a \in Actions
  PROVE  About(Picture!CommandFrame(n, a), n) /\ Tells(Picture!CommandFrame(n, a), n, RoleKinds, Following)
<1>1. Picture!Line("COMMAND", n, a) \in PictureLine /\ Picture!Line("COMMAND", n, a).node = n
      /\ Picture!Line("COMMAND", n, a).kind = "COMMAND"
  BY DEF Picture!Line, PictureLine, PictureWords, States, Actions
<1>2. PICK l \in PictureLine : l = Picture!Line("COMMAND", n, a) /\ l.node = n /\ l.kind = "COMMAND"
  BY <1>1
<1>3. CanOf(l) # "LEADER" /\ l.kind \in RoleKinds
  BY <1>2 DEF CanOf, Picture!ActionState, RoleKinds, FaultKinds
<1>4. l \in Following
  BY <1>2, <1>3 DEF Following
<1>5. About(<<l>>, n) /\ Tells(<<l>>, n, RoleKinds, Following)
  BY <1>2, <1>3, <1>4, AboutOne, OneLine
<1> QED BY <1>2, <1>5 DEF Picture!CommandFrame

\* What the lines of a state are after.
LEMMA StateLineIs ==
  ASSUME NEW n \in Modules, NEW s \in States \cup {"LIDER"}, NEW r, s = "FALHA" <=> r = "FALHA"
  PROVE  Picture!Line("STATUS", n, s) \in Agreeing(r) /\ Picture!Line("STATUS", n, s) \in Following
<1>1. Picture!Line("STATUS", n, s) \in PictureLine /\ Picture!Line("STATUS", n, s).kind = "STATUS"
      /\ Picture!Line("STATUS", n, s).word = s
  BY DEF Picture!Line, PictureLine, PictureWords, States, Actions
<1>2. CanOf(Picture!Line("STATUS", n, s)) = s /\ s # "LEADER"
  BY <1>1 DEF CanOf, States
<1> QED BY <1>1, <1>2 DEF Agreeing, Following

LEMMA DiscoveredLineIs ==
  ASSUME NEW n \in Modules, NEW r, r # "FALHA"
  PROVE  Picture!Line("DISCOVERED", n, "") \in Agreeing(r) /\ Picture!Line("DISCOVERED", n, "") \in Following
<1>1. Picture!Line("DISCOVERED", n, "") \in PictureLine /\ Picture!Line("DISCOVERED", n, "").kind = "DISCOVERED"
  BY DEF Picture!Line, PictureLine, PictureWords, States, Actions
<1>2. CanOf(Picture!Line("DISCOVERED", n, "")) = "ONLINE"
  BY <1>1 DEF CanOf
<1> QED BY <1>1, <1>2 DEF Agreeing, Following

-----------------------------------------------------------------------------
(* The steps *)

\* A step in which nothing is heard of module m.
LEMMA StillTold ==
  ASSUME PictureInv, NEW m \in Modules, printed = <<>>, Mute(printed', m, FaultKinds), Mute(printed', m, RoleKinds),
         picture' = picture
  PROVE  /\ (/\ condition'[m] = condition[m] /\ (table'[m] = "FALHA" <=> table[m] = "FALHA")
             /\ (commands'[m] = <<>> => commands[m] = <<>>) /\ (m \in misled => m \in misled')) => FaultTold(m)'
         /\ (m # leader' => m # leader) => RoleTold(m)'
<1>1. ~Tells(printed, m, FaultKinds, Agreeing(condition[m])) /\ ~Tells(printed, m, RoleKinds, Following)
  <2>1. \A K : Mute(printed, m, K)
    BY DEF Mute
  <2> QED BY <2>1 DEF Tells
<1>2. FaultTold(m) /\ RoleTold(m)
  BY DEF PictureInv
<1>3. ASSUME condition'[m] = condition[m], table'[m] = "FALHA" <=> table[m] = "FALHA",
      commands'[m] = <<>> => commands[m] = <<>>,
             m \in misled => m \in misled'
      PROVE  FaultTold(m)'
  BY <1>1, <1>2, <1>3 DEF FaultTold, Quiet
<1>4. ASSUME m # leader' => m # leader PROVE RoleTold(m)'
  BY <1>1, <1>2, <1>4 DEF RoleTold
<1> QED BY <1>3, <1>4

\* The modules that a step is not about.
Others(n) ==
  \A m \in Modules :
    m # n => /\ condition'[m] = condition[m] /\ (table'[m] = "FALHA" <=> table[m] = "FALHA")
             /\ commands'[m] = commands[m] /\ (m \in misled => m \in misled')

LEMMA AboutOthers ==
  ASSUME PictureInv, NEW n, printed = <<>>, About(printed', n), picture' = picture, Others(n),
         \A m \in Modules : m # n => (m # leader' => m # leader),
         n \in Modules => FaultTold(n)' /\ RoleTold(n)'
  PROVE  \A m \in Modules : FaultTold(m)' /\ RoleTold(m)'
<1>1. ASSUME NEW m \in Modules, m # n PROVE FaultTold(m)' /\ RoleTold(m)'
  <2>1. Mute(printed', m, FaultKinds) /\ Mute(printed', m, RoleKinds)
    BY <1>1 DEF About
  <2>2. condition'[m] = condition[m] /\ (table'[m] = "FALHA" <=> table[m] = "FALHA")
        /\ commands'[m] = commands[m] /\ (m \in misled => m \in misled') /\ (m # leader' => m # leader)
    BY <1>1 DEF Others
  <2> QED BY <2>1, <2>2, StillTold
<1> QED BY <1>1

\* What is printed is all there is to decode.
LEMMA PrintedIs ==
  ASSUME NEW ls \in Seq(PictureLine), printed = <<>>, Picture!Printed(ls)
  PROVE  printed' = ls
BY DEF Picture!Printed

LEMMA HeartbeatStep ==
  ASSUME PictureInv, Picture!PictureAssumption, Picture!Heartbeat
  PROVE  PictureInv'
<1>1. PICK n \in Modules : n = leader /\ condition[n] # "FALHA"
  BY DEF Picture!Heartbeat, Picture!InOffice, PictureInv, PictureShape, LeaderWorks
<1>2. PICK l \in PictureLine, h \in PictureLine :
        /\ l = Picture!Line("LEADER", n, "") /\ l.kind = "LEADER" /\ l.node = n /\ l.word = ""
        /\ h = Picture!Line("HEARTBEAT", n, "") /\ h.kind = "HEARTBEAT" /\ h.node = n
  <2>1. Picture!Line("LEADER", n, "") \in PictureLine /\ Picture!Line("HEARTBEAT", n, "") \in PictureLine
        /\ Picture!Line("LEADER", n, "").kind = "LEADER" /\ Picture!Line("LEADER", n, "").node = n
             /\ Picture!Line("LEADER", n, "").word = ""
        /\ Picture!Line("HEARTBEAT", n, "").kind = "HEARTBEAT" /\ Picture!Line("HEARTBEAT", n, "").node = n
    BY DEF Picture!Line, PictureLine, PictureWords
  <2> QED BY <2>1
<1>3. About(<<l>>, n) /\ About(<<h>>, n) /\ About(<<>>, n)
  <2>1. About(<<>>, n)
    BY DEF About, Mute
  <2> QED BY <2>1, <1>2, AboutOne
<1>4. printed' = <<>> \o <<h>> \/ printed' = <<l>> \o <<h>>
  <2>1. Picture!HeartbeatFrame(n) = <<>> \o <<h>> \/ Picture!HeartbeatFrame(n) = <<l>> \o <<h>>
    BY <1>2 DEF Picture!HeartbeatFrame
  <2>2. Picture!HeartbeatFrame(n) \in Seq(PictureLine)
    BY <2>1, <1>3, AboutBoth DEF About
  <2> QED BY <2>1, <2>2, <1>1, PrintedIs DEF Picture!Heartbeat, Picture!Caused
<1>5. About(printed', n)
  BY <1>3, <1>4, AboutBoth
<1>6. Mute(<<h>>, n, FaultKinds) /\ Tells(<<l>>, n, FaultKinds, Agreeing(condition[n]))
  <2>1. CanOf(l) = "LEADER"
    BY <1>2 DEF CanOf
  <2>2. l \in Agreeing(condition[n])
    BY <1>1, <2>1 DEF Agreeing
  <2>3. h.kind \notin FaultKinds /\ l.kind \in FaultKinds
    BY <1>2 DEF FaultKinds
  <2> QED BY <2>2, <2>3, <1>2, OneLine
<1>7. Mute(printed', n, FaultKinds) \/ Tells(printed', n, FaultKinds, Agreeing(condition[n]))
  <2>1. <<l>> \in Seq(PictureLine) /\ <<h>> \in Seq(PictureLine) /\ <<>> \in Seq(PictureLine) /\ Mute(<<>>, n, FaultKinds)
    BY DEF Mute
  <2>2. CASE printed' = <<>> \o <<h>>
    <3>1. Mute(<<>> \o <<h>>, n, FaultKinds)
      BY <2>1, <1>6, MuteAfter
    <3> QED BY <3>1, <2>2
  <2>3. CASE printed' = <<l>> \o <<h>>
    <3>1. Tells(<<l>> \o <<h>>, n, FaultKinds, Agreeing(condition[n]))
      BY <2>1, <1>6, TellsAfter
    <3> QED BY <3>1, <2>3
  <2> QED BY <2>2, <2>3, <1>4
<1>8. printed = <<>> /\ picture' = picture /\ Others(n) /\ leader' = leader /\ condition' = condition
      /\ table' = table /\ commands' = commands
      /\ misled' = misled /\ known' = known /\ observed' = n
  BY <1>1 DEF Picture!Heartbeat, Picture!Caused, Picture!network, Others
<1>9. FaultTold(n)'
  <2>1. CASE Mute(printed', n, FaultKinds)
    <3>1. Mute(printed, n, FaultKinds) /\ ~Tells(printed, n, FaultKinds, Agreeing(condition[n]))
      BY <1>8 DEF Mute, Tells
    <3>2. FaultTold(n)
      BY DEF PictureInv
    <3> QED BY <3>1, <3>2, <2>1, <1>8 DEF FaultTold, Quiet
  <2>2. CASE Tells(printed', n, FaultKinds, Agreeing(condition[n]))
    BY <2>2, <1>8 DEF FaultTold
  <2> QED BY <2>1, <2>2, <1>7
<1>10. RoleTold(n)'
  BY <1>1, <1>8 DEF RoleTold
<1>11. \A m \in Modules : FaultTold(m)' /\ RoleTold(m)'
  BY <1>5, <1>8, <1>9, <1>10, AboutOthers
<1>12. PictureShape' /\ LeaderWorks'
  BY <1>5, <1>8 DEF PictureInv, PictureShape, LeaderWorks, About
<1> QED BY <1>11, <1>12 DEF PictureInv

\* A step that is about one module, which is then as it was told.
LEMMA OneModuleStep ==
  ASSUME PictureInv, NEW n \in Modules, printed = <<>>, About(printed', n), picture' = picture, Others(n),
         \A m \in Modules : m # n => (m # leader' => m # leader), FaultTold(n)', RoleTold(n)', LeaderWorks',
         leader' \in Modules \cup {0}, misled' \subseteq Modules, known' \subseteq Modules,
           observed' \in Modules \cup {0},
         condition' \in [Modules -> States], table' \in [Modules -> States \cup {"LIDER"}],
         commands' \in [Modules -> Seq(Actions)]
  PROVE  PictureInv'
<1>1. \A m \in Modules : FaultTold(m)' /\ RoleTold(m)'
  BY AboutOthers
<1>2. PictureShape'
  BY DEF PictureInv, PictureShape, About
<1> QED BY <1>1, <1>2 DEF PictureInv

\* The report of a state, which is the one that the module is in unless there is
\* more to say of it.
LEMMA WellReported ==
  ASSUME NEW n \in Modules, NEW s \in States \cup {"LIDER"},
         \A K, B : Picture!Line("STATUS", n, s) \in B /\ "STATUS" \in K => Tells(printed', n, K, B),
         Quiet(n)' => (s = "FALHA" <=> condition'[n] = "FALHA")
  PROVE  FaultTold(n)' /\ RoleTold(n)'
<1>1. "STATUS" \in FaultKinds /\ "STATUS" \in RoleKinds
  BY DEF FaultKinds, RoleKinds
<1>2. ASSUME Quiet(n)' PROVE Tells(printed', n, FaultKinds, Agreeing(condition'[n]))
  <2>1. Picture!Line("STATUS", n, s) \in Agreeing(condition'[n])
    BY <1>2, StateLineIs
  <2> QED BY <2>1, <1>1
<1>3. Tells(printed', n, RoleKinds, Following)
  <2>1. Picture!Line("STATUS", n, s) \in Following
    BY StateLineIs
  <2> QED BY <2>1, <1>1
<1> QED BY <1>2, <1>3 DEF FaultTold, RoleTold

LEMMA ReplicaStep ==
  ASSUME PictureInv, Picture!PictureAssumption, NEW n \in Modules, Picture!ReplicaEntry(n)
  PROVE  PictureInv'
<1>1. table[n] \in States \cup {"LIDER"}
  BY DEF PictureInv, PictureShape
<1>2. printed = <<>> /\ picture' = picture /\ Others(n) /\ leader' = leader /\ condition' = condition
      /\ table' = table /\ commands' = commands
      /\ misled' = misled /\ known' = known \cup {n} /\ observed' = observed
  BY DEF Picture!ReplicaEntry, Picture!Caused, Picture!network, Others, Picture!Heard
<1>3. printed' = Picture!StateFrame(n, table[n])
  BY <1>1, <1>2, StateFrameIs, PrintedIs DEF Picture!ReplicaEntry, About
<1>4. FaultTold(n)' /\ RoleTold(n)'
  <2>1. Quiet(n)' => (table[n] = "FALHA" <=> condition'[n] = "FALHA")
    BY <1>2 DEF Quiet
  <2>2. \A K, B : Picture!Line("STATUS", n, table[n]) \in B /\ "STATUS" \in K => Tells(printed', n, K, B)
    BY <1>1, <1>3, StateFrameIs
  <2> QED BY <2>1, <2>2, <1>1, WellReported
<1>5. LeaderWorks' /\ About(printed', n)
  BY <1>1, <1>2, <1>3, StateFrameIs DEF PictureInv, LeaderWorks
<1>6. /\ leader' \in Modules \cup {0} /\ misled' \subseteq Modules /\ known' \subseteq Modules
           /\ observed' \in Modules \cup {0}
      /\ condition' \in [Modules -> States] /\ table' \in [Modules -> States \cup {"LIDER"}]
      /\ commands' \in [Modules -> Seq(Actions)]
  BY <1>2 DEF PictureInv, PictureShape
<1> QED BY <1>2, <1>4, <1>5, <1>6, OneModuleStep

\* What a module tells of itself is its state, or that it is the leader.
LEMMA LocalStatusIs ==
  ASSUME PictureInv, NEW n \in Modules, Picture!PictureAssumption
  PROVE  Picture!LocalStatus(n) \in States \cup {"LIDER"} /\ (Picture!LocalStatus(n) = "FALHA" <=> condition[n] = "FALHA")
<1>1. CASE n = leader
  BY <1>1 DEF Picture!LocalStatus, PictureInv, LeaderWorks, Picture!PictureAssumption
<1>2. CASE n # leader
  BY <1>2 DEF Picture!LocalStatus, PictureInv, PictureShape
<1> QED BY <1>1, <1>2

\* What the leader puts on record does not touch the others.
LEMMA RecordedIs ==
  ASSUME PictureShape, NEW n \in Modules, NEW s \in States \cup {"LIDER"}, Picture!Recorded(n, s)
  PROVE  /\ table' \in [Modules -> States \cup {"LIDER"}]
         /\ \A m \in Modules : m # n => table'[m] = table[m]
         /\ table'[n] = IF table[n] = "FALHA" THEN "FALHA" ELSE s
BY DEF PictureShape, Picture!Recorded, States

LEMMA ResponseStep ==
  ASSUME PictureInv, Picture!PictureAssumption, NEW n \in Modules, Picture!StatusResponse(n)
  PROVE  PictureInv'
<1>1. PICK s \in States \cup {"LIDER"} : s = Picture!LocalStatus(n) /\ (s = "FALHA" <=> condition[n] = "FALHA")
  BY LocalStatusIs
<1>2. printed = <<>> /\ picture' = picture /\ leader' = leader /\ condition' = condition /\ commands' = commands
      /\ misled' = misled /\ known' = known /\ observed' = observed
  BY DEF Picture!StatusResponse, Picture!Caused
<1>3. /\ table' \in [Modules -> States \cup {"LIDER"}]
      /\ \A m \in Modules : m # n => table'[m] = table[m]
  BY <1>1, RecordedIs DEF Picture!StatusResponse, PictureInv
<1>4. printed' = Picture!AnswerFrame(n, s)
  BY <1>1, <1>2, AnswerFrameIs, PrintedIs DEF Picture!StatusResponse, About
<1>5. FaultTold(n)' /\ RoleTold(n)'
  <2>1. \A K, B : Picture!Line("STATUS", n, s) \in B /\ "STATUS" \in K => Tells(printed', n, K, B)
    BY <1>4, AnswerFrameIs
  <2> QED BY <2>1, <1>1, <1>2, WellReported
<1>6. LeaderWorks' /\ About(printed', n) /\ Others(n)
  BY <1>2, <1>3, <1>4, AnswerFrameIs DEF PictureInv, LeaderWorks, Others
<1>7. /\ leader' \in Modules \cup {0} /\ misled' \subseteq Modules /\ known' \subseteq Modules
           /\ observed' \in Modules \cup {0}
      /\ condition' \in [Modules -> States] /\ commands' \in [Modules -> Seq(Actions)]
  BY <1>2 DEF PictureInv, PictureShape
<1> QED BY <1>2, <1>3, <1>5, <1>6, <1>7, OneModuleStep

LEMMA SensorDataStep ==
  ASSUME PictureInv, Picture!PictureAssumption, NEW n \in Modules, Picture!SensorData(n)
  PROVE  PictureInv'
<1>1. printed = <<>> /\ picture' = picture /\ leader' = leader /\ condition' = condition /\ commands' = commands
      /\ misled' = misled /\ known' = known \cup {n} /\ observed' = observed /\ condition[n] = "ATIVO" /\ n # leader
  BY DEF Picture!SensorData, Picture!Caused, Picture!Heard
<1>2. /\ table' \in [Modules -> States \cup {"LIDER"}]
      /\ \A m \in Modules : m # n => table'[m] = table[m]
      /\ table'[n] = IF table[n] = "FALHA" THEN "FALHA" ELSE "ATIVO"
  <2>1. "ATIVO" \in States \cup {"LIDER"}
    BY DEF States
  <2> QED BY <2>1, RecordedIs DEF Picture!SensorData, PictureInv
<1>3. /\ About(printed', n)
      /\ \A B : \A K \in {FaultKinds, RoleKinds} : Picture!Line("DISCOVERED", n, "") \in B =>
           Tells(printed', n, K, B) \/ Mute(printed', n, K)
  <2> DEFINE ls == Picture!Discovered(n) \o <<Picture!Line("SENSOR", n, "1")>>
  <2>1. /\ About(ls, n)
        /\ \A B : \A K \in {FaultKinds, RoleKinds} : Picture!Line("DISCOVERED", n, "") \in B =>
             Tells(ls, n, K, B) \/ Mute(ls, n, K)
    <3>1. "1" \in PictureWords /\ "SENSOR" \in {"SENSOR", "ELECTION", "JOIN"}
      BY DEF PictureWords
    <3> QED BY <3>1, DiscoveryIs
  <2>2. Picture!Printed(ls)
    BY DEF Picture!SensorData, Picture!SensorFrame
  <2> HIDE DEF ls
  <2>3. printed' = ls
    BY <1>1, <2>1, <2>2, PrintedIs DEF About
  <2> QED BY <2>1, <2>3
<1>4. Picture!Line("DISCOVERED", n, "") \in Agreeing(condition[n]) /\ Picture!Line("DISCOVERED", n, "") \in Following
  BY <1>1, DiscoveredLineIs
<1>5. FaultTold(n) /\ RoleTold(n) /\ \A K, B : Mute(printed, n, K) /\ ~Tells(printed, n, K, B)
  BY <1>1 DEF PictureInv, Mute, Tells
<1>6. FaultTold(n)'
  <2>1. Tells(printed', n, FaultKinds, Agreeing(condition[n])) \/ Mute(printed', n, FaultKinds)
    BY <1>3, <1>4
  <2>2. Quiet(n)' => Quiet(n)
    BY <1>1, <1>2 DEF Quiet
  <2> QED BY <2>1, <2>2, <1>1, <1>5 DEF FaultTold
<1>7. RoleTold(n)'
  <2>1. Tells(printed', n, RoleKinds, Following) \/ Mute(printed', n, RoleKinds)
    BY <1>3, <1>4
  <2> QED BY <2>1, <1>1, <1>5 DEF RoleTold
<1>8. LeaderWorks' /\ Others(n)
  BY <1>1, <1>2 DEF PictureInv, LeaderWorks, Others
<1>9. /\ leader' \in Modules \cup {0} /\ misled' \subseteq Modules /\ known' \subseteq Modules
           /\ observed' \in Modules \cup {0}
      /\ condition' \in [Modules -> States] /\ commands' \in [Modules -> Seq(Actions)]
  BY <1>1 DEF PictureInv, PictureShape
<1> QED BY <1>1, <1>2, <1>3, <1>6, <1>7, <1>8, <1>9, OneModuleStep

LEMMA ConfirmFaultStep ==
  ASSUME PictureInv, Picture!PictureAssumption, NEW n \in Modules, Picture!ConfirmFault(n)
  PROVE  PictureInv'
<1>1. printed = <<>> /\ picture' = picture /\ leader' = leader /\ condition' = condition
      /\ commands' = [commands EXCEPT ![n] = Append(@, "DISABLE_FAULT")]
      /\ misled' = misled /\ known' = known \cup {n} /\ observed' = observed /\ table' = [table EXCEPT ![n] = "FALHA"]
  BY DEF Picture!ConfirmFault, Picture!Caused, Picture!Heard
<1>2. About(printed', n) /\ Tells(printed', n, RoleKinds, Following)
  <2> DEFINE R == Picture!StateFrame(n, "FALHA")
             S == Picture!CommandFrame(n, "DISABLE_FAULT")
  <2>1. "FALHA" \in States \cup {"LIDER"} /\ "DISABLE_FAULT" \in Actions
    BY DEF States, Actions
  <2>2. About(R, n) /\ About(S, n) /\ Tells(S, n, RoleKinds, Following)
    BY <2>1, StateFrameIs, CommandFrameIs
  <2>3. Picture!Printed(R \o S)
    BY DEF Picture!ConfirmFault
  <2> HIDE DEF R, S
  <2>4. About(R \o S, n) /\ Tells(R \o S, n, RoleKinds, Following)
    BY <2>2, AboutBoth, TellsAfter DEF About
  <2> QED BY <1>1, <2>3, <2>4, PrintedIs DEF About
<1>3. commands[n] \in Seq(Actions) /\ "DISABLE_FAULT" \in Actions
  BY DEF PictureInv, PictureShape, Actions
<1>4. Append(commands[n], "DISABLE_FAULT") \in Seq(Actions) /\ Append(commands[n], "DISABLE_FAULT") # <<>>
  BY <1>3
<1>5. commands' \in [Modules -> Seq(Actions)] /\ commands'[n] # <<>>
      /\ \A m \in Modules : m # n => commands'[m] = commands[m]
  BY <1>1, <1>4 DEF PictureInv, PictureShape
<1>6. FaultTold(n)' /\ RoleTold(n)'
  BY <1>2, <1>5 DEF FaultTold, RoleTold, Quiet
<1>7. table' \in [Modules -> States \cup {"LIDER"}] /\ \A m \in Modules : m # n => table'[m] = table[m]
  BY <1>1 DEF PictureInv, PictureShape, States
<1>8. LeaderWorks' /\ Others(n)
  BY <1>1, <1>5, <1>7 DEF PictureInv, LeaderWorks, Others
<1>9. /\ leader' \in Modules \cup {0} /\ misled' \subseteq Modules /\ known' \subseteq Modules
           /\ observed' \in Modules \cup {0}
      /\ condition' \in [Modules -> States]
  BY <1>1 DEF PictureInv, PictureShape
<1> QED BY <1>1, <1>2, <1>5, <1>6, <1>7, <1>8, <1>9, OneModuleStep

LEMMA TypeCommandStep ==
  ASSUME PictureInv, Picture!PictureAssumption, NEW n \in Modules, NEW a \in {"OFF", "ON", "CLEAR_FAULT"},
         NEW atProbe \in BOOLEAN,
         Picture!TypeCommand(n, a, atProbe)
  PROVE  PictureInv'
<1>1. printed = <<>> /\ picture' = picture /\ leader' = leader /\ condition' = condition
      /\ commands' = [commands EXCEPT ![n] = Append(@, a)]
      /\ misled' = misled /\ known' = known /\ observed' = observed /\ table' = table
  BY DEF Picture!TypeCommand, Picture!Caused
<1>2. a \in Actions /\ commands[n] \in Seq(Actions)
  BY DEF Actions, PictureInv, PictureShape
<1>3. /\ About(printed', n)
      /\ Tells(printed', n, RoleKinds, Following) \/ Mute(printed', n, RoleKinds)
  <2>1. CASE atProbe
    <3> DEFINE R == <<Picture!Line("OTHER", n, "")>>
    <3>1. "" \in PictureWords /\ "OTHER" \in {"SENSOR", "CONTROL_ACK", "CMD_ACK", "ELECTION", "JOIN", "OTHER"}
      BY DEF PictureWords
    <3>2. About(R, n) /\ Mute(R, n, RoleKinds)
      BY <3>1, SaysNothing
    <3>3. Picture!Printed(R)
      BY <2>1 DEF Picture!TypeCommand
    <3> HIDE DEF R
    <3> QED BY <3>2, <3>3, <1>1, PrintedIs DEF About
  <2>2. CASE ~atProbe
    <3>1. Picture!Printed(Picture!CommandFrame(n, a))
      BY <2>2 DEF Picture!TypeCommand
    <3>2. About(Picture!CommandFrame(n, a), n) /\ Tells(Picture!CommandFrame(n, a), n, RoleKinds, Following)
      BY <1>2, CommandFrameIs
    <3> QED BY <3>1, <3>2, <1>1, PrintedIs DEF About
  <2> QED BY <2>1, <2>2
<1>4. Append(commands[n], a) \in Seq(Actions) /\ Append(commands[n], a) # <<>>
  BY <1>2
<1>5. commands' \in [Modules -> Seq(Actions)] /\ commands'[n] # <<>>
      /\ \A m \in Modules : m # n => commands'[m] = commands[m]
  BY <1>1, <1>4 DEF PictureInv, PictureShape
<1>6. RoleTold(n)'
  <2>1. RoleTold(n) /\ ~Tells(printed, n, RoleKinds, Following)
    BY <1>1 DEF PictureInv, Mute, Tells
  <2> QED BY <2>1, <1>1, <1>3 DEF RoleTold
<1>7. FaultTold(n)' /\ LeaderWorks' /\ Others(n)
  BY <1>1, <1>5 DEF FaultTold, Quiet, PictureInv, LeaderWorks, Others
<1>8. /\ leader' \in Modules \cup {0} /\ misled' \subseteq Modules /\ known' \subseteq Modules
           /\ observed' \in Modules \cup {0}
      /\ condition' \in [Modules -> States] /\ table' \in [Modules -> States \cup {"LIDER"}]
  BY <1>1 DEF PictureInv, PictureShape
<1> QED BY <1>1, <1>3, <1>5, <1>6, <1>7, <1>8, OneModuleStep

\* A module that obeys, or turns the command down.
LEMMA SensorControlStep ==
  ASSUME PictureInv, Picture!PictureAssumption, NEW n \in Modules, Picture!SensorControl(n)
  PROVE  PictureInv'
<1>1. commands[n] # <<>> /\ printed = <<>> /\ picture' = picture /\ observed' = observed
      /\ commands' = [commands EXCEPT ![n] = Tail(@)]
  BY DEF Picture!SensorControl
<1>2. commands[n] \in Seq(Actions) /\ Tail(commands[n]) \in Seq(Actions)
  BY <1>1 DEF PictureInv, PictureShape
<1>3. PICK a \in Actions : a = Head(commands[n])
  BY <1>1, <1>2
<1>4. commands' \in [Modules -> Seq(Actions)] /\ \A m \in Modules : m # n => commands'[m] = commands[m]
  BY <1>1, <1>2 DEF PictureInv, PictureShape
<1>5. PictureShape /\ LeaderWorks /\ RoleTold(n) /\ condition \in [Modules -> States]
  BY DEF PictureInv, PictureShape
<1>6. \A K, B : Mute(printed, n, K) /\ ~Tells(printed, n, K, B)
  BY <1>1 DEF Mute, Tells
<1>7. CASE Picture!Rejects(n, a)
  <2>1. condition' = [condition EXCEPT ![n] = @] /\ Picture!Printed(Picture!AckFrame(n))
        /\ misled' = misled \cup {n} /\ table' = table /\ known' = known
        /\ leader' = leader
    BY <1>3, <1>7 DEF Picture!SensorControl, Picture!Rejects
  <2>2. condition' = condition
    BY <2>1, <1>5
  <2>3. printed' = Picture!AckFrame(n) /\ About(printed', n) /\ Mute(printed', n, RoleKinds)
    BY <2>1, <1>1, AckFrameIs, PrintedIs DEF About
  <2>4. FaultTold(n)' /\ RoleTold(n)'
    BY <2>1, <2>3, <1>1, <1>5, <1>6 DEF FaultTold, Quiet, RoleTold
  <2>5. LeaderWorks' /\ Others(n)
    BY <2>1, <2>2, <1>4, <1>5 DEF LeaderWorks, Others
  <2>6. /\ leader' \in Modules \cup {0} /\ misled' \subseteq Modules /\ known' \subseteq Modules
             /\ observed' \in Modules \cup {0}
        /\ condition' \in [Modules -> States] /\ table' \in [Modules -> States \cup {"LIDER"}]
    BY <1>1, <1>5, <2>1, <2>2 DEF PictureShape
  <2> QED BY <1>1, <1>4, <2>1, <2>3, <2>4, <2>5, <2>6, OneModuleStep
<1>8. CASE ~Picture!Rejects(n, a)
  <2>1. PICK s \in States \cup {"LIDER"} : s = Picture!After(a) /\ s \in States /\ (s = "FALHA" => a = "DISABLE_FAULT")
    BY <1>3 DEF Picture!After, States, Actions
  <2>2. condition' = [condition EXCEPT ![n] = s] /\ Picture!Printed(Picture!StateFrame(n, s) \o Picture!AckFrame(n))
        /\ misled' = misled \ {n}
        /\ known' = known \cup {n} /\ leader' = IF a = "DISABLE_FAULT" /\ n = leader THEN 0 ELSE leader
    BY <1>3, <1>8, <2>1 DEF Picture!SensorControl
  <2>3. /\ table' \in [Modules -> States \cup {"LIDER"}]
        /\ \A m \in Modules : m # n => table'[m] = table[m]
    <3>1. CASE a = "CLEAR_FAULT"
      <4>1. table' = [table EXCEPT ![n] = "ATIVO"]
        BY <3>1, <1>3, <1>8 DEF Picture!SensorControl
      <4> QED BY <4>1, <1>5 DEF PictureShape, States
    <3>2. CASE a # "CLEAR_FAULT"
      <4>1. Picture!Recorded(n, s)
        BY <3>2, <1>3, <1>8, <2>1 DEF Picture!SensorControl
      <4> QED BY <4>1, <2>1, <1>5, RecordedIs
    <3> QED BY <3>1, <3>2
  <2>4. condition' \in [Modules -> States] /\ condition'[n] = s
        /\ \A m \in Modules : m # n => condition'[m] = condition[m]
    BY <2>1, <2>2, <1>5
  <2>5. /\ About(printed', n)
        /\ \A B : \A K \in {FaultKinds, RoleKinds} : Picture!Line("STATUS", n, s) \in B => Tells(printed', n, K, B)
    <3> DEFINE R == Picture!StateFrame(n, s)
               S == Picture!AckFrame(n)
    <3>1. About(R, n) /\ \A K, B : Picture!Line("STATUS", n, s) \in B /\ "STATUS" \in K => Tells(R, n, K, B)
      BY StateFrameIs
    <3>2. About(S, n) /\ \A K \in {FaultKinds, RoleKinds} : Mute(S, n, K)
      BY AckFrameIs
    <3>3. Picture!Printed(R \o S)
      BY <2>2
    <3> HIDE DEF R, S
    <3>4. About(R \o S, n) /\ R \in Seq(PictureLine) /\ S \in Seq(PictureLine)
      BY <3>1, <3>2, AboutBoth DEF About
    <3>5. printed' = R \o S
      BY <3>3, <3>4, <1>1, PrintedIs DEF About
    <3>6. ASSUME NEW K \in {FaultKinds, RoleKinds}, NEW B, Picture!Line("STATUS", n, s) \in B PROVE Tells(R \o S, n, K, B)
      <4>1. "STATUS" \in K
        BY DEF FaultKinds, RoleKinds
      <4>2. Tells(R, n, K, B) /\ Mute(S, n, K)
        BY <4>1, <3>1, <3>2, <3>6
      <4> QED BY <4>2, <3>4, TellsAfter
    <3> QED BY <3>4, <3>5, <3>6
  <2>6. FaultTold(n)' /\ RoleTold(n)'
    <3>1. Picture!Line("STATUS", n, s) \in Agreeing(condition'[n]) /\ Picture!Line("STATUS", n, s) \in Following
      BY <2>4, StateLineIs
    <3>2. Tells(printed', n, FaultKinds, Agreeing(condition'[n])) /\ Tells(printed', n, RoleKinds, Following)
      BY <3>1, <2>5
    <3> QED BY <3>2 DEF FaultTold, RoleTold
  <2>7. LeaderWorks'
    BY <2>1, <2>2, <2>4, <1>5 DEF LeaderWorks, PictureShape
  <2>8. Others(n) /\ \A m \in Modules : m # n => (m # leader' => m # leader)
    BY <2>2, <2>3, <2>4, <1>4 DEF Others
  <2>9. /\ leader' \in Modules \cup {0} /\ misled' \subseteq Modules /\ known' \subseteq Modules
             /\ observed' \in Modules \cup {0}
    BY <1>1, <1>5, <2>2 DEF PictureShape
  <2> QED BY <1>1, <1>4, <2>3, <2>4, <2>5, <2>6, <2>7, <2>8, <2>9, OneModuleStep
<1> QED BY <1>7, <1>8

LEMMA RestartStep ==
  ASSUME PictureInv, Picture!PictureAssumption, NEW n \in Modules, Picture!Restart(n)
  PROVE  PictureInv'
<1>1. printed = <<>> /\ picture' = picture /\ leader' = leader /\ condition' = [condition EXCEPT ![n] = "ATIVO"]
      /\ commands' = commands
      /\ misled' = misled \ {n} /\ known' = known \cup {n} /\ observed' = observed /\ n # leader
  BY DEF Picture!Restart, Picture!Caused, Picture!Heard
<1>2. "ATIVO" \in States \cup {"LIDER"} /\ "ATIVO" \in States
  BY DEF States
<1>3. /\ table' \in [Modules -> States \cup {"LIDER"}]
      /\ \A m \in Modules : m # n => table'[m] = table[m]
  BY <1>2, RecordedIs DEF Picture!Restart, PictureInv
<1>4. /\ About(printed', n)
      /\ \A K, B : Picture!Line("STATUS", n, "ATIVO") \in B /\ "STATUS" \in K => Tells(printed', n, K, B)
  <2> DEFINE R == Picture!JoinFrame(n)
             S == Picture!StateFrame(n, "ATIVO")
  <2>1. About(R, n)
    <3>1. "" \in PictureWords /\ "JOIN" \in {"SENSOR", "ELECTION", "JOIN"}
      BY DEF PictureWords
    <3> QED BY <3>1, DiscoveryIs DEF Picture!JoinFrame
  <2>2. About(S, n) /\ \A K, B : Picture!Line("STATUS", n, "ATIVO") \in B /\ "STATUS" \in K => Tells(S, n, K, B)
    BY <1>2, StateFrameIs
  <2>3. Picture!Printed(R \o S)
    BY DEF Picture!Restart
  <2> HIDE DEF R, S
  <2>4. About(R \o S, n) /\ R \in Seq(PictureLine) /\ S \in Seq(PictureLine)
    BY <2>1, <2>2, AboutBoth DEF About
  <2>5. printed' = R \o S
    BY <2>3, <2>4, <1>1, PrintedIs DEF About
  <2>6. ASSUME NEW K, NEW B, Picture!Line("STATUS", n, "ATIVO") \in B, "STATUS" \in K PROVE Tells(R \o S, n, K, B)
    <3>1. Tells(S, n, K, B)
      BY <2>2, <2>6
    <3> QED BY <3>1, <2>4, TellsAfter
  <2> QED BY <2>4, <2>5, <2>6
<1>5. condition' \in [Modules -> States] /\ condition'[n] = "ATIVO"
      /\ \A m \in Modules : m # n => condition'[m] = condition[m]
  BY <1>1, <1>2 DEF PictureInv, PictureShape
<1>6. FaultTold(n)' /\ RoleTold(n)'
  BY <1>2, <1>4, <1>5, WellReported
<1>7. LeaderWorks' /\ Others(n)
  BY <1>1, <1>3, <1>5 DEF PictureInv, PictureShape, LeaderWorks, Others
<1>8. /\ leader' \in Modules \cup {0} /\ misled' \subseteq Modules /\ known' \subseteq Modules
           /\ observed' \in Modules \cup {0}
      /\ commands' \in [Modules -> Seq(Actions)]
  BY <1>1 DEF PictureInv, PictureShape
<1> QED BY <1>1, <1>3, <1>4, <1>5, <1>6, <1>7, <1>8, OneModuleStep

-----------------------------------------------------------------------------
(* The console *)

\* What a line that reports a module does to what is shown of it.
LEMMA PhysicalIs ==
  ASSUME picture \in [Modules -> Shown], NEW n \in Modules, NEW raw \in Cans, Picture!PhysicalNode(n, raw)
  PROVE  /\ picture' \in [Modules -> Shown] /\ \A m \in Modules : m # n => picture'[m] = picture[m]
         /\ picture'[n].can = raw /\ (picture'[n].role = "LEADER" <=> raw = "LEADER")
<1>1. PICK s \in {"UNKNOWN", "ONLINE", "STALE", "OFFLINE", "LOST"} : s = Picture!NodeStatus(raw)
  BY DEF Picture!NodeStatus
<1>2. PICK o \in {"UNKNOWN", "LEADER", "FOLLOWER"} : o = Picture!Role(n, raw) /\ (o = "LEADER" <=> raw = "LEADER")
  BY DEF Picture!Role
<1>3. PICK d \in Shown : d = picture[n]
  OBVIOUS
<1> DEFINE r == [d EXCEPT !.here = TRUE, !.status = s, !.role = o, !.can = raw]
<1>4. r \in Shown
  BY <1>3 DEF Shown
<1>5. r.can = raw /\ r.role = o
  BY <1>3 DEF Shown
<1>6. picture' = [picture EXCEPT ![n] = r]
  BY <1>1, <1>2, <1>3 DEF Picture!PhysicalNode
<1> HIDE DEF r
<1> QED BY <1>2, <1>4, <1>5, <1>6

LEMMA HeartbeatShownIs ==
  ASSUME picture \in [Modules -> Shown], NEW n \in Modules, Picture!LegacyHeartbeat(n)
  PROVE  /\ picture' \in [Modules -> Shown] /\ \A m \in Modules : m # n => picture'[m] = picture[m]
         /\ picture'[n].can = picture[n].can
<1>1. PICK d \in Shown : d = picture[n]
  OBVIOUS
<1> DEFINE r == [d EXCEPT !.here = TRUE, !.status = "ONLINE", !.role = "LEADER"]
<1>2. r \in Shown
  BY <1>1 DEF Shown
<1>3. r.can = d.can
  BY <1>1 DEF Shown
<1>4. picture' = [picture EXCEPT ![n] = r]
  BY <1>1 DEF Picture!LegacyHeartbeat
<1> HIDE DEF r
<1> QED BY <1>1, <1>2, <1>3, <1>4

LEMMA TelemetryIs ==
  ASSUME picture \in [Modules -> Shown], NEW n \in Modules, NEW on \in PictureWords, Picture!LocalNodeTelemetry(n, on)
  PROVE  /\ picture' \in [Modules -> Shown] /\ \A m \in Modules : m # n => picture'[m] = picture[m]
         /\ picture'[n].can = picture[n].can /\ picture'[n].role = picture[n].role
<1>1. PICK d \in Shown : d = picture[n]
  OBVIOUS
<1> DEFINE r == [d EXCEPT !.here = TRUE, !.status = "ONLINE", !.sensor = on]
<1>2. r \in Shown
  BY <1>1 DEF Shown
<1>3. r.can = d.can /\ r.role = d.role
  BY <1>1 DEF Shown
<1>4. picture' = [picture EXCEPT ![n] = r]
  BY <1>1 DEF Picture!LocalNodeTelemetry
<1> HIDE DEF r
<1> QED BY <1>1, <1>2, <1>3, <1>4

LEMMA DecodedIs ==
  ASSUME picture \in [Modules -> Shown], NEW l \in PictureLine, Picture!Decode(l)
  PROVE  /\ picture' \in [Modules -> Shown] /\ \A m \in Modules : m # l.node => picture'[m] = picture[m]
         /\ l.kind \in FaultKinds =>
              picture'[l.node].can = CanOf(l) /\ (picture'[l.node].role = "LEADER" <=> CanOf(l) = "LEADER")
         /\ l.kind \notin FaultKinds => picture'[l.node].can = picture[l.node].can
         /\ l.kind \notin RoleKinds => picture'[l.node].role = picture[l.node].role
<1>1. l.node \in Modules /\ l.word \in PictureWords
  BY DEF PictureLine
<1>2. CASE l.kind \in FaultKinds
  <2>1. Picture!PhysicalNode(l.node, CanOf(l))
    <3>1. CASE l.kind = "CONTROL"
      BY <3>1 DEF Picture!Decode, Picture!FrameHeard, CanOf
    <3>2. CASE l.kind = "COMMAND"
      BY <3>2 DEF Picture!Decode, Picture!FrameHeard, CanOf
    <3>3. CASE l.kind = "STATUS"
      BY <3>3 DEF Picture!Decode, Picture!StateTold, CanOf
    <3>4. CASE l.kind = "DISCOVERED"
      BY <3>4 DEF Picture!Decode, Picture!StateTold, CanOf
    <3>5. CASE l.kind \in {"LEADER", "ANNOUNCED"}
      BY <3>5 DEF Picture!Decode, Picture!StateTold, CanOf
    <3> QED BY <3>1, <3>2, <3>3, <3>4, <3>5, <1>2 DEF FaultKinds
  <2>2. CanOf(l) \in Cans
    <3>1. Picture!StatusName(l.word) \in Cans /\ Picture!ActionState(l.word) \in Cans /\ l.word \in Cans
      BY <1>1 DEF Picture!StatusName, Picture!ActionState, Cans, PictureWords, States
    <3>2. "ONLINE" \in Cans /\ "LEADER" \in Cans
      BY DEF Cans
    <3> QED BY <3>1, <3>2 DEF CanOf
  <2>3. l.kind \in RoleKinds
    BY <1>2 DEF RoleKinds
  <2> QED BY <2>1, <2>2, <2>3, <1>1, <1>2, PhysicalIs
<1>3. CASE l.kind = "HEARTBEAT"
  <2>1. Picture!LegacyHeartbeat(l.node)
    BY <1>3 DEF Picture!Decode, Picture!FrameHeard
  <2>2. l.kind \notin FaultKinds /\ l.kind \in RoleKinds
    BY <1>3 DEF FaultKinds, RoleKinds
  <2> QED BY <2>1, <2>2, <1>1, HeartbeatShownIs
<1>4. CASE l.kind = "SENSOR"
  <2>1. Picture!LocalNodeTelemetry(l.node, l.word)
    BY <1>4 DEF Picture!Decode, Picture!FrameHeard
  <2>2. l.kind \notin FaultKinds /\ l.kind \notin RoleKinds
    BY <1>4 DEF FaultKinds, RoleKinds
  <2> QED BY <2>1, <2>2, <1>1, TelemetryIs
<1>5. CASE l.kind \notin FaultKinds /\ l.kind # "HEARTBEAT" /\ l.kind # "SENSOR"
  <2>1. picture' = picture
    BY <1>5 DEF Picture!Decode, FaultKinds
  <2> QED BY <2>1, <1>5
<1> QED BY <1>2, <1>3, <1>4, <1>5

LEMMA ReceiveStep ==
  ASSUME PictureInv, Picture!PictureAssumption, Picture!Receive
  PROVE  PictureInv'
<1>1. PICK R \in Seq(PictureLine) : R = printed /\ R # <<>>
  BY DEF Picture!Receive, PictureInv, PictureShape
<1>2. PICK l \in PictureLine : l = Head(R)
  BY <1>1
<1>3. picture \in [Modules -> Shown]
  BY DEF PictureInv, PictureShape
<1>4. Picture!Decode(l) /\ printed' = Tail(R) /\ leader' = leader /\ condition' = condition /\ table' = table
      /\ commands' = commands
      /\ misled' = misled /\ known' = known /\ observed' = observed
  BY <1>1, <1>2 DEF Picture!Receive, Picture!network
<1>5. l.node \in Modules /\ Tail(R) \in Seq(PictureLine)
  BY <1>1 DEF PictureLine
<1>6. /\ picture' \in [Modules -> Shown] /\ \A m \in Modules : m # l.node => picture'[m] = picture[m]
      /\ l.kind \in FaultKinds =>
           picture'[l.node].can = CanOf(l) /\ (picture'[l.node].role = "LEADER" <=> CanOf(l) = "LEADER")
      /\ l.kind \notin FaultKinds => picture'[l.node].can = picture[l.node].can
      /\ l.kind \notin RoleKinds => picture'[l.node].role = picture[l.node].role
  BY <1>3, <1>4, DecodedIs
<1>7. ASSUME NEW m \in Modules PROVE FaultTold(m)'
  <2> SUFFICES ASSUME Quiet(m)'
               PROVE  \/ Tells(printed', m, FaultKinds, Agreeing(condition[m]))
                      \/ Mute(printed', m, FaultKinds) /\ (picture'[m].can = "FALHA" <=> condition[m] = "FALHA")
    BY <1>4 DEF FaultTold
  <2>1. \/ Tells(R, m, FaultKinds, Agreeing(condition[m]))
        \/ Mute(R, m, FaultKinds) /\ (picture[m].can = "FALHA" <=> condition[m] = "FALHA")
    BY <1>1, <1>4 DEF PictureInv, FaultTold, Quiet
  <2>2. CASE Mute(R, m, FaultKinds) /\ (picture[m].can = "FALHA" <=> condition[m] = "FALHA")
    <3>1. Mute(Tail(R), m, FaultKinds) /\ ~(l.node = m /\ l.kind \in FaultKinds)
      BY <2>2, <1>1, <1>2, AfterFirst
    <3> QED BY <3>1, <2>2, <1>4, <1>6
  <2>3. CASE Tells(R, m, FaultKinds, Agreeing(condition[m]))
    <3>1. \/ Tells(Tail(R), m, FaultKinds, Agreeing(condition[m]))
          \/ Mute(Tail(R), m, FaultKinds) /\ l.node = m /\ l.kind \in FaultKinds /\ l \in Agreeing(condition[m])
      BY <2>3, <1>1, <1>2, AfterFirst
    <3> QED BY <3>1, <1>4, <1>6 DEF Agreeing
  <2> QED BY <2>1, <2>2, <2>3
<1>8. ASSUME NEW m \in Modules PROVE RoleTold(m)'
  <2> SUFFICES ASSUME m # leader
               PROVE  \/ Tells(printed', m, RoleKinds, Following)
                      \/ Mute(printed', m, RoleKinds) /\ picture'[m].role # "LEADER"
    BY <1>4 DEF RoleTold
  <2>1. \/ Tells(R, m, RoleKinds, Following)
        \/ Mute(R, m, RoleKinds) /\ picture[m].role # "LEADER"
    BY <1>1 DEF PictureInv, RoleTold
  <2>2. CASE Mute(R, m, RoleKinds) /\ picture[m].role # "LEADER"
    <3>1. Mute(Tail(R), m, RoleKinds) /\ ~(l.node = m /\ l.kind \in RoleKinds)
      BY <2>2, <1>1, <1>2, AfterFirst
    <3> QED BY <3>1, <2>2, <1>4, <1>6
  <2>3. CASE Tells(R, m, RoleKinds, Following)
    <3>1. \/ Tells(Tail(R), m, RoleKinds, Following)
          \/ Mute(Tail(R), m, RoleKinds) /\ l.node = m /\ l.kind \in RoleKinds /\ l \in Following
      BY <2>3, <1>1, <1>2, AfterFirst
    <3> QED BY <3>1, <1>4, <1>6 DEF Following, RoleKinds
  <2> QED BY <2>1, <2>2, <2>3
<1>9. PictureShape' /\ LeaderWorks'
  BY <1>4, <1>5, <1>6 DEF PictureInv, PictureShape, LeaderWorks
<1> QED BY <1>7, <1>8, <1>9 DEF PictureInv

LEMMA RefreshStep ==
  ASSUME PictureInv, Picture!PictureAssumption, NEW n \in Modules, NEW s \in {"ONLINE", "STALE"},
         Picture!RefreshFreshness(n, s)
  PROVE  PictureInv'
<1>1. picture \in [Modules -> Shown]
  BY DEF PictureInv, PictureShape
<1>2. PICK d \in Shown : d = picture[n]
  BY <1>1
<1> DEFINE r == [d EXCEPT !.status = s]
<1>3. r \in Shown /\ r.can = d.can /\ r.role = d.role
  BY <1>2 DEF Shown
<1>4. picture' = [picture EXCEPT ![n] = r]
  BY <1>2 DEF Picture!RefreshFreshness
<1>5. printed' = printed /\ leader' = leader /\ condition' = condition /\ table' = table /\ commands' = commands
      /\ misled' = misled /\ known' = known /\ observed' = observed
  BY DEF Picture!RefreshFreshness, Picture!network, Picture!station
<1> HIDE DEF r
<1>6. picture' \in [Modules -> Shown] /\ \A m \in Modules : picture'[m].can = picture[m].can
      /\ picture'[m].role = picture[m].role
  BY <1>1, <1>2, <1>3, <1>4
<1>7. \A m \in Modules : FaultTold(m)' /\ RoleTold(m)'
  BY <1>5, <1>6 DEF PictureInv, FaultTold, RoleTold, Quiet
<1>8. PictureShape' /\ LeaderWorks'
  BY <1>5, <1>6 DEF PictureInv, PictureShape, LeaderWorks
<1> QED BY <1>7, <1>8 DEF PictureInv

-----------------------------------------------------------------------------
(* The election *)

LEMMA TakeOfficeStep ==
  ASSUME PictureInv, Picture!PictureAssumption, NEW n \in Modules, Picture!TakeOffice(n)
  PROVE  PictureInv'
<1> DEFINE voters == {m \in Modules : condition[m] # "FALHA"}
           s == Picture!SetToSeq(voters)
           t == Picture!SetToSeq(voters \ {n})
           announcements == [i \in DOMAIN s |-> Picture!ElectionFrame(s[i])]
           replies == [i \in DOMAIN t |-> Picture!AnswerFrame(t[i], "ATIVO")]
           mine == Picture!AnswerFrame(n, "LIDER")
<1>1. /\ n # leader /\ n \in voters /\ printed = <<>> /\ leader' = n /\ observed' = n /\ known' = known \cup voters
      /\ table' = [m \in Modules |-> IF table[m] = "FALHA" THEN "FALHA" ELSE IF m = n THEN "LIDER" ELSE
                                     IF m \in voters THEN "ATIVO" ELSE table[m]]
      /\ condition' = condition /\ commands' = commands /\ misled' = misled /\ picture' = picture
  BY DEF Picture!TakeOffice, Picture!Caused
<1> DEFINE said == (Picture!FlattenSeq(announcements) \o Picture!FlattenSeq(replies)) \o mine
<1>2. Picture!Printed((said \o Picture!LeaderFrame(n)) \o mine)
  BY DEF Picture!TakeOffice, Picture!Each
<1>3. voters \subseteq Modules /\ IsFiniteSet(voters) /\ IsFiniteSet(voters \ {n})
      /\ (\A m \in voters : condition[m] # "FALHA")
      /\ \A m \in Modules : condition[m] # "FALHA" => m \in voters
  <2>1. IsFiniteSet(Modules) /\ voters \in SUBSET Modules /\ voters \ {n} \in SUBSET Modules
    BY PictureAgrees DEF Picture!PictureAssumption
  <2>2. IsFiniteSet(voters) /\ IsFiniteSet(voters \ {n})
    BY <2>1, FS_Subset
  <2> QED BY <2>1, <2>2
<1>4. s \in Seq(voters) /\ t \in Seq(voters \ {n}) /\ \A m \in voters \ {n} : \E i \in DOMAIN t : t[i] = m
  BY <1>3, AllInOrder
<1> HIDE DEF voters, s, t
<1>5. \A i \in DOMAIN s : s[i] \in voters /\ s[i] \in Modules
  BY <1>3, <1>4
<1>6. \A i \in DOMAIN t : t[i] \in voters /\ t[i] \in Modules /\ t[i] # n
  BY <1>3, <1>4
<1>7. "LIDER" \in States \cup {"LIDER"} /\ "ATIVO" \in States \cup {"LIDER"} /\ "STATUS" \in FaultKinds
      /\ "STATUS" \in RoleKinds
      /\ "" \in PictureWords
  BY DEF States, FaultKinds, RoleKinds, PictureWords
<1>8. \A i \in DOMAIN s : About(announcements[i], s[i])
  BY <1>5, <1>7, DiscoveryIs DEF Picture!ElectionFrame
<1>9. \A i \in DOMAIN t : About(replies[i], t[i])
  BY <1>6, <1>7, AnswerFrameIs
<1>10. announcements \in Seq(Seq(PictureLine)) /\ replies \in Seq(Seq(PictureLine))
       /\ DOMAIN announcements = DOMAIN s /\ DOMAIN replies = DOMAIN t
  <2>1. \A i \in DOMAIN s : announcements[i] \in Seq(PictureLine)
    BY <1>8 DEF About
  <2>2. \A i \in DOMAIN t : replies[i] \in Seq(PictureLine)
    BY <1>9 DEF About
  <2>3. DOMAIN s = 1 .. Len(s) /\ Len(s) \in Nat /\ DOMAIN t = 1 .. Len(t) /\ Len(t) \in Nat
    BY <1>4
  <2>4. announcements = [i \in 1 .. Len(s) |-> announcements[i]] /\ replies = [i \in 1 .. Len(t) |-> replies[i]]
    BY <2>3
  <2>5. DOMAIN announcements = DOMAIN s /\ DOMAIN replies = DOMAIN t
    OBVIOUS
  <2> HIDE DEF announcements, replies
  <2> QED BY <2>1, <2>2, <2>3, <2>4, <2>5
<1> DEFINE C == Picture!FlattenSeq(announcements)
           D == Picture!FlattenSeq(replies)
           E == Picture!LeaderFrame(n)
<1>11. C \in Seq(PictureLine) /\ D \in Seq(PictureLine)
  BY <1>10, FlattenIs
<1>12. About(mine, n) /\ \A K, B : Picture!Line("STATUS", n, "LIDER") \in B /\ "STATUS" \in K => Tells(mine, n, K, B)
  BY <1>7, AnswerFrameIs
<1>13. About(E, n)
  <2>1. Picture!Line("ANNOUNCED", n, "") \in PictureLine /\ Picture!Line("ANNOUNCED", n, "").node = n
    BY DEF Picture!Line, PictureLine, PictureWords
  <2> QED BY <2>1, AboutOne DEF Picture!LeaderFrame
<1>14. ASSUME NEW m \in Modules, m \notin voters PROVE \A K \in {FaultKinds, RoleKinds} : Mute(C, m, K) /\ Mute(D, m, K)
  <2>1. ASSUME NEW K \in {FaultKinds, RoleKinds} PROVE \A i \in DOMAIN s : Mute(announcements[i], m, K)
    BY <1>5, <1>8, <1>14 DEF About
  <2>2. ASSUME NEW K \in {FaultKinds, RoleKinds} PROVE \A i \in DOMAIN t : Mute(replies[i], m, K)
    BY <1>6, <1>9, <1>14 DEF About
  <2> HIDE DEF announcements, replies
  <2> QED BY <2>1, <2>2, <1>10, FlattenMute
<1>15. ASSUME NEW m \in voters \ {n}
       PROVE  \A B : \A K \in {FaultKinds, RoleKinds} : Picture!Line("STATUS", m, "ATIVO") \in B => Tells(D, m, K, B)
  <2>1. ASSUME NEW K \in {FaultKinds, RoleKinds}, NEW B, Picture!Line("STATUS", m, "ATIVO") \in B
        PROVE  Tells(D, m, K, B)
    <3>1. "STATUS" \in K
      BY <1>7
    <3>2. ASSUME NEW i \in DOMAIN t, t[i] = m PROVE Tells(replies[i], m, K, B)
      BY <3>1, <3>2, <2>1, <1>6, <1>7, AnswerFrameIs
    <3>3. ASSUME NEW i \in DOMAIN t, t[i] # m PROVE Mute(replies[i], m, K)
      BY <3>3, <1>9 DEF About
    <3>4. PICK at \in DOMAIN t : t[at] = m
      BY <1>4
    <3>5. Tells(replies[at], m, K, B) /\ \A i \in DOMAIN replies : Mute(replies[i], m, K) \/ Tells(replies[i], m, K, B)
      BY <3>2, <3>3, <3>4, <1>10
    <3> HIDE DEF replies
    <3> QED BY <3>4, <3>5, <1>10, FlattenTells
  <2> QED BY <2>1
<1> DEFINE X == C \o D
           Y == (mine \o E) \o mine
<1> HIDE DEF announcements, replies, C, D, E, mine
<1>16. X \in Seq(PictureLine) /\ About(Y, n)
  BY <1>11, <1>12, <1>13, AboutBoth
<1>17. \A K, B : Picture!Line("STATUS", n, "LIDER") \in B /\ "STATUS" \in K => Tells(Y, n, K, B)
  <2>1. mine \o E \in Seq(PictureLine) /\ mine \in Seq(PictureLine)
    BY <1>12, <1>13, AboutBoth DEF About
  <2> QED BY <2>1, <1>12, TellsAfter
<1>18. printed' = X \o Y
  <2>1. mine \in Seq(PictureLine) /\ E \in Seq(PictureLine)
    BY <1>12, <1>13 DEF About
  <2>2. (((C \o D) \o mine) \o E) \o mine = X \o Y
    <3>1. mine \o E \in Seq(PictureLine) /\ X \in Seq(PictureLine)
      BY <2>1, <1>16
    <3>2. (X \o mine) \o E = X \o (mine \o E)
      BY <2>1, <3>1, InAnyOrder
    <3>3. (X \o (mine \o E)) \o mine = X \o ((mine \o E) \o mine)
      BY <2>1, <3>1, InAnyOrder
    <3> QED BY <3>2, <3>3
  <2>3. X \o Y \in Seq(PictureLine)
    BY <1>16 DEF About
  <2>4. Picture!Printed(X \o Y)
    BY <2>2, <1>2 DEF C, D, E
  <2> QED BY <2>3, <2>4, <1>1, PrintedIs
<1>19. ASSUME NEW m \in Modules, m \notin voters
       PROVE  FaultTold(m)' /\ RoleTold(m)'
  <2>1. m # n /\ m # leader
    BY <1>1, <1>3, <1>19 DEF PictureInv, LeaderWorks, Picture!PictureAssumption
  <2>2. \A K \in {FaultKinds, RoleKinds} : Mute(X, m, K) /\ Mute(Y, m, K)
    BY <2>1, <1>11, <1>14, <1>16, <1>19, MuteAfter DEF About
  <2>3. Mute(printed', m, FaultKinds) /\ Mute(printed', m, RoleKinds)
    BY <2>2, <1>16, <1>18, MuteAfter DEF About
  <2>4. table'[m] = "FALHA" <=> table[m] = "FALHA"
    BY <1>1, <1>19, <2>1
  <2> QED BY <2>1, <2>3, <2>4, <1>1, StillTold
<1>20. ASSUME NEW m \in voters \ {n} PROVE FaultTold(m)' /\ RoleTold(m)'
  <2>1. m \in Modules /\ condition'[m] # "FALHA" /\ "ATIVO" # "FALHA"
    BY <1>1, <1>3
  <2>2. Picture!Line("STATUS", m, "ATIVO") \in Agreeing(condition'[m]) /\ Picture!Line("STATUS", m, "ATIVO") \in Following
    BY <2>1, <1>7, StateLineIs
  <2>3. Tells(D, m, FaultKinds, Agreeing(condition'[m])) /\ Tells(D, m, RoleKinds, Following)
    BY <2>2, <1>15
  <2>4. Tells(X, m, FaultKinds, Agreeing(condition'[m])) /\ Tells(X, m, RoleKinds, Following)
    BY <2>3, <1>11, TellsAfter
  <2>5. Mute(Y, m, FaultKinds) /\ Mute(Y, m, RoleKinds) /\ Y \in Seq(PictureLine)
    BY <2>1, <1>16 DEF About
  <2>6. Tells(printed', m, FaultKinds, Agreeing(condition'[m])) /\ Tells(printed', m, RoleKinds, Following)
    BY <2>4, <2>5, <1>16, <1>18, TellsAfter
  <2> QED BY <2>6 DEF FaultTold, RoleTold
<1>21. FaultTold(n)' /\ RoleTold(n)'
  <2>1. Picture!Line("STATUS", n, "LIDER") \in Agreeing(condition'[n])
    <3>1. condition'[n] # "FALHA" /\ "LIDER" # "FALHA"
      BY <1>1, <1>3
    <3> QED BY <3>1, <1>7, StateLineIs
  <2>2. Tells(Y, n, FaultKinds, Agreeing(condition'[n]))
    BY <2>1, <1>7, <1>17
  <2>3. Tells(printed', n, FaultKinds, Agreeing(condition'[n]))
    BY <2>2, <1>16, <1>18, TellsAfter DEF About
  <2> QED BY <2>3, <1>1 DEF FaultTold, RoleTold
<1>22. PictureShape' /\ LeaderWorks'
  <2>1. printed' \in Seq(PictureLine)
    BY <1>16, <1>18 DEF About
  <2>2. table' \in [Modules -> States \cup {"LIDER"}]
    BY <1>1 DEF PictureInv, PictureShape, States
  <2>3. LeaderWorks'
    BY <1>1, <1>3 DEF LeaderWorks
  <2> QED BY <2>1, <2>2, <2>3, <1>1, <1>3 DEF PictureInv, PictureShape
<1> QED BY <1>19, <1>20, <1>21, <1>22 DEF PictureInv

-----------------------------------------------------------------------------
(* The theorems *)

LEMMA PictureStart == ASSUME Picture!Init, Picture!PictureAssumption PROVE PictureInv
<1>1. \A m \in Modules : Mute(printed, m, FaultKinds) /\ Mute(printed, m, RoleKinds)
  BY DEF Picture!Init, Mute
<1>2. PictureShape
  BY DEF Picture!Init, PictureShape, Shown, Picture!Blank, States, Cans
<1>3. ASSUME NEW m \in Modules PROVE FaultTold(m) /\ RoleTold(m)
  <2>1. picture[m].can = "UNKNOWN" /\ picture[m].role = "UNKNOWN" /\ condition[m] = "ATIVO"
    BY DEF Picture!Init, Picture!Blank
  <2> QED BY <2>1, <1>1 DEF FaultTold, RoleTold
<1>4. LeaderWorks
  BY DEF Picture!Init, LeaderWorks
<1> QED BY <1>2, <1>3, <1>4 DEF PictureInv

LEMMA PictureStep == ASSUME PictureInv, Picture!PictureAssumption, [Picture!Next]_Picture!vars PROVE PictureInv'
<1>1. CASE UNCHANGED Picture!vars
  BY <1>1 DEF Picture!vars, Picture!network, Picture!station, PictureInv, PictureShape, LeaderWorks, FaultTold,
     RoleTold, Quiet
<1>2. ASSUME NEW n \in Modules, Picture!Traffic(n) PROVE PictureInv'
  BY <1>2, ReplicaStep, ResponseStep, SensorDataStep, TakeOfficeStep, ConfirmFaultStep, RestartStep,
     TypeCommandStep DEF Picture!Traffic
<1> QED BY <1>1, <1>2, HeartbeatStep, ReceiveStep, SensorControlStep, RefreshStep DEF Picture!Next

\* Once all that was printed has been decoded, and nothing is under way to a
\* module, it is shown in fault exactly if it is, and as the leader only if it is.
LEMMA InvTells == ASSUME PictureInv, Picture!PictureAssumption PROVE Picture!PictureIsTrue
<1> SUFFICES ASSUME NEW n \in Modules, Picture!Settled(n)
             PROVE  /\ condition[n] = "FALHA" => Picture!NodeCondition(n) # "NORMAL"
                    /\ picture[n].can = "FALHA" => condition[n] = "FALHA"
                    /\ picture[n].role = "LEADER" => n = leader
  BY DEF Picture!PictureIsTrue
<1>1. \A K, B : ~Tells(printed, n, K, B)
  BY DEF Picture!Settled, Tells, Mute
<1>2. picture[n].can = "FALHA" <=> condition[n] = "FALHA"
  BY <1>1 DEF PictureInv, FaultTold, Quiet, Picture!Settled
<1>3. picture[n].role = "LEADER" => n = leader
  BY <1>1 DEF PictureInv, RoleTold
<1>4. picture[n].can = "FALHA" => Picture!NodeCondition(n) # "NORMAL"
  BY DEF Picture!NodeCondition
<1> QED BY <1>2, <1>3, <1>4

THEOREM PictureTypes == Picture!PictureAssumption => (Picture!Spec => []Picture!TypeOK)
<1> SUFFICES ASSUME Picture!PictureAssumption PROVE Picture!Spec => []Picture!TypeOK
  OBVIOUS
<1>1. PictureInv => Picture!TypeOK
  BY DEF PictureInv, PictureShape, Shown, Picture!TypeOK, States
<1> QED BY <1>1, PictureStart, PictureStep, PTL DEF Picture!Spec

THEOREM ThePictureIsTrue == Picture!PictureAssumption => (Picture!Spec => []Picture!PictureIsTrue)
<1> SUFFICES ASSUME Picture!PictureAssumption PROVE Picture!Spec => []Picture!PictureIsTrue
  OBVIOUS
<1> QED BY PictureStart, PictureStep, InvTells, PTL DEF Picture!Spec
=============================================================================
