----------------------------- MODULE Transfers -----------------------------
(* Spectra come from the Probe in fragments, one per line. The console puts
   them together again (protocol/fragments.py, controller.py _fragment), drops
   what stays incomplete (controller.py expire_fragment_transfers, called once
   a Period) and shows the spectrum (controller.py _consume_transfer). Lines
   are lost, repeated and out of order; a sensor that starts again numbers its
   spectra from the beginning, so that two sendings share a key.             *)
EXTENDS Integers, FiniteSets, Functions

CONSTANTS
  Keys,        \* module, sensor, type and number of a transfer
  Count,       \* fragments of a spectrum
  MaxCount,    \* most fragments accepted (512)
  MaxActive,   \* transfers at a time (64)
  Timeout,     \* age at which a transfer is given up (5 s)
  Period,      \* of the check for old ones (1 s)
  Sendings, Horizon, MaxLines  \* bounds of the model: sendings of a key, clock, lines

TransfersAssumption ==
  /\ {Count, MaxCount, MaxActive, Timeout, Period, Sendings, Horizon, MaxLines} \subseteq Nat \ {0}
  /\ Count <= MaxCount

None == 0

VARIABLES
  open,     \* the transfers in progress, by key
  meta,     \* what the last fragment of a key said of the whole (its sending)
  shown,    \* the spectra shown: the sendings of their fragments and of their scale
  failed,   \* transfers told as failed
  tick,     \* time since the last check for old ones
  sending,  \* which sending of a key is on its way, and when a line of it came
  clock, lines

vars == <<open, meta, shown, failed, tick, sending, clock, lines>>

Init ==
  /\ open = <<>> /\ meta = <<>> /\ shown = {} /\ failed = 0 /\ tick = 0
  /\ sending = [k \in Keys |-> [n |-> 1, at |-> 0]] /\ clock = 0 /\ lines = 0

Without(f, keys) == Restrict(f, DOMAIN f \ keys)
With(f, k, x) == [j \in DOMAIN f \cup {k} |-> IF j = k THEN x ELSE f[j]]

Overdue == {k \in DOMAIN open : clock - open[k].created >= Timeout}
\* Every fragment first gives up what is too old, without a word.
NoneExpired == open
Expired == Without(open, Overdue)

Started(f) == [count |-> f.count, crc |-> f.crc, created |-> clock, got |-> <<>>]
Held(k, f) == IF k \in DOMAIN Expired THEN Expired[k] ELSE Started(f)
Joined(k, f) == With(Held(k, f).got, f.index, f.sending)
Crc(k, f) == IF Held(k, f).crc = None THEN f.crc ELSE Held(k, f).crc

\* What becomes of a fragment.
OutOfBounds(f) == f.count \notin 1 .. MaxCount \/ f.index \notin 0 .. f.count - 1
Full(k) == k \notin DOMAIN Expired /\ Cardinality(DOMAIN Expired) >= MaxActive
Conflicts(k, f) ==
  LET t == Held(k, f)
  IN \/ t.count # f.count
     \/ f.crc # None /\ t.crc # None /\ f.crc # t.crc
     \/ f.index \in DOMAIN t.got /\ t.got[f.index] # f.sending
Repeats(k, f) == f.index \in DOMAIN Held(k, f).got
Whole(k, f) == Cardinality(DOMAIN Joined(k, f)) = f.count
Matches(k, f) == Crc(k, f) = None \/ Range(Joined(k, f)) = {Crc(k, f)}

Verdict(k, f) ==
  CASE OutOfBounds(f) \/ Full(k) -> "refused"
    [] ~OutOfBounds(f) /\ ~Full(k) /\ Conflicts(k, f) -> "dropped"
    [] ~OutOfBounds(f) /\ ~Full(k) /\ ~Conflicts(k, f) /\ Repeats(k, f) -> "repeated"
    [] OTHER -> IF ~Whole(k, f) THEN "pending" ELSE IF Matches(k, f) THEN "complete" ELSE "dropped"

\* The spectrum of a complete transfer, with the scale its last line told.
Spectrum(k, f) == [key |-> k, parts |-> Range(Joined(k, f)), scale |-> f.sending]

\* A refused fragment leaves its transfer as it is but for what was said of it.
Fragment(k, f) ==
  LET v == Verdict(k, f)
  IN /\ lines < MaxLines /\ lines' = lines + 1
     /\ open' = CASE v = "refused" -> Expired
                  [] v \in {"dropped", "complete"} -> Without(Expired, {k})
                  [] v = "repeated" -> With(Expired, k, [Held(k, f) EXCEPT !.crc = Crc(k, f)])
                  [] v = "pending" -> With(Expired, k, [Held(k, f) EXCEPT !.crc = Crc(k, f), !.got = Joined(k, f)])
     /\ meta' = IF v \in {"pending", "repeated"} THEN With(meta, k, f.sending) ELSE Without(meta, {k})
     /\ failed' = IF v \in {"refused", "dropped"} THEN failed + 1 ELSE failed
     /\ shown' = IF v = "complete" THEN shown \cup {Spectrum(k, f)} ELSE shown
     /\ UNCHANGED <<tick, clock>>

\* A line of the spectrum on its way, with or without a checksum of the whole.
Line(k, index, checked) ==
  LET n == sending[k].n
  IN /\ Fragment(k, [index |-> index, count |-> Count, sending |-> n, crc |-> IF checked THEN n ELSE None])
     /\ sending' = [sending EXCEPT ![k].at = clock]

\* A line spoilt in its numbers.
SpoiltLine(k, index, count) ==
  /\ Fragment(k, [index |-> index, count |-> count, sending |-> sending[k].n, crc |-> None])
  /\ sending' = [sending EXCEPT ![k].at = clock]

\* The sensor started again: takes longer than a transfer may.
SendAgain(k) ==
  /\ sending[k].n < Sendings /\ clock - sending[k].at >= Timeout
  /\ sending' = [sending EXCEPT ![k] = [n |-> @.n + 1, at |-> clock]]
  /\ UNCHANGED <<open, meta, shown, failed, tick, clock, lines>>

\* The check for old transfers, which tells them as failed.
ExpireFragmentTransfers ==
  /\ tick > 0 /\ tick' = 0
  /\ open' = Expired /\ meta' = Without(meta, Overdue)
  /\ failed' = failed + Cardinality(Overdue)
  /\ UNCHANGED <<shown, sending, clock, lines>>

\* A new connection forgets them.
ConnectionOpened ==
  /\ open # <<>> /\ open' = <<>> /\ meta' = <<>>
  /\ UNCHANGED <<shown, failed, tick, sending, clock, lines>>

Tick ==
  /\ clock < Horizon /\ tick < Period /\ clock' = clock + 1 /\ tick' = tick + 1
  /\ UNCHANGED <<open, meta, shown, failed, sending, lines>>

Next ==
  \/ \E k \in Keys, i \in 0 .. Count - 1, c \in BOOLEAN : Line(k, i, c)
  \/ \E k \in Keys : SpoiltLine(k, Count, Count) \/ SpoiltLine(k, 0, Count + 1) \/ SendAgain(k)
  \/ ExpireFragmentTransfers \/ ConnectionOpened \/ Tick

Spec == Init /\ [][Next]_vars

-----------------------------------------------------------------------------
\* Types.
TypeOK ==
  /\ DOMAIN open \subseteq Keys /\ Cardinality(DOMAIN open) <= MaxActive
  /\ DOMAIN meta \subseteq Keys /\ tick \in 0 .. Period
  /\ \A k \in DOMAIN open : DOMAIN open[k].got \subseteq 0 .. open[k].count - 1 /\ open[k].created <= clock

\* A spectrum that is shown is of one sending, scale and all, although lines are
\* lost and repeated and a sensor that starts again uses the same numbers: what
\* is left of the sending before is given up first (fragments.py add, expire).
SpectrumWhole == \A s \in shown : s.parts = {s.scale}
=============================================================================
