------------------------- MODULE HistoryLog_proofs -------------------------
(* Proofs about the history: of its log, for any number of events, rows, captures
   and failures, and any capacity of the queue, that the queue, the batch that
   is being written and the database implement the bounded log, that nothing
   accepted is left in memory when the console has been left, and that the
   beginning of a capture precedes the events that name it; of its captures, that
   no row of their windows is lost; of its events, that the load of the bus is
   told with hysteresis.                                                      *)
EXTENDS HistoryLog, SequenceTheorems, FiniteSetTheorems, WellFoundedInduction, TLAPS

----------------------------------------------------------------------------
(* The inductive invariant.                                                  *)

Item == [n: Nat, what: {"event", "start", "extend", "bus"}, caps: SUBSET Caps, end: Int]

(* What the log needs of the types.                                           *)
HandShape == now \in Int /\ DOMAIN hand = DOMAIN Nothing /\ hand.t \in Int
CapShape ==
  /\ DOMAIN cap = Caps
  /\ \A c \in Caps : DOMAIN cap[c] = DOMAIN Unborn /\ cap[c].trig \in Int /\ cap[c].end \in Int
DbShape == DOMAIN db = {"log", "told", "cap", "meta"} /\ db.log \in Seq(Nat) /\ db.told \in Nat
ThShape ==
  /\ DOMAIN th = Threads
  /\ \A t \in Threads : /\ DOMAIN th[t] = DOMAIN Idle /\ th[t].ts \in Int
                        /\ th[t].batch \in Seq(Item) /\ th[t].lost \in Nat
QueueShape ==
  /\ queue \in Seq(Item) /\ Len(queue) <= QueueMax /\ dropped \in Nat /\ accepted \in Nat
  /\ closed \in BOOLEAN
Shape == HandShape /\ CapShape /\ DbShape /\ ThShape /\ QueueShape

(* One thread at a time writes a batch; once the console is being left, the
   timer's thread does not, and once the history is closed nothing is added.   *)
Single == \A t, u \in Writing : t = u
Leaving ==
  /\ th["timer"].pc \in {"idle", "writing", "captures", "chunks", "finish"}
  /\ closed => th["quit"].pc # "idle"
  /\ th["quit"].pc \notin {"idle", "flush"} \/ closed => th["timer"].pc # "writing"
  /\ th["quit"].pc \in {"session", "done"} => /\ closed /\ queue = <<>> /\ dropped = 0
                                             /\ th["timer"].pc # "writing"
  /\ th["quit"].pc = "writing" /\ closed => queue = <<>> /\ dropped = 0

Conserved == accepted = Len(db.log) + Len(Backlog) + GivenUp

(* Captures are taken in order; every record that names one comes after it.    *)
Numbering == \E m \in 0 .. events :
               /\ \A c \in Caps : cap[c].state # "none" <=> c <= m
               /\ hand.what = "seen" => m < events
Exists(C) == \A c \in C : c \in Caps /\ cap[c].state # "none"
Named(b) == \A i \in DOMAIN b : Exists(b[i].caps)
Clash(r, s) == r.what = "event" /\ s.what = "start" /\ \E c \in Caps : c \in r.caps /\ c \in s.caps
Ordered(b) == \A i, j \in DOMAIN b : i < j => ~Clash(b[i], b[j])
NamingInv ==
  /\ events \in 0 .. MaxEvents /\ Numbering
  /\ \A t \in Threads : Exists(th[t].fins)
  /\ hand.what = "event" => Exists(hand.caps)
  /\ Named(Backlog) /\ Ordered(Backlog)

Inv == Shape /\ Single /\ Leaving /\ Conserved /\ NamingInv

----------------------------------------------------------------------------
(* Sequences of records.                                                     *)

LEMMA Bounds ==
  /\ {QueueMax, MaxEvents, Horizon} \subseteq Nat \ {0}
  /\ Pre \in Nat /\ Post \in Nat /\ Span \in Nat /\ Caps = 1 .. MaxEvents
  /\ \A k \in Kinds : Ages[k] \subseteq Nat
BY HistoryAssumption DEF Caps

LEMMA Concats ==
  \A x, y \in Seq(Item) :
    /\ x \o y \in Seq(Item) /\ Len(x \o y) = Len(x) + Len(y)
    /\ DOMAIN (x \o y) = 1 .. Len(x) + Len(y) /\ Len(x) \in Nat /\ Len(y) \in Nat
    /\ \A i \in 1 .. Len(x) + Len(y) :
         (x \o y)[i] = IF i <= Len(x) THEN x[i] ELSE y[i - Len(x)]
BY ConcatProperties, LenProperties

LEMMA Appends ==
  \A x \in Seq(Item), r \in Item :
    /\ Append(x, r) \in Seq(Item) /\ Len(Append(x, r)) = Len(x) + 1 /\ Len(x) \in Nat
    /\ DOMAIN Append(x, r) = 1 .. Len(x) + 1 /\ Append(x, r)[Len(x) + 1] = r
    /\ \A i \in 1 .. Len(x) : Append(x, r)[i] = x[i]
BY AppendProperties, LenProperties

LEMMA Suffixes ==
  \A x \in Seq(Item) : \A k \in 0 .. Len(x) :
    /\ SubSeq(x, k + 1, Len(x)) \in Seq(Item) /\ Len(SubSeq(x, k + 1, Len(x))) = Len(x) - k
    /\ DOMAIN SubSeq(x, k + 1, Len(x)) = 1 .. Len(x) - k
    /\ \A i \in 1 .. Len(x) - k : SubSeq(x, k + 1, Len(x))[i] = x[i + k]
<1> SUFFICES ASSUME NEW x \in Seq(Item), NEW k \in 0 .. Len(x)
             PROVE  LET s == SubSeq(x, k + 1, Len(x))
                    IN /\ s \in Seq(Item) /\ Len(s) = Len(x) - k /\ DOMAIN s = 1 .. Len(x) - k
                       /\ \A i \in 1 .. Len(x) - k : s[i] = x[i + k]
  OBVIOUS
<1>1. Len(x) \in Nat /\ k + 1 \in 1 .. Len(x) + 1 /\ Len(x) \in k .. Len(x)
  BY LenProperties
<1>2. QED
  BY <1>1, SubSeqProperties, LenProperties

LEMMA Numbered ==
  \A b \in Seq(Item) :
    /\ Numbers(b) \in Seq(Nat) /\ Len(Numbers(b)) = Len(b) /\ DOMAIN Numbers(b) = DOMAIN b
    /\ DOMAIN b = 1 .. Len(b) /\ Len(b) \in Nat
    /\ \A i \in 1 .. Len(b) : Numbers(b)[i] = b[i].n
<1> SUFFICES ASSUME NEW b \in Seq(Item)
             PROVE  /\ Numbers(b) \in Seq(Nat) /\ Len(Numbers(b)) = Len(b)
                    /\ DOMAIN Numbers(b) = DOMAIN b /\ DOMAIN b = 1 .. Len(b) /\ Len(b) \in Nat
                    /\ \A i \in 1 .. Len(b) : Numbers(b)[i] = b[i].n
  OBVIOUS
<1>1. Len(b) \in Nat /\ DOMAIN b = 1 .. Len(b) /\ \A i \in 1 .. Len(b) : b[i] \in Item
  BY LenProperties, ElementOfSeq
<1>2. Numbers(b) = [i \in 1 .. Len(b) |-> b[i].n] /\ \A i \in 1 .. Len(b) : b[i].n \in Nat
  BY <1>1 DEF Numbers, Item
<1>3. QED
  BY <1>1, <1>2

----------------------------------------------------------------------------
(* Types.                                                                    *)

LEMMA Domains ==
  /\ DOMAIN Nothing = {"what", "t", "s", "n", "caps"}
  /\ DOMAIN Idle = {"pc", "batch", "lost", "ts", "jobs", "fins", "held", "known"}
  /\ DOMAIN Unborn = {"state", "scope", "trig", "end", "aged", "pend", "seq", "last", "dropped",
                      "held", "late"}
BY DEF Nothing, Idle, Unborn

LEMMA HandStep ==
  ASSUME HandShape, [Next]_vars
  PROVE  HandShape'
<1>1. now \in Int /\ DOMAIN hand = {"what", "t", "s", "n", "caps"} /\ hand.t \in Int
  BY Domains DEF HandShape
<1>2. now' \in Int
  <2>1. CASE Tick \/ \E t \in Threads : FlushCaptures(t)
    <3>1. now' = now + 2 \/ now' = Onward \/ now' = now
      BY <2>1 DEF Tick, FlushCaptures
    <3>2. QED
      BY <1>1, <3>1 DEF Onward
  <2>2. CASE Loop
    BY <1>1, <2>2 DEF Loop, ReadRow, Observe, SeeEvent, Notice, PushEvent
  <2>3. CASE Quitting
    BY <1>1, <2>3 DEF Quitting, Leave, Close, FinishSession
  <2>4. ASSUME NEW t \in Threads, Thread(t), ~FlushCaptures(t)
        PROVE  now' = now
    <3>1. CASE TakeBatch(t) \/ WriteBatch(t) \/ WriteFails(t)
      BY <3>1 DEF TakeBatch, WriteBatch, WriteFails
    <3>2. CASE WriteChunk(t) \/ ChunkFails(t)
      BY <3>2 DEF WriteChunk, ChunkFails
    <3>3. CASE PickFinished(t) \/ FinishCapture(t) \/ FinishFails(t) \/ CapturesDone(t)
      BY <3>3 DEF PickFinished, FinishCapture, FinishFails, CapturesDone
    <3>4. QED
      BY <2>4, <3>1, <3>2, <3>3 DEF Thread
  <2>5. CASE UNCHANGED vars
    BY <1>1, <2>5 DEF vars
  <2>6. QED
    BY <1>1, <2>1, <2>2, <2>3, <2>4, <2>5 DEF Next
<1>3. CASE hand' = hand
  BY <1>1, <1>2, <1>3 DEF HandShape
<1>4. CASE hand' = Nothing
  BY <1>2, <1>4 DEF HandShape, Nothing
<1>5. ASSUME NEW s \in Streams, ReadRow(s)
      PROVE  HandShape'
  BY <1>1, <1>2, <1>5, Domains DEF HandShape, ReadRow, Nothing
<1>6. ASSUME NEW k \in Kinds, NEW age \in Ages[k], SeeEvent(k, age)
      PROVE  HandShape'
  BY <1>1, <1>2, <1>6, Domains, Bounds DEF HandShape, SeeEvent, Nothing
<1>7. CASE Notice
  <2>1. \E caps : hand' = [hand EXCEPT !.what = "event", !.caps = caps]
    BY <1>7 DEF Notice
  <2>2. QED
    BY <1>1, <1>2, <2>1, Domains DEF HandShape
<1>8. CASE Observe \/ PushEvent
  BY <1>4, <1>8 DEF Observe, PushEvent
<1>9. CASE Tick \/ Quitting \/ \E t \in Threads : Thread(t)
  BY <1>3, <1>9 DEF Tick, Quitting, Leave, Close, FinishSession, Thread, TakeBatch, WriteBatch,
     WriteFails, FlushCaptures, WriteChunk, ChunkFails, PickFinished, FinishCapture, FinishFails,
     CapturesDone, loop
<1>10. CASE UNCHANGED vars
  BY <1>3, <1>10 DEF vars, loop
<1>11. QED
  BY <1>5, <1>6, <1>7, <1>8, <1>9, <1>10 DEF Next, Loop

LEMMA Least == \A a, b \in Int : LeastOf({a, b}) \in {a, b} /\ LeastOf({a, b}) <= a /\ LeastOf({a, b}) <= b
<1> SUFFICES ASSUME NEW a \in Int, NEW b \in Int
             PROVE  LeastOf({a, b}) \in {a, b} /\ LeastOf({a, b}) <= a /\ LeastOf({a, b}) <= b
  OBVIOUS
<1>1. \E x \in {a, b} : \A y \in {a, b} : x <= y
  <2>1. CASE a <= b
    BY <2>1
  <2>2. CASE b <= a
    BY <2>2
  <2> QED BY <2>1, <2>2
<1>2. PICK l : l = LeastOf({a, b})
  OBVIOUS
<1>3. l \in {a, b} /\ \A y \in {a, b} : l <= y
  BY <1>1, <1>2 DEF LeastOf
<1> QED BY <1>2, <1>3

LEMMA LaterType ==
  \A k, t : k.trig \in Int /\ k.end \in Int /\ t \in Int => Later(k, t) \in Int
<1> SUFFICES ASSUME NEW k, NEW t, k.trig \in Int, k.end \in Int, t \in Int
             PROVE  Later(k, t) \in Int
  OBVIOUS
<1>1. k.trig + Span \in Int /\ (IF t + Post > k.end THEN t + Post ELSE k.end) \in Int
  BY Bounds
<1>2. {k.trig + Span} \cup {IF t + Post > k.end THEN t + Post ELSE k.end}
        = {k.trig + Span, IF t + Post > k.end THEN t + Post ELSE k.end}
  OBVIOUS
<1>3. QED
  BY <1>1, <1>2, Least DEF Later

(* No capture begins; the ones that exist go on or end.                       *)
SameCaptures == \A c \in Caps : cap'[c].state # "none" <=> cap[c].state # "none"
Begins(c) ==
  /\ c \in Caps /\ cap[c].state = "none" /\ cap'[c].state # "none"
  /\ \A d \in Caps : d < c => cap[d].state # "none"
  /\ \A d \in Caps : d # c => cap'[d].state = cap[d].state

SameFields(j, k) ==
  DOMAIN j = DOMAIN k /\ j.trig = k.trig /\ j.end = k.end /\ j.state = k.state

LEMMA Other ==
  \A k, x : DOMAIN k = DOMAIN Unborn =>
    SameFields([k EXCEPT !.pend = x], k) /\ SameFields([k EXCEPT !.dropped = x], k)
<1> SUFFICES ASSUME NEW k, NEW x, DOMAIN k = DOMAIN Unborn
             PROVE  SameFields([k EXCEPT !.pend = x], k) /\ SameFields([k EXCEPT !.dropped = x], k)
  OBVIOUS
<1>1. {"trig", "end", "state"} \subseteq DOMAIN k
  BY Domains
<1>2. QED
  BY <1>1 DEF SameFields

LEMMA ObserveCaps ==
  ASSUME CapShape, Observe
  PROVE  CapShape' /\ SameCaptures
<1>1. PICK row : cap' = [c \in Caps |->
                           IF c \in Active /\ Within(c, row.t) /\ row.s \in Covers[cap[c].scope]
                           THEN Queued(cap[c], row) ELSE cap[c]]
  BY DEF Observe
<1>2. \A c \in Caps : \E x : \/ cap'[c] = cap[c] \/ cap'[c] = [cap[c] EXCEPT !.dropped = x]
                              \/ cap'[c] = [cap[c] EXCEPT !.pend = x]
  BY <1>1 DEF Queued
<1>3. DOMAIN cap' = Caps
  BY <1>1
<1>4. \A c \in Caps : SameFields(cap'[c], cap[c])
  <2> SUFFICES ASSUME NEW c \in Caps
               PROVE  SameFields(cap'[c], cap[c])
    OBVIOUS
  <2>1. DOMAIN cap[c] = DOMAIN Unborn
    BY DEF CapShape
  <2>2. SameFields(cap[c], cap[c])
    BY DEF SameFields
  <2>3. PICK x : \/ cap'[c] = cap[c] \/ cap'[c] = [cap[c] EXCEPT !.dropped = x]
                 \/ cap'[c] = [cap[c] EXCEPT !.pend = x]
    BY <1>2
  <2>4. /\ SameFields([cap[c] EXCEPT !.pend = x], cap[c])
        /\ SameFields([cap[c] EXCEPT !.dropped = x], cap[c])
    BY <2>1, Other
  <2>5. QED
    BY <2>2, <2>3, <2>4
<1>5. QED
  BY <1>3, <1>4 DEF CapShape, SameCaptures, SameFields

\* A capture that opens, with the rows there is room for.
\* What capture k has of the rows at hand: as much as there is room for.
Fill(k, rows, room) ==
  /\ \A s \in Streams : room[s] <= Len(rows[s])
  /\ k.pend = [s \in Streams |-> SubSeq(rows[s], 1, room[s])]
  /\ k.dropped = UNION {Elements(SubSeq(rows[s], room[s] + 1, Len(rows[s]))) : s \in Streams}

LEMMA OpeningIs ==
  ASSUME NEW sc, NEW t, NEW k \in Opening(sc, t)
  PROVE  /\ DOMAIN k = DOMAIN Unborn
         /\ k.state = "active" /\ k.scope = sc /\ k.trig = t /\ k.end = t + Post /\ (t < now => k.aged)
         /\ k.seq = [s \in Streams |-> 0]
         /\ \E room \in [Streams -> 0 .. PendingMax] : Fill(k, Recovered(sc, t), room)
<1>1. PICK rows : rows = Recovered(sc, t)
  OBVIOUS
<1>2. PICK room \in [Streams -> 0 .. PendingMax] :
        (\A s \in Streams : room[s] <= Len(rows[s])) /\ k = Opened(sc, t, rows, room)
  BY <1>1 DEF Opening
<1>3. Fill(k, rows, room)
  BY <1>2 DEF Fill, Opened, Unborn
<1>4. k.aged = (t < now)
  BY <1>2 DEF Opened, Unborn
<1>5. t < now => k.aged
  BY <1>4, Zenon
<1>6. /\ DOMAIN k = DOMAIN Unborn /\ k.seq = [s \in Streams |-> 0]
      /\ k.state = "active" /\ k.scope = sc /\ k.trig = t /\ k.end = t + Post
  BY <1>2 DEF Opened, Unborn
<1>7. QED
  BY <1>1, <1>3, <1>5, <1>6

\* A capture that opens is the next one.
LEMMA NextIs ==
  ASSUME NamingInv, hand.what = "seen", NEW next, next = LeastOf({c \in Caps : cap[c].state = "none"})
  PROVE  next \in Caps /\ cap[next].state = "none" /\ \A d \in Caps : d < next => cap[d].state # "none"
<1>1. PICK m \in 0 .. events : (\A c \in Caps : cap[c].state # "none" <=> c <= m) /\ m < events
  BY DEF NamingInv, Numbering
<1>2. m + 1 \in Caps /\ cap[m + 1].state = "none" /\ \A c \in Caps : c < m + 1 <=> cap[c].state # "none"
  BY <1>1, Bounds DEF NamingInv
<1>3. PICK free : free = {c \in Caps : cap[c].state = "none"}
  OBVIOUS
<1>4. m + 1 \in free /\ \A y \in free : m + 1 <= y /\ y \in Int
  BY <1>1, <1>2, <1>3, Bounds
<1>5. next \in free /\ \A y \in free : next <= y
  BY <1>3, <1>4 DEF LeastOf
<1>6. next = m + 1
  BY <1>4, <1>5
<1>7. QED
  BY <1>2, <1>6

LEMMA NoticeCaps ==
  ASSUME CapShape, HandShape, NamingInv, Notice
  PROVE  /\ CapShape'
         /\ \/ SameCaptures /\ UNCHANGED log
            \/ SameCaptures /\ \E c \in Caps, e \in Int :
                 cap[c].state # "none" /\ Push(<<Record("extend", {c}, e)>>)
            \/ \E c \in Caps, e \in Int : Begins(c) /\ Push(<<Record("start", {c}, e)>>)
         /\ hand'.what = "event" /\ (\A c \in hand'.caps : c \in Caps /\ cap'[c].state # "none")
         /\ events' = events
<1> DEFINE k == hand.s
           t == hand.t
           sc == Trigger[k]
           listing == {c \in Active : Within(c, t) /\ cap[c].scope \in Concerns[k]}
           same == {c \in Active : cap[c].scope = sc /\ t <= cap[c].end}
           next == LeastOf({c \in Caps : cap[c].state = "none"})
           told(caps) == hand' = [hand EXCEPT !.what = "event", !.caps = caps]
<1>1. /\ hand.what = "seen" /\ events' = events
      /\ \/ /\ sc = "none" /\ told(listing) /\ UNCHANGED <<cap, log>>
         \/ \E c \in same :
              /\ cap' = [cap EXCEPT ![c].end = Later(cap[c], t), ![c].aged = @ \/ t < now]
              /\ Push(IF cap'[c].end # cap[c].end THEN <<Record("extend", {c}, cap'[c].end)>> ELSE <<>>)
              /\ told(listing \cup {c})
         \/ /\ \E new \in Opening(sc, t) : cap' = [cap EXCEPT ![next] = new]
            /\ Push(<<Record("start", {next}, t + Post)>>)
            /\ told(listing \cup {next})
         \/ told(listing) /\ UNCHANGED <<cap, log>>
  BY DEF Notice
<1>2. t \in Int /\ DOMAIN hand = {"what", "t", "s", "n", "caps"}
  BY Domains DEF HandShape
<1>3. \A caps : told(caps) => hand'.what = "event" /\ hand'.caps = caps
  BY <1>2
<1>4. \A c \in listing \cup same : c \in Caps /\ cap[c].state # "none"
  BY DEF Active
<1> HIDE DEF k, t, sc, listing, same, told
<1>5. CASE told(listing) /\ UNCHANGED <<cap, log>>
  BY <1>1, <1>3, <1>4, <1>5 DEF CapShape, SameCaptures
<1>6. ASSUME NEW c \in same,
             cap' = [cap EXCEPT ![c].end = Later(cap[c], t), ![c].aged = @ \/ t < now],
             Push(IF cap'[c].end # cap[c].end THEN <<Record("extend", {c}, cap'[c].end)>> ELSE <<>>),
             told(listing \cup {c})
      PROVE  /\ CapShape' /\ SameCaptures
             /\ \/ UNCHANGED log
                \/ \E d \in Caps, e \in Int : cap[d].state # "none" /\ Push(<<Record("extend", {d}, e)>>)
             /\ hand'.what = "event" /\ \A d \in hand'.caps : d \in Caps /\ cap'[d].state # "none"
  <2>1. c \in Caps /\ cap[c].state # "none" /\ cap[c].trig \in Int /\ cap[c].end \in Int
    BY <1>4, <1>6 DEF CapShape
  <2>2. Later(cap[c], t) \in Int
    BY <1>2, <2>1, LaterType
  <2>3. /\ DOMAIN cap' = Caps
        /\ \A d \in Caps : /\ DOMAIN cap'[d] = DOMAIN Unborn /\ cap'[d].trig = cap[d].trig
                           /\ cap'[d].state = cap[d].state
                           /\ cap'[d].end = IF d = c THEN Later(cap[c], t) ELSE cap[d].end
    BY <1>6, <2>1, Domains DEF CapShape
  <2>4. CapShape' /\ SameCaptures
    BY <2>2, <2>3 DEF CapShape, SameCaptures
  <2>5. UNCHANGED log \/ Push(<<Record("extend", {c}, Later(cap[c], t))>>)
    <3>1. CASE cap'[c].end = cap[c].end
      BY <1>6, <3>1 DEF Push
    <3>2. CASE cap'[c].end # cap[c].end
      BY <1>6, <2>1, <2>3, <3>2
    <3>3. QED
      BY <3>1, <3>2
  <2>6. hand'.what = "event" /\ hand'.caps = listing \cup {c}
    BY <1>3, <1>6
  <2>7. QED
    BY <1>4, <2>1, <2>2, <2>3, <2>4, <2>5, <2>6
<1>7. ASSUME NEW new \in Opening(sc, t), cap' = [cap EXCEPT ![next] = new],
             Push(<<Record("start", {next}, t + Post)>>), told(listing \cup {next})
      PROVE  /\ CapShape'
             /\ \E c \in Caps, e \in Int : Begins(c) /\ Push(<<Record("start", {c}, e)>>)
             /\ hand'.what = "event" /\ \A d \in hand'.caps : d \in Caps /\ cap'[d].state # "none"
  <2>1. next \in Caps /\ cap[next].state = "none" /\ \A d \in Caps : d < next => cap[d].state # "none"
    BY <1>1, NextIs
  <2> HIDE DEF next
  <2>2. new.state = "active" /\ new.trig = t /\ new.end = t + Post /\ DOMAIN new = DOMAIN Unborn
    BY OpeningIs
  <2>3. /\ DOMAIN cap' = Caps /\ cap'[next] = new
        /\ \A d \in Caps : d # next => cap'[d] = cap[d]
    BY <1>7, <2>1 DEF CapShape
  <2>4. t + Post \in Int
    BY <1>2, Bounds
  <2>5. CapShape'
    BY <1>2, <2>2, <2>3, <2>4 DEF CapShape
  <2>6. Begins(next)
    BY <2>1, <2>2, <2>3 DEF Begins
  <2>7. hand'.what = "event" /\ hand'.caps = listing \cup {next}
    BY <1>3, <1>7
  <2>8. \A d \in hand'.caps : d \in Caps /\ cap'[d].state # "none"
    BY <1>4, <2>1, <2>2, <2>3, <2>7
  <2>9. QED
    BY <1>7, <2>1, <2>4, <2>5, <2>6, <2>7, <2>8
<1>8. QED
  BY <1>1, <1>5, <1>6, <1>7

LEMMA ChunkCaps ==
  ASSUME CapShape, NEW u \in Threads, WriteChunk(u)
  PROVE  CapShape' /\ SameCaptures
<1>1. PICK j, k : cap' = [cap EXCEPT ![j.cap] = k] /\ k = Chunked(cap[j.cap], j, th[u].ts)
  BY DEF WriteChunk
<1>2. DOMAIN cap' = Caps
  BY <1>1 DEF CapShape
<1>3. \A c \in Caps : SameFields(cap'[c], cap[c])
  <2> SUFFICES ASSUME NEW c \in Caps
               PROVE  SameFields(cap'[c], cap[c])
    OBVIOUS
  <2>1. DOMAIN cap[c] = DOMAIN Unborn
    BY DEF CapShape
  <2>2. CASE c # j.cap
    BY <1>1, <2>2 DEF CapShape, SameFields
  <2>3. CASE c = j.cap
    <3>1. cap'[c] = k /\ k = Chunked(cap[c], j, th[u].ts)
      BY <1>1, <2>3 DEF CapShape
    <3>2. \A q, ts : DOMAIN q = DOMAIN Unborn => SameFields(Chunked(q, j, ts), q)
      BY Domains DEF Chunked, SameFields
    <3>3. QED
      BY <2>1, <3>1, <3>2
  <2>4. QED
    BY <2>2, <2>3
<1>4. QED
  BY <1>2, <1>3 DEF CapShape, SameCaptures, SameFields

LEMMA FinishCaps ==
  ASSUME CapShape, ThShape, NamingInv, NEW u \in Threads, FinishCapture(u)
  PROVE  CapShape' /\ SameCaptures
<1>1. PICK c \in th[u].fins :
        cap' = [cap EXCEPT ![c] = Closed(@, LeastOf({th[u].ts, @.end}), th[u].held, c \notin th[u].known)]
  BY DEF FinishCapture
<1>2. c \in Caps /\ cap[c].state # "none"
  BY DEF NamingInv, Exists
<1>3. LeastOf({th[u].ts, cap[c].end}) \in Int
  BY <1>2, Least DEF CapShape, ThShape
<1>4. PICK e, h, l : e \in Int /\ cap' = [cap EXCEPT ![c] = Closed(cap[c], e, h, l)]
  BY <1>1, <1>3
<1>5. /\ DOMAIN cap' = Caps /\ \A d \in Caps : d # c => cap'[d] = cap[d]
      /\ cap'[c] = Closed(cap[c], e, h, l)
  BY <1>2, <1>4 DEF CapShape
<1>6. \A k : DOMAIN k = DOMAIN Unborn =>
        LET x == Closed(k, e, h, l)
        IN DOMAIN x = DOMAIN Unborn /\ x.trig = k.trig /\ x.end = e /\ x.state = "ended"
  BY Domains DEF Closed
<1>7. /\ DOMAIN cap'[c] = DOMAIN Unborn /\ cap'[c].trig = cap[c].trig /\ cap'[c].end = e
      /\ cap'[c].state = "ended"
  <2>1. DOMAIN cap[c] = DOMAIN Unborn
    BY <1>2 DEF CapShape
  <2>2. QED
    BY <1>5, <1>6, <2>1, Zenon
<1>8. QED
  BY <1>2, <1>4, <1>5, <1>7 DEF CapShape, SameCaptures

LEMMA CapStep ==
  ASSUME CapShape, HandShape, ThShape, NamingInv, [Next]_vars
  PROVE  CapShape' /\ (SameCaptures \/ (Notice /\ \E c \in Caps : Begins(c)))
<1>1. CASE cap' = cap
  BY <1>1 DEF CapShape, SameCaptures
<1>2. CASE Loop
  <2>1. (\E s \in Streams : ReadRow(s)) \/ (\E k \in Kinds : \E age \in Ages[k] : SeeEvent(k, age))
          \/ PushEvent => cap' = cap
    BY DEF ReadRow, SeeEvent, PushEvent
  <2>2. QED
    BY <1>1, <1>2, <2>1, ObserveCaps, NoticeCaps DEF Loop
<1>3. CASE Tick \/ Quitting \/ UNCHANGED vars
  BY <1>1, <1>3 DEF Tick, Quitting, Leave, Close, FinishSession, vars
<1>4. ASSUME NEW t \in Threads, Thread(t)
      PROVE  CapShape' /\ SameCaptures
  <2>1. CASE WriteChunk(t) \/ FinishCapture(t)
    BY <2>1, ChunkCaps, FinishCaps
  <2>2. CASE TakeBatch(t) \/ WriteBatch(t) \/ WriteFails(t)
    BY <1>1, <2>2 DEF TakeBatch, WriteBatch, WriteFails, CapShape, SameCaptures
  <2>3. CASE FlushCaptures(t) \/ ChunkFails(t) \/ PickFinished(t) \/ FinishFails(t) \/ CapturesDone(t)
    <3>1. cap' = cap
      BY <2>3 DEF FlushCaptures, ChunkFails, PickFinished, FinishFails, CapturesDone
    <3>2. QED
      BY <3>1 DEF CapShape, SameCaptures
  <2>4. QED
    BY <1>4, <2>1, <2>2, <2>3 DEF Thread
<1>5. QED
  BY <1>2, <1>3, <1>4 DEF Next

----------------------------------------------------------------------------
(* The threads, and who writes.                                              *)

(* A step that leaves the batches alone.                                      *)
NoWriter == Writing' = Writing /\ \A t \in Writing : th'[t] = th[t]

LEMMA Going ==
  ASSUME ThShape, NEW u \in Threads, u \notin Writing,
         \E k : /\ th' = [th EXCEPT ![u] = k] /\ k.pc # "writing"
  PROVE  NoWriter
BY DEF ThShape, NoWriter, Writing

LEMMA GoingShape ==
  ASSUME ThShape, NEW u \in Threads, NEW pc, Goes(u, pc)
  PROVE  /\ ThShape' /\ th'[u].pc = pc /\ th'[u].fins = {}
         /\ \A t \in Threads : t # u => th'[t] = th[t]
<1>1. PICK k : k = [Idle EXCEPT !.pc = pc] /\ th' = [th EXCEPT ![u] = k]
  BY DEF Goes
<1>2. /\ DOMAIN k = DOMAIN Idle /\ k.ts = 0 /\ k.batch = <<>> /\ k.lost = 0 /\ k.pc = pc /\ k.fins = {}
  BY <1>1 DEF Idle
<1>3. k.batch \in Seq(Item) /\ k.ts \in Int /\ k.lost \in Nat
  BY <1>2, EmptySeq
<1>4. th'[u] = k /\ DOMAIN th' = Threads /\ \A t \in Threads : t # u => th'[t] = th[t]
  BY <1>1 DEF ThShape
<1>5. QED
  <2>1. \A t \in Threads : /\ DOMAIN th'[t] = DOMAIN Idle /\ th'[t].ts \in Int
                          /\ th'[t].batch \in Seq(Item) /\ th'[t].lost \in Nat
    <3>1. \A t \in Threads : t # u =>
            /\ DOMAIN th'[t] = DOMAIN Idle /\ th'[t].ts \in Int
            /\ th'[t].batch \in Seq(Item) /\ th'[t].lost \in Nat
      BY <1>4, Zenon DEF ThShape
    <3>2. /\ DOMAIN th'[u] = DOMAIN Idle /\ th'[u].ts \in Int
          /\ th'[u].batch \in Seq(Item) /\ th'[u].lost \in Nat
      BY <1>2, <1>3, <1>4, Zenon
    <3>3. QED
      BY <3>1, <3>2, Zenon
  <2>2. QED
    BY <1>2, <1>4, <2>1 DEF ThShape

LEMMA Writers ==
  ASSUME Single
  PROVE  /\ \A t \in Writing : Writing = {t} /\ Writer = t /\ InFlight = th[t].batch /\ Lost = th[t].lost
         /\ Writing = {} => InFlight = <<>> /\ Lost = 0
         /\ \A t : t \in Writing <=> t \in Threads /\ th[t].pc = "writing"
BY DEF Single, Writer, InFlight, Lost, Writing

LEMMA SameFlight ==
  ASSUME NoWriter
  PROVE  InFlight' = InFlight /\ Lost' = Lost
<1>1. Writer' = Writer /\ (Writing # {} => Writer \in Writing)
  BY DEF NoWriter, Writer
<1>2. QED
  BY <1>1 DEF NoWriter, InFlight, Lost

----------------------------------------------------------------------------
(* What a step does to the log.                                              *)

SameDb == db'.log = db.log /\ db'.told = db.told
Quiet  == NoWriter /\ UNCHANGED <<queue, dropped, accepted>> /\ SameDb
Added(r) ==
  /\ r \in Item /\ r.n = accepted + 1 /\ accepted' = accepted + 1
  /\ \/ queue' = Append(queue, r) /\ dropped' = dropped
     \/ queue # <<>> /\ queue' = Append(Tail(queue), r) /\ dropped' = dropped + 1
Adds(r) == NoWriter /\ SameDb /\ Added(r)
Takes(t) ==
  /\ Writing = {} /\ Writing' = {t} /\ th'[t].batch = queue /\ th'[t].lost = dropped
  /\ queue' = <<>> /\ dropped' = 0 /\ UNCHANGED accepted /\ SameDb
Saves(t) ==
  /\ t \in Writing /\ Writing' = {} /\ UNCHANGED <<queue, dropped, accepted>>
  /\ db'.log = db.log \o Numbers(th[t].batch) /\ db'.told = db.told + th[t].lost
Returns(t) ==
  /\ t \in Writing /\ Writing' = {} /\ UNCHANGED accepted /\ SameDb
  /\ queue' = Kept(th[t].batch \o queue)
  /\ dropped' = dropped + th[t].lost + Excess(th[t].batch \o queue)

(* The queue takes a record, giving up its oldest when it is full.            *)
LEMMA Taken ==
  ASSUME QueueShape, NEW r \in Item, closed' \in BOOLEAN,
         accepted' = accepted + 1,
         LET full == Len(queue) >= QueueMax
             room == IF full THEN Tail(queue) ELSE queue
         IN queue' = Append(room, r) /\ dropped' = dropped + IF full THEN 1 ELSE 0
  PROVE  /\ QueueShape'
         /\ \/ queue' = Append(queue, r) /\ dropped' = dropped
            \/ queue # <<>> /\ queue' = Append(Tail(queue), r) /\ dropped' = dropped + 1
<1>1. /\ Len(queue) \in Nat /\ QueueMax \in Nat \ {0} /\ queue \in Seq(Item) /\ dropped \in Nat
      /\ accepted \in Nat /\ Len(queue) <= QueueMax
  BY LenProperties, Bounds DEF QueueShape
<1>2. CASE Len(queue) >= QueueMax
  <2>1. queue # <<>> /\ queue' = Append(Tail(queue), r) /\ dropped' = dropped + 1
    BY <1>1, <1>2
  <2>2. Tail(queue) \in Seq(Item) /\ Len(Tail(queue)) = Len(queue) - 1
    BY <1>1, <2>1, HeadTailProperties
  <2>3. queue' \in Seq(Item) /\ Len(queue') <= QueueMax
    BY <1>1, <2>1, <2>2, Appends
  <2>4. QED
    BY <1>1, <2>1, <2>3 DEF QueueShape
<1>3. CASE ~(Len(queue) >= QueueMax)
  <2>1. queue' = Append(queue, r) /\ dropped' = dropped
    BY <1>1, <1>3
  <2>2. queue' \in Seq(Item) /\ Len(queue') <= QueueMax
    BY <1>1, <1>3, <2>1, Appends
  <2>3. QED
    BY <1>1, <2>1, <2>2 DEF QueueShape
<1>4. QED
  BY <1>2, <1>3

Open(A) == ~closed /\ UNCHANGED closed /\ A

LEMMA Pushed ==
  ASSUME QueueShape, NEW r \in Item, Push(<<r>>)
  PROVE  QueueShape' /\ (UNCHANGED log \/ Open(Added([r EXCEPT !.n = accepted + 1])))
<1>1. CASE closed
  <2>1. UNCHANGED log
    BY <1>1 DEF Push
  <2>2. QED
    BY <2>1 DEF log, QueueShape
<1>2. CASE ~closed
  <2>1. PICK x : x = [r EXCEPT !.n = accepted + 1]
    OBVIOUS
  <2>2. x \in Item /\ x.n = accepted + 1
    <3>1. accepted + 1 \in Nat
      BY DEF QueueShape
    <3>2. QED
      BY <2>1, <3>1 DEF Item
  <2>3. /\ accepted' = accepted + 1 /\ UNCHANGED closed
        /\ LET full == Len(queue) >= QueueMax
               room == IF full THEN Tail(queue) ELSE queue
           IN queue' = Append(room, x) /\ dropped' = dropped + IF full THEN 1 ELSE 0
    BY <1>2, <2>1 DEF Push
  <2>4. closed' \in BOOLEAN
    BY <2>3 DEF QueueShape
  <2>5. QED
    BY <1>2, <2>1, <2>2, <2>3, <2>4, Taken DEF Added, Open
<1>3. QED
  BY <1>1, <1>2

(* A record that names only captures that exist, and begins one that did not.   *)
New(r) ==
  /\ \A c \in r.caps : c \in Caps /\ cap'[c].state # "none"
  /\ r.what = "start" => \A c \in r.caps : cap[c].state = "none"
LogStep == Quiet \/ (\E r : Adds(r) /\ New(r)) \/ \E t \in Threads : Takes(t) \/ Saves(t) \/ Returns(t)

LEMMA StillLeaving ==
  ASSUME Leaving, UNCHANGED closed, th'["timer"].pc = th["timer"].pc, th'["quit"].pc = th["quit"].pc,
         UNCHANGED <<queue, dropped>> \/ ~closed
  PROVE  Leaving'
BY DEF Leaving

LEMMA LoopPushes ==
  ASSUME HandShape, CapShape, QueueShape, NamingInv, Loop
  PROVE  QueueShape' /\ (UNCHANGED log \/ \E r : Open(Added(r)) /\ New(r))
<1>1. CASE (\E s \in Streams : ReadRow(s)) \/ Observe \/ \E k \in Kinds : \E age \in Ages[k] : SeeEvent(k, age)
  <2>1. UNCHANGED log
    BY <1>1 DEF ReadRow, Observe, SeeEvent
  <2>2. QED
    BY <2>1 DEF log, QueueShape
<1>2. CASE Notice
  <2>1. CASE UNCHANGED log
    BY <2>1 DEF log, QueueShape
  <2>2. ASSUME NEW c \in Caps, NEW e \in Int, SameCaptures, cap[c].state # "none",
               Push(<<Record("extend", {c}, e)>>)
        PROVE  QueueShape' /\ (UNCHANGED log \/ \E r : Open(Added(r)) /\ New(r))
    <3>1. Record("extend", {c}, e) \in Item
      BY DEF Record, Item
    <3>2. New([Record("extend", {c}, e) EXCEPT !.n = accepted + 1])
      BY <2>2 DEF Record, New, SameCaptures
    <3>3. QED
      BY <2>2, <3>1, <3>2, Pushed
  <2>3. ASSUME NEW c \in Caps, NEW e \in Int, Begins(c), Push(<<Record("start", {c}, e)>>)
        PROVE  QueueShape' /\ (UNCHANGED log \/ \E r : Open(Added(r)) /\ New(r))
    <3>1. Record("start", {c}, e) \in Item
      BY DEF Record, Item
    <3>2. New([Record("start", {c}, e) EXCEPT !.n = accepted + 1])
      BY <2>3 DEF Record, New, Begins
    <3>3. QED
      BY <2>3, <3>1, <3>2, Pushed
  <2>4. QED
    BY <1>2, <2>1, <2>2, <2>3, NoticeCaps
<1>3. CASE PushEvent
  <2>1. /\ hand.what = "event" /\ cap' = cap /\ Push(<<Record("event", hand.caps, 0)>>)
        /\ \A c \in hand.caps : c \in Caps /\ cap[c].state # "none"
    BY <1>3 DEF PushEvent, NamingInv, Exists
  <2>2. Record("event", hand.caps, 0) \in Item
    BY <2>1 DEF Record, Item
  <2>3. New([Record("event", hand.caps, 0) EXCEPT !.n = accepted + 1])
    BY <2>1 DEF Record, New
  <2>4. QED
    BY <2>1, <2>2, <2>3, Pushed
<1>4. QED
  BY <1>1, <1>2, <1>3 DEF Loop

LEMMA MainStep ==
  ASSUME Shape, Leaving, NamingInv, Tick \/ Loop
  PROVE  ThShape' /\ DbShape' /\ QueueShape' /\ Leaving' /\ LogStep
<1>1. th' = th /\ db' = db
  BY DEF Tick, Loop, ReadRow, Observe, SeeEvent, Notice, PushEvent, storage
<1>2. NoWriter /\ SameDb
  BY <1>1 DEF NoWriter, Writing, SameDb
<1>3. QueueShape' /\ (UNCHANGED log \/ \E r : Open(Added(r)) /\ New(r))
  <2>1. CASE Tick
    BY <2>1 DEF Tick, log, Shape, QueueShape
  <2>2. CASE Loop
    BY <2>2, LoopPushes DEF Shape
  <2>3. QED
    BY <2>1, <2>2
<1>4. UNCHANGED closed /\ (UNCHANGED <<queue, dropped>> \/ ~closed)
  BY <1>3 DEF log, Open
<1>5. QED
  BY <1>1, <1>2, <1>3, <1>4, StillLeaving DEF Shape, ThShape, DbShape, LogStep, Quiet, Adds, Open, log

LEMMA PcOf ==
  ASSUME NEW t \in Threads
  PROVE  t \in {"timer", "quit"} /\ "timer" \in Threads /\ "quit" \in Threads /\ "timer" # "quit"
BY DEF Threads

(* The database's files change without its log.                               *)
LEMMA MetaStep ==
  ASSUME DbShape, \/ db' = db
                  \/ \E m : db' = [db EXCEPT !.meta = m]
                  \/ \E c : db' = [db EXCEPT !.cap = c]
  PROVE  DbShape' /\ SameDb
BY DEF DbShape, SameDb

(* A thread that does not write goes on to something that is not writing.      *)
LEMMA OnwardStep ==
  ASSUME Shape, Leaving, NEW u \in Threads, th[u].pc # "writing", UNCHANGED log,
         \/ db' = db
         \/ \E m : db' = [db EXCEPT !.meta = m]
         \/ \E c : db' = [db EXCEPT !.cap = c],
         NEW k, th' = [th EXCEPT ![u] = k], k.pc # "writing",
         DOMAIN k = DOMAIN Idle, k.ts \in Int, k.batch \in Seq(Item), k.lost \in Nat
  PROVE  /\ ThShape' /\ DbShape' /\ QueueShape' /\ LogStep
         /\ th'[u] = k /\ \A t \in Threads : t # u => th'[t] = th[t]
<1>1. u \notin Writing
  BY DEF Writing
<1>2. NoWriter
  BY <1>1, Going DEF Shape
<1>3. DbShape' /\ SameDb
  BY MetaStep DEF Shape
<1>4. QueueShape'
  BY DEF log, Shape, QueueShape
<1>5. DOMAIN th' = Threads /\ th'[u] = k /\ \A t \in Threads : t # u => th'[t] = th[t]
  BY DEF Shape, ThShape
<1>6. ThShape'
  <2>1. \A t \in Threads : t # u =>
          /\ DOMAIN th'[t] = DOMAIN Idle /\ th'[t].ts \in Int
          /\ th'[t].batch \in Seq(Item) /\ th'[t].lost \in Nat
    BY <1>5, Zenon DEF Shape, ThShape
  <2>2. /\ DOMAIN th'[u] = DOMAIN Idle /\ th'[u].ts \in Int
        /\ th'[u].batch \in Seq(Item) /\ th'[u].lost \in Nat
    BY <1>5, Zenon
  <2>3. QED
    BY <1>5, <2>1, <2>2, Zenon DEF ThShape
<1>7. QED
  BY <1>2, <1>3, <1>4, <1>5, <1>6 DEF LogStep, Quiet, log

(* The same when it starts afresh.                                            *)
LEMMA GoesStep ==
  ASSUME Shape, Leaving, NEW u \in Threads, th[u].pc # "writing", UNCHANGED log,
         \/ db' = db
         \/ \E m : db' = [db EXCEPT !.meta = m]
         \/ \E c : db' = [db EXCEPT !.cap = c],
         NEW pc, pc # "writing", Goes(u, pc)
  PROVE  /\ ThShape' /\ DbShape' /\ QueueShape' /\ LogStep
         /\ th'[u].pc = pc /\ \A t \in Threads : t # u => th'[t] = th[t]
<1>1. PICK k : k = [Idle EXCEPT !.pc = pc] /\ th' = [th EXCEPT ![u] = k]
  BY DEF Goes
<1>2. /\ DOMAIN k = DOMAIN Idle /\ k.ts = 0 /\ k.batch = <<>> /\ k.lost = 0 /\ k.pc = pc
  BY <1>1 DEF Idle
<1>3. k.batch \in Seq(Item) /\ k.ts \in Int /\ k.lost \in Nat /\ k.pc # "writing"
  BY <1>2, EmptySeq
<1>4. QED
  BY <1>1, <1>2, <1>3, OnwardStep

LEMMA TimerGoes ==
  ASSUME Leaving, UNCHANGED <<queue, dropped, closed>>, th'["quit"] = th["quit"],
         th'["timer"].pc \in {"idle", "captures", "chunks", "finish"}
  PROVE  Leaving'
BY DEF Leaving

LEMMA QuitGoes ==
  ASSUME Leaving, UNCHANGED <<queue, dropped, closed>>, th'["timer"] = th["timer"],
         th["quit"].pc \notin {"idle", "flush"},
         \/ th'["quit"].pc \in {"captures", "chunks", "finish", "close", "failed"}
         \/ th["quit"].pc = "session" /\ th'["quit"].pc = "done"
  PROVE  Leaving'
BY DEF Leaving

(* The captures are flushed: the log is left alone.                           *)
CaptureSteps(t) == \/ FlushCaptures(t) \/ WriteChunk(t) \/ ChunkFails(t)
                   \/ PickFinished(t) \/ FinishCapture(t) \/ FinishFails(t) \/ CapturesDone(t)
After(t) == IF t = "quit" THEN {"chunks", "finish", "close", "failed"} ELSE {"chunks", "finish", "idle"}
GoesOn(t) == \E k : /\ th' = [th EXCEPT ![t] = k] /\ DOMAIN k = DOMAIN Idle /\ k.pc \in After(t)
                    /\ k.ts \in Int /\ k.batch \in Seq(Item) /\ k.lost \in Nat
FilesDb == db' = db \/ (\E m : db' = [db EXCEPT !.meta = m]) \/ \E c : db' = [db EXCEPT !.cap = c]

LEMMA StartsAfresh ==
  ASSUME NEW t, NEW pc \in After(t), Goes(t, pc)
  PROVE  GoesOn(t)
<1>1. PICK k : k = [Idle EXCEPT !.pc = pc] /\ th' = [th EXCEPT ![t] = k]
  BY DEF Goes
<1>2. /\ DOMAIN k = DOMAIN Idle /\ k.ts = 0 /\ k.batch = <<>> /\ k.lost = 0 /\ k.pc = pc
  BY <1>1 DEF Idle
<1>3. k.batch \in Seq(Item) /\ k.ts \in Int /\ k.lost \in Nat
  BY <1>2, EmptySeq
<1>4. QED
  BY <1>1, <1>2, <1>3 DEF GoesOn

LEMMA CaptureGoes ==
  ASSUME Shape, NEW t \in Threads, CaptureSteps(t)
  PROVE  th[t].pc \in {"captures", "chunks", "finish"} /\ UNCHANGED log /\ FilesDb /\ GoesOn(t)
<1>1. /\ DOMAIN th[t] = DOMAIN Idle /\ th[t].ts \in Int /\ th[t].batch \in Seq(Item) /\ th[t].lost \in Nat
      /\ now \in Int
  BY DEF Shape, ThShape, HandShape
<1>2. t = "timer" \/ t = "quit"
  BY PcOf
<1>3. CASE FlushCaptures(t)
  <2>1. CASE Goes(t, "idle") /\ t = "timer"
    BY <1>3, <2>1, StartsAfresh DEF FlushCaptures, FilesDb, storage, After
  <2>2. ASSUME NEW j, NEW h, NEW n,
               th' = [th EXCEPT ![t].pc = "chunks", ![t].ts = now, ![t].jobs = j, ![t].held = h, ![t].known = n]
        PROVE  GoesOn(t)
    <3>1. PICK k : k = [[[[[th[t] EXCEPT !.pc = "chunks"] EXCEPT !.ts = now] EXCEPT !.jobs = j]
                           EXCEPT !.held = h] EXCEPT !.known = n]
      OBVIOUS
    <3>2. /\ DOMAIN k = DOMAIN Idle /\ k.ts = now /\ k.batch = th[t].batch /\ k.lost = th[t].lost
          /\ k.pc = "chunks"
      BY <1>1, <3>1, Domains
    <3>3. th' = [th EXCEPT ![t] = k]
      BY <2>2, <3>1 DEF Shape, ThShape
    <3>4. QED
      BY <1>1, <1>2, <3>2, <3>3 DEF GoesOn, After
  <2>3. /\ th[t].pc = "captures" /\ UNCHANGED <<log, storage>>
        /\ \/ Goes(t, "idle") /\ t = "timer"
           \/ \E j, h, n :
                th' = [th EXCEPT ![t].pc = "chunks", ![t].ts = now, ![t].jobs = j, ![t].held = h, ![t].known = n]
    BY <1>3, ZenonT(30) DEF FlushCaptures
  <2>4. GoesOn(t)
    BY <1>2, <2>2, <2>3, StartsAfresh DEF After
  <2>5. QED
    BY <2>3, <2>4 DEF FilesDb, storage
(* One field of the thread changes.                                          *)
<1>4. ASSUME NEW k, th' = [th EXCEPT ![t] = k], DOMAIN k = DOMAIN th[t], k.pc \in {"chunks", "finish"},
             k.ts = th[t].ts, k.batch = th[t].batch, k.lost = th[t].lost
      PROVE  GoesOn(t)
  BY <1>1, <1>2, <1>4 DEF GoesOn, After
<1>5. CASE WriteChunk(t)
  <2>1. /\ th[t].pc = "chunks" /\ UNCHANGED log /\ (\E m : db' = [db EXCEPT !.meta = m])
        /\ \E x : th' = [th EXCEPT ![t].jobs = x]
    BY <1>5 DEF WriteChunk
  <2>2. \A x : LET k == [th[t] EXCEPT !.jobs = x]
               IN /\ DOMAIN k = DOMAIN th[t] /\ k.pc = th[t].pc /\ k.ts = th[t].ts
                  /\ k.batch = th[t].batch /\ k.lost = th[t].lost
    BY <1>1, Domains
  <2>3. GoesOn(t)
    BY <1>4, <2>1, <2>2
  <2>4. QED
    BY <2>1, <2>3 DEF FilesDb
<1>6. CASE ChunkFails(t) \/ FinishFails(t)
  <2>1. th[t].pc \in {"chunks", "finish"} /\ UNCHANGED <<log, db>> /\ Abort(t)
    BY <1>6 DEF ChunkFails, FinishFails
  <2>2. GoesOn(t)
    BY <1>2, <2>1, StartsAfresh DEF Abort, After
  <2>3. QED
    BY <2>1, <2>2 DEF FilesDb
<1>7. CASE PickFinished(t)
  <2>1. /\ th[t].pc = "chunks" /\ UNCHANGED <<log, storage>>
        /\ \E x : th' = [th EXCEPT ![t].pc = "finish", ![t].fins = x]
    BY <1>7 DEF PickFinished
  <2>2. PICK x : th' = [th EXCEPT ![t].pc = "finish", ![t].fins = x]
    BY <2>1
  <2>3. PICK k : k = [[th[t] EXCEPT !.pc = "finish"] EXCEPT !.fins = x]
    OBVIOUS
  <2>4. /\ DOMAIN k = DOMAIN th[t] /\ k.pc = "finish" /\ k.ts = th[t].ts
        /\ k.batch = th[t].batch /\ k.lost = th[t].lost
    BY <1>1, <2>3, Domains
  <2>5. th' = [th EXCEPT ![t] = k]
    BY <2>2, <2>3 DEF Shape, ThShape
  <2>6. GoesOn(t)
    BY <1>4, <2>4, <2>5
  <2>7. QED
    BY <2>1, <2>6 DEF FilesDb, storage
<1>8. CASE FinishCapture(t)
  <2>1. /\ th[t].pc = "finish" /\ UNCHANGED log
        /\ \E x : th' = [th EXCEPT ![t].fins = x]
    BY <1>8 DEF FinishCapture
  <2>2. \A x : LET k == [th[t] EXCEPT !.fins = x]
               IN /\ DOMAIN k = DOMAIN th[t] /\ k.pc = th[t].pc /\ k.ts = th[t].ts
                  /\ k.batch = th[t].batch /\ k.lost = th[t].lost
    BY <1>1, Domains
  <2>3. GoesOn(t)
    BY <1>4, <2>1, <2>2
  <2>4. FilesDb
    BY <1>8 DEF FinishCapture, FilesDb
  <2>5. QED
    BY <2>1, <2>3, <2>4
<1>9. CASE CapturesDone(t)
  <2>1. /\ th[t].pc = "finish" /\ UNCHANGED <<log, storage>>
        /\ Goes(t, IF t = "quit" THEN "close" ELSE "idle")
    BY <1>9 DEF CapturesDone
  <2>2. GoesOn(t)
    BY <1>2, <2>1, StartsAfresh DEF After
  <2>3. QED
    BY <2>1, <2>2 DEF FilesDb, storage
<1>10. QED
  BY <1>3, <1>5, <1>6, <1>7, <1>8, <1>9 DEF CaptureSteps

LEMMA CaptureStep ==
  ASSUME Shape, Leaving, NEW t \in Threads, CaptureSteps(t)
  PROVE  ThShape' /\ DbShape' /\ QueueShape' /\ Leaving' /\ LogStep
<1>1. th[t].pc \in {"captures", "chunks", "finish"} /\ UNCHANGED log /\ FilesDb /\ GoesOn(t)
  BY CaptureGoes
<1>2. PICK k : /\ th' = [th EXCEPT ![t] = k] /\ DOMAIN k = DOMAIN Idle /\ k.pc \in After(t)
               /\ k.ts \in Int /\ k.batch \in Seq(Item) /\ k.lost \in Nat
  BY <1>1 DEF GoesOn
<1>3. th[t].pc # "writing" /\ k.pc # "writing"
  BY <1>1, <1>2 DEF After
<1>4. /\ ThShape' /\ DbShape' /\ QueueShape' /\ LogStep
      /\ th'[t] = k /\ \A u \in Threads : u # t => th'[u] = th[u]
  BY <1>1, <1>2, <1>3, OnwardStep DEF FilesDb
<1>5. Leaving'
  <2>1. CASE t = "timer"
    BY <1>1, <1>2, <1>4, <2>1, TimerGoes, PcOf DEF After, log
  <2>2. CASE t = "quit"
    BY <1>1, <1>2, <1>4, <2>2, QuitGoes, PcOf DEF After, log
  <2>3. QED
    BY <2>1, <2>2, PcOf
<1>6. QED
  BY <1>4, <1>5

LEMMA TakeStep ==
  ASSUME Shape, Single, Leaving, NEW t \in Threads, TakeBatch(t)
  PROVE  ThShape' /\ DbShape' /\ QueueShape' /\ Leaving' /\ Single' /\ LogStep
<1>1. /\ th[t].pc = "flush" \/ (t = "timer" /\ th[t].pc = "idle" /\ th["quit"].pc = "idle")
      /\ Writing = {} /\ th[t].pc # "writing" /\ UNCHANGED storage
  BY DEF TakeBatch, TimersOn
<1>2. t \in {"timer", "quit"} /\ "timer" \in Threads /\ "quit" \in Threads /\ "timer" # "quit"
  BY PcOf
<1>3. CASE FlushDone(t) /\ UNCHANGED log /\ queue = <<>> /\ dropped = 0
  <2>1. PICK pc : pc \in {"session", "captures"} /\ Goes(t, pc) /\ (pc = "session" <=> t = "quit" /\ closed)
    BY <1>3 DEF FlushDone
  <2>2. /\ ThShape' /\ DbShape' /\ QueueShape' /\ LogStep
        /\ th'[t].pc = pc /\ \A u \in Threads : u # t => th'[u] = th[u]
    BY <1>1, <1>3, <2>1, GoesStep DEF storage
  <2>3. Single' /\ Writing' = {}
    <3>1. \A u \in Threads : th'[u].pc # "writing"
      BY <1>1, <2>1, <2>2 DEF Writing
    <3>2. QED
      BY <3>1 DEF Single, Writing
  <2>4. th'["timer"].pc # "writing"
    BY <1>2, <2>3 DEF Writing
  <2>5. Leaving'
    BY <1>1, <1>2, <1>3, <2>1, <2>2, <2>4 DEF Leaving, log
  <2>6. QED
    BY <2>2, <2>3, <2>5
<1>4. CASE /\ th' = [th EXCEPT ![t].pc = "writing", ![t].batch = queue, ![t].lost = dropped, ![t].ts = now]
           /\ queue' = <<>> /\ dropped' = 0 /\ UNCHANGED <<accepted, closed>>
  <2>1. PICK k : k = [[[[th[t] EXCEPT !.pc = "writing"] EXCEPT !.batch = queue] EXCEPT !.lost = dropped]
                        EXCEPT !.ts = now]
    OBVIOUS
  <2>2. /\ DOMAIN k = DOMAIN Idle /\ k.pc = "writing" /\ k.batch = queue /\ k.lost = dropped /\ k.ts = now
    BY <2>1, Domains DEF Shape, ThShape
  <2>3. th' = [th EXCEPT ![t] = k]
    BY <1>4, <2>1 DEF Shape, ThShape
  <2>4. DOMAIN th' = Threads /\ th'[t] = k /\ \A u \in Threads : u # t => th'[u] = th[u]
    BY <2>3 DEF Shape, ThShape
  <2>5. ThShape'
    <3>1. \A u \in Threads : u # t =>
            /\ DOMAIN th'[u] = DOMAIN Idle /\ th'[u].ts \in Int
            /\ th'[u].batch \in Seq(Item) /\ th'[u].lost \in Nat
      BY <2>4, Zenon DEF Shape, ThShape
    <3>2. queue \in Seq(Item) /\ dropped \in Nat /\ now \in Int
      BY DEF Shape, QueueShape, HandShape
    <3>3. /\ DOMAIN th'[t] = DOMAIN Idle /\ th'[t].ts \in Int
          /\ th'[t].batch \in Seq(Item) /\ th'[t].lost \in Nat
      BY <2>2, <2>4, <3>2, Zenon
    <3>4. QED
      BY <2>4, <3>1, <3>3, Zenon DEF ThShape
  <2>6. Writing' = {t} /\ Single'
    <3>1. \A u \in Threads : th'[u].pc = "writing" <=> u = t
      BY <1>1, <2>2, <2>4 DEF Writing
    <3>2. QED
      BY <3>1 DEF Writing, Single
  <2>7. DbShape' /\ SameDb
    BY <1>1, MetaStep DEF storage, Shape
  <2>8. QueueShape'
    <3>1. <<>> \in Seq(Item) /\ Len(<<>>) = 0 /\ 0 <= QueueMax
      BY EmptySeq, Bounds
    <3>2. QED
      BY <1>4, <3>1 DEF Shape, QueueShape
  <2>9. Takes(t)
    BY <1>1, <1>4, <2>2, <2>4, <2>6, <2>7 DEF Takes
  <2>10. Leaving'
    BY <1>1, <1>2, <1>4, <2>2, <2>4 DEF Leaving, Writing
  <2>11. QED
    BY <2>5, <2>6, <2>7, <2>8, <2>9, <2>10 DEF LogStep
<1>5. QED
  BY <1>3, <1>4 DEF TakeBatch

(* A thread has ended with its batch.                                         *)
LEMMA WrittenThread ==
  ASSUME Shape, Single, NEW t \in Writing, NEW pc, pc # "writing", Goes(t, pc)
  PROVE  /\ ThShape' /\ th'[t].pc = pc /\ (\A u \in Threads : u # t => th'[u] = th[u])
         /\ Writing = {t} /\ Writing' = {} /\ Single' /\ t \in Threads /\ th[t].pc = "writing"
         /\ th[t].batch \in Seq(Item) /\ th[t].lost \in Nat
<1>1. t \in Threads /\ th[t].pc = "writing" /\ Writing = {t}
  BY DEF Writing, Single
<1>2. ThShape' /\ th'[t].pc = pc /\ \A u \in Threads : u # t => th'[u] = th[u]
  BY <1>1, GoingShape DEF Shape
<1>3. \A u \in Threads : th'[u].pc # "writing"
  BY <1>1, <1>2 DEF Writing
<1>4. Writing' = {} /\ Single'
  BY <1>3 DEF Writing, Single
<1>5. QED
  BY <1>1, <1>2, <1>4 DEF Shape, ThShape

LEMMA SaveStep ==
  ASSUME Shape, Single, Leaving, NEW t \in Threads, WriteBatch(t)
  PROVE  ThShape' /\ DbShape' /\ QueueShape' /\ Leaving' /\ Single' /\ LogStep
<1>1. t \in Writing /\ UNCHANGED log
  BY DEF WriteBatch, Writing
<1>2. PICK pc : pc \in {"session", "captures"} /\ Goes(t, pc) /\ (pc = "session" <=> t = "quit" /\ closed)
  BY DEF WriteBatch, FlushDone
<1>3. /\ ThShape' /\ th'[t].pc = pc /\ (\A u \in Threads : u # t => th'[u] = th[u])
      /\ Writing = {t} /\ Writing' = {} /\ Single' /\ th[t].pc = "writing"
      /\ th[t].batch \in Seq(Item) /\ th[t].lost \in Nat
  BY <1>1, <1>2, WrittenThread
<1>4. t \in {"timer", "quit"} /\ "timer" \in Threads /\ "quit" \in Threads /\ "timer" # "quit"
  BY PcOf
<1>5. QueueShape'
  BY <1>1 DEF log, Shape, QueueShape
<1>6. PICK l, m, c : /\ l = db.log \o Numbers(th[t].batch) /\ m = db.told + th[t].lost
                     /\ db' = [db EXCEPT !.log = l, !.told = m, !.cap = c]
  BY DEF WriteBatch
<1>7. DbShape' /\ db'.log = l /\ db'.told = m
  <2>1. l \in Seq(Nat)
    BY <1>3, <1>6, Numbered, ConcatProperties DEF Shape, DbShape
  <2>2. m \in Nat
    BY <1>3, <1>6 DEF Shape, DbShape
  <2>3. QED
    BY <1>6, <2>1, <2>2 DEF Shape, DbShape
<1>8. Saves(t)
  BY <1>1, <1>3, <1>6, <1>7 DEF Saves, log
<1>9. th'["timer"].pc # "writing"
  BY <1>3, <1>4 DEF Writing
<1>10. Leaving'
  BY <1>1, <1>2, <1>3, <1>4, <1>9 DEF Leaving, log
<1>11. QED
  BY <1>3, <1>5, <1>7, <1>8, <1>10 DEF LogStep

LEMMA KeptType ==
  \A q \in Seq(Item) :
    /\ Excess(q) \in 0 .. Len(q) /\ Kept(q) = SubSeq(q, Excess(q) + 1, Len(q))
    /\ Kept(q) \in Seq(Item) /\ Len(Kept(q)) <= QueueMax
<1> SUFFICES ASSUME NEW q \in Seq(Item)
             PROVE  /\ Excess(q) \in 0 .. Len(q) /\ Kept(q) = SubSeq(q, Excess(q) + 1, Len(q))
                    /\ Kept(q) \in Seq(Item) /\ Len(Kept(q)) <= QueueMax
  OBVIOUS
<1>1. Len(q) \in Nat /\ QueueMax \in Nat
  BY LenProperties, Bounds
<1>2. PICK e \in 0 .. Len(q) : e = Excess(q) /\ Len(q) - e <= QueueMax
  BY <1>1 DEF Excess
<1>3. Kept(q) = SubSeq(q, e + 1, Len(q))
  BY <1>2 DEF Kept
<1>4. QED
  BY <1>2, <1>3, Suffixes

LEMMA ReturnStep ==
  ASSUME Shape, Single, Leaving, NEW t \in Threads, WriteFails(t)
  PROVE  ThShape' /\ DbShape' /\ QueueShape' /\ Leaving' /\ Single' /\ LogStep
<1>1. t \in Writing /\ UNCHANGED <<accepted, closed, db>>
  BY DEF WriteFails, Writing
<1>2. PICK pc : pc \in {"failed", "idle"} /\ Goes(t, pc) /\ (pc = "failed" <=> t = "quit")
  BY DEF WriteFails, Abort
<1>3. /\ ThShape' /\ th'[t].pc = pc /\ (\A u \in Threads : u # t => th'[u] = th[u])
      /\ Writing = {t} /\ Writing' = {} /\ Single' /\ th[t].pc = "writing"
      /\ th[t].batch \in Seq(Item) /\ th[t].lost \in Nat
  BY <1>1, <1>2, WrittenThread
<1>4. t \in {"timer", "quit"} /\ "timer" \in Threads /\ "quit" \in Threads /\ "timer" # "quit"
  BY PcOf
<1>5. DbShape' /\ SameDb
  BY <1>1, MetaStep DEF Shape
<1>6. PICK q \in Seq(Item) : q = th[t].batch \o queue
  BY <1>3, Concats DEF Shape, QueueShape
<1>7. queue' = Kept(q) /\ dropped' = dropped + th[t].lost + Excess(q)
  BY <1>6 DEF WriteFails, Restored, Counted
<1>8. QueueShape'
  <2>1. Kept(q) \in Seq(Item) /\ Len(Kept(q)) <= QueueMax /\ Excess(q) \in 0 .. Len(q) /\ Len(q) \in Nat
    BY KeptType, LenProperties
  <2>2. dropped' \in Nat
    BY <1>3, <1>7, <2>1 DEF Shape, QueueShape
  <2>3. QED
    BY <1>1, <1>7, <2>1, <2>2 DEF Shape, QueueShape
<1>9. Returns(t)
  BY <1>1, <1>3, <1>5, <1>6, <1>7 DEF Returns
<1>10. th'["timer"].pc # "writing"
  BY <1>3, <1>4 DEF Writing
<1>11. Leaving'
  <2>1. CASE t = "quit"
    BY <1>1, <1>2, <1>3, <1>4, <1>10, <2>1 DEF Leaving
  <2>2. CASE t = "timer"
    <3>1. th["quit"].pc # "writing" /\ th["quit"].pc \notin {"session", "done"}
      BY <1>3, <1>4, <2>2 DEF Writing, Leaving
    <3>2. QED
      BY <1>1, <1>2, <1>3, <1>4, <1>10, <2>2, <3>1 DEF Leaving
  <2>3. QED
    BY <1>4, <2>1, <2>2
<1>12. QED
  BY <1>3, <1>5, <1>8, <1>9, <1>11 DEF LogStep

LEMMA QuitStep ==
  ASSUME Shape, Single, Leaving, Leave \/ FinishSession
  PROVE  ThShape' /\ DbShape' /\ QueueShape' /\ Leaving' /\ LogStep
<1>1. PICK pc : /\ Goes("quit", pc) /\ UNCHANGED <<log, db>>
                /\ \/ th["quit"].pc = "idle" /\ pc = "flush"
                   \/ th["quit"].pc = "session" /\ pc \in {"done", "failed"}
  BY DEF Leave, FinishSession, Abort, storage
<1>2. "quit" \in Threads /\ "timer" \in Threads
  BY DEF Threads
<1>3. /\ ThShape' /\ DbShape' /\ QueueShape' /\ LogStep
      /\ th'["quit"].pc = pc /\ th'["timer"] = th["timer"]
  BY <1>1, <1>2, GoesStep DEF Threads
<1>4. Leaving'
  BY <1>1, <1>3 DEF Leaving, log
<1>5. QED
  BY <1>3, <1>4

LEMMA CloseStep ==
  ASSUME Shape, Single, Leaving, Close
  PROVE  ThShape' /\ DbShape' /\ QueueShape' /\ Leaving' /\ LogStep
<1>1. th["quit"].pc = "close" /\ Goes("quit", "flush") /\ closed' = TRUE /\ db' = db
  BY DEF Close, storage
<1>2. "quit" \in Threads /\ "timer" \in Threads
  BY DEF Threads
<1>3. /\ ThShape' /\ th'["quit"].pc = "flush" /\ th'["timer"] = th["timer"]
  BY <1>1, <1>2, GoingShape DEF Shape, Threads
<1>4. NoWriter
  <2>1. "quit" \notin Writing
    BY <1>1 DEF Writing
  <2>2. \E k : th' = [th EXCEPT !["quit"] = k] /\ k.pc # "writing"
    <3>1. PICK k : k = [Idle EXCEPT !.pc = "flush"] /\ th' = [th EXCEPT !["quit"] = k]
      BY <1>1 DEF Goes
    <3>2. k.pc # "writing"
      BY <3>1 DEF Idle
    <3>3. QED
      BY <3>1, <3>2
  <2>3. ThShape
    BY DEF Shape
  <2>4. QED
    BY <1>2, <2>1, <2>2, <2>3, Going, Zenon
<1>5. DbShape' /\ SameDb
  BY <1>1, MetaStep DEF Shape
<1>6. PICK r : r = [Record("bus", {}, 0) EXCEPT !.n = accepted + 1]
  OBVIOUS
<1>7. r \in Item /\ r.n = accepted + 1 /\ r.what = "bus" /\ r.caps = {}
  <2>1. accepted + 1 \in Nat
    BY DEF Shape, QueueShape
  <2>2. QED
    BY <1>6, <2>1 DEF Item, Record
<1>8. QueueShape' /\ (Added(r) \/ UNCHANGED <<queue, dropped, accepted>>)
  <2>1. CASE /\ accepted' = accepted + 1
             /\ LET full == Len(queue) >= QueueMax
                    room == IF full THEN Tail(queue) ELSE queue
                IN queue' = Append(room, r) /\ dropped' = dropped + IF full THEN 1 ELSE 0
    BY <1>1, <1>7, <2>1, Taken DEF Added, Shape
  <2>2. CASE UNCHANGED <<accepted, dropped, queue>>
    BY <1>1, <2>2 DEF Shape, QueueShape
  <2>3. QED
    BY <1>6, <2>1, <2>2 DEF Close
<1>9. LogStep
  BY <1>4, <1>5, <1>7, <1>8 DEF LogStep, Quiet, Adds, New
<1>10. Leaving'
  BY <1>1, <1>3 DEF Leaving
<1>11. QED
  BY <1>3, <1>5, <1>8, <1>9, <1>10

(* Every step.                                                                *)
LEMMA StepShape ==
  ASSUME Shape, Single, Leaving, NamingInv, [Next]_vars
  PROVE  ThShape' /\ DbShape' /\ QueueShape' /\ Leaving' /\ LogStep
<1>1. CASE Tick \/ Loop
  BY <1>1, MainStep
<1>2. CASE Quitting
  BY <1>2, QuitStep, CloseStep DEF Quitting
<1>3. ASSUME NEW t \in Threads, Thread(t)
      PROVE  ThShape' /\ DbShape' /\ QueueShape' /\ Leaving' /\ LogStep
  BY <1>3, TakeStep, SaveStep, ReturnStep, CaptureStep DEF Thread, CaptureSteps
<1>4. CASE UNCHANGED vars
  <2>1. th' = th /\ db' = db /\ UNCHANGED log
    BY <1>4 DEF vars, storage
  <2>2. NoWriter /\ SameDb
    BY <2>1 DEF NoWriter, Writing, SameDb
  <2>3. ThShape' /\ DbShape' /\ QueueShape' /\ Leaving'
    BY <2>1 DEF Shape, ThShape, DbShape, QueueShape, Leaving, log
  <2>4. QED
    BY <2>1, <2>2, <2>3 DEF LogStep, Quiet, log
<1>5. QED
  BY <1>1, <1>2, <1>3, <1>4 DEF Next

LEMMA SingleStep ==
  ASSUME Single, LogStep
  PROVE  Single'
<1>1. (Quiet \/ \E r : Adds(r)) => Single'
  BY DEF Quiet, Adds, NoWriter, Single
<1>2. (\E t \in Threads : Takes(t) \/ Saves(t) \/ Returns(t)) => Single'
  BY DEF Takes, Saves, Returns, Single
<1>3. QED
  BY <1>1, <1>2 DEF LogStep

----------------------------------------------------------------------------
(* What is on its way to the database.                                       *)

LEMMA Slices ==
  \A x \in Seq(Item), i, j \in Int : 1 <= i /\ j <= Len(x) =>
    /\ SubSeq(x, i, j) \in Seq(Item) /\ Len(SubSeq(x, i, j)) = IF i <= j THEN j - i + 1 ELSE 0
    /\ \A k \in 1 .. j - i + 1 : SubSeq(x, i, j)[k] = x[k + i - 1]
<1> SUFFICES ASSUME NEW x \in Seq(Item), NEW i \in Int, NEW j \in Int, 1 <= i, j <= Len(x)
             PROVE  /\ SubSeq(x, i, j) \in Seq(Item)
                    /\ Len(SubSeq(x, i, j)) = IF i <= j THEN j - i + 1 ELSE 0
                    /\ \A k \in 1 .. j - i + 1 : SubSeq(x, i, j)[k] = x[k + i - 1]
  OBVIOUS
<1>1. \A k \in i .. j : x[k] \in Item
  BY ElementOfSeq, LenProperties
<1>2. /\ SubSeq(x, i, j) \in Seq(Item) /\ Len(SubSeq(x, i, j)) = IF i <= j THEN j - i + 1 ELSE 0
      /\ \A k \in 1 .. j - i + 1 : SubSeq(x, i, j)[k] = x[i + k - 1]
  BY <1>1, SubSeqProperties
<1>3. QED
  BY <1>2

LEMMA Parts ==
  \A x, y \in Seq(Item) :
    /\ SubSeq(x \o y, 1, Len(x)) = x /\ SubSeq(x \o y, Len(x) + 1, Len(x \o y)) = y
    /\ y # <<>> => SubSeq(x \o y, Len(x) + 2, Len(x \o y)) = Tail(y)
<1> SUFFICES ASSUME NEW x \in Seq(Item), NEW y \in Seq(Item)
             PROVE  /\ SubSeq(x \o y, 1, Len(x)) = x /\ SubSeq(x \o y, Len(x) + 1, Len(x \o y)) = y
                    /\ y # <<>> => SubSeq(x \o y, Len(x) + 2, Len(x \o y)) = Tail(y)
  OBVIOUS
<1>1. PICK z \in Seq(Item) : z = x \o y
  BY Concats
<1>2. /\ Len(z) = Len(x) + Len(y) /\ Len(x) \in Nat /\ Len(y) \in Nat
      /\ \A i \in 1 .. Len(x) + Len(y) : z[i] = IF i <= Len(x) THEN x[i] ELSE y[i - Len(x)]
  BY <1>1, Concats
<1>3. SubSeq(z, 1, Len(x)) = x
  <2>1. /\ SubSeq(z, 1, Len(x)) \in Seq(Item) /\ Len(SubSeq(z, 1, Len(x))) = Len(x)
        /\ \A i \in 1 .. Len(x) : SubSeq(z, 1, Len(x))[i] = z[i]
    BY <1>2, Slices
  <2>2. \A i \in 1 .. Len(x) : SubSeq(z, 1, Len(x))[i] = x[i]
    BY <1>2, <2>1
  <2>3. QED
    BY <2>1, <2>2, SeqEqual
<1>4. SubSeq(z, Len(x) + 1, Len(z)) = y
  <2>1. /\ SubSeq(z, Len(x) + 1, Len(z)) \in Seq(Item) /\ Len(SubSeq(z, Len(x) + 1, Len(z))) = Len(y)
        /\ \A i \in 1 .. Len(y) : SubSeq(z, Len(x) + 1, Len(z))[i] = z[i + Len(x)]
    BY <1>2, Slices
  <2>2. ASSUME NEW i \in 1 .. Len(y) PROVE SubSeq(z, Len(x) + 1, Len(z))[i] = y[i]
    <3>1. i + Len(x) \in 1 .. Len(x) + Len(y) /\ ~(i + Len(x) <= Len(x)) /\ (i + Len(x)) - Len(x) = i
      BY <1>2
    <3>2. z[i + Len(x)] = y[i]
      BY <1>2, <3>1
    <3>3. QED
      BY <2>1, <3>2
  <2>3. QED
    BY <2>1, <2>2, SeqEqual
<1>5. ASSUME y # <<>>
      PROVE  SubSeq(z, Len(x) + 2, Len(z)) = Tail(y)
  <2>1. /\ Tail(y) \in Seq(Item) /\ Len(Tail(y)) = Len(y) - 1 /\ Len(y) > 0
        /\ \A i \in 1 .. Len(y) - 1 : Tail(y)[i] = y[i + 1]
    BY <1>2, <1>5, HeadTailProperties, EmptySeq
  <2>2. /\ SubSeq(z, Len(x) + 2, Len(z)) \in Seq(Item) /\ Len(SubSeq(z, Len(x) + 2, Len(z))) = Len(y) - 1
        /\ \A i \in 1 .. Len(y) - 1 : SubSeq(z, Len(x) + 2, Len(z))[i] = z[i + Len(x) + 1]
    BY <1>2, <2>1, Slices
  <2>3. ASSUME NEW i \in 1 .. Len(y) - 1 PROVE SubSeq(z, Len(x) + 2, Len(z))[i] = Tail(y)[i]
    <3>1. /\ i + Len(x) + 1 \in 1 .. Len(x) + Len(y) /\ ~(i + Len(x) + 1 <= Len(x))
          /\ (i + Len(x) + 1) - Len(x) = i + 1
      BY <1>2
    <3>2. z[i + Len(x) + 1] = y[i + 1]
      BY <1>2, <3>1
    <3>3. QED
      BY <2>1, <2>2, <3>2
  <2>4. QED
    BY <2>1, <2>2, <2>3, SeqEqual
<1>6. QED
  BY <1>1, <1>3, <1>4, <1>5

LEMMA AppendLast ==
  \A x, y \in Seq(Item), r \in Item : x \o Append(y, r) = Append(x \o y, r)
<1> SUFFICES ASSUME NEW x \in Seq(Item), NEW y \in Seq(Item), NEW r \in Item
             PROVE  x \o Append(y, r) = Append(x \o y, r)
  OBVIOUS
<1>1. /\ <<r>> \in Seq(Item) /\ x \o y \in Seq(Item)
      /\ Append(y, r) = y \o <<r>> /\ Append(x \o y, r) = (x \o y) \o <<r>>
  BY Concats, AppendIsConcat
<1>2. QED
  BY <1>1, ConcatAssociative

(* The records of b but the one at place i.                                   *)
Omit(b, i) == SubSeq(b, 1, i - 1) \o SubSeq(b, i + 1, Len(b))

Still == Backlog' = Backlog /\ accepted' = accepted /\ db'.log = db.log /\ GivenUp' = GivenUp
Grows(r) ==
  /\ r \in Item /\ New(r) /\ r.n = accepted + 1 /\ accepted' = accepted + 1 /\ db'.log = db.log
  /\ \/ Backlog' = Append(Backlog, r) /\ GivenUp' = GivenUp
     \/ \E i \in 1 .. Len(Backlog) : Backlog' = Append(Omit(Backlog, i), r) /\ GivenUp' = GivenUp + 1
Shrinks(k) ==
  /\ Backlog' = SubSeq(Backlog, k + 1, Len(Backlog)) /\ accepted' = accepted
  /\ \/ db'.log = db.log \o Numbers(SubSeq(Backlog, 1, k)) /\ GivenUp' = GivenUp
     \/ db'.log = db.log /\ GivenUp' = GivenUp + k
Flow == Still \/ (\E r : Grows(r)) \/ \E k \in 0 .. Len(Backlog) : Shrinks(k)

LEMMA BacklogType ==
  ASSUME ThShape, DbShape, QueueShape, Single
  PROVE  /\ InFlight \in Seq(Item) /\ queue \in Seq(Item) /\ Backlog \in Seq(Item)
         /\ Backlog = InFlight \o queue /\ Lost \in Nat /\ GivenUp \in Nat /\ Len(Backlog) \in Nat
<1>1. InFlight \in Seq(Item) /\ Lost \in Nat
  <2>1. CASE Writing = {}
    BY <2>1, Writers, EmptySeq
  <2>2. CASE Writing # {}
    <3>1. PICK t : t \in Writing
      BY <2>2
    <3>2. t \in Threads /\ InFlight = th[t].batch /\ Lost = th[t].lost
      BY <3>1, Writers
    <3>3. QED
      BY <3>2 DEF ThShape
  <2>3. QED
    BY <2>1, <2>2
<1>2. QED
  BY <1>1, Concats, LenProperties DEF Backlog, GivenUp, QueueShape, DbShape

LEMMA Sums ==
  /\ \A a, b, c \in Nat : (a + 1) + b + c = (a + b + c) + 1
  /\ \A a, b, c, d \in Nat : (a + c + d) + b + 0 = (a + b + c) + d
OBVIOUS

LEMMA FlowQuiet ==
  ASSUME ThShape, DbShape, QueueShape, Single, Quiet
  PROVE  Still
<1>1. InFlight' = InFlight /\ Lost' = Lost
  BY SameFlight DEF Quiet
<1>2. QED
  BY <1>1 DEF Quiet, SameDb, Still, Backlog, GivenUp

LEMMA FlowAdds ==
  ASSUME ThShape, DbShape, QueueShape, Single, NEW r, Adds(r), New(r)
  PROVE  Grows(r)
<1>1. /\ InFlight \in Seq(Item) /\ queue \in Seq(Item) /\ Backlog \in Seq(Item)
      /\ Backlog = InFlight \o queue /\ Lost \in Nat /\ GivenUp \in Nat /\ Len(Backlog) \in Nat
  BY BacklogType
<1>2. InFlight' = InFlight /\ Lost' = Lost /\ db'.log = db.log /\ db'.told = db.told
  BY SameFlight DEF Adds, SameDb
<1>3. r \in Item /\ r.n = accepted + 1 /\ accepted' = accepted + 1
  BY DEF Adds, Added
<1>4. Backlog' = InFlight \o queue' /\ GivenUp' = dropped' + db.told + Lost
  BY <1>2 DEF Backlog, GivenUp
<1>5. CASE queue' = Append(queue, r) /\ dropped' = dropped
  <2>1. Backlog' = Append(Backlog, r)
    BY <1>1, <1>3, <1>4, <1>5, AppendLast
  <2>2. GivenUp' = GivenUp
    BY <1>4, <1>5 DEF GivenUp
  <2>3. QED
    BY <1>2, <1>3, <2>1, <2>2 DEF Grows
<1>6. CASE queue # <<>> /\ queue' = Append(Tail(queue), r) /\ dropped' = dropped + 1
  <2>1. Tail(queue) \in Seq(Item) /\ Len(InFlight) \in Nat /\ Len(queue) \in Nat \ {0}
    BY <1>1, <1>6, HeadTailProperties, LenProperties, EmptySeq
  <2>2. PICK i \in 1 .. Len(Backlog) : i = Len(InFlight) + 1
    BY <1>1, <2>1, Concats
  <2>3. Omit(Backlog, i) = InFlight \o Tail(queue)
    <3>1. i - 1 = Len(InFlight) /\ i + 1 = Len(InFlight) + 2
      BY <2>1, <2>2
    <3>2. SubSeq(Backlog, 1, i - 1) = InFlight /\ SubSeq(Backlog, i + 1, Len(Backlog)) = Tail(queue)
      <4>1. /\ SubSeq(InFlight \o queue, 1, Len(InFlight)) = InFlight
            /\ SubSeq(InFlight \o queue, Len(InFlight) + 2, Len(InFlight \o queue)) = Tail(queue)
        BY <1>1, <1>6, Parts
      <4>2. QED
        BY <1>1, <3>1, <4>1, Zenon
    <3>3. QED
      BY <3>2 DEF Omit
  <2>4. Backlog' = Append(Omit(Backlog, i), r)
    <3>1. Backlog' = InFlight \o Append(Tail(queue), r)
      BY <1>4, <1>6, Zenon
    <3>2. InFlight \o Append(Tail(queue), r) = Append(InFlight \o Tail(queue), r)
      BY <1>1, <1>3, <2>1, AppendLast
    <3>3. QED
      BY <2>3, <3>1, <3>2, Zenon
  <2>5. GivenUp' = GivenUp + 1
    <3>1. dropped \in Nat /\ db.told \in Nat
      BY DEF QueueShape, DbShape
    <3>2. GivenUp = dropped + db.told + Lost /\ GivenUp' = dropped' + db.told + Lost /\ Lost \in Nat
      BY <1>1, <1>4, Zenon DEF GivenUp
    <3>3. (dropped + 1) + db.told + Lost = (dropped + db.told + Lost) + 1
      BY <3>1, <3>2, Sums, ZenonT(30)
    <3>4. QED
      BY <1>6, <3>2, <3>3, Zenon
  <2>6. QED
    BY <1>2, <1>3, <2>4, <2>5 DEF Grows
<1>7. QED
  BY <1>5, <1>6 DEF Adds, Added

LEMMA FlowTakes ==
  ASSUME ThShape, DbShape, QueueShape, Single, NEW t \in Threads, Takes(t), Single'
  PROVE  Still
<1>1. InFlight = <<>> /\ Lost = 0 /\ queue \in Seq(Item) /\ dropped \in Nat /\ db.told \in Nat
  BY Writers DEF Takes, QueueShape, DbShape
<1>2. InFlight' = queue /\ Lost' = dropped
  <2>1. Writing' = {t} /\ Writer' = t
    BY DEF Takes, Writer
  <2>2. QED
    BY <2>1 DEF InFlight, Lost, Takes
<1>3. Backlog' = queue /\ Backlog = queue
  BY <1>1, <1>2, ConcatEmptySeq DEF Backlog, Takes
<1>4. GivenUp' = GivenUp
  BY <1>1, <1>2 DEF GivenUp, Takes, SameDb
<1>5. QED
  BY <1>3, <1>4 DEF Still, Takes, SameDb

(* The batch that is being written is the beginning of the backlog.           *)
LEMMA Ending ==
  ASSUME ThShape, DbShape, QueueShape, Single, NEW t \in Writing, Writing' = {}
  PROVE  /\ th[t].batch \in Seq(Item) /\ th[t].lost \in Nat /\ InFlight = th[t].batch
         /\ Backlog = th[t].batch \o queue /\ GivenUp = dropped + db.told + th[t].lost
         /\ InFlight' = <<>> /\ Lost' = 0 /\ Backlog' = <<>> \o queue' /\ GivenUp' = dropped' + db'.told + 0
         /\ Len(th[t].batch) \in 0 .. Len(Backlog)
<1>1. /\ t \in Threads /\ InFlight = th[t].batch /\ Lost = th[t].lost
      /\ th[t].batch \in Seq(Item) /\ th[t].lost \in Nat
  BY Writers DEF ThShape
<1>2. InFlight' = <<>> /\ Lost' = 0
  BY DEF InFlight, Lost
<1>3. Backlog = th[t].batch \o queue /\ Backlog' = <<>> \o queue'
  BY <1>1, <1>2 DEF Backlog
<1>4. Len(th[t].batch) \in 0 .. Len(Backlog)
  BY <1>1, <1>3, Concats DEF QueueShape
<1>5. QED
  BY <1>1, <1>2, <1>3, <1>4 DEF GivenUp

LEMMA FlowSaves ==
  ASSUME ThShape, DbShape, QueueShape, Single, NEW t \in Threads, Saves(t)
  PROVE  \E k \in 0 .. Len(Backlog) : Shrinks(k)
<1>1. t \in Writing /\ Writing' = {}
  BY DEF Saves
<1>2. /\ th[t].batch \in Seq(Item) /\ th[t].lost \in Nat
      /\ Backlog = th[t].batch \o queue /\ GivenUp = dropped + db.told + th[t].lost
      /\ Backlog' = <<>> \o queue' /\ GivenUp' = dropped' + db'.told + 0
      /\ Len(th[t].batch) \in 0 .. Len(Backlog)
  BY <1>1, Ending
<1>3. /\ queue' = queue /\ dropped' = dropped /\ accepted' = accepted
      /\ db'.log = db.log \o Numbers(th[t].batch) /\ db'.told = db.told + th[t].lost
  BY DEF Saves
<1>4. PICK k \in 0 .. Len(Backlog) : k = Len(th[t].batch)
  BY <1>2
<1>5. SubSeq(Backlog, 1, k) = th[t].batch /\ SubSeq(Backlog, k + 1, Len(Backlog)) = queue
  BY <1>2, <1>4, Parts DEF QueueShape
<1>6. Backlog' = queue
  BY <1>2, <1>3, ConcatEmptySeq DEF QueueShape
<1>7. GivenUp' = GivenUp
  BY <1>2, <1>3 DEF QueueShape, DbShape
<1>8. QED
  BY <1>3, <1>5, <1>6, <1>7 DEF Shrinks

LEMMA FlowReturns ==
  ASSUME ThShape, DbShape, QueueShape, Single, NEW t \in Threads, Returns(t), QueueShape'
  PROVE  \E k \in 0 .. Len(Backlog) : Shrinks(k)
<1>1. t \in Writing /\ Writing' = {}
  BY DEF Returns
<1>2. /\ th[t].batch \in Seq(Item) /\ th[t].lost \in Nat
      /\ Backlog = th[t].batch \o queue /\ GivenUp = dropped + db.told + th[t].lost
      /\ Backlog' = <<>> \o queue' /\ GivenUp' = dropped' + db'.told + 0
  BY <1>1, Ending
<1>3. Backlog \in Seq(Item)
  BY BacklogType
<1>4. /\ queue' = Kept(Backlog) /\ dropped' = dropped + th[t].lost + Excess(Backlog) /\ accepted' = accepted
      /\ db'.log = db.log /\ db'.told = db.told
  BY <1>2 DEF Returns, SameDb
<1>5. PICK k \in 0 .. Len(Backlog) : k = Excess(Backlog)
  BY <1>3, KeptType
<1>6. Backlog' = SubSeq(Backlog, k + 1, Len(Backlog))
  <2>1. Backlog' = queue'
    BY <1>2, ConcatEmptySeq DEF QueueShape
  <2>2. Kept(Backlog) = SubSeq(Backlog, k + 1, Len(Backlog))
    BY <1>5, Zenon DEF Kept
  <2>3. QED
    BY <1>4, <2>1, <2>2
<1>7. GivenUp' = GivenUp + k
  <2>1. dropped \in Nat /\ db.told \in Nat /\ k \in Int /\ th[t].lost \in Nat
    BY <1>2, <1>5 DEF QueueShape, DbShape
  <2>2. GivenUp = dropped + db.told + th[t].lost /\ GivenUp' = dropped' + db'.told + 0
    BY <1>2, Zenon
  <2>3. dropped' = dropped + th[t].lost + k /\ db'.told = db.told
    BY <1>4, <1>5, Zenon
  <2>4. k \in Nat
    BY <1>3, <1>5, LenProperties
  <2>5. (dropped + th[t].lost + k) + db.told + 0 = (dropped + db.told + th[t].lost) + k
    <3>1. PICK a \in Nat : a = dropped
      BY <2>1, Zenon
    <3>2. PICK b \in Nat : b = db.told
      BY <2>1, Zenon
    <3>3. PICK c \in Nat : c = th[t].lost
      BY <2>1, Zenon
    <3>4. (a + c + k) + b + 0 = (a + b + c) + k
      BY <2>4, Sums
    <3>5. QED
      BY <3>1, <3>2, <3>3, <3>4, Zenon
  <2>6. QED
    BY <2>2, <2>3, <2>5, Zenon
<1>8. QED
  BY <1>4, <1>6, <1>7 DEF Shrinks

LEMMA Flows ==
  ASSUME ThShape, DbShape, QueueShape, Single, Single', QueueShape', LogStep
  PROVE  Flow
BY FlowQuiet, FlowAdds, FlowTakes, FlowSaves, FlowReturns DEF LogStep, Flow

LEMMA Omitted ==
  \A b \in Seq(Item) : \A i \in 1 .. Len(b) :
    /\ Omit(b, i) \in Seq(Item) /\ Len(Omit(b, i)) = Len(b) - 1 /\ Len(b) \in Nat
    /\ \A j \in 1 .. Len(b) - 1 : Omit(b, i)[j] = b[IF j < i THEN j ELSE j + 1]
<1> SUFFICES ASSUME NEW b \in Seq(Item), NEW i \in 1 .. Len(b)
             PROVE  /\ Omit(b, i) \in Seq(Item) /\ Len(Omit(b, i)) = Len(b) - 1 /\ Len(b) \in Nat
                    /\ \A j \in 1 .. Len(b) - 1 : Omit(b, i)[j] = b[IF j < i THEN j ELSE j + 1]
  OBVIOUS
<1>1. Len(b) \in Nat
  BY LenProperties
<1>2. PICK x \in Seq(Item), y \in Seq(Item) :
        /\ x = SubSeq(b, 1, i - 1) /\ y = SubSeq(b, i + 1, Len(b))
        /\ Len(x) = i - 1 /\ Len(y) = Len(b) - i
        /\ (\A k \in 1 .. i - 1 : x[k] = b[k]) /\ \A k \in 1 .. Len(b) - i : y[k] = b[k + i]
  <2>1. /\ SubSeq(b, 1, i - 1) \in Seq(Item) /\ Len(SubSeq(b, 1, i - 1)) = i - 1
        /\ \A k \in 1 .. i - 1 : SubSeq(b, 1, i - 1)[k] = b[k]
    BY <1>1, Slices
  <2>2. /\ SubSeq(b, i + 1, Len(b)) \in Seq(Item) /\ Len(SubSeq(b, i + 1, Len(b))) = Len(b) - i
        /\ \A k \in 1 .. Len(b) - i : SubSeq(b, i + 1, Len(b))[k] = b[k + i]
    BY <1>1, Slices
  <2>3. QED
    BY <2>1, <2>2
<1>3. Omit(b, i) = x \o y
  BY <1>2 DEF Omit
<1>4. /\ x \o y \in Seq(Item) /\ Len(x \o y) = Len(b) - 1
      /\ \A j \in 1 .. Len(b) - 1 : (x \o y)[j] = IF j <= i - 1 THEN x[j] ELSE y[j - (i - 1)]
  <2>1. Len(x) + Len(y) = Len(b) - 1
    <3>1. (i - 1) + (Len(b) - i) = Len(b) - 1
      BY <1>1
    <3>2. QED
      BY <1>2, <3>1, Zenon
  <2>2. /\ x \o y \in Seq(Item) /\ Len(x \o y) = Len(x) + Len(y)
        /\ \A j \in 1 .. Len(x) + Len(y) : (x \o y)[j] = IF j <= Len(x) THEN x[j] ELSE y[j - Len(x)]
    BY Concats
  <2>3. QED
    BY <1>2, <2>1, <2>2, Zenon
<1>5. \A j \in 1 .. Len(b) - 1 : (x \o y)[j] = b[IF j < i THEN j ELSE j + 1]
  <2> SUFFICES ASSUME NEW j \in 1 .. Len(b) - 1
               PROVE  (x \o y)[j] = b[IF j < i THEN j ELSE j + 1]
    OBVIOUS
  <2>1. CASE j < i
    <3>1. j \in 1 .. i - 1 /\ j <= i - 1
      BY <1>1, <2>1
    <3>2. (x \o y)[j] = x[j] /\ x[j] = b[j]
      BY <1>2, <1>4, <3>1, Zenon
    <3>3. QED
      BY <2>1, <3>2, Zenon
  <2>2. CASE ~(j < i)
    <3>1. j - (i - 1) \in 1 .. Len(b) - i /\ j - (i - 1) + i = j + 1
      BY <1>1, <2>2
    <3>2. (x \o y)[j] = y[j - (i - 1)]
      BY <1>1, <1>4, <2>2
    <3>3. QED
      BY <1>2, <2>2, <3>1, <3>2
  <2>3. QED
    BY <2>1, <2>2
<1>6. QED
  BY <1>1, <1>3, <1>4, <1>5

LEMMA ConservedStep ==
  ASSUME ThShape, DbShape, QueueShape, Single, Conserved, Flow
  PROVE  Conserved'
<1>1. /\ Backlog \in Seq(Item) /\ GivenUp \in Nat /\ Len(Backlog) \in Nat /\ accepted \in Nat
      /\ db.log \in Seq(Nat) /\ Len(db.log) \in Nat /\ accepted = Len(db.log) + Len(Backlog) + GivenUp
  BY BacklogType, LenProperties DEF QueueShape, DbShape, Conserved
<1>2. PICK l \in Nat, b \in Nat, g \in Nat :
        l = Len(db.log) /\ b = Len(Backlog) /\ g = GivenUp /\ accepted = l + b + g
  BY <1>1
<1>3. /\ (l + b + g) + 1 = l + (b + 1) + g /\ (l + b + g) + 1 = l + b + (g + 1)
      /\ \A k \in 0 .. b : l + b + g = (l + k) + (b - k) + g /\ l + b + g = l + (b - k) + (g + k)
  OBVIOUS
<1>4. /\ accepted + 1 = Len(db.log) + (Len(Backlog) + 1) + GivenUp
      /\ accepted + 1 = Len(db.log) + Len(Backlog) + (GivenUp + 1)
      /\ \A k \in 0 .. Len(Backlog) :
           /\ accepted = (Len(db.log) + k) + (Len(Backlog) - k) + GivenUp
           /\ accepted = Len(db.log) + (Len(Backlog) - k) + (GivenUp + k)
  BY <1>2, <1>3, Zenon
<1>5. SUFFICES accepted' = Len(db'.log) + Len(Backlog') + GivenUp'
  BY DEF Conserved
<1>6. CASE Still
  BY <1>1, <1>6 DEF Still
<1>7. ASSUME NEW r, Grows(r)
      PROVE  accepted' = Len(db'.log) + Len(Backlog') + GivenUp'
  <2>1. r \in Item /\ accepted' = accepted + 1 /\ db'.log = db.log
    BY <1>7 DEF Grows
  <2>2. CASE Backlog' = Append(Backlog, r) /\ GivenUp' = GivenUp
    <3>1. Len(Backlog') = Len(Backlog) + 1
      BY <1>1, <2>1, <2>2, Appends
    <3>2. QED
      BY <1>1, <2>1, <2>2, <3>1, <1>4, Zenon
  <2>3. ASSUME NEW i \in 1 .. Len(Backlog), Backlog' = Append(Omit(Backlog, i), r), GivenUp' = GivenUp + 1
        PROVE  accepted' = Len(db'.log) + Len(Backlog') + GivenUp'
    <3>1. Len(Backlog') = Len(Backlog)
      BY <1>1, <2>1, <2>3, Omitted, Appends
    <3>2. QED
      BY <1>1, <2>1, <2>3, <3>1, <1>4, Zenon
  <2>4. QED
    BY <1>7, <2>2, <2>3 DEF Grows
<1>8. ASSUME NEW k \in 0 .. Len(Backlog), Shrinks(k)
      PROVE  accepted' = Len(db'.log) + Len(Backlog') + GivenUp'
  <2>1. Len(Backlog') = Len(Backlog) - k /\ accepted' = accepted
    BY <1>1, <1>8, Suffixes DEF Shrinks
  <2>2. CASE db'.log = db.log \o Numbers(SubSeq(Backlog, 1, k)) /\ GivenUp' = GivenUp
    <3>1. SubSeq(Backlog, 1, k) \in Seq(Item) /\ Len(SubSeq(Backlog, 1, k)) = k
      BY <1>1, Slices
    <3>2. Numbers(SubSeq(Backlog, 1, k)) \in Seq(Nat) /\ Len(Numbers(SubSeq(Backlog, 1, k))) = k
      BY <3>1, Numbered
    <3>3. Len(db'.log) = Len(db.log) + k
      <4>1. \A x \in Seq(Nat) : Len(db.log \o x) = Len(db.log) + Len(x)
        BY <1>1, ConcatProperties
      <4>2. QED
        BY <2>2, <3>2, <4>1, Zenon
    <3>4. QED
      BY <1>1, <1>8, <2>1, <2>2, <3>3, <1>4, Zenon
  <2>3. CASE db'.log = db.log /\ GivenUp' = GivenUp + k
    BY <1>1, <1>8, <2>1, <2>3, <1>4, Zenon
  <2>4. QED
    BY <1>8, <2>2, <2>3 DEF Shrinks
<1>9. QED
  BY <1>6, <1>7, <1>8 DEF Flow

(* The captures that were there are there, and the records stay in order.      *)
Lasting == \A c \in Caps : cap[c].state # "none" => cap'[c].state # "none"

LEMMA GrowsNames ==
  ASSUME NEW b \in Seq(Item), NEW r \in Item, New(r), Lasting, Named(b), Ordered(b)
  PROVE  LET x == Append(b, r)
         IN /\ \A i \in DOMAIN x : \A c \in x[i].caps : c \in Caps /\ cap'[c].state # "none"
            /\ Ordered(x)
<1>1. PICK x \in Seq(Item) : x = Append(b, r)
  BY Appends
<1>2. /\ DOMAIN b = 1 .. Len(b) /\ Len(b) \in Nat /\ DOMAIN x = 1 .. Len(b) + 1
      /\ x[Len(b) + 1] = r /\ \A i \in 1 .. Len(b) : x[i] = b[i]
  BY <1>1, Appends, LenProperties
<1>3. \A i \in 1 .. Len(b) : \A c \in b[i].caps : c \in Caps /\ cap[c].state # "none"
  BY <1>2 DEF Named, Exists
<1>4. \A i \in DOMAIN x : \A c \in x[i].caps : c \in Caps /\ cap'[c].state # "none"
  <2> SUFFICES ASSUME NEW i \in 1 .. Len(b) + 1
               PROVE  \A c \in x[i].caps : c \in Caps /\ cap'[c].state # "none"
    BY <1>2
  <2>1. CASE i = Len(b) + 1
    BY <1>2, <2>1 DEF New
  <2>2. CASE i \in 1 .. Len(b)
    BY <1>2, <1>3, <2>2 DEF Lasting
  <2>3. QED
    BY <1>2, <2>1, <2>2
<1>5. Ordered(x)
  <2> SUFFICES ASSUME NEW i \in 1 .. Len(b) + 1, NEW j \in 1 .. Len(b) + 1, i < j, Clash(x[i], x[j])
               PROVE  FALSE
    BY <1>2 DEF Ordered
  <2>1. i \in 1 .. Len(b) /\ x[i] = b[i]
    BY <1>2
  <2>2. CASE j = Len(b) + 1
    <3>1. x[j] = r
      BY <1>2, <2>2
    <3>2. PICK c \in Caps : c \in b[i].caps /\ c \in r.caps /\ r.what = "start"
      BY <2>1, <3>1 DEF Clash
    <3>3. QED
      BY <1>3, <2>1, <3>2 DEF New
  <2>3. CASE j \in 1 .. Len(b)
    BY <1>2, <2>1, <2>3 DEF Ordered
  <2>4. QED
    BY <1>2, <2>2, <2>3
<1>6. QED
  BY <1>1, <1>4, <1>5

(* Taking records away keeps the names and the order.                         *)
LEMMA LessNames ==
  ASSUME NEW b \in Seq(Item), Named(b), Ordered(b)
  PROVE  /\ \A i \in 1 .. Len(b) : Named(Omit(b, i)) /\ Ordered(Omit(b, i))
         /\ \A k \in 0 .. Len(b) : Named(SubSeq(b, k + 1, Len(b))) /\ Ordered(SubSeq(b, k + 1, Len(b)))
<1>1. DOMAIN b = 1 .. Len(b) /\ Len(b) \in Nat
  BY LenProperties
<1>2. ASSUME NEW i \in 1 .. Len(b)
      PROVE  Named(Omit(b, i)) /\ Ordered(Omit(b, i))
  <2>1. PICK x \in Seq(Item) : x = Omit(b, i)
    BY Omitted
  <2>2. DOMAIN x = 1 .. Len(b) - 1 /\ \A j \in 1 .. Len(b) - 1 : x[j] = b[IF j < i THEN j ELSE j + 1]
    BY <1>1, <2>1, Omitted, LenProperties
  <2>3. Named(x)
    BY <1>1, <2>2 DEF Named
  <2>4. Ordered(x)
    <3> SUFFICES ASSUME NEW j \in 1 .. Len(b) - 1, NEW m \in 1 .. Len(b) - 1, j < m
                 PROVE  ~Clash(x[j], x[m])
      BY <2>2 DEF Ordered
    <3>1. PICK u \in 1 .. Len(b), v \in 1 .. Len(b) :
            /\ u = (IF j < i THEN j ELSE j + 1) /\ v = (IF m < i THEN m ELSE m + 1) /\ u < v
      BY <1>1
    <3>2. x[j] = b[u] /\ x[m] = b[v]
      BY <2>2, <3>1, Zenon
    <3>3. QED
      BY <1>1, <3>1, <3>2 DEF Ordered
  <2>5. QED
    BY <2>1, <2>3, <2>4
<1>3. ASSUME NEW k \in 0 .. Len(b)
      PROVE  Named(SubSeq(b, k + 1, Len(b))) /\ Ordered(SubSeq(b, k + 1, Len(b)))
  <2>1. PICK x \in Seq(Item) : x = SubSeq(b, k + 1, Len(b))
    BY Suffixes
  <2>2. DOMAIN x = 1 .. Len(b) - k /\ \A j \in 1 .. Len(b) - k : x[j] = b[j + k]
    BY <2>1, Suffixes
  <2>3. Named(x)
    <3>1. \A j \in 1 .. Len(b) - k : j + k \in DOMAIN b
      BY <1>1
    <3>2. QED
      BY <2>2, <3>1, Zenon DEF Named
  <2>4. Ordered(x)
    <3> SUFFICES ASSUME NEW j \in 1 .. Len(b) - k, NEW m \in 1 .. Len(b) - k, j < m
                 PROVE  ~Clash(x[j], x[m])
      BY <2>2 DEF Ordered
    <3>1. j + k \in 1 .. Len(b) /\ m + k \in 1 .. Len(b) /\ j + k < m + k
      BY <1>1
    <3>2. QED
      BY <1>1, <2>2, <3>1 DEF Ordered
  <2>5. QED
    BY <2>1, <2>3, <2>4
<1>4. QED
  BY <1>2, <1>3

LEMMA NamesStep ==
  ASSUME ThShape, DbShape, QueueShape, Single, Lasting, Named(Backlog), Ordered(Backlog), Flow
  PROVE  Named(Backlog)' /\ Ordered(Backlog)'
<1>1. Backlog \in Seq(Item) /\ DOMAIN Backlog = 1 .. Len(Backlog)
  BY BacklogType, LenProperties
<1>2. SUFFICES /\ \A i \in DOMAIN Backlog' : \A c \in Backlog'[i].caps : c \in Caps /\ cap'[c].state # "none"
               /\ Ordered(Backlog')
  BY DEF Named, Exists, Ordered
<1>3. ASSUME NEW b \in Seq(Item), Named(b), Ordered(b), Backlog' = b
      PROVE  /\ \A i \in DOMAIN Backlog' : \A c \in Backlog'[i].caps : c \in Caps /\ cap'[c].state # "none"
             /\ Ordered(Backlog')
  BY <1>3 DEF Named, Exists, Lasting
<1>4. CASE Still
  BY <1>1, <1>3, <1>4 DEF Still
<1>5. ASSUME NEW r, Grows(r)
      PROVE  /\ \A i \in DOMAIN Backlog' : \A c \in Backlog'[i].caps : c \in Caps /\ cap'[c].state # "none"
             /\ Ordered(Backlog')
  <2>1. r \in Item /\ New(r)
    BY <1>5 DEF Grows
  <2>2. PICK b \in Seq(Item) : Named(b) /\ Ordered(b) /\ Backlog' = Append(b, r)
    <3>1. CASE Backlog' = Append(Backlog, r)
      BY <1>1, <3>1
    <3>2. ASSUME NEW i \in 1 .. Len(Backlog), Backlog' = Append(Omit(Backlog, i), r)
          PROVE  \E b \in Seq(Item) : Named(b) /\ Ordered(b) /\ Backlog' = Append(b, r)
      BY <1>1, <3>2, Omitted, LessNames
    <3>3. QED
      BY <1>5, <3>1, <3>2 DEF Grows
  <2>3. QED
    BY <2>1, <2>2, GrowsNames
<1>6. ASSUME NEW k \in 0 .. Len(Backlog), Shrinks(k)
      PROVE  /\ \A i \in DOMAIN Backlog' : \A c \in Backlog'[i].caps : c \in Caps /\ cap'[c].state # "none"
             /\ Ordered(Backlog')
  <2>1. PICK b \in Seq(Item) : b = SubSeq(Backlog, k + 1, Len(Backlog))
    BY <1>1, Suffixes
  <2>2. Named(b) /\ Ordered(b) /\ Backlog' = b
    BY <1>1, <1>6, <2>1, LessNames DEF Shrinks
  <2>3. QED
    BY <1>3, <2>2
<1>7. QED
  BY <1>4, <1>5, <1>6 DEF Flow

(* The captures that a thread ends are ones that were there.                  *)
LEMMA FinsStep ==
  ASSUME ThShape, [Next]_vars
  PROVE  \A t \in Threads : th'[t].fins \subseteq th[t].fins \cup Active
<1>1. CASE th' = th
  BY <1>1
<1>2. CASE Tick \/ Loop \/ UNCHANGED vars
  BY <1>1, <1>2 DEF Tick, Loop, ReadRow, Observe, SeeEvent, Notice, PushEvent, vars
<1>3. ASSUME NEW u \in Threads, NEW pc, Goes(u, pc)
      PROVE  \A t \in Threads : th'[t].fins \subseteq th[t].fins \cup Active
  BY <1>3, GoingShape
<1>4. CASE Quitting
  BY <1>3, <1>4 DEF Quitting, Leave, Close, FinishSession, Abort, Threads
<1>5. ASSUME NEW u \in Threads, NEW k, th' = [th EXCEPT ![u] = k], k.fins \subseteq th[u].fins \cup Active
      PROVE  \A t \in Threads : th'[t].fins \subseteq th[t].fins \cup Active
  BY <1>5 DEF ThShape
<1>6. ASSUME NEW u \in Threads, Thread(u)
      PROVE  \A t \in Threads : th'[t].fins \subseteq th[t].fins \cup Active
  <2>1. DOMAIN th[u] = {"pc", "batch", "lost", "ts", "jobs", "fins", "held", "known"}
    BY Domains DEF ThShape
  <2>2. CASE WriteBatch(u) \/ WriteFails(u)
    BY <1>3, <2>2 DEF WriteBatch, WriteFails, FlushDone, Abort
  <2>3. CASE TakeBatch(u)
    <3>1. CASE FlushDone(u)
      BY <1>3, <3>1 DEF FlushDone
    <3>2. CASE th' = [th EXCEPT ![u].pc = "writing", ![u].batch = queue, ![u].lost = dropped, ![u].ts = now]
      <4>1. PICK k : k = [[[[th[u] EXCEPT !.pc = "writing"] EXCEPT !.batch = queue] EXCEPT !.lost = dropped]
                            EXCEPT !.ts = now]
        OBVIOUS
      <4>2. k.fins = th[u].fins
        BY <2>1, <4>1
      <4>3. th' = [th EXCEPT ![u] = k]
        BY <3>2, <4>1 DEF ThShape
      <4>4. QED
        BY <1>5, <4>2, <4>3
    <3>3. QED
      BY <2>3, <3>1, <3>2 DEF TakeBatch
  <2>4. CASE FlushCaptures(u)
    <3>1. ASSUME NEW j, NEW h, NEW n,
                 th' = [th EXCEPT ![u].pc = "chunks", ![u].ts = now, ![u].jobs = j, ![u].held = h, ![u].known = n]
          PROVE  \A t \in Threads : th'[t].fins \subseteq th[t].fins \cup Active
      <4>1. PICK k : k = [[[[[th[u] EXCEPT !.pc = "chunks"] EXCEPT !.ts = now] EXCEPT !.jobs = j]
                             EXCEPT !.held = h] EXCEPT !.known = n]
        OBVIOUS
      <4>2. k.fins = th[u].fins
        BY <2>1, <4>1
      <4>3. th' = [th EXCEPT ![u] = k]
        BY <3>1, <4>1 DEF ThShape
      <4>4. QED
        BY <1>5, <4>2, <4>3
    <3>2. \/ Goes(u, "idle")
          \/ \E j, h, n :
               th' = [th EXCEPT ![u].pc = "chunks", ![u].ts = now, ![u].jobs = j, ![u].held = h, ![u].known = n]
      BY <2>4 DEF FlushCaptures
    <3>3. QED
      BY <1>3, <3>1, <3>2
  <2>5. CASE WriteChunk(u) \/ FinishCapture(u)
    <3>1. \/ \E x : th' = [th EXCEPT ![u].jobs = x]
          \/ \E c : th' = [th EXCEPT ![u].fins = @ \ {c}]
      BY <2>5 DEF WriteChunk, FinishCapture
    <3>2. \A x, c : [th[u] EXCEPT !.jobs = x].fins = th[u].fins /\ [th[u] EXCEPT !.fins = @ \ {c}].fins \subseteq th[u].fins
      BY <2>1
    <3>3. QED
      BY <1>5, <3>1, <3>2
  <2>6. CASE PickFinished(u)
    <3>1. PICK x : x \subseteq Active /\ th' = [th EXCEPT ![u].pc = "finish", ![u].fins = x]
      BY <2>6 DEF PickFinished
    <3>2. PICK k : k = [[th[u] EXCEPT !.pc = "finish"] EXCEPT !.fins = x]
      OBVIOUS
    <3>3. k.fins = x
      BY <2>1, <3>2
    <3>4. th' = [th EXCEPT ![u] = k]
      BY <3>1, <3>2 DEF ThShape
    <3>5. QED
      BY <1>5, <3>1, <3>3, <3>4
  <2>7. CASE ChunkFails(u) \/ FinishFails(u) \/ CapturesDone(u)
    BY <1>3, <2>7 DEF ChunkFails, FinishFails, CapturesDone, Abort
  <2>8. QED
    BY <1>6, <2>2, <2>3, <2>4, <2>5, <2>6, <2>7 DEF Thread
<1>7. QED
  BY <1>2, <1>4, <1>6 DEF Next

(* What the loop holds, and the events counted.                               *)
LEMMA HandCases ==
  ASSUME HandShape, [Next]_vars
  PROVE  \/ Notice
         \/ hand' = hand /\ events' = events
         \/ hand'.what \in {"none", "row"} /\ events' = events
         \/ hand'.what = "seen" /\ cap' = cap /\ events < MaxEvents /\ events' = events + 1
<1>1. CASE Loop
  <2>1. \A s \in Streams : ReadRow(s) => hand'.what \in {"none", "row"} /\ events' = events
    BY DEF ReadRow, Nothing
  <2>2. Observe \/ PushEvent => hand'.what \in {"none", "row"} /\ events' = events
    BY DEF Observe, PushEvent, Nothing
  <2>3. \A k \in Kinds : \A age \in Ages[k] : SeeEvent(k, age) =>
          hand'.what = "seen" /\ cap' = cap /\ events < MaxEvents /\ events' = events + 1
    BY DEF SeeEvent, Nothing
  <2>4. QED
    BY <1>1, <2>1, <2>2, <2>3 DEF Loop
<1>2. CASE Tick \/ Quitting
  BY <1>2 DEF Tick, Quitting, Leave, Close, FinishSession, loop
<1>3. ASSUME NEW t \in Threads, Thread(t)
      PROVE  hand' = hand /\ events' = events
  <2>1. CASE TakeBatch(t) \/ WriteBatch(t) \/ WriteFails(t) \/ FlushCaptures(t)
    BY <2>1 DEF TakeBatch, WriteBatch, WriteFails, FlushCaptures, loop
  <2>2. CASE WriteChunk(t) \/ ChunkFails(t) \/ PickFinished(t)
    BY <2>2 DEF WriteChunk, ChunkFails, PickFinished, loop
  <2>3. CASE FinishCapture(t) \/ FinishFails(t) \/ CapturesDone(t)
    BY <2>3 DEF FinishCapture, FinishFails, CapturesDone, loop
  <2>4. QED
    BY <1>3, <2>1, <2>2, <2>3 DEF Thread
<1>4. CASE UNCHANGED vars
  BY <1>4 DEF vars, loop
<1>5. QED
  BY <1>1, <1>2, <1>3, <1>4 DEF Next

LEMMA NumberingStep ==
  ASSUME Shape, NamingInv, [Next]_vars
  PROVE  /\ events' \in 0 .. MaxEvents /\ Numbering' /\ Lasting
         /\ hand'.what = "event" => \A c \in hand'.caps : c \in Caps /\ cap'[c].state # "none"
<1>1. /\ events \in 0 .. MaxEvents /\ MaxEvents \in Nat /\ Caps = 1 .. MaxEvents
      /\ hand.what = "event" => \A c \in hand.caps : c \in Caps /\ cap[c].state # "none"
  BY Bounds DEF NamingInv, Exists
<1>2. PICK m \in 0 .. events : /\ \A c \in Caps : cap[c].state # "none" <=> c <= m
                               /\ hand.what = "seen" => m < events
  BY DEF NamingInv, Numbering
<1>3. SameCaptures \/ (Notice /\ \E c \in Caps : Begins(c))
  BY CapStep DEF Shape
<1>4. Lasting
  BY <1>3 DEF SameCaptures, Begins, Lasting
<1>5. CASE Notice
  <2>1. /\ hand'.what = "event" /\ (\A c \in hand'.caps : c \in Caps /\ cap'[c].state # "none")
        /\ events' = events /\ hand.what = "seen"
    BY <1>5, NoticeCaps DEF Shape, Notice
  <2>2. m < events
    BY <1>2, <2>1
  <2>3. CASE SameCaptures
    <3>1. Numbering'
      BY <1>2, <2>1, <2>3 DEF Numbering, SameCaptures
    <3>2. QED
      BY <1>1, <1>4, <2>1, <3>1
  <2>4. ASSUME NEW b \in Caps, Begins(b)
        PROVE  Numbering'
    <3>1. b = m + 1
      <4>1. b \in 1 .. MaxEvents /\ ~(b <= m)
        BY <1>1, <1>2, <2>4 DEF Begins
      <4>2. m + 1 \in Caps /\ ~(m + 1 <= m)
        BY <1>1, <2>2
      <4>3. ~(m + 1 < b)
        BY <1>2, <2>4, <4>2 DEF Begins
      <4>4. QED
        BY <4>1, <4>2, <4>3
    <3>2. \A c \in Caps : cap'[c].state # "none" <=> c <= m + 1
      <4> SUFFICES ASSUME NEW c \in Caps
                   PROVE  cap'[c].state # "none" <=> c <= m + 1
        OBVIOUS
      <4>1. CASE c = b
        BY <1>1, <2>4, <3>1, <4>1 DEF Begins
      <4>2. CASE c # b
        <5>1. cap'[c].state = cap[c].state
          BY <2>4, <4>2 DEF Begins
        <5>2. c <= m <=> c <= m + 1
          BY <1>1, <3>1, <4>2
        <5>3. QED
          BY <1>2, <5>1, <5>2
      <4>3. QED
        BY <4>1, <4>2
    <3>3. m + 1 \in 0 .. events'
      BY <1>1, <2>1, <2>2
    <3>4. QED
      BY <2>1, <3>2, <3>3 DEF Numbering
  <2>5. QED
    BY <1>1, <1>3, <1>4, <2>1, <2>3, <2>4
<1>6. CASE SameCaptures /\ hand' = hand /\ events' = events
  <2>1. Numbering'
    BY <1>2, <1>6 DEF Numbering, SameCaptures
  <2>2. QED
    BY <1>1, <1>4, <1>6, <2>1 DEF Lasting
<1>7. CASE SameCaptures /\ hand'.what \in {"none", "row"} /\ events' = events
  <2>1. Numbering'
    BY <1>2, <1>7 DEF Numbering, SameCaptures
  <2>2. QED
    BY <1>1, <1>4, <1>7, <2>1
<1>8. CASE SameCaptures /\ hand'.what = "seen" /\ events < MaxEvents /\ events' = events + 1
  <2>1. m \in 0 .. events' /\ m < events' /\ events' \in 0 .. MaxEvents
    BY <1>1, <1>8
  <2>2. Numbering'
    BY <1>2, <1>8, <2>1 DEF Numbering, SameCaptures
  <2>3. QED
    BY <1>4, <1>8, <2>1, <2>2
<1>9. QED
  BY <1>3, <1>5, <1>6, <1>7, <1>8, HandCases DEF Shape

----------------------------------------------------------------------------
(* The invariant.                                                            *)

LEMMA InvInit == Init => Inv
<1> SUFFICES ASSUME Init
             PROVE  Inv
  OBVIOUS
<1>1. /\ now = Pre + 1 /\ hand = Nothing /\ events = 0 /\ cap = [c \in Caps |-> Unborn]
      /\ queue = <<>> /\ dropped = 0 /\ accepted = 0 /\ closed = FALSE
      /\ th = [t \in Threads |-> Idle] /\ DOMAIN db = {"log", "told", "cap", "meta"}
      /\ db.log = <<>> /\ db.told = 0
  BY DEF Init
<1>2. /\ <<>> \in Seq(Item) /\ <<>> \in Seq(Nat) /\ Len(<<>>) = 0
  BY EmptySeq
<1>3. HandShape
  BY <1>1, Bounds DEF HandShape, Nothing
<1>4. CapShape
  BY <1>1 DEF CapShape, Unborn
<1>5. DbShape /\ QueueShape
  <2>1. DbShape
    <3>1. db.told \in Nat
      BY <1>1
    <3>2. QED
      BY <1>1, <1>2, <3>1, Zenon DEF DbShape
  <2>2. 0 <= QueueMax
    BY Bounds
  <2>3. queue \in Seq(Item) /\ Len(queue) <= QueueMax
    BY <1>1, <1>2, <2>2, Zenon
  <2>4. QED
    BY <1>1, <2>1, <2>3 DEF QueueShape
<1>6. \A t \in Threads : th[t] = Idle
  BY <1>1
<1>7. Idle.ts = 0 /\ Idle.batch = <<>> /\ Idle.lost = 0 /\ Idle.pc = "idle" /\ Idle.fins = {}
  BY DEF Idle
<1>8. ThShape
  <2>1. DOMAIN th = Threads
    BY <1>1
  <2>2. Idle.ts \in Int /\ Idle.batch \in Seq(Item) /\ Idle.lost \in Nat
    BY <1>2, <1>7
  <2>3. QED
    BY <1>6, <2>1, <2>2, Zenon DEF ThShape
<1>9. Writing = {} /\ Single /\ Leaving
  BY <1>1, <1>6, <1>7 DEF Writing, Single, Leaving, Threads
<1>10. Backlog = <<>> /\ Lost = 0
  BY <1>1, <1>2, <1>9, ConcatEmptySeq DEF Backlog, InFlight, Lost
<1>11. Conserved
  BY <1>1, <1>2, <1>10 DEF Conserved, GivenUp
<1>12. NamingInv
  <2>1. \A c \in Caps : cap[c].state = "none" /\ ~(c <= 0)
    BY <1>1, Bounds DEF Unborn
  <2>2. Numbering
    BY <1>1, <2>1 DEF Numbering, Nothing
  <2>3. Named(Backlog) /\ Ordered(Backlog)
    BY <1>10 DEF Named, Ordered
  <2>4. QED
    BY <1>1, <1>6, <1>7, <2>2, <2>3, Bounds DEF NamingInv, Exists, Nothing
<1>13. QED
  BY <1>3, <1>4, <1>5, <1>8, <1>9, <1>11, <1>12 DEF Inv, Shape

LEMMA InvStep ==
  ASSUME Inv, [Next]_vars
  PROVE  Inv' /\ Flow
<1>1. Shape /\ Single /\ Leaving /\ Conserved /\ NamingInv /\ CapShape /\ HandShape /\ ThShape /\ DbShape
        /\ QueueShape
  BY DEF Inv, Shape
<1>2. ThShape' /\ DbShape' /\ QueueShape' /\ Leaving' /\ LogStep
  BY <1>1, StepShape
<1>3. HandShape' /\ CapShape'
  BY <1>1, HandStep, CapStep
<1>4. Single'
  BY <1>1, <1>2, SingleStep
<1>5. Flow
  BY <1>1, <1>2, <1>4, Flows
<1>6. Conserved'
  BY <1>1, <1>5, ConservedStep
<1>7. NamingInv'
  <2>1. /\ events' \in 0 .. MaxEvents /\ Numbering' /\ Lasting
        /\ hand'.what = "event" => \A c \in hand'.caps : c \in Caps /\ cap'[c].state # "none"
    BY <1>1, NumberingStep
  <2>2. \A t \in Threads : \A c \in th'[t].fins : c \in Caps /\ cap'[c].state # "none"
    <3>1. \A t \in Threads : th'[t].fins \subseteq th[t].fins \cup Active
      BY <1>1, FinsStep
    <3>2. \A t \in Threads : \A c \in th[t].fins \cup Active : c \in Caps /\ cap[c].state # "none"
      BY <1>1 DEF NamingInv, Exists, Active
    <3>3. QED
      BY <2>1, <3>1, <3>2 DEF Lasting
  <2>3. Named(Backlog)' /\ Ordered(Backlog)'
    BY <1>1, <1>5, <2>1, NamesStep DEF NamingInv
  <2>4. QED
    BY <2>1, <2>2, <2>3 DEF NamingInv, Exists
<1>8. QED
  BY <1>2, <1>3, <1>4, <1>5, <1>6, <1>7 DEF Inv, Shape

LEMMA Invariance == Spec => []Inv
<1>1. Inv /\ UNCHANGED vars => Inv'
  BY InvStep
<1>2. Inv /\ [Next]_vars => Inv'
  BY InvStep
<1>3. QED
  BY InvInit, <1>2, PTL DEF Spec

(* An event never precedes the beginning of a capture that it names, on its way
   to the database, whichever batches failed and were put back: only an
   overflow of the queue takes the beginning away.                           *)
THEOREM StartsComeFirst == Spec => []StartPrecedesUse
<1>1. Inv => StartPrecedesUse
  <2> SUFFICES ASSUME Inv, NEW i \in DOMAIN Backlog, Backlog[i].what = "event",
                      NEW c \in Backlog[i].caps, ~StartLost(c), db.cap[c].state = "none"
               PROVE  c \in Starts(SubSeq(Backlog, 1, i))
    BY DEF StartPrecedesUse
  <2>1. Backlog \in Seq(Item) /\ DOMAIN Backlog = 1 .. Len(Backlog) /\ Len(Backlog) \in Nat
    BY BacklogType, LenProperties DEF Inv, Shape
  <2>2. c \in Caps /\ cap[c].state # "none"
    BY DEF Inv, NamingInv, Named, Exists
  <2>3. c \in Starts(Backlog)
    BY <2>2 DEF StartLost
  <2>4. PICK j \in DOMAIN Backlog : Backlog[j].what = "start" /\ c \in Backlog[j].caps
    BY <2>3 DEF Starts
  <2>5. ~(i < j)
    BY <2>2, <2>4 DEF Inv, NamingInv, Ordered, Clash
  <2>6. j \in 1 .. i
    BY <2>1, <2>5
  <2>7. /\ SubSeq(Backlog, 1, i) \in Seq(Item) /\ Len(SubSeq(Backlog, 1, i)) = i
        /\ SubSeq(Backlog, 1, i)[j] = Backlog[j]
    BY <2>1, <2>6, Slices
  <2>8. j \in DOMAIN SubSeq(Backlog, 1, i)
    BY <2>6, <2>7, LenProperties
  <2>9. QED
    BY <2>4, <2>7, <2>8 DEF Starts
<1>2. QED
  BY <1>1, Invariance, PTL

(* When the console has been left without an error, every record accepted is in
   the database or counted there as lost.                                     *)
THEOREM NothingIsLeft == Spec => []LeftIsDurable
<1>1. Inv => LeftIsDurable
  <2> SUFFICES ASSUME Inv, th["quit"].pc = "done"
               PROVE  accepted = Len(db.log) + db.told
    BY DEF LeftIsDurable
  <2>1. queue = <<>> /\ dropped = 0 /\ th["timer"].pc # "writing"
    BY DEF Inv, Leaving
  <2>2. Writing = {}
    BY <2>1 DEF Writing, Threads
  <2>3. InFlight = <<>> /\ Lost = 0
    BY <2>2 DEF InFlight, Lost
  <2>4. Backlog = <<>> \o <<>>
    BY <2>1, <2>3 DEF Backlog
  <2>5. Len(Backlog) = 0
    BY <2>4, EmptySeq, ConcatProperties
  <2>6. db.told \in Nat /\ Len(db.log) \in Nat
    BY LenProperties DEF Inv, Shape, DbShape
  <2>7. GivenUp = 0 + db.told + 0 /\ accepted = Len(db.log) + Len(Backlog) + GivenUp
    BY <2>1, <2>3 DEF GivenUp, Inv, Conserved
  <2>8. QED
    BY <2>5, <2>6, <2>7
<1>2. QED
  BY <1>1, Invariance, PTL

----------------------------------------------------------------------------
(* The bounded log.                                                          *)

LEMMA NumbersAppend ==
  \A b \in Seq(Item), r \in Item : Numbers(Append(b, r)) = Append(Numbers(b), r.n)
<1> SUFFICES ASSUME NEW b \in Seq(Item), NEW r \in Item
             PROVE  Numbers(Append(b, r)) = Append(Numbers(b), r.n)
  OBVIOUS
<1>1. PICK x \in Seq(Item) : x = Append(b, r)
  BY Appends
<1>2. Len(b) \in Nat /\ Len(x) = Len(b) + 1 /\ x[Len(b) + 1] = r /\ \A i \in 1 .. Len(b) : x[i] = b[i]
  BY <1>1, Appends
<1>3. PICK y \in Seq(Nat), z \in Seq(Nat) : y = Numbers(b) /\ z = Numbers(x)
  BY Numbered
<1>4. /\ Len(y) = Len(b) /\ Len(z) = Len(x)
      /\ (\A i \in 1 .. Len(b) : y[i] = b[i].n) /\ \A i \in 1 .. Len(x) : z[i] = x[i].n
  BY <1>3, Numbered
<1>5. r.n \in Nat
  BY DEF Item
<1>6. PICK w \in Seq(Nat) : /\ w = Append(y, r.n) /\ Len(w) = Len(y) + 1 /\ w[Len(y) + 1] = r.n
                            /\ \A i \in 1 .. Len(y) : w[i] = y[i]
  <2>1. /\ Append(y, r.n) \in Seq(Nat) /\ Len(Append(y, r.n)) = Len(y) + 1
        /\ Append(y, r.n)[Len(y) + 1] = r.n /\ \A i \in 1 .. Len(y) : Append(y, r.n)[i] = y[i]
    BY <1>5, AppendProperties
  <2>2. QED
    BY <2>1, Zenon
<1>7. Len(z) = Len(w) /\ \A i \in 1 .. Len(z) : z[i] = w[i]
  <2>1. Len(z) = Len(b) + 1 /\ Len(w) = Len(b) + 1
    BY <1>2, <1>4, <1>6
  <2>2. ASSUME NEW i \in 1 .. Len(b) + 1
        PROVE  z[i] = w[i]
    <3>1. CASE i = Len(b) + 1
      BY <1>2, <1>4, <1>6, <2>1, <3>1
    <3>2. CASE i \in 1 .. Len(b)
      BY <1>2, <1>4, <1>6, <2>1, <3>2
    <3>3. QED
      BY <1>2, <3>1, <3>2
  <2>3. QED
    BY <2>1, <2>2
<1>8. z = w
  BY <1>7, SeqEqual
<1>9. QED
  BY <1>1, <1>3, <1>6, <1>8

LEMMA NumbersSlice ==
  \A b \in Seq(Item), i, j \in Int :
    1 <= i /\ j <= Len(b) => Numbers(SubSeq(b, i, j)) = SubSeq(Numbers(b), i, j)
<1> SUFFICES ASSUME NEW b \in Seq(Item), NEW i \in Int, NEW j \in Int, 1 <= i, j <= Len(b)
             PROVE  Numbers(SubSeq(b, i, j)) = SubSeq(Numbers(b), i, j)
  OBVIOUS
<1>1. PICK x \in Seq(Item) : /\ x = SubSeq(b, i, j) /\ Len(x) = IF i <= j THEN j - i + 1 ELSE 0
                             /\ \A k \in 1 .. j - i + 1 : x[k] = b[k + i - 1]
  BY Slices, ZenonT(30)
<1>2. PICK y \in Seq(Nat), z \in Seq(Nat) : y = Numbers(b) /\ z = Numbers(x)
  BY Numbered
<1>3. /\ Len(b) \in Nat /\ Len(y) = Len(b) /\ Len(z) = Len(x)
      /\ (\A k \in 1 .. Len(b) : y[k] = b[k].n) /\ \A k \in 1 .. Len(x) : z[k] = x[k].n
  BY <1>2, Numbered
<1>4. PICK w \in Seq(Nat) : /\ w = SubSeq(y, i, j) /\ Len(w) = IF i <= j THEN j - i + 1 ELSE 0
                            /\ \A k \in 1 .. j - i + 1 : w[k] = y[i + k - 1]
  <2>1. \A k \in i .. j : y[k] \in Nat
    BY <1>3, ElementOfSeq
  <2>2. /\ SubSeq(y, i, j) \in Seq(Nat) /\ Len(SubSeq(y, i, j)) = IF i <= j THEN j - i + 1 ELSE 0
        /\ \A k \in 1 .. j - i + 1 : SubSeq(y, i, j)[k] = y[i + k - 1]
    BY <2>1, SubSeqProperties
  <2>3. QED
    BY <2>2, Zenon
<1>5. Len(z) = Len(w) /\ \A k \in 1 .. Len(z) : z[k] = w[k]
  <2>1. Len(z) = Len(w)
    BY <1>1, <1>3, <1>4
  <2>2. ASSUME NEW k \in 1 .. Len(z)
        PROVE  z[k] = w[k]
    <3>1. k \in 1 .. j - i + 1 /\ k \in 1 .. Len(x)
      BY <1>1, <1>3
    <3>2. k + i - 1 \in 1 .. Len(b) /\ k + i - 1 = i + k - 1
      BY <1>3, <3>1
    <3>3. z[k] = x[k].n /\ x[k] = b[k + i - 1] /\ w[k] = y[i + k - 1]
      BY <1>1, <1>3, <1>4, <3>1, Zenon
    <3>4. y[k + i - 1] = b[k + i - 1].n
      BY <1>3, <3>2, Zenon
    <3>5. QED
      BY <3>2, <3>3, <3>4, Zenon
  <2>3. QED
    BY <2>1, <2>2
<1>6. z = w
  BY <1>5, SeqEqual
<1>7. QED
  BY <1>1, <1>2, <1>4, <1>6

LEMMA NumbersOmit ==
  \A b \in Seq(Item) : \A i \in 1 .. Len(b) : Numbers(Omit(b, i)) = Promise!AllBut(Numbers(b), i)
<1> SUFFICES ASSUME NEW b \in Seq(Item), NEW i \in 1 .. Len(b)
             PROVE  Numbers(Omit(b, i)) = Promise!AllBut(Numbers(b), i)
  OBVIOUS
<1>1. Len(b) \in Nat /\ Len(Numbers(b)) = Len(b)
  BY Numbered
<1>2. PICK x \in Seq(Item), y \in Seq(Item) : x = SubSeq(b, 1, i - 1) /\ y = SubSeq(b, i + 1, Len(b))
  <2>1. SubSeq(b, 1, i - 1) \in Seq(Item)
    BY <1>1, Slices
  <2>2. SubSeq(b, i + 1, Len(b)) \in Seq(Item)
    BY <1>1, Slices
  <2>3. QED
    BY <2>1, <2>2, Zenon
<1>3. Numbers(x) = SubSeq(Numbers(b), 1, i - 1) /\ Numbers(y) = SubSeq(Numbers(b), i + 1, Len(b))
  BY <1>1, <1>2, NumbersSlice
<1>4. Numbers(x \o y) = Numbers(x) \o Numbers(y)
  <2>1. PICK z \in Seq(Item) : /\ z = x \o y /\ Len(x) \in Nat /\ Len(y) \in Nat /\ Len(z) = Len(x) + Len(y)
                               /\ \A k \in 1 .. Len(x) + Len(y) :
                                    z[k] = IF k <= Len(x) THEN x[k] ELSE y[k - Len(x)]
    BY Concats
  <2>2. PICK u \in Seq(Nat), v \in Seq(Nat), w \in Seq(Nat) : u = Numbers(x) /\ v = Numbers(y) /\ w = Numbers(z)
    BY Numbered
  <2>3. /\ Len(u) = Len(x) /\ Len(v) = Len(y) /\ Len(w) = Len(z)
        /\ \A k \in 1 .. Len(x) : u[k] = x[k].n
        /\ \A k \in 1 .. Len(y) : v[k] = y[k].n
        /\ \A k \in 1 .. Len(z) : w[k] = z[k].n
    BY <2>2, Numbered
  <2>4. PICK c \in Seq(Nat) : /\ c = u \o v /\ Len(c) = Len(u) + Len(v)
                              /\ \A k \in 1 .. Len(u) + Len(v) :
                                   c[k] = IF k <= Len(u) THEN u[k] ELSE v[k - Len(u)]
    <3>1. /\ u \o v \in Seq(Nat) /\ Len(u \o v) = Len(u) + Len(v)
          /\ \A k \in 1 .. Len(u) + Len(v) : (u \o v)[k] = IF k <= Len(u) THEN u[k] ELSE v[k - Len(u)]
      BY ConcatProperties
    <3>2. QED
      BY <3>1, Zenon
  <2>5. Len(w) = Len(c)
    BY <2>1, <2>3, <2>4
  <2>6. ASSUME NEW k \in 1 .. Len(w)
        PROVE  w[k] = c[k]
    <3>1. CASE k <= Len(x)
      <4>1. k \in 1 .. Len(x) /\ k \in 1 .. Len(x) + Len(y)
        BY <2>1, <2>3, <3>1
      <4>2. w[k] = z[k].n /\ z[k] = x[k] /\ c[k] = u[k] /\ u[k] = x[k].n
        BY <2>1, <2>3, <2>4, <3>1, <4>1
      <4>3. QED
        BY <4>2
    <3>2. CASE ~(k <= Len(x))
      <4>1. k - Len(x) \in 1 .. Len(y) /\ k \in 1 .. Len(x) + Len(y)
        BY <2>1, <2>3, <3>2
      <4>2. w[k] = z[k].n /\ z[k] = y[k - Len(x)] /\ c[k] = v[k - Len(x)] /\ v[k - Len(x)] = y[k - Len(x)].n
        BY <2>1, <2>3, <2>4, <3>2, <4>1
      <4>3. QED
        BY <4>2
    <3>3. QED
      BY <3>1, <3>2
  <2>7. w = c
    BY <2>5, <2>6, SeqEqual
  <2>8. QED
    BY <2>1, <2>2, <2>4, <2>7
<1>5. QED
  BY <1>1, <1>2, <1>3, <1>4 DEF Omit, Promise!AllBut

LEMMA PromiseInit == Init => Promise!Init
<1> SUFFICES ASSUME Init
             PROVE  Promise!Init
  OBVIOUS
<1>1. accepted = 0 /\ queue = <<>> /\ dropped = 0 /\ db.log = <<>> /\ db.told = 0
      /\ th = [t \in Threads |-> Idle]
  BY DEF Init
<1>2. Writing = {}
  BY <1>1 DEF Writing, Idle
<1>3. InFlight = <<>> /\ Lost = 0
  BY <1>2 DEF InFlight, Lost
<1>4. Backlog = <<>> \o <<>> /\ GivenUp = 0
  BY <1>1, <1>3 DEF Backlog, GivenUp
<1>5. Backlog = <<>>
  BY <1>4, EmptySeq, ConcatEmptySeq
<1>6. Numbers(Backlog) = <<>>
  BY <1>5 DEF Numbers
<1>7. QED
  BY <1>1, <1>4, <1>6 DEF Promise!Init

LEMMA PromiseStep ==
  ASSUME Inv, Flow
  PROVE  [Promise!Next]_(Promise!vars)
<1>1. /\ Backlog \in Seq(Item) /\ GivenUp \in Nat /\ Len(Backlog) \in Nat /\ db.log \in Seq(Nat)
      /\ Numbers(Backlog) \in Seq(Nat) /\ Len(Numbers(Backlog)) = Len(Backlog)
      /\ DOMAIN Numbers(Backlog) = 1 .. Len(Backlog)
  BY BacklogType, Numbered DEF Inv, Shape, DbShape
<1>2. CASE Still
  <2>1. Numbers(Backlog') = Numbers(Backlog)
    BY <1>2 DEF Still
  <2>2. Numbers(Backlog)' = Numbers(Backlog')
    BY DEF Numbers
  <2>3. QED
    BY <1>2, <2>1, <2>2 DEF Still, Promise!vars
<1>3. Numbers(Backlog)' = Numbers(Backlog')
  BY DEF Numbers
<1>4. ASSUME NEW r, Grows(r)
      PROVE  Promise!Accept
  <2>1. r \in Item /\ r.n = accepted + 1 /\ accepted' = accepted + 1 /\ db'.log = db.log
    BY <1>4 DEF Grows
  <2>2. CASE Backlog' = Append(Backlog, r) /\ GivenUp' = GivenUp
    <3>1. Numbers(Backlog)' = Append(Numbers(Backlog), accepted + 1)
      BY <1>1, <1>3, <2>1, <2>2, NumbersAppend
    <3>2. QED
      BY <2>1, <2>2, <3>1 DEF Promise!Accept
  <2>3. ASSUME NEW i \in 1 .. Len(Backlog), Backlog' = Append(Omit(Backlog, i), r), GivenUp' = GivenUp + 1
        PROVE  Promise!Accept
    <3>1. Numbers(Omit(Backlog, i)) = Promise!AllBut(Numbers(Backlog), i)
      BY <1>1, NumbersOmit
    <3>2. Omit(Backlog, i) \in Seq(Item)
      BY <1>1, Omitted
    <3>3. Numbers(Backlog)' = Append(Promise!AllBut(Numbers(Backlog), i), accepted + 1)
      BY <1>3, <2>1, <2>3, <3>1, <3>2, NumbersAppend
    <3>4. i \in DOMAIN Numbers(Backlog)
      BY <1>1
    <3>5. QED
      BY <2>1, <2>3, <3>3, <3>4 DEF Promise!Accept
  <2>4. QED
    BY <1>4, <2>2, <2>3 DEF Grows
<1>5. ASSUME NEW k \in 0 .. Len(Backlog), Shrinks(k)
      PROVE  [Promise!Discard \/ Promise!Persist]_(Promise!vars)
  <2>1. /\ Numbers(SubSeq(Backlog, k + 1, Len(Backlog))) = SubSeq(Numbers(Backlog), k + 1, Len(Backlog))
        /\ Numbers(SubSeq(Backlog, 1, k)) = SubSeq(Numbers(Backlog), 1, k)
    <3>1. k + 1 \in Int /\ Len(Backlog) \in Int /\ k \in Int /\ 1 <= k + 1 /\ k <= Len(Backlog)
      BY <1>1
    <3>2. QED
      BY <1>1, <3>1, NumbersSlice
  <2>2. Numbers(Backlog)' = SubSeq(Numbers(Backlog), k + 1, Len(Numbers(Backlog))) /\ accepted' = accepted
    BY <1>1, <1>3, <1>5, <2>1 DEF Shrinks
  <2>3. \/ db'.log = db.log \o SubSeq(Numbers(Backlog), 1, k) /\ GivenUp' = GivenUp
        \/ db'.log = db.log /\ GivenUp' = GivenUp + k
    BY <1>5, <2>1 DEF Shrinks
  <2>4. CASE k = 0
    <3>1. Numbers(Backlog)' = Numbers(Backlog)
      BY <1>1, <2>2, <2>4, SubSeqFull
    <3>2. SubSeq(Numbers(Backlog), 1, k) = <<>>
      BY <2>4, SubSeqEmpty
    <3>3. db'.log = db.log /\ GivenUp' = GivenUp
      <4>1. db.log \o <<>> = db.log
        BY <1>1, ConcatEmptySeq
      <4>2. \A g \in Nat : g + 0 = g
        OBVIOUS
      <4>3. QED
        BY <1>1, <2>3, <2>4, <3>2, <4>1, <4>2, Zenon
    <3>4. QED
      BY <2>2, <3>1, <3>3 DEF Promise!vars
  <2>5. CASE k # 0
    <3>1. k \in 1 .. Len(Numbers(Backlog))
      BY <1>1, <2>5
    <3>2. QED
      BY <2>2, <2>3, <3>1 DEF Promise!Persist, Promise!Discard
  <2>6. QED
    BY <2>4, <2>5
<1>6. QED
  BY <1>2, <1>4, <1>5 DEF Flow, Promise!Next

(* The queue, the batch that is being written and the database are the log that
   was promised: records become durable in the order they were accepted, each
   once, and whatever is given up is counted.                                 *)
THEOREM TheLogIsKept == Spec => KeepsPromise
<1>1. Inv /\ [Next]_vars => [Promise!Next]_(Promise!vars)
  BY InvStep, PromiseStep
<1>2. QED
  BY <1>1, PromiseInit, Invariance, PTL DEF Spec, KeepsPromise, Promise!Spec

----------------------------------------------------------------------------
(* The rows of the captures: the inductive invariant.                        *)

(* A row as it is observed, in time order; each is met once.                  *)
Rows == [n : Nat, s : Streams, t : Int]
InTime(q) == \A i, j \in DOMAIN q : i <= j => q[i].t <= q[j].t
OnceEach(q) == \A i, j \in DOMAIN q : q[i] = q[j] => i = j
Same(h, r) == h.what = "row" /\ h.s = r.s /\ h.t = r.t

\* What is observed: rows are numbered, and those of the last Pre are at hand.
Observing(h, obs, time) ==
  /\ h.what = "row" => h.s \in Streams /\ \A r \in obs : r.t <= h.t
  /\ h.what \in {"row", "seen"} => h.t <= time
Noted(obs, time) ==
  /\ obs \subseteq Rows /\ IsFiniteSet(obs)
  /\ \A r \in obs : r.n <= Cardinality(obs) /\ r.t <= time
AtHand(rec, obs, time) ==
  /\ rec \in [Streams -> Seq(Rows)]
  /\ \A s \in Streams : OnceEach(rec[s]) /\ InTime(rec[s]) /\ \A r \in Elements(rec[s]) : r \in obs /\ r.s = s
  /\ \A r \in obs : time - Pre <= r.t => r \in Elements(rec[r.s])

\* What capture k has of one stream s: q in memory, n registered files m, and the
\* files d of the disk, of which the last may not be registered.
OneStream(q, m, d, n, st, obs, s) ==
  /\ q \in Seq(Rows) /\ OnceEach(q) /\ \A r \in Elements(q) : r \in obs /\ r.s = s
  /\ m \in Seq(Seq(Rows)) /\ d \in Seq(Seq(Rows)) /\ n \in Nat /\ Len(m) = n /\ Len(d) \in {n, n + 1}
  /\ \A i \in 1 .. n : d[i] = m[i] /\ \A r \in Elements(m[i]) : r \in obs /\ r.s = s
  /\ \A i, j \in 1 .. n : i # j => Elements(m[i]) \cap Elements(m[j]) = {}
  /\ st = "active" => \A i \in 1 .. n : Elements(m[i]) \cap Elements(q) = {}
Held(k, m, d, obs) ==
  /\ k.state \in {"none", "active", "ended"}
  /\ k.pend \in [Streams -> Seq(Rows)] /\ k.seq \in [Streams -> Nat]
  /\ k.state = "none" => \A s \in Streams : k.seq[s] = 0
  /\ k.state # "none" => k.end <= k.trig + Span
  /\ \A s \in Streams : OneStream(k.pend[s], m[s], d[s], k.seq[s], k.state, obs, s)

\* All of it is of the window of the capture; an open capture has all of the
\* window, and an ended one all but the row that was in hand.
Fits(k, r) == r.s \in Covers[k.scope] /\ k.trig - Pre <= r.t
Windowed(k, m) ==
  /\ k.state = "active" => \A s \in Streams : \A r \in Elements(k.pend[s]) : Fits(k, r) /\ r.t <= k.end
  /\ k.state # "none" => \A s \in Streams : \A i \in 1 .. Len(m[s]) : \A r \in Elements(m[s][i]) :
       Fits(k, r) /\ (k.state = "active" => r.t <= k.end)
Has(k, m, r) == r \in k.dropped \/ \E i \in 1 .. Len(m[r.s]) : r \in Elements(m[r.s][i])
HasWindow(k, m, obs) ==
  k.state = "active" /\ ~k.aged =>
    \A r \in obs : Fits(k, r) /\ r.t <= k.end => Has(k, m, r) \/ r \in Elements(k.pend[r.s])
EndsWell(k, m, obs, h, time) ==
  k.state = "ended" /\ ~k.aged /\ ~k.late =>
    /\ \A r \in obs : Fits(k, r) /\ r.t <= k.end => Has(k, m, r) \/ Same(k.held, r)
    /\ h.what = "row" /\ h.t <= k.end => Same(k.held, h)
    /\ k.end < time \/ Horizon <= time
Captured(c) ==
  /\ Held(cap[c], db.meta[c], disk[c], seen) /\ Windowed(cap[c], db.meta[c])
  /\ HasWindow(cap[c], db.meta[c], seen) /\ EndsWell(cap[c], db.meta[c], seen, hand, now)

\* The thread that writes captures: what it copied is still there, and what came
\* since is later than its reading of the clock, but for the row then in hand.
Timely(w, h, time) ==
  /\ w.ts < time \/ Horizon <= time
  /\ h.what = "row" /\ h.t <= w.ts => Same(w.held, h)
Copy(j, k) ==
  /\ k.state = "active" /\ j.s \in Streams /\ j.k = k.seq[j.s] + 1
  /\ j.rows \in Seq(Rows) /\ Len(j.rows) <= Len(k.pend[j.s])
  /\ \A i \in 1 .. Len(j.rows) : j.rows[i] = k.pend[j.s][i]
Copied(w, c, s, r) == \E j \in w.jobs : j.cap = c /\ j.s = s /\ r \in Elements(j.rows)
Spared(t, w, c, k) ==
  (t = "quit" \/ k.end <= w.ts \/ (w.pc = "finish" /\ c \in w.fins)) =>
    \A s \in Streams : \A r \in Elements(k.pend[s]) : w.ts < r.t \/ Same(w.held, r) \/ Copied(w, c, s, r)
Working(t, w, f) ==
  /\ \A j \in w.jobs : j.cap \in Caps /\ Copy(j, f[j.cap])
  /\ \A j, l \in w.jobs : l.cap = j.cap /\ l.s = j.s => l = j
  /\ w.pc = "finish" => w.jobs = {} /\ \A c \in w.fins : c \in Caps /\ f[c].state = "active"
  /\ \A c \in w.known : c \in Caps /\ f[c].state # "none" /\ (f[c].state = "active" => Spared(t, w, c, f[c]))

LoopInv == Observing(hand, seen, now) /\ Noted(seen, now) /\ AtHand(recent, seen, now)
StoreInv ==
  /\ db.meta \in [Caps -> [Streams -> Seq(Seq(Rows))]] /\ disk \in [Caps -> [Streams -> Seq(Seq(Rows))]]
  /\ \A c \in Caps : Captured(c)
FlushInv ==
  /\ \A t, u \in InCaptures : t = u
  /\ \A t \in InCaptures : Timely(th[t], hand, now) /\ Working(t, th[t], cap)
RowsInv == LoopInv /\ StoreInv /\ FlushInv

----------------------------------------------------------------------------
(* Sequences of rows.                                                        *)

LEMMA RowSeq == \A T : \A q \in Seq(T) : Len(q) \in Nat /\ DOMAIN q = 1 .. Len(q) /\ \A i \in 1 .. Len(q) : q[i] \in T
OBVIOUS

LEMMA InElements == \A q, r : r \in Elements(q) <=> \E i \in DOMAIN q : r = q[i]
BY DEF Elements

LEMMA Smallest ==
  ASSUME NEW S, S \subseteq Nat, S # {}
  PROVE  \E i \in S : \A j \in S : i <= j
<1>1. PICK x \in S : \A y \in S : <<y, x>> \notin OpToRel(<, Nat)
  BY NatLessThanWellFounded, WFMin
<1>2. \A y \in S : ~(y < x)
  BY <1>1 DEF OpToRel
<1>3. ASSUME NEW y \in S PROVE x <= y
  <2>1. x \in Nat /\ y \in Nat /\ ~(y < x)
    BY <1>2
  <2> QED BY <2>1
<1> QED BY <1>3

\* The rows of a slice are those of its places.
Part(q, m, n) == SubSeq(q, m + 1, n)
Placed(q, m, n, r) == \E i \in m + 1 .. n : r = q[i]
LEMMA SliceIs ==
  ASSUME NEW q \in Seq(Rows), NEW m \in Nat, NEW n \in Nat, m <= n, n <= Len(q),
         NEW p, p = Part(q, m, n)
  PROVE  /\ p \in Seq(Rows) /\ Len(p) = n - m /\ (\A i \in 1 .. n - m : p[i] = q[i + m])
         /\ \A r : r \in Elements(p) <=> Placed(q, m, n, r)
         /\ OnceEach(q) => OnceEach(p)
         /\ InTime(q) => InTime(p)
<1>1. Len(q) \in Nat /\ DOMAIN q = 1 .. Len(q) /\ m + 1 \in 1 .. Len(q) + 1 /\ n \in m .. Len(q)
  BY RowSeq
<1>2. p \in Seq(Rows) /\ Len(p) = n - m /\ \A i \in 1 .. n - m : p[i] = q[i + m]
  <2>1. PICK b : b = m + 1
    OBVIOUS
  <2>2. b \in Int /\ n \in Int /\ p = SubSeq(q, b, n) /\ \A i \in b .. n : q[i] \in Rows
    BY <1>1, <2>1, RowSeq DEF Part
  <2>3. /\ p \in Seq(Rows) /\ Len(p) = IF b <= n THEN n - b + 1 ELSE 0
        /\ \A i \in 1 .. n - b + 1 : p[i] = q[b + i - 1]
    BY <2>2, SubSeqProperties
  <2>4. Len(p) = n - m
    BY <2>1, <2>3
  <2>5. ASSUME NEW i \in 1 .. n - m PROVE p[i] = q[i + m]
    <3>1. i \in 1 .. n - b + 1 /\ b + i - 1 = i + m
      BY <2>1
    <3> QED BY <2>3, <3>1
  <2> QED BY <2>3, <2>4, <2>5
<1>3. \A i \in 1 .. n - m : p[i] = q[i + m]
  BY <1>2
<1>4. DOMAIN p = 1 .. n - m
  BY <1>2, RowSeq
<1>5. ASSUME NEW r PROVE r \in Elements(p) <=> Placed(q, m, n, r)
  <2>1. ASSUME r \in Elements(p) PROVE Placed(q, m, n, r)
    <3>1. PICK i \in 1 .. n - m : r = p[i]
      BY <1>4, <2>1, InElements
    <3>2. i + m \in m + 1 .. n /\ r = q[i + m]
      BY <1>3, <3>1
    <3> QED BY <3>2 DEF Placed
  <2>2. ASSUME NEW i \in m + 1 .. n, r = q[i] PROVE r \in Elements(p)
    <3>1. i - m \in 1 .. n - m /\ (i - m) + m = i
      OBVIOUS
    <3>2. r = p[i - m]
      BY <1>3, <2>2, <3>1
    <3> QED BY <1>4, <3>1, <3>2, InElements
  <2> QED BY <2>1, <2>2 DEF Placed
<1>6. ASSUME OnceEach(q) PROVE OnceEach(p)
  <2> SUFFICES ASSUME NEW i \in 1 .. n - m, NEW j \in 1 .. n - m, p[i] = p[j] PROVE i = j
    BY <1>4 DEF OnceEach
  <2>1. i + m \in DOMAIN q /\ j + m \in DOMAIN q
    BY <1>1
  <2>2. i + m = j + m
    BY <1>3, <1>6, <2>1 DEF OnceEach
  <2> QED BY <2>2
<1>7. ASSUME InTime(q) PROVE InTime(p)
  <2> SUFFICES ASSUME NEW i \in 1 .. n - m, NEW j \in 1 .. n - m, i <= j PROVE p[i].t <= p[j].t
    BY <1>4 DEF InTime
  <2>1. i + m \in DOMAIN q /\ j + m \in DOMAIN q /\ i + m <= j + m
    BY <1>1
  <2> QED BY <1>3, <1>7, <2>1 DEF InTime
<1> QED BY <1>2, <1>3, <1>5, <1>6, <1>7

\* What is before a place and what is after it is all there is, and apart.
Firsts(q, n) == SubSeq(q, 1, n)
Past(q, n) == SubSeq(q, n + 1, Len(q))
LEMMA Halves ==
  ASSUME NEW q \in Seq(Rows), OnceEach(q), NEW n \in Nat, n <= Len(q),
         NEW p, p = Firsts(q, n), NEW z, z = Past(q, n)
  PROVE  /\ p \in Seq(Rows) /\ z \in Seq(Rows) /\ OnceEach(p) /\ OnceEach(z)
         /\ \A r : r \in Elements(q) <=> r \in Elements(p) \/ r \in Elements(z)
         /\ \A r : ~(r \in Elements(p) /\ r \in Elements(z))
<1>1. Len(q) \in Nat /\ DOMAIN q = 1 .. Len(q)
  BY RowSeq
<1>2. p = Part(q, 0, n) /\ z = Part(q, n, Len(q)) /\ 0 \in Nat /\ 0 <= n /\ Len(q) <= Len(q)
  BY <1>1 DEF Part, Firsts, Past
<1>3. /\ p \in Seq(Rows) /\ OnceEach(p)
      /\ \A r : r \in Elements(p) <=> Placed(q, 0, n, r)
  <2>1. p \in Seq(Rows) /\ OnceEach(p)
    BY <1>1, <1>2, SliceIs
  <2>2. \A r : r \in Elements(p) <=> Placed(q, 0, n, r)
    BY <1>1, <1>2, SliceIs
  <2> QED BY <2>1, <2>2
<1>4. /\ z \in Seq(Rows) /\ OnceEach(z)
      /\ \A r : r \in Elements(z) <=> Placed(q, n, Len(q), r)
  <2>1. z \in Seq(Rows) /\ OnceEach(z)
    BY <1>1, <1>2, SliceIs
  <2>2. \A r : r \in Elements(z) <=> Placed(q, n, Len(q), r)
    BY <1>1, <1>2, SliceIs
  <2> QED BY <2>1, <2>2
<1>5. ASSUME NEW r PROVE r \in Elements(q) <=> r \in Elements(p) \/ r \in Elements(z)
  <2>1. r \in Elements(q) <=> \E i \in 1 .. Len(q) : r = q[i]
    BY <1>1, InElements
  <2>2. \A i \in Int : i \in 1 .. Len(q) <=> (i \in 0 + 1 .. n \/ i \in n + 1 .. Len(q))
    BY <1>1
  <2> QED BY <1>3, <1>4, <2>1, <2>2 DEF Placed
<1>6. ASSUME NEW r, r \in Elements(p), r \in Elements(z) PROVE FALSE
  <2>1. PICK i \in 0 + 1 .. n : r = q[i]
    BY <1>3, <1>6 DEF Placed
  <2>2. PICK j \in n + 1 .. Len(q) : r = q[j]
    BY <1>4, <1>6 DEF Placed
  <2>3. i \in DOMAIN q /\ j \in DOMAIN q /\ i # j
    BY <1>1
  <2> QED BY <2>1, <2>2, <2>3 DEF OnceEach
<1> QED BY <1>3, <1>4, <1>5, <1>6

\* A row that is new comes at the end.
LEMMA RowAppended ==
  ASSUME NEW q \in Seq(Rows), NEW row \in Rows, NEW p, p = Append(q, row)
  PROVE  /\ p \in Seq(Rows) /\ Len(p) = Len(q) + 1 /\ (\A i \in 1 .. Len(q) : p[i] = q[i])
         /\ \A r : r \in Elements(p) <=> r \in Elements(q) \/ r = row
         /\ OnceEach(q) /\ row \notin Elements(q) => OnceEach(p)
         /\ InTime(q) /\ (\A r \in Elements(q) : r.t <= row.t) => InTime(p)
<1>1. Len(q) \in Nat /\ DOMAIN q = 1 .. Len(q) /\ \A i \in 1 .. Len(q) : q[i] \in Rows
  BY RowSeq
<1>2. p \in Seq(Rows) /\ Len(p) = Len(q) + 1 /\ p[Len(q) + 1] = row /\ \A i \in 1 .. Len(q) : p[i] = q[i]
  BY AppendProperties
<1>3. DOMAIN p = 1 .. Len(q) + 1
  BY <1>2, RowSeq
<1>4. ASSUME NEW r PROVE r \in Elements(p) <=> r \in Elements(q) \/ r = row
  <2>1. \A i \in 1 .. Len(q) + 1 : i \in 1 .. Len(q) \/ i = Len(q) + 1
    BY <1>1
  <2>2. Len(q) + 1 \in 1 .. Len(q) + 1 /\ \A i \in 1 .. Len(q) : i \in 1 .. Len(q) + 1
    BY <1>1
  <2>3. r \in Elements(p) <=> \E i \in 1 .. Len(q) + 1 : r = p[i]
    BY <1>3, InElements
  <2>4. r \in Elements(q) <=> \E i \in 1 .. Len(q) : r = p[i]
    BY <1>1, <1>2, InElements
  <2> QED BY <1>2, <2>1, <2>2, <2>3, <2>4
<1>5. ASSUME OnceEach(q), row \notin Elements(q) PROVE OnceEach(p)
  <2> SUFFICES ASSUME NEW i \in 1 .. Len(q) + 1, NEW j \in 1 .. Len(q) + 1, p[i] = p[j] PROVE i = j
    BY <1>3 DEF OnceEach
  <2>1. \A k \in 1 .. Len(q) : p[k] # row
    BY <1>1, <1>2, <1>5, InElements
  <2>2. CASE i \in 1 .. Len(q) /\ j \in 1 .. Len(q)
    BY <1>1, <1>2, <1>5, <2>2 DEF OnceEach
  <2>3. CASE i = Len(q) + 1 \/ j = Len(q) + 1
    BY <1>1, <1>2, <2>1, <2>3
  <2> QED BY <1>1, <2>2, <2>3
<1>6. ASSUME InTime(q), \A r \in Elements(q) : r.t <= row.t PROVE InTime(p)
  <2> SUFFICES ASSUME NEW i \in 1 .. Len(q) + 1, NEW j \in 1 .. Len(q) + 1, i <= j PROVE p[i].t <= p[j].t
    BY <1>3 DEF InTime
  <2>1. \A k \in 1 .. Len(q) : p[k].t <= row.t
    BY <1>1, <1>2, <1>6, InElements
  <2>2. row.t <= row.t
    BY DEF Rows
  <2>3. CASE j \in 1 .. Len(q)
    <3>1. i \in 1 .. Len(q)
      BY <1>1, <2>3
    <3> QED BY <1>1, <1>2, <1>6, <2>3, <3>1 DEF InTime
  <2>4. CASE j = Len(q) + 1
    <3>1. i \in 1 .. Len(q) \/ i = Len(q) + 1
      BY <1>1
    <3> QED BY <1>2, <2>1, <2>2, <2>4, <3>1
  <2> QED BY <1>1, <2>3, <2>4
<1> QED BY <1>2, <1>4, <1>5, <1>6

LEMMA RowAmong ==
  \A q \in Seq(Rows) : \A row \in Rows : \A r : r \in Elements(Append(q, row)) <=> r \in Elements(q) \/ r = row
<1> SUFFICES ASSUME NEW q \in Seq(Rows), NEW row \in Rows, NEW r
             PROVE  r \in Elements(Append(q, row)) <=> r \in Elements(q) \/ r = row
  OBVIOUS
<1>1. PICK p : p = Append(q, row)
  OBVIOUS
<1> QED BY <1>1, RowAppended

\* How many rows of a sequence in time order satisfy what only early ones do.
LEMMA Early ==
  ASSUME NEW q \in Seq(Rows), NEW S, S \subseteq DOMAIN q, \A i \in S : \A j \in DOMAIN q : j <= i => j \in S
  PROVE  Cardinality(S) \in Nat /\ Cardinality(S) <= Len(q) /\ S = 1 .. Cardinality(S)
<1>1. Len(q) \in Nat /\ DOMAIN q = 1 .. Len(q)
  BY RowSeq
<1> DEFINE R == DOMAIN q \ S
<1>2. PICK n \in Nat : n <= Len(q) /\ S = 1 .. n
  <2>1. CASE R = {}
    <3>1. S = 1 .. Len(q)
      BY <1>1, <2>1
    <3>2. Len(q) \in Nat /\ Len(q) <= Len(q)
      BY <1>1
    <3> QED BY <3>1, <3>2
  <2>2. CASE R # {}
    <3>1. R \subseteq Nat
      BY <1>1
    <3>2. PICK l \in R : \A j \in R : l <= j
      <4> HIDE DEF R
      <4> QED BY <2>2, <3>1, Smallest
    <3>3. l \in 1 .. Len(q) /\ l \notin S
      BY <1>1, <3>2
    <3>4. ASSUME NEW i \in S PROVE i \in 1 .. l - 1
      <4>1. i \in 1 .. Len(q) /\ ~(l <= i)
        BY <1>1, <3>3
      <4> QED BY <3>3, <4>1
    <3>5. ASSUME NEW i \in 1 .. l - 1 PROVE i \in S
      <4>1. i \in DOMAIN q /\ ~(l <= i)
        BY <1>1, <3>3
      <4> QED BY <3>2, <4>1
    <3>6. S = 1 .. l - 1
      BY <3>4, <3>5
    <3>7. l - 1 \in Nat /\ l - 1 <= Len(q)
      BY <1>1, <3>3
    <3> QED BY <3>6, <3>7
  <2> QED BY <2>1, <2>2
<1>3. Cardinality(1 .. n) = IF 1 > n THEN 0 ELSE n - 1 + 1
  BY FS_Interval
<1>4. Cardinality(S) = n
  BY <1>2, <1>3
<1> QED BY <1>2, <1>4

\* The rows from a to b, of a sequence in time order.
LEMMA BetweenIs ==
  ASSUME NEW q \in Seq(Rows), InTime(q), NEW a \in Int, NEW b \in Int, a <= b, NEW p, p = Between(q, a, b)
  PROVE  /\ p \in Seq(Rows) /\ InTime(p) /\ (OnceEach(q) => OnceEach(p))
         /\ \A r : r \in Elements(p) <=> r \in Elements(q) /\ a <= r.t /\ r.t <= b
<1>1. Len(q) \in Nat /\ DOMAIN q = 1 .. Len(q) /\ \A i \in 1 .. Len(q) : q[i] \in Rows
  BY RowSeq
<1>2. \A i \in 1 .. Len(q) : q[i].t \in Int
  BY <1>1 DEF Rows
<1> DEFINE A == {i \in DOMAIN q : q[i].t < a}
           B == {i \in DOMAIN q : q[i].t <= b}
<1>3. \A i \in A : \A j \in DOMAIN q : j <= i => j \in A
  BY <1>1, <1>2 DEF InTime
<1>4. \A i \in B : \A j \in DOMAIN q : j <= i => j \in B
  BY <1>1, <1>2 DEF InTime
<1>5. A \subseteq DOMAIN q /\ B \subseteq DOMAIN q /\ A \subseteq B
  BY <1>1, <1>2
<1>6. /\ \A i \in 1 .. Len(q) : i \in A <=> ~(a <= q[i].t)
      /\ \A i \in 1 .. Len(q) : i \in B <=> q[i].t <= b
  BY <1>1, <1>2
<1>7. p = SubSeq(q, Cardinality(A) + 1, Cardinality(B))
  BY DEF Between
<1> HIDE DEF A, B
<1>8. PICK m \in Nat : m = Cardinality(A) /\ m <= Len(q) /\ A = 1 .. m
  BY <1>3, <1>5, Early
<1>9. PICK n \in Nat : n = Cardinality(B) /\ n <= Len(q) /\ B = 1 .. n
  BY <1>4, <1>5, Early
<1>10. m <= n
  <2>1. m = 0 \/ m \in 1 .. m
    OBVIOUS
  <2>2. m = 0 \/ m \in 1 .. n
    BY <1>5, <1>8, <1>9, <2>1
  <2> QED BY <2>2
<1>11. p = Part(q, m, n)
  BY <1>7, <1>8, <1>9 DEF Part
<1>12. /\ p \in Seq(Rows) /\ InTime(p) /\ (OnceEach(q) => OnceEach(p))
       /\ \A r : r \in Elements(p) <=> Placed(q, m, n, r)
  <2>1. p \in Seq(Rows) /\ InTime(p) /\ (OnceEach(q) => OnceEach(p))
    BY <1>8, <1>9, <1>10, <1>11, SliceIs
  <2>2. \A r : r \in Elements(p) <=> Placed(q, m, n, r)
    BY <1>8, <1>9, <1>10, <1>11, SliceIs
  <2> QED BY <2>1, <2>2
<1>13. \A i \in 1 .. Len(q) : i \in m + 1 .. n <=> a <= q[i].t /\ q[i].t <= b
  <2> SUFFICES ASSUME NEW i \in 1 .. Len(q) PROVE i \in m + 1 .. n <=> a <= q[i].t /\ q[i].t <= b
    OBVIOUS
  <2>1. i \in Int /\ 1 <= i
    BY <1>1
  <2>2. (i \in A <=> i \in 1 .. m) /\ (i \in B <=> i \in 1 .. n)
    BY <1>8, <1>9, Zenon
  <2>3. i \in m + 1 .. n <=> i \notin 1 .. m /\ i \in 1 .. n
    BY <2>1
  <2> QED BY <1>6, <2>2, <2>3
<1>14. \A i \in m + 1 .. n : i \in 1 .. Len(q)
  BY <1>1, <1>9
<1>15. ASSUME NEW r PROVE r \in Elements(p) <=> r \in Elements(q) /\ a <= r.t /\ r.t <= b
  BY <1>1, <1>12, <1>13, <1>14, InElements DEF Placed
<1> QED BY <1>12, <1>15

----------------------------------------------------------------------------
(* What a capture has of a stream.                                           *)

LEMMA StreamSeesMore ==
  ASSUME NEW q, NEW m, NEW d, NEW n, NEW st, NEW obs, NEW s, OneStream(q, m, d, n, st, obs, s),
         NEW obs2, obs \subseteq obs2
  PROVE  OneStream(q, m, d, n, st, obs2, s)
BY DEF OneStream

LEMMA StreamCloses ==
  ASSUME NEW q, NEW m, NEW d, NEW n, NEW st, NEW obs, NEW s, OneStream(q, m, d, n, st, obs, s)
  PROVE  OneStream(q, m, d, n, "ended", obs, s)
BY DEF OneStream

LEMMA StreamOpens ==
  ASSUME NEW q0, NEW m, NEW d, NEW st, NEW obs, NEW s, OneStream(q0, m, d, 0, st, obs, s),
         NEW q \in Seq(Rows), OnceEach(q), \A r \in Elements(q) : r \in obs /\ r.s = s
  PROVE  OneStream(q, m, d, 0, "active", obs, s)
BY DEF OneStream

\* A row that was not yet observed waits for the next file.
LEMMA StreamGrows ==
  ASSUME NEW q, NEW m, NEW d, NEW n, NEW st, NEW obs, NEW s, OneStream(q, m, d, n, st, obs, s),
         NEW row \in Rows, row \notin obs, row.s = s, NEW p, p = Append(q, row), NEW obs2, obs2 = obs \cup {row}
  PROVE  OneStream(p, m, d, n, st, obs2, s)
<1>1. q \in Seq(Rows) /\ OnceEach(q) /\ (\A r \in Elements(q) : r \in obs /\ r.s = s) /\ row \notin Elements(q)
  BY DEF OneStream
<1>2. p \in Seq(Rows) /\ OnceEach(p) /\ \A r : r \in Elements(p) <=> r \in Elements(q) \/ r = row
  BY <1>1, RowAppended
<1>3. \A r \in Elements(p) : r \in obs2 /\ r.s = s
  BY <1>1, <1>2
<1>4. st = "active" => \A i \in 1 .. n : Elements(m[i]) \cap Elements(p) = {}
  <2> SUFFICES ASSUME st = "active", NEW i \in 1 .. n, NEW r, r \in Elements(m[i]), r \in Elements(p) PROVE FALSE
    OBVIOUS
  <2>1. r \in obs /\ Elements(m[i]) \cap Elements(q) = {}
    BY DEF OneStream
  <2> QED BY <1>2, <2>1
<1>5. /\ m \in Seq(Seq(Rows)) /\ d \in Seq(Seq(Rows)) /\ n \in Nat /\ Len(m) = n /\ Len(d) \in {n, n + 1}
      /\ \A i \in 1 .. n : d[i] = m[i] /\ \A r \in Elements(m[i]) : r \in obs2 /\ r.s = s
      /\ \A i, j \in 1 .. n : i # j => Elements(m[i]) \cap Elements(m[j]) = {}
  BY DEF OneStream
<1> QED BY <1>2, <1>3, <1>4, <1>5 DEF OneStream

Follows(k, n) == k = n + 1
Longer(g, f, n, k, x) ==
  g \in Seq(Seq(Rows)) /\ Len(g) = k /\ g[k] = x /\ \A i \in 1 .. n : g[i] = f[i]

\* A file is the next one, whether or not it is there already.
LEMMA PutNext ==
  ASSUME NEW f \in Seq(Seq(Rows)), NEW x \in Seq(Rows), NEW n \in Nat, NEW k, Follows(k, n),
         Len(f) = n \/ Len(f) = k, NEW g, g = Put(f, k, x)
  PROVE  Longer(g, f, n, k, x)
<1>1. DOMAIN f = 1 .. Len(f) /\ \A i \in 1 .. Len(f) : f[i] \in Seq(Rows)
  BY RowSeq
<1>2. CASE Len(f) = n
  <2>1. k \notin DOMAIN f
    BY <1>1, <1>2 DEF Follows
  <2>2. g = Append(f, x)
    BY <2>1 DEF Put
  <2>3. g \in Seq(Seq(Rows)) /\ Len(g) = n + 1 /\ g[n + 1] = x /\ \A i \in 1 .. n : g[i] = f[i]
    BY <1>2, <2>2, AppendProperties
  <2> QED BY <2>3 DEF Follows, Longer
<1>3. CASE Len(f) = k
  <2>1. k \in DOMAIN f
    BY <1>1, <1>3 DEF Follows
  <2>2. g = [f EXCEPT ![k] = x]
    BY <2>1 DEF Put
  <2>3. g \in Seq(Seq(Rows)) /\ Len(g) = Len(f)
    BY <1>1, <2>1, <2>2, ExceptSeq
  <2>4. g[k] = x /\ \A i \in 1 .. n : g[i] = f[i]
    BY <1>1, <1>3, <2>1, <2>2 DEF Follows
  <2> QED BY <1>3, <2>3, <2>4 DEF Longer
<1> QED BY <1>2, <1>3

\* A file that is written and not registered.
LEMMA StreamFiled ==
  ASSUME NEW q, NEW m, NEW d, NEW n, NEW st, NEW obs, NEW s, OneStream(q, m, d, n, st, obs, s),
         NEW x \in Seq(Rows), NEW k, Follows(k, n), NEW d2, d2 = Put(d, k, x)
  PROVE  OneStream(q, m, d2, n, st, obs, s)
<1>1. d \in Seq(Seq(Rows)) /\ n \in Nat /\ (Len(d) = n \/ Len(d) = k)
  BY DEF OneStream, Follows
<1>2. d2 \in Seq(Seq(Rows)) /\ Len(d2) = k /\ \A i \in 1 .. n : d2[i] = d[i]
  <2>1. Longer(d2, d, n, k, x)
    BY <1>1, PutNext
  <2> QED BY <2>1 DEF Longer
<1>3. Len(d2) \in {n, n + 1}
  BY <1>2 DEF Follows
<1>4. \A i \in 1 .. n : d2[i] = m[i]
  BY <1>2 DEF OneStream
<1> QED BY <1>2, <1>3, <1>4 DEF OneStream

LEMMA FirstsAre ==
  ASSUME NEW q \in Seq(Rows), NEW x \in Seq(Rows), Len(x) <= Len(q), \A i \in 1 .. Len(x) : x[i] = q[i]
  PROVE  x = Firsts(q, Len(x))
<1>1. Len(x) \in Nat /\ Len(q) \in Nat
  BY RowSeq
<1>2. PICK y : y = SubSeq(q, 1, Len(x))
  OBVIOUS
<1>3. y \in Seq(Rows) /\ Len(y) = Len(x) /\ \A i \in 1 .. Len(x) : y[i] = q[i]
  BY <1>1, <1>2, SubSeqProperties
<1>4. y = x
  BY <1>3, SeqEqual
<1> QED BY <1>2, <1>4 DEF Firsts

\* A file that is written and registered; its rows are taken off.
Prefixes(x, q) == Len(x) <= Len(q) /\ \A i \in 1 .. Len(x) : x[i] = q[i]
Apart(q, x, z) ==
  /\ \A r : r \in Elements(q) <=> r \in Elements(x) \/ r \in Elements(z)
  /\ \A r : ~(r \in Elements(x) /\ r \in Elements(z))
Grown(f2, f, n, k, x) == Len(f2) = k /\ f2[k] = x /\ Len(f) = n /\ n \in Nat /\ \A i \in 1 .. n : f2[i] = f[i]

LEMMA StreamWritten ==
  ASSUME NEW q, NEW m, NEW d, NEW n, NEW obs, NEW s, OneStream(q, m, d, n, "active", obs, s),
         NEW x \in Seq(Rows), Prefixes(x, q), NEW k, Follows(k, n),
         NEW m2, m2 = Put(m, k, x), NEW d2, d2 = Put(d, k, x), NEW z, z = Past(q, Len(x))
  PROVE  /\ OneStream(z, m2, d2, k, "active", obs, s)
         /\ Apart(q, x, z) /\ Grown(m2, m, n, k, x)
<1>1. /\ q \in Seq(Rows) /\ OnceEach(q) /\ (\A r \in Elements(q) : r \in obs /\ r.s = s)
      /\ m \in Seq(Seq(Rows)) /\ d \in Seq(Seq(Rows)) /\ n \in Nat /\ Len(m) = n
      /\ (Len(d) = n \/ Len(d) = k)
  BY DEF OneStream, Follows
<1>2. Len(x) \in Nat /\ Len(q) \in Nat /\ DOMAIN x = 1 .. Len(x)
  BY <1>1, RowSeq
<1>3. x = Firsts(q, Len(x)) /\ z = Past(q, Len(x))
  BY <1>1, FirstsAre DEF Prefixes
<1>4. /\ z \in Seq(Rows) /\ OnceEach(z)
      /\ \A r : r \in Elements(q) <=> r \in Elements(x) \/ r \in Elements(z)
      /\ \A r : ~(r \in Elements(x) /\ r \in Elements(z))
  BY <1>1, <1>2, <1>3, Halves DEF Prefixes
<1>5. /\ m2 \in Seq(Seq(Rows)) /\ Len(m2) = k /\ m2[k] = x /\ \A i \in 1 .. n : m2[i] = m[i]
  <2>1. m \in Seq(Seq(Rows)) /\ n \in Nat /\ (Len(m) = n \/ Len(m) = k)
    BY <1>1
  <2>2. Longer(m2, m, n, k, x)
    BY <2>1, PutNext
  <2> QED BY <2>2 DEF Longer
<1>6. /\ d2 \in Seq(Seq(Rows)) /\ Len(d2) = k /\ d2[k] = x /\ \A i \in 1 .. n : d2[i] = d[i]
  <2>1. d \in Seq(Seq(Rows)) /\ n \in Nat /\ (Len(d) = n \/ Len(d) = k)
    BY <1>1
  <2>2. Longer(d2, d, n, k, x)
    BY <2>1, PutNext
  <2> QED BY <2>2 DEF Longer
<1>7. k \in Nat /\ \A i \in 1 .. k : i \in 1 .. n \/ i = k
  BY <1>1 DEF Follows
<1>8. /\ \A i \in 1 .. n : d[i] = m[i] /\ \A r \in Elements(m[i]) : r \in obs /\ r.s = s
      /\ \A i, j \in 1 .. n : i # j => Elements(m[i]) \cap Elements(m[j]) = {}
      /\ \A i \in 1 .. n : Elements(m[i]) \cap Elements(q) = {}
  BY DEF OneStream
<1>9. \A i \in 1 .. k : d2[i] = m2[i] /\ \A r \in Elements(m2[i]) : r \in obs /\ r.s = s
  <2> SUFFICES ASSUME NEW i \in 1 .. k PROVE d2[i] = m2[i] /\ \A r \in Elements(m2[i]) : r \in obs /\ r.s = s
    OBVIOUS
  <2>1. CASE i \in 1 .. n
    BY <1>5, <1>6, <1>8, <2>1
  <2>2. CASE i = k
    BY <1>1, <1>4, <1>5, <1>6, <2>2
  <2> QED BY <1>7, <2>1, <2>2
<1>10. \A i, j \in 1 .. k : i # j => Elements(m2[i]) \cap Elements(m2[j]) = {}
  <2>1. \A i \in 1 .. n : Elements(m2[i]) \cap Elements(x) = {}
    BY <1>4, <1>5, <1>8
  <2> QED BY <1>5, <1>7, <1>8, <2>1
<1>11. \A i \in 1 .. k : Elements(m2[i]) \cap Elements(z) = {}
  BY <1>4, <1>5, <1>7, <1>8
<1>12. \A r \in Elements(z) : r \in obs /\ r.s = s
  BY <1>1, <1>4
<1> QED BY <1>1, <1>4, <1>5, <1>6, <1>7, <1>9, <1>10, <1>11, <1>12 DEF OneStream, Follows, Apart, Grown

----------------------------------------------------------------------------
(* One capture.                                                              *)

Kin(j, k) ==
  /\ j.state = k.state /\ j.scope = k.scope /\ j.trig = k.trig /\ j.seq = k.seq
  /\ j.held = k.held /\ j.late = k.late

\* What the loop does with its hand: a row is read at the time it is now.
HandOn(h, h2, time) == h2 = h \/ h2.what # "row" \/ (h2.t = time /\ time < Horizon)

LEMMA EndsWellStill ==
  ASSUME NEW k, NEW m, NEW obs, NEW h, NEW h2, NEW time \in Int, NEW time2 \in Int, k.end \in Int,
         EndsWell(k, m, obs, h, time), time <= time2, HandOn(h, h2, time)
  PROVE  EndsWell(k, m, obs, h2, time2)
<1> SUFFICES ASSUME k.state = "ended", ~k.aged, ~k.late
             PROVE  /\ \A r \in obs : Fits(k, r) /\ r.t <= k.end => Has(k, m, r) \/ Same(k.held, r)
                    /\ h2.what = "row" /\ h2.t <= k.end => Same(k.held, h2)
                    /\ k.end < time2 \/ Horizon <= time2
  BY DEF EndsWell
<1>1. /\ \A r \in obs : Fits(k, r) /\ r.t <= k.end => Has(k, m, r) \/ Same(k.held, r)
      /\ h.what = "row" /\ h.t <= k.end => Same(k.held, h)
      /\ k.end < time \/ Horizon <= time
  BY DEF EndsWell
<1>2. Horizon \in Int
  BY Bounds
<1>3. k.end < time2 \/ Horizon <= time2
  BY <1>1, <1>2
<1>4. ASSUME h2.what = "row", h2.t <= k.end PROVE Same(k.held, h2)
  <2>1. ~(h2.t = time /\ time < Horizon)
    BY <1>1, <1>2, <1>4
  <2>2. h2 = h
    BY <1>4, <2>1 DEF HandOn
  <2> QED BY <1>1, <1>4, <2>2
<1> QED BY <1>1, <1>3, <1>4

LEMMA TimelyStill ==
  ASSUME NEW w, NEW h, NEW h2, NEW time \in Int, NEW time2 \in Int, w.ts \in Int,
         Timely(w, h, time), time <= time2, HandOn(h, h2, time)
  PROVE  Timely(w, h2, time2)
<1>1. Horizon \in Int
  BY Bounds
<1>2. w.ts < time2 \/ Horizon <= time2
  BY <1>1 DEF Timely
<1>3. ASSUME h2.what = "row", h2.t <= w.ts PROVE Same(w.held, h2)
  <2>1. ~(h2.t = time /\ time < Horizon)
    BY <1>1, <1>3 DEF Timely
  <2>2. h2 = h
    BY <1>3, <2>1 DEF HandOn
  <2> QED BY <1>3, <2>2 DEF Timely
<1> QED BY <1>2, <1>3 DEF Timely

\* A row in a capture.
Covered(k, row) == k.state = "active" /\ k.trig - Pre <= row.t /\ row.t <= k.end /\ row.s \in Covers[k.scope]

Queues(k2, k, row) ==
  \/ k2.pend = k.pend /\ k2.dropped = k.dropped \cup {row}
  \/ k2.dropped = k.dropped /\ k2.pend = [k.pend EXCEPT ![row.s] = Append(@, row)]

\* What waits of a capture is as it was, or one row longer.
Gains(k2, k, row) ==
  k2.pend = k.pend \/ (row.s \in Streams /\ k2.pend = [k.pend EXCEPT ![row.s] = Append(@, row)])

LEMMA QueuedIs ==
  ASSUME NEW k, DOMAIN k = DOMAIN Unborn, NEW row, NEW k2, k2 = Queued(k, row)
  PROVE  /\ Kin(k2, k) /\ k2.end = k.end /\ k2.aged = k.aged /\ Queues(k2, k, row)
<1>1. CASE k2 = [k EXCEPT !.dropped = @ \cup {row}]
  BY <1>1, Domains DEF Kin, Queues
<1>2. CASE k2 = [k EXCEPT !.pend[row.s] = Append(@, row)]
  BY <1>2, Domains DEF Kin, Queues
<1> QED BY <1>1, <1>2 DEF Queued

LEMMA CaptureObserves ==
  ASSUME NEW k, NEW m, NEW d, NEW obs, NEW time, NEW h, DOMAIN k = DOMAIN Unborn, k.trig \in Int, k.end \in Int,
         Held(k, m, d, obs), Windowed(k, m), HasWindow(k, m, obs), EndsWell(k, m, obs, h, time),
         obs \subseteq Rows, NEW row \in Rows, row \notin obs, h.what = "row", h.s = row.s, h.t = row.t,
         NEW obs2, obs2 = obs \cup {row}, NEW k2, k2 = IF Covered(k, row) THEN Queued(k, row) ELSE k
  PROVE  /\ Held(k2, m, d, obs2) /\ Windowed(k2, m) /\ HasWindow(k2, m, obs2)
         /\ EndsWell(k2, m, obs2, Nothing, time)
         /\ Kin(k2, k) /\ k2.end = k.end
         /\ Gains(k2, k, row)
<1>1. row.s \in Streams /\ row.t \in Int /\ obs \subseteq obs2
  BY DEF Rows
<1>2. /\ k.state \in {"none", "active", "ended"} /\ k.pend \in [Streams -> Seq(Rows)] /\ k.seq \in [Streams -> Nat]
      /\ (k.state = "none" => \A s \in Streams : k.seq[s] = 0)
      /\ (k.state # "none" => k.end <= k.trig + Span)
      /\ \A s \in Streams : OneStream(k.pend[s], m[s], d[s], k.seq[s], k.state, obs, s)
  BY DEF Held
<1>3. \A s \in Streams : OneStream(k.pend[s], m[s], d[s], k.seq[s], k.state, obs2, s)
  BY <1>1, <1>2, StreamSeesMore
<1>4. \A r : Fits(k, r) /\ r.t <= k.end /\ k.state = "active" /\ r = row => Covered(k, row)
  BY DEF Fits, Covered
<1>5. EndsWell(k, m, obs2, Nothing, time)
  <2> SUFFICES ASSUME k.state = "ended", ~k.aged, ~k.late
               PROVE  /\ \A r \in obs2 : Fits(k, r) /\ r.t <= k.end => Has(k, m, r) \/ Same(k.held, r)
                      /\ k.end < time \/ Horizon <= time
    BY DEF EndsWell, Nothing
  <2>1. /\ \A r \in obs : Fits(k, r) /\ r.t <= k.end => Has(k, m, r) \/ Same(k.held, r)
        /\ h.what = "row" /\ h.t <= k.end => Same(k.held, h)
        /\ k.end < time \/ Horizon <= time
    BY DEF EndsWell
  <2>2. row.t <= k.end => Same(k.held, row)
    BY <2>1 DEF Same
  <2> QED BY <2>1, <2>2
<1>6. CASE k2 = k /\ ~Covered(k, row)
  <2>1. Held(k, m, d, obs2)
    BY <1>2, <1>3 DEF Held
  <2>2. HasWindow(k, m, obs2)
    BY <1>4, <1>6 DEF HasWindow
  <2> QED BY <1>5, <1>6, <2>1, <2>2 DEF Kin, Gains
<1>7. CASE k2 = Queued(k, row) /\ Covered(k, row)
  <2>1. Kin(k2, k) /\ k2.end = k.end /\ k2.aged = k.aged /\ Queues(k2, k, row)
    BY <1>7, QueuedIs
  <2>2. k2.state = "active" /\ k.state = "active"
    BY <1>7, <2>1 DEF Covered, Kin
  <2>3. EndsWell(k2, m, obs2, Nothing, time)
    BY <2>2 DEF EndsWell
  <2>4. \A r : Fits(k2, r) <=> Fits(k, r)
    BY <2>1 DEF Fits, Kin
  <2>5. Fits(k, row) /\ row.t <= k.end
    BY <1>7 DEF Fits, Covered
  <2>6. CASE k2.pend = k.pend /\ k2.dropped = k.dropped \cup {row}
    <3>1. Held(k2, m, d, obs2)
      BY <1>2, <1>3, <2>1, <2>2, <2>6 DEF Held, Kin
    <3>2. Windowed(k2, m)
      BY <2>1, <2>2, <2>4, <2>6 DEF Windowed
    <3>3. HasWindow(k2, m, obs2)
      BY <2>1, <2>2, <2>4, <2>6 DEF HasWindow, Has
    <3> QED BY <2>1, <2>3, <2>6, <3>1, <3>2, <3>3 DEF Gains
  <2>7. CASE k2.dropped = k.dropped /\ k2.pend = [k.pend EXCEPT ![row.s] = Append(@, row)]
    <3>1. PICK q, p : q = k.pend[row.s] /\ p = Append(q, row)
      OBVIOUS
    <3>2. q \in Seq(Rows)
      BY <1>1, <1>2, <3>1
    <3>3. p \in Seq(Rows) /\ \A r : r \in Elements(p) <=> r \in Elements(q) \/ r = row
      <4>1. p \in Seq(Rows)
        BY <3>1, <3>2
      <4>2. ASSUME NEW r PROVE r \in Elements(p) <=> r \in Elements(q) \/ r = row
        BY <3>1, <3>2, RowAmong
      <4> QED BY <4>1, <4>2
    <3>4. k2.pend \in [Streams -> Seq(Rows)] /\ k2.pend[row.s] = p /\ \A s \in Streams : s # row.s => k2.pend[s] = k.pend[s]
      BY <1>1, <1>2, <2>7, <3>1, <3>3
    <3>5. OneStream(p, m[row.s], d[row.s], k.seq[row.s], k.state, obs2, row.s)
      BY <1>1, <1>2, <3>1, StreamGrows
    <3>6. \A s \in Streams : OneStream(k2.pend[s], m[s], d[s], k2.seq[s], k2.state, obs2, s)
      BY <1>3, <2>1, <3>4, <3>5 DEF Kin
    <3>7. Held(k2, m, d, obs2)
      BY <1>2, <2>1, <2>2, <3>4, <3>6 DEF Held, Kin
    <3>8. \A s \in Streams : \A r : r \in Elements(k2.pend[s]) <=> r \in Elements(k.pend[s]) \/ (r = row /\ s = row.s)
      BY <3>1, <3>3, <3>4
    <3>9. Windowed(k2, m)
      <4>1. \A s \in Streams : \A r \in Elements(k2.pend[s]) : Fits(k2, r) /\ r.t <= k2.end
        BY <2>1, <2>2, <2>4, <2>5, <3>8 DEF Windowed
      <4>2. \A s \in Streams : \A i \in 1 .. Len(m[s]) : \A r \in Elements(m[s][i]) : Fits(k2, r) /\ r.t <= k2.end
        BY <2>1, <2>2, <2>4 DEF Windowed
      <4> QED BY <4>1, <4>2 DEF Windowed
    <3>10. HasWindow(k2, m, obs2)
      <4> SUFFICES ASSUME ~k2.aged, NEW r \in obs2, Fits(k2, r), r.t <= k2.end
                   PROVE  Has(k2, m, r) \/ r \in Elements(k2.pend[r.s])
        BY DEF HasWindow
      <4>1. CASE r = row
        BY <1>1, <3>8, <4>1
      <4>2. CASE r \in obs
        <5>1. r.s \in Streams
          BY <4>2 DEF Rows
        <5>2. Has(k, m, r) \/ r \in Elements(k.pend[r.s])
          BY <2>1, <2>2, <2>4, <4>2 DEF HasWindow
        <5>3. Has(k, m, r) => Has(k2, m, r)
          BY <2>7 DEF Has
        <5> QED BY <3>8, <5>1, <5>2, <5>3
      <4> QED BY <4>1, <4>2
    <3> QED BY <1>1, <2>1, <2>3, <2>7, <3>7, <3>9, <3>10 DEF Gains
  <2> QED BY <2>1, <2>6, <2>7 DEF Queues
<1> QED BY <1>6, <1>7

LEMMA LaterIs ==
  ASSUME NEW k, NEW t \in Int, k.trig \in Int, k.end \in Int, k.end <= k.trig + Span
  PROVE  Later(k, t) \in Int /\ k.end <= Later(k, t) /\ Later(k, t) <= k.trig + Span
<1>1. PICK a, b : a = k.trig + Span /\ b = IF t + Post > k.end THEN t + Post ELSE k.end
  OBVIOUS
<1>2. a \in Int /\ b \in Int /\ k.end <= b /\ k.end <= a
  BY <1>1, Bounds
<1>3. Later(k, t) = LeastOf({a, b})
  <2>1. {a} \cup {b} = {a, b}
    OBVIOUS
  <2> QED BY <1>1, <2>1 DEF Later
<1>4. LeastOf({a, b}) \in {a, b} /\ LeastOf({a, b}) <= a
  BY <1>2, Least
<1>5. k.end <= LeastOf({a, b}) /\ LeastOf({a, b}) \in Int
  BY <1>2, <1>4
<1> QED BY <1>1, <1>3, <1>4, <1>5

Prolongs(k2, k, t, time, obs) ==
  /\ Kin(k2, k) /\ k2.pend = k.pend /\ k2.dropped = k.dropped
  /\ t \in Int /\ time \in Int /\ k.end \in Int /\ k2.end \in Int
  /\ k.end <= k2.end /\ k2.end <= k.trig + Span /\ t <= k.end
  /\ ~k2.aged => ~k.aged /\ time <= t
  /\ \A r \in obs : r.t <= time

\* A capture that goes on for longer has everything of its longer window: nothing
\* later than its old end has been observed.
LEMMA CaptureExtends ==
  ASSUME NEW k, NEW k2, NEW m, NEW d, NEW obs, NEW time, NEW t, obs \subseteq Rows,
         Held(k, m, d, obs), Windowed(k, m), HasWindow(k, m, obs), k.state = "active", Prolongs(k2, k, t, time, obs)
  PROVE  Held(k2, m, d, obs) /\ Windowed(k2, m) /\ HasWindow(k2, m, obs)
<1> USE DEF Prolongs
<1>1. \A r : Fits(k2, r) <=> Fits(k, r)
  BY DEF Fits, Kin
<1>2. Held(k2, m, d, obs)
  BY DEF Held, Kin
<1>3. Windowed(k2, m)
  <2>1. k2.state = "active"
    BY DEF Kin
  <2>2. \A s \in Streams : \A r \in Elements(k2.pend[s]) : Fits(k2, r) /\ r.t <= k2.end
    <3> SUFFICES ASSUME NEW s \in Streams, NEW r \in Elements(k.pend[s]) PROVE Fits(k2, r) /\ r.t <= k2.end
      OBVIOUS
    <3>1. Fits(k, r) /\ r.t <= k.end
      BY DEF Windowed
    <3>2. r \in Rows
      BY DEF Held, OneStream
    <3> QED BY <1>1, <3>1, <3>2 DEF Rows
  <2>3. \A s \in Streams : \A i \in 1 .. Len(m[s]) : \A r \in Elements(m[s][i]) : Fits(k2, r) /\ r.t <= k2.end
    <3> SUFFICES ASSUME NEW s \in Streams, NEW i \in 1 .. Len(m[s]), NEW r \in Elements(m[s][i])
                 PROVE  Fits(k2, r) /\ r.t <= k2.end
      OBVIOUS
    <3>1. Fits(k, r) /\ r.t <= k.end
      BY DEF Windowed
    <3>2. r \in Rows
      BY DEF Held, OneStream
    <3> QED BY <1>1, <3>1, <3>2 DEF Rows
  <2> QED BY <2>1, <2>2, <2>3 DEF Windowed
<1>4. HasWindow(k2, m, obs)
  <2> SUFFICES ASSUME ~k2.aged, NEW r \in obs, Fits(k2, r), r.t <= k2.end
               PROVE  Has(k2, m, r) \/ r \in Elements(k2.pend[r.s])
    BY DEF HasWindow
  <2>1. r.t \in Int /\ r.t <= time /\ time <= t /\ ~k.aged
    BY DEF Rows
  <2>2. r.t <= k.end
    BY <2>1
  <2>3. Has(k, m, r) \/ r \in Elements(k.pend[r.s])
    BY <1>1, <2>1, <2>2 DEF HasWindow
  <2> QED BY <2>3 DEF Has
<1> QED BY <1>2, <1>3, <1>4

Prior(rec, cov, t) == [s \in Streams |-> IF s \in cov THEN Between(rec[s], t - Pre, t) ELSE <<>>]
Lately(r, s, rec, cov, t) == s \in cov /\ r \in Elements(rec[s]) /\ t - Pre <= r.t /\ r.t <= t

\* What is at hand of a stream, from Pre before the trigger on.
LEMMA PriorIs ==
  ASSUME NEW rec, NEW obs, NEW time \in Int, AtHand(rec, obs, time), NEW cov, NEW t \in Int, NEW s \in Streams,
         NEW q, q = Prior(rec, cov, t)[s]
  PROVE  /\ q \in Seq(Rows) /\ OnceEach(q)
         /\ \A r : r \in Elements(q) <=> Lately(r, s, rec, cov, t)
<1>1. rec[s] \in Seq(Rows) /\ OnceEach(rec[s]) /\ InTime(rec[s])
  BY DEF AtHand
<1>2. CASE s \in cov
  <2>1. PICK a : a = t - Pre
    OBVIOUS
  <2>2. a \in Int /\ a <= t
    BY <2>1, Bounds
  <2>3. q = Between(rec[s], a, t)
    BY <1>2, <2>1 DEF Prior
  <2>4. q \in Seq(Rows) /\ OnceEach(q)
    BY <1>1, <2>2, <2>3, BetweenIs
  <2>5. \A r : r \in Elements(q) <=> r \in Elements(rec[s]) /\ a <= r.t /\ r.t <= t
    BY <1>1, <2>2, <2>3, BetweenIs
  <2> QED BY <1>2, <2>1, <2>4, <2>5 DEF Lately
<1>3. CASE s \notin cov
  <2>1. q = <<>>
    BY <1>3 DEF Prior
  <2>2. q \in Seq(Rows) /\ OnceEach(q) /\ \A r : r \notin Elements(q)
    BY <2>1 DEF OnceEach, Elements
  <2> QED BY <1>3, <2>2 DEF Lately
<1> QED BY <1>2, <1>3

\* A capture that opens now has all of its window that was observed.
LEMMA CaptureOpens ==
  ASSUME NEW k0, NEW m, NEW d, NEW obs, NEW rec, NEW time \in Int, NEW t \in Int, obs \subseteq Rows,
         Held(k0, m, d, obs), k0.state = "none", AtHand(rec, obs, time), \A r \in obs : r.t <= time,
         NEW k, k.state = "active", k.trig = t, k.end = t + Post, ~k.aged => time <= t, t <= time,
         k.seq = [s \in Streams |-> 0], NEW rows, rows = Prior(rec, Covers[k.scope], t),
         NEW room \in [Streams -> 0 .. PendingMax], Fill(k, rows, room)
  PROVE  Held(k, m, d, obs) /\ Windowed(k, m) /\ HasWindow(k, m, obs)
<1> DEFINE cov == Covers[k.scope]
<1>1. \A s \in Streams : OneStream(k0.pend[s], m[s], d[s], 0, k0.state, obs, s)
  BY DEF Held
<1>2. \A s \in Streams : m[s] = <<>> /\ Len(m[s]) = 0
  BY <1>1 DEF OneStream
<1>3. Post \in Nat /\ Pre \in Nat /\ Post <= Span /\ Span \in Nat
  BY Bounds, HistoryAssumption
<1>4. ASSUME NEW s \in Streams
      PROVE  /\ k.pend[s] \in Seq(Rows) /\ OnceEach(k.pend[s])
             /\ \A r : r \in Elements(k.pend[s]) => r \in obs /\ r.s = s /\ s \in cov /\ t - Pre <= r.t /\ r.t <= t
             /\ \A r \in obs : r.s = s /\ s \in cov /\ time - Pre <= r.t /\ t - Pre <= r.t /\ r.t <= t =>
                  r \in k.dropped \/ r \in Elements(k.pend[s])
  <2>1. PICK q, n : q = rows[s] /\ n = room[s]
    OBVIOUS
  <2>2. q \in Seq(Rows) /\ OnceEach(q)
    BY <2>1, PriorIs
  <2>3. \A r : r \in Elements(q) <=> Lately(r, s, rec, cov, t)
    BY <2>1, PriorIs
  <2>4. n \in Nat /\ n <= Len(q)
    BY <2>1 DEF Fill
  <2>5. PICK p, z : p = Firsts(q, n) /\ z = Past(q, n)
    OBVIOUS
  <2>6. k.pend[s] = p
    BY <2>1, <2>5 DEF Fill, Firsts
  <2>7. \A r \in Elements(z) : r \in k.dropped
    BY <2>1, <2>5 DEF Fill, Past
  <2>8. p \in Seq(Rows) /\ OnceEach(p) /\ \A r : r \in Elements(q) <=> r \in Elements(p) \/ r \in Elements(z)
    BY <2>2, <2>4, <2>5, Halves
  <2>9. \A r \in Elements(rec[s]) : r \in obs /\ r.s = s
    BY DEF AtHand
  <2>10. \A r \in obs : r.s = s /\ time - Pre <= r.t => r \in Elements(rec[s])
    BY DEF AtHand
  <2> QED BY <2>3, <2>6, <2>7, <2>8, <2>9, <2>10 DEF Lately
<1>5. \A s \in Streams : OneStream(k.pend[s], m[s], d[s], k.seq[s], k.state, obs, s)
  BY <1>1, <1>4, StreamOpens
<1>6. k.pend \in [Streams -> Seq(Rows)]
  <2>1. \A s \in Streams : k.pend[s] \in Seq(Rows)
    BY <1>4
  <2>2. DOMAIN k.pend = Streams /\ k.pend = [s \in Streams |-> k.pend[s]]
    BY DEF Fill
  <2> QED BY <2>1, <2>2
<1>7. Held(k, m, d, obs)
  <2>1. k.end <= k.trig + Span
    BY <1>3
  <2> QED BY <1>5, <1>6, <2>1 DEF Held
<1>8. Windowed(k, m)
  <2>1. \A s \in Streams : \A r \in Elements(k.pend[s]) : Fits(k, r) /\ r.t <= k.end
    <3> SUFFICES ASSUME NEW s \in Streams, NEW r \in Elements(k.pend[s]) PROVE Fits(k, r) /\ r.t <= k.end
      OBVIOUS
    <3>1. r \in obs /\ r.s = s /\ s \in cov /\ t - Pre <= r.t /\ r.t <= t
      BY <1>4
    <3> QED BY <1>3, <3>1 DEF Fits, Rows
  <2> QED BY <1>2, <2>1 DEF Windowed
<1>9. HasWindow(k, m, obs)
  <2> SUFFICES ASSUME ~k.aged, NEW r \in obs, Fits(k, r), r.t <= k.end
               PROVE  Has(k, m, r) \/ r \in Elements(k.pend[r.s])
    BY DEF HasWindow
  <2>1. r.s \in Streams /\ r.t \in Int /\ r.t <= time /\ time = t
    BY DEF Rows
  <2>2. r.s \in cov /\ time - Pre <= r.t /\ t - Pre <= r.t /\ r.t <= t
    BY <2>1 DEF Fits
  <2>3. r \in k.dropped \/ r \in Elements(k.pend[r.s])
    BY <1>4, <2>1, <2>2
  <2> QED BY <2>3 DEF Has
<1> QED BY <1>7, <1>8, <1>9

\* A file of a capture is written and registered, its rows are taken off.
Shorter(k2, k, j) ==
  /\ k2.state = k.state /\ k2.scope = k.scope /\ k2.trig = k.trig /\ k2.end = k.end /\ k2.aged = k.aged
  /\ k2.held = k.held /\ k2.late = k.late /\ k2.dropped = k.dropped
  /\ k2.pend = [s \in Streams |-> k2.pend[s]] /\ k2.seq = [s \in Streams |-> k2.seq[s]]
  /\ k2.pend[j.s] = Past(k.pend[j.s], Len(j.rows)) /\ k2.seq[j.s] = j.k
  /\ \A s \in Streams : s # j.s => k2.pend[s] = k.pend[s] /\ k2.seq[s] = k.seq[s]
LEMMA ChunkedIs ==
  ASSUME NEW k, NEW j, NEW ts, DOMAIN k = DOMAIN Unborn, k.pend \in [Streams -> Seq(Rows)], k.seq \in [Streams -> Nat],
         j.s \in Streams, NEW k2, k2 = Chunked(k, j, ts)
  PROVE  Shorter(k2, k, j)
BY Domains DEF Chunked, NextChunk, Shorter, Past

\* The file that m2 has more than m; what is then left of the capture.
Files(m2, m, j) == m2 = [m EXCEPT ![j.s] = Put(@, j.k, j.rows)]
Wrote(k2, k, j) ==
  /\ k2.state = "active" /\ k2.end = k.end
  /\ \A s \in Streams : s # j.s => k2.pend[s] = k.pend[s] /\ k2.seq[s] = k.seq[s]
  /\ \A r \in Elements(k2.pend[j.s]) : r \in Elements(k.pend[j.s]) /\ r \notin Elements(j.rows)

LEMMA CaptureWrites ==
  ASSUME NEW k, NEW m, NEW d, NEW obs, NEW j, NEW ts, DOMAIN k = DOMAIN Unborn, obs \subseteq Rows,
         Held(k, m, d, obs), Windowed(k, m), HasWindow(k, m, obs), Copy(j, k),
         m \in [Streams -> Seq(Seq(Rows))], d \in [Streams -> Seq(Seq(Rows))],
         NEW k2, k2 = Chunked(k, j, ts),
         NEW m2, Files(m2, m, j), NEW d2, Files(d2, d, j)
  PROVE  /\ Held(k2, m2, d2, obs) /\ Windowed(k2, m2) /\ HasWindow(k2, m2, obs)
         /\ m2 \in [Streams -> Seq(Seq(Rows))] /\ d2 \in [Streams -> Seq(Seq(Rows))]
         /\ Wrote(k2, k, j)
<1>1. /\ k.pend \in [Streams -> Seq(Rows)] /\ k.seq \in [Streams -> Nat] /\ k.state = "active" /\ k.end <= k.trig + Span
      /\ \A s \in Streams : OneStream(k.pend[s], m[s], d[s], k.seq[s], "active", obs, s)
  BY DEF Held, Copy
<1>2. /\ j.s \in Streams /\ j.k = k.seq[j.s] + 1 /\ j.rows \in Seq(Rows) /\ Len(j.rows) <= Len(k.pend[j.s])
      /\ \A i \in 1 .. Len(j.rows) : j.rows[i] = k.pend[j.s][i]
  BY DEF Copy
<1>3. /\ k2.state = k.state /\ k2.scope = k.scope /\ k2.trig = k.trig /\ k2.end = k.end /\ k2.aged = k.aged
      /\ k2.held = k.held /\ k2.late = k.late /\ k2.dropped = k.dropped
      /\ k2.pend = [u \in Streams |-> k2.pend[u]] /\ k2.seq = [u \in Streams |-> k2.seq[u]]
      /\ k2.pend[j.s] = SubSeq(k.pend[j.s], Len(j.rows) + 1, Len(k.pend[j.s])) /\ k2.seq[j.s] = j.k
      /\ \A s \in Streams : s # j.s => k2.pend[s] = k.pend[s] /\ k2.seq[s] = k.seq[s]
  <2>1. Shorter(k2, k, j)
    BY <1>1, <1>2, ChunkedIs
  <2> QED BY <2>1 DEF Shorter, Past
<1>4. PICK s, x, n, i : s = j.s /\ x = j.rows /\ n = k.seq[s] /\ i = j.k
  OBVIOUS
<1>5. PICK q, z, f, g, f2, g2 : /\ q = k.pend[s] /\ z = k2.pend[s] /\ f = m[s] /\ g = d[s]
                                /\ f2 = m2[s] /\ g2 = d2[s]
  OBVIOUS
<1>6. /\ OneStream(q, f, g, n, "active", obs, s) /\ x \in Seq(Rows) /\ Prefixes(x, q) /\ Follows(i, n)
      /\ f2 = Put(f, i, x) /\ g2 = Put(g, i, x) /\ z = Past(q, Len(x))
  BY <1>1, <1>2, <1>3, <1>4, <1>5 DEF Follows, Past, Prefixes, Files
<1>7. /\ OneStream(z, f2, g2, i, "active", obs, s)
      /\ \A r : r \in Elements(q) <=> r \in Elements(x) \/ r \in Elements(z)
      /\ \A r : ~(r \in Elements(x) /\ r \in Elements(z))
      /\ Len(f2) = i /\ f2[i] = x /\ Len(f) = n /\ n \in Nat /\ \A l \in 1 .. n : f2[l] = f[l]
  <2>1. OneStream(z, f2, g2, i, "active", obs, s) /\ Apart(q, x, z) /\ Grown(f2, f, n, i, x)
    BY <1>6, StreamWritten
  <2> QED BY <2>1 DEF Apart, Grown
<1>8. /\ DOMAIN m2 = Streams /\ DOMAIN d2 = Streams
      /\ \A u \in Streams : u # s => m2[u] = m[u] /\ d2[u] = d[u] /\ k2.pend[u] = k.pend[u] /\ k2.seq[u] = k.seq[u]
  BY <1>2, <1>3, <1>4 DEF Files
<1>9. \A u \in Streams : OneStream(k2.pend[u], m2[u], d2[u], k2.seq[u], k2.state, obs, u)
  <2> SUFFICES ASSUME NEW u \in Streams PROVE OneStream(k2.pend[u], m2[u], d2[u], k2.seq[u], "active", obs, u)
    BY <1>1, <1>3
  <2>1. CASE u = s
    <3>1. k2.seq[u] = i /\ k2.pend[u] = z /\ m2[u] = f2 /\ d2[u] = g2
      BY <1>3, <1>4, <1>5, <2>1
    <3> QED BY <1>7, <2>1, <3>1
  <2>2. CASE u # s
    BY <1>1, <1>8, <2>2
  <2> QED BY <2>1, <2>2
<1>10. \A u \in Streams : k2.pend[u] \in Seq(Rows) /\ k2.seq[u] \in Nat /\ m2[u] \in Seq(Seq(Rows)) /\ d2[u] \in Seq(Seq(Rows))
  BY <1>9 DEF OneStream
<1>11. /\ k2.pend \in [Streams -> Seq(Rows)] /\ k2.seq \in [Streams -> Nat]
       /\ m2 \in [Streams -> Seq(Seq(Rows))] /\ d2 \in [Streams -> Seq(Seq(Rows))]
  <2>1. m2 = [u \in Streams |-> m2[u]] /\ d2 = [u \in Streams |-> d2[u]]
    BY <1>8 DEF Files
  <2> QED BY <1>3, <1>10, <2>1
<1>12. Held(k2, m2, d2, obs)
  BY <1>1, <1>3, <1>9, <1>11 DEF Held
<1>13. \A r : (Fits(k2, r) <=> Fits(k, r))
  BY <1>3 DEF Fits
<1>14. \A l \in 1 .. Len(f2) : l \in 1 .. n \/ l = i
  BY <1>6, <1>7 DEF Follows
<1>15. i \in 1 .. Len(f2) /\ \A l \in 1 .. n : l \in 1 .. Len(f2)
  BY <1>6, <1>7 DEF Follows
<1>16. Windowed(k2, m2)
  <2>1. ASSUME NEW u \in Streams, NEW r \in Elements(k2.pend[u]) PROVE Fits(k2, r) /\ r.t <= k2.end
    <3>1. r \in Elements(k.pend[u])
      BY <1>5, <1>7, <1>8, <2>1
    <3> QED BY <1>1, <1>3, <1>13, <3>1 DEF Windowed
  <2>2. ASSUME NEW u \in Streams, NEW l \in 1 .. Len(m2[u]), NEW r \in Elements(m2[u][l])
        PROVE  Fits(k2, r) /\ r.t <= k2.end
    <3>1. CASE u # s
      BY <1>1, <1>3, <1>8, <1>13, <2>2, <3>1 DEF Windowed
    <3>2. CASE u = s /\ l \in 1 .. n
      <4>1. l \in 1 .. Len(m[u]) /\ r \in Elements(m[u][l])
        BY <1>5, <1>7, <2>2, <3>2
      <4> QED BY <1>1, <1>3, <1>13, <4>1 DEF Windowed
    <3>3. CASE u = s /\ l = i
      <4>1. r \in Elements(k.pend[u])
        BY <1>5, <1>7, <2>2, <3>3
      <4> QED BY <1>1, <1>3, <1>13, <4>1 DEF Windowed
    <3> QED BY <1>5, <1>14, <2>2, <3>1, <3>2, <3>3
  <2> QED BY <1>1, <1>3, <2>1, <2>2 DEF Windowed
<1>17. HasWindow(k2, m2, obs)
  <2> SUFFICES ASSUME ~k2.aged, NEW r \in obs, Fits(k2, r), r.t <= k2.end
               PROVE  Has(k2, m2, r) \/ r \in Elements(k2.pend[r.s])
    BY DEF HasWindow
  <2>1. r.s \in Streams /\ (Has(k, m, r) \/ r \in Elements(k.pend[r.s]))
    BY <1>1, <1>3, <1>13 DEF HasWindow, Rows
  <2>2. CASE r.s # s
    BY <1>3, <1>8, <2>1, <2>2 DEF Has
  <2>3. CASE r.s = s /\ r \in Elements(q)
    BY <1>5, <1>7, <1>15, <2>3 DEF Has
  <2>4. CASE r.s = s /\ Has(k, m, r)
    <3>1. CASE r \in k.dropped
      BY <1>3, <3>1 DEF Has
    <3>2. CASE r \notin k.dropped
      <4>1. PICK l \in 1 .. n : r \in Elements(f[l])
        BY <1>5, <1>7, <2>4, <3>2 DEF Has
      <4>2. l \in 1 .. Len(f2) /\ r \in Elements(f2[l])
        BY <1>7, <1>15, <4>1
      <4> QED BY <1>5, <2>4, <4>2 DEF Has
    <3> QED BY <3>1, <3>2
  <2> QED BY <1>5, <2>1, <2>2, <2>3, <2>4
<1>18. \A r \in Elements(k2.pend[j.s]) : r \in Elements(k.pend[j.s]) /\ r \notin Elements(j.rows)
  BY <1>4, <1>5, <1>7
<1>19. Wrote(k2, k, j)
  BY <1>1, <1>3, <1>18 DEF Wrote
<1> QED BY <1>11, <1>12, <1>16, <1>17, <1>19

\* A file of a capture is written and not registered.
LEMMA CaptureFiles ==
  ASSUME NEW k, NEW m, NEW d, NEW obs, NEW j, Held(k, m, d, obs), Copy(j, k), d \in [Streams -> Seq(Seq(Rows))],
         NEW d2, Files(d2, d, j)
  PROVE  Held(k, m, d2, obs) /\ d2 \in [Streams -> Seq(Seq(Rows))]
<1>1. \A s \in Streams : OneStream(k.pend[s], m[s], d[s], k.seq[s], k.state, obs, s)
  BY DEF Held
<1>2. j.s \in Streams /\ j.rows \in Seq(Rows) /\ Follows(j.k, k.seq[j.s])
  BY DEF Copy, Follows
<1>3. DOMAIN d2 = Streams /\ d2[j.s] = Put(d[j.s], j.k, j.rows) /\ \A s \in Streams : s # j.s => d2[s] = d[s]
  BY <1>2 DEF Files
<1>4. OneStream(k.pend[j.s], m[j.s], d2[j.s], k.seq[j.s], k.state, obs, j.s)
  BY <1>1, <1>2, <1>3, StreamFiled
<1>5. \A s \in Streams : OneStream(k.pend[s], m[s], d2[s], k.seq[s], k.state, obs, s)
  BY <1>1, <1>3, <1>4
<1>6. d2 \in [Streams -> Seq(Seq(Rows))]
  <2>1. \A s \in Streams : d2[s] \in Seq(Seq(Rows))
    BY <1>5 DEF OneStream
  <2>2. d2 = [s \in Streams |-> d2[s]]
    BY <1>3 DEF Files
  <2> QED BY <2>1, <2>2
<1> QED BY <1>5, <1>6 DEF Held

\* A capture ends when what it had in memory is written.
LEMMA CaptureFinishes ==
  ASSUME NEW k, NEW k2, NEW m, NEW d, NEW obs, NEW h, NEW time, NEW t, NEW w, NEW c, obs \subseteq Rows,
         Held(k, m, d, obs), Windowed(k, m), HasWindow(k, m, obs), k.state = "active",
         k.end \in Int, k2.end \in Int, k2.end <= k.end, k2.end <= w.ts, w.ts \in Int, time \in Int, k.trig \in Int,
         k2.state = "ended", k2.scope = k.scope, k2.trig = k.trig, k2.aged = k.aged, k2.pend = k.pend, k2.seq = k.seq,
         k2.dropped = k.dropped, k2.held = w.held, ~k2.late => Spared(t, w, c, k),
         Timely(w, h, time), w.jobs = {}, w.pc = "finish", c \in w.fins,
         h.what = "row" => h.t \in Int
  PROVE  Held(k2, m, d, obs) /\ Windowed(k2, m) /\ HasWindow(k2, m, obs) /\ EndsWell(k2, m, obs, h, time)
<1>1. \A s \in Streams : OneStream(k.pend[s], m[s], d[s], k.seq[s], "ended", obs, s)
  BY StreamCloses DEF Held
<1>2. k2.end <= k2.trig + Span
  BY Bounds DEF Held
<1>3. Held(k2, m, d, obs)
  BY <1>1, <1>2 DEF Held
<1>4. \A r : Fits(k2, r) <=> Fits(k, r)
  BY DEF Fits
<1>5. Windowed(k2, m)
  BY <1>4 DEF Windowed
<1>6. EndsWell(k2, m, obs, h, time)
  <2> SUFFICES ASSUME ~k2.aged, ~k2.late
               PROVE  /\ \A r \in obs : Fits(k2, r) /\ r.t <= k2.end => Has(k2, m, r) \/ Same(k2.held, r)
                      /\ h.what = "row" /\ h.t <= k2.end => Same(k2.held, h)
                      /\ k2.end < time \/ Horizon <= time
    BY DEF EndsWell
  <2>1. k2.end < time \/ Horizon <= time
    BY DEF Timely
  <2>2. h.what = "row" /\ h.t <= k2.end => Same(k2.held, h)
    BY DEF Timely
  <2>3. ASSUME NEW r \in obs, Fits(k2, r), r.t <= k2.end PROVE Has(k2, m, r) \/ Same(k2.held, r)
    <3>1. r.t \in Int /\ r.s \in Streams /\ r.t <= k.end /\ ~(w.ts < r.t)
      BY <2>3 DEF Rows
    <3>2. Has(k, m, r) \/ r \in Elements(k.pend[r.s])
      BY <1>4, <2>3, <3>1 DEF HasWindow
    <3>3. r \in Elements(k.pend[r.s]) => Same(w.held, r)
      BY <3>1 DEF Spared, Copied
    <3>4. Has(k, m, r) => Has(k2, m, r)
      BY DEF Has
    <3> QED BY <3>2, <3>3, <3>4
  <2> QED BY <2>1, <2>2, <2>3
<1>7. HasWindow(k2, m, obs)
  BY DEF HasWindow
<1> QED BY <1>3, <1>5, <1>6, <1>7

----------------------------------------------------------------------------
(* The thread that writes captures.                                          *)

LEMMA CopyGrows ==
  ASSUME NEW j, NEW k, NEW k2, Copy(j, k), k2.state = k.state, k2.seq = k.seq, k.pend \in [Streams -> Seq(Rows)],
         NEW row \in Rows, Gains(k2, k, row)
  PROVE  Copy(j, k2)
<1>1. j.s \in Streams /\ k.pend[j.s] \in Seq(Rows) /\ row.s \in Streams
  BY DEF Copy, Rows
<1>2. CASE k2.pend[j.s] = k.pend[j.s]
  BY <1>2 DEF Copy
<1>3. CASE k2.pend[j.s] = Append(k.pend[j.s], row)
  <2>1. PICK q, p : q = k.pend[j.s] /\ p = k2.pend[j.s]
    OBVIOUS
  <2>2. Len(p) = Len(q) + 1 /\ (\A i \in 1 .. Len(q) : p[i] = q[i]) /\ Len(q) \in Nat
    BY <1>1, <1>3, <2>1, RowSeq
  <2>3. j.rows \in Seq(Rows) /\ Len(j.rows) <= Len(q) /\ \A i \in 1 .. Len(j.rows) : j.rows[i] = q[i]
    BY <2>1 DEF Copy
  <2>4. Len(j.rows) \in Nat
    BY <2>3, RowSeq
  <2>5. Len(j.rows) <= Len(p) /\ \A i \in 1 .. Len(j.rows) : j.rows[i] = p[i]
    BY <2>2, <2>3, <2>4
  <2> QED BY <2>1, <2>3, <2>5 DEF Copy
<1>4. k2.pend[j.s] = k.pend[j.s] \/ k2.pend[j.s] = Append(k.pend[j.s], row)
  BY <1>1 DEF Gains
<1> QED BY <1>2, <1>3, <1>4

LEMMA SparedGrows ==
  ASSUME NEW t, NEW w, NEW c, NEW k, NEW k2, Spared(t, w, c, k), k2.end = k.end, k.pend \in [Streams -> Seq(Rows)],
         NEW row \in Rows, Gains(k2, k, row),
         w.ts \in Int, row.t <= w.ts => Same(w.held, row)
  PROVE  Spared(t, w, c, k2)
<1> SUFFICES ASSUME t = "quit" \/ k2.end <= w.ts \/ (w.pc = "finish" /\ c \in w.fins),
                    NEW s \in Streams, NEW r \in Elements(k2.pend[s])
             PROVE  w.ts < r.t \/ Same(w.held, r) \/ Copied(w, c, s, r)
  BY DEF Spared
<1>1. k.pend[s] \in Seq(Rows) /\ row.s \in Streams /\ row.t \in Int
  BY DEF Rows
<1>2. r \in Elements(k.pend[s]) \/ r = row
  <2>1. CASE k2.pend[s] = k.pend[s]
    BY <2>1
  <2>2. CASE k2.pend[s] = Append(k.pend[s], row)
    BY <1>1, <2>2, RowAmong
  <2>3. k2.pend[s] = k.pend[s] \/ k2.pend[s] = Append(k.pend[s], row)
    BY <1>1 DEF Gains
  <2> QED BY <2>1, <2>2, <2>3
<1>3. r \in Elements(k.pend[s]) => w.ts < r.t \/ Same(w.held, r) \/ Copied(w, c, s, r)
  BY DEF Spared
<1>4. w.ts < row.t \/ Same(w.held, row)
  BY <1>1
<1> QED BY <1>2, <1>3, <1>4

\* A capture that goes on for longer is spared longer.
LEMMA SparedExtends ==
  ASSUME NEW t, NEW w, NEW c, NEW k, NEW k2, Spared(t, w, c, k), k.end \in Int, k2.end \in Int, w.ts \in Int,
         k.end <= k2.end, k2.pend = k.pend
  PROVE  Spared(t, w, c, k2)
<1>1. k2.end <= w.ts => k.end <= w.ts
  OBVIOUS
<1> QED BY <1>1 DEF Spared

\* One file less to write: what it holds is off the capture.
LEMMA SparedWrites ==
  ASSUME NEW t, NEW w, NEW w2, NEW c, NEW k, NEW k2, NEW j, Spared(t, w, c, k), j \in w.jobs, j.cap = c,
         \A i, l \in w.jobs : l.cap = i.cap /\ l.s = i.s => l = i,
         w2.ts = w.ts, w2.held = w.held, w2.pc = w.pc, w2.fins = w.fins, w2.jobs = w.jobs \ {j},
         k2.end = k.end, \A s \in Streams : s # j.s => k2.pend[s] = k.pend[s],
         \A r \in Elements(k2.pend[j.s]) : r \in Elements(k.pend[j.s]) /\ r \notin Elements(j.rows)
  PROVE  Spared(t, w2, c, k2)
<1> SUFFICES ASSUME t = "quit" \/ k2.end <= w.ts \/ (w.pc = "finish" /\ c \in w.fins),
                    NEW s \in Streams, NEW r \in Elements(k2.pend[s])
             PROVE  w.ts < r.t \/ Same(w.held, r) \/ Copied(w2, c, s, r)
  BY DEF Spared
<1>1. r \in Elements(k.pend[s]) /\ (s = j.s => r \notin Elements(j.rows))
  OBVIOUS
<1>2. w.ts < r.t \/ Same(w.held, r) \/ Copied(w, c, s, r)
  BY <1>1 DEF Spared
<1>3. ASSUME Copied(w, c, s, r) PROVE Copied(w2, c, s, r)
  <2>1. PICK i \in w.jobs : i.cap = c /\ i.s = s /\ r \in Elements(i.rows)
    BY <1>3 DEF Copied
  <2>2. i # j
    BY <1>1, <2>1
  <2> QED BY <2>1, <2>2 DEF Copied
<1> QED BY <1>2, <1>3

LEMMA SparedElsewhere ==
  ASSUME NEW t, NEW w, NEW w2, NEW c, NEW k, NEW j, Spared(t, w, c, k), j.cap # c,
         w2.ts = w.ts, w2.held = w.held, w2.pc = w.pc, w2.fins = w.fins, w2.jobs = w.jobs \ {j}
  PROVE  Spared(t, w2, c, k)
BY DEF Spared, Copied

\* What the steps of the loop do to the captures leaves the thread's work as it is.
LEMMA WorkingStill ==
  ASSUME NEW t, NEW w, NEW f, NEW f2, Working(t, w, f),
         \A c \in Caps : f[c].state = "none" \/ (f2[c].state = f[c].state
                           /\ (\A j : Copy(j, f[c]) => Copy(j, f2[c])) /\ (Spared(t, w, c, f[c]) => Spared(t, w, c, f2[c])))
  PROVE  Working(t, w, f2)
<1>1. ASSUME NEW j \in w.jobs PROVE j.cap \in Caps /\ Copy(j, f2[j.cap])
  <2>1. j.cap \in Caps /\ Copy(j, f[j.cap])
    BY DEF Working
  <2>2. f[j.cap].state # "none"
    BY <2>1 DEF Copy
  <2> QED BY <2>1, <2>2
<1>2. w.pc = "finish" => w.jobs = {} /\ \A c \in w.fins : c \in Caps /\ f2[c].state = "active"
  BY DEF Working
<1>3. \A c \in w.known : c \in Caps /\ f2[c].state # "none" /\ (f2[c].state = "active" => Spared(t, w, c, f2[c]))
  BY DEF Working
<1> QED BY <1>1, <1>2, <1>3 DEF Working

----------------------------------------------------------------------------
(* The steps that leave the captures alone.                                  *)

LEMMA ShapeIs ==
  ASSUME Inv
  PROVE  /\ now \in Int /\ hand.t \in Int /\ DOMAIN hand = DOMAIN Nothing
         /\ DOMAIN cap = Caps /\ DOMAIN th = Threads /\ DOMAIN db = {"log", "told", "cap", "meta"}
         /\ \A c \in Caps : DOMAIN cap[c] = DOMAIN Unborn /\ cap[c].trig \in Int /\ cap[c].end \in Int
         /\ \A t \in Threads : DOMAIN th[t] = DOMAIN Idle /\ th[t].ts \in Int
BY DEF Inv, Shape, HandShape, CapShape, DbShape, ThShape

LEMMA AtHandStill ==
  ASSUME NEW rec, NEW obs, NEW time \in Int, NEW time2 \in Int, Noted(obs, time), AtHand(rec, obs, time), time <= time2
  PROVE  Noted(obs, time2) /\ AtHand(rec, obs, time2)
<1>1. Pre \in Int /\ \A r \in obs : r.t \in Int
  BY Bounds DEF Noted, Rows
<1>2. Noted(obs, time2)
  BY <1>1 DEF Noted
<1>3. \A r \in obs : time2 - Pre <= r.t => time - Pre <= r.t
  BY <1>1
<1> QED BY <1>2, <1>3 DEF AtHand

LEMMA StoreStill ==
  ASSUME Inv, Inv', StoreInv, cap' = cap, seen' = seen, disk' = disk, db'.meta = db.meta, now <= now',
         HandOn(hand, hand', now)
  PROVE  StoreInv'
<1> SUFFICES ASSUME NEW c \in Caps PROVE Captured(c)'
  BY DEF StoreInv
<1>1. Captured(c) /\ now \in Int /\ cap[c].end \in Int
  BY ShapeIs DEF StoreInv
<1>2. now' \in Int
  BY DEF Inv, Shape, HandShape
<1>3. EndsWell(cap[c], db.meta[c], seen, hand', now')
  BY <1>1, <1>2, EndsWellStill DEF Captured
<1> QED BY <1>1, <1>3 DEF Captured

LEMMA FlushStill ==
  ASSUME Inv, Inv', FlushInv, cap' = cap, now <= now', HandOn(hand, hand', now),
         \A t \in InCaptures' : t \in InCaptures /\ th'[t] = th[t]
  PROVE  FlushInv'
<1> SUFFICES ASSUME NEW t \in InCaptures' PROVE Timely(th'[t], hand', now') /\ Working(t, th'[t], cap')
  BY DEF FlushInv
<1>1. t \in InCaptures /\ th'[t] = th[t] /\ t \in Threads
  BY DEF InCaptures
<1>2. now \in Int /\ now' \in Int /\ th[t].ts \in Int
  <2>1. now' \in Int
    BY DEF Inv, Shape, HandShape
  <2> QED BY <1>1, <2>1, ShapeIs
<1>3. Timely(th[t], hand, now) /\ Working(t, th[t], cap)
  BY <1>1 DEF FlushInv
<1> QED BY <1>1, <1>2, <1>3, TimelyStill

LEMMA RowsStill ==
  ASSUME Inv, Inv', RowsInv, UNCHANGED <<cap, seen, recent, disk>>, db'.meta = db.meta, now <= now',
         HandOn(hand, hand', now), Observing(hand', seen, now'),
         \A t \in InCaptures' : t \in InCaptures /\ th'[t] = th[t]
  PROVE  RowsInv'
<1>1. now \in Int /\ now' \in Int
  BY ShapeIs DEF Inv, Shape, HandShape
<1>2. Noted(seen, now') /\ AtHand(recent, seen, now')
  BY <1>1, AtHandStill DEF RowsInv, LoopInv
<1>3. LoopInv'
  BY <1>2 DEF LoopInv
<1> QED BY <1>3, StoreStill, FlushStill DEF RowsInv

LEMMA SameHand ==
  ASSUME Inv, Inv', RowsInv, hand' = hand, seen' = seen, now <= now'
  PROVE  HandOn(hand, hand', now) /\ Observing(hand', seen, now')
<1>1. now \in Int /\ now' \in Int /\ hand.t \in Int
  BY ShapeIs DEF Inv, Shape, HandShape
<1> QED BY <1>1 DEF RowsInv, LoopInv, Observing, HandOn

\* A thread that leaves the captures, or has nothing to do with them.
LEMMA Elsewhere ==
  ASSUME Inv, NEW t \in Threads, NEW k, th' = [th EXCEPT ![t] = k], k.pc \notin {"chunks", "finish"}
  PROVE  \A u \in InCaptures' : u \in InCaptures /\ th'[u] = th[u]
<1>1. th'[t] = k /\ \A u \in Threads : u # t => th'[u] = th[u]
  BY ShapeIs
<1> QED BY <1>1 DEF InCaptures

LEMMA GoesElsewhere ==
  ASSUME Inv, NEW t \in Threads, NEW pc, Goes(t, pc), pc \notin {"chunks", "finish"}
  PROVE  \A u \in InCaptures' : u \in InCaptures /\ th'[u] = th[u]
<1>1. PICK k : k = [Idle EXCEPT !.pc = pc] /\ th' = [th EXCEPT ![t] = k]
  BY DEF Goes
<1>2. k.pc = pc
  BY <1>1 DEF Idle
<1> QED BY <1>1, <1>2, Elsewhere

LEMMA RowsTick == ASSUME Inv, Inv', RowsInv, Tick PROVE RowsInv'
<1>1. UNCHANGED <<cap, seen, recent, disk, hand, db, th>> /\ now' = now + 2
  BY DEF Tick, loop, storage
<1>2. now <= now'
  BY <1>1, ShapeIs
<1>3. \A t \in InCaptures' : t \in InCaptures /\ th'[t] = th[t]
  BY <1>1 DEF InCaptures
<1> QED BY <1>1, <1>2, <1>3, SameHand, RowsStill

LEMMA RowsRead == ASSUME Inv, Inv', RowsInv, NEW s \in Streams, ReadRow(s) PROVE RowsInv'
<1>1. UNCHANGED <<cap, seen, recent, disk, db, th, now>> /\ now <= LastSeen
  BY DEF ReadRow, storage
<1>2. hand'.what = "row" /\ hand'.s = s /\ hand'.t = now
  BY DEF ReadRow, Nothing
<1>3. now \in Int /\ now <= now
  BY ShapeIs
<1>4. now < Horizon
  <2>1. Post \in Nat /\ Post # 0 /\ LastSeen + Post <= Horizon /\ Horizon \in Nat
    BY HistoryAssumption
  <2>2. LastSeen \in Nat
    BY HistoryAssumption
  <2> QED BY <1>1, <1>3, <2>1, <2>2
<1>5. HandOn(hand, hand', now) /\ Observing(hand', seen, now)
  BY <1>2, <1>3, <1>4 DEF HandOn, Observing, RowsInv, LoopInv, Noted
<1>6. \A t \in InCaptures' : t \in InCaptures /\ th'[t] = th[t]
  BY <1>1 DEF InCaptures
<1> QED BY <1>1, <1>3, <1>5, <1>6, RowsStill

LEMMA RowsSee == ASSUME Inv, Inv', RowsInv, NEW k \in Kinds, NEW age \in Ages[k], SeeEvent(k, age) PROVE RowsInv'
<1>1. UNCHANGED <<cap, seen, recent, disk, db, th, now>>
  BY DEF SeeEvent, storage
<1>2. hand'.what = "seen" /\ hand'.t = now - age
  BY DEF SeeEvent, Nothing
<1>3. now \in Int /\ now <= now /\ age \in Nat
  BY ShapeIs, Bounds
<1>4. HandOn(hand, hand', now) /\ Observing(hand', seen, now)
  BY <1>2, <1>3 DEF HandOn, Observing
<1>5. \A t \in InCaptures' : t \in InCaptures /\ th'[t] = th[t]
  BY <1>1 DEF InCaptures
<1> QED BY <1>1, <1>3, <1>4, <1>5, RowsStill

LEMMA RowsPush == ASSUME Inv, Inv', RowsInv, PushEvent PROVE RowsInv'
<1>1. UNCHANGED <<cap, seen, recent, disk, db, th, now>> /\ hand' = Nothing
  BY DEF PushEvent, storage
<1>2. now <= now
  BY ShapeIs
<1>3. HandOn(hand, hand', now) /\ Observing(hand', seen, now)
  BY <1>1 DEF HandOn, Observing, Nothing
<1>4. \A t \in InCaptures' : t \in InCaptures /\ th'[t] = th[t]
  BY <1>1 DEF InCaptures
<1> QED BY <1>1, <1>2, <1>3, <1>4, RowsStill

\* The steps of the log.
LEMMA RowsLog ==
  ASSUME Inv, Inv', RowsInv, NEW t \in Threads,
         TakeBatch(t) \/ WriteBatch(t) \/ WriteFails(t) \/ FinishFails(t) \/ CapturesDone(t)
  PROVE  RowsInv'
<1>1. UNCHANGED <<cap, seen, recent, disk, hand, now>> /\ db'.meta = db.meta
  <2>1. CASE TakeBatch(t) BY <2>1 DEF TakeBatch, loop, storage
  <2>2. CASE WriteBatch(t) BY <2>2, ShapeIs DEF WriteBatch, loop
  <2>3. CASE WriteFails(t) BY <2>3 DEF WriteFails, loop
  <2>4. CASE FinishFails(t) BY <2>4 DEF FinishFails, loop
  <2>5. CASE CapturesDone(t) BY <2>5 DEF CapturesDone, loop, storage
  <2> QED BY <2>1, <2>2, <2>3, <2>4, <2>5
<1>2. now <= now
  BY ShapeIs
<1>3. \A u \in InCaptures' : u \in InCaptures /\ th'[u] = th[u]
  <2>1. ASSUME NEW pc, Goes(t, pc), pc \in {"session", "captures", "failed", "idle", "close"}
        PROVE  \A u \in InCaptures' : u \in InCaptures /\ th'[u] = th[u]
    BY <2>1, GoesElsewhere
  <2>2. CASE th' = [th EXCEPT ![t].pc = "writing", ![t].batch = queue, ![t].lost = dropped, ![t].ts = now]
    <3>1. PICK k : k = th'[t]
      OBVIOUS
    <3>2. k.pc = "writing" /\ \A u \in Threads : u # t => th'[u] = th[u]
      BY <2>2, <3>1, ShapeIs, Domains
    <3> QED BY <3>1, <3>2 DEF InCaptures
  <2>3. CASE FlushDone(t)
    BY <2>1, <2>3 DEF FlushDone
  <2>4. CASE Abort(t)
    BY <2>1, <2>4 DEF Abort
  <2>5. CASE Goes(t, IF t = "quit" THEN "close" ELSE "idle")
    BY <2>1, <2>5
  <2> QED BY <2>2, <2>3, <2>4, <2>5 DEF TakeBatch, WriteBatch, WriteFails, FinishFails, CapturesDone
<1> QED BY <1>1, <1>2, <1>3, SameHand, RowsStill

LEMMA RowsLeave == ASSUME Inv, Inv', RowsInv, Leave \/ Close \/ FinishSession PROVE RowsInv'
<1>1. UNCHANGED <<cap, seen, recent, disk, hand, now, db>>
  BY DEF Leave, Close, FinishSession, loop, storage
<1>2. now <= now
  BY ShapeIs
<1>3. \A u \in InCaptures' : u \in InCaptures /\ th'[u] = th[u]
  <2>1. "quit" \in Threads
    BY DEF Threads
  <2>2. PICK pc : Goes("quit", pc) /\ pc \in {"flush", "done", "failed"}
    BY DEF Leave, Close, FinishSession, Abort
  <2> QED BY <2>1, <2>2, GoesElsewhere
<1> QED BY <1>1, <1>2, <1>3, SameHand, RowsStill

LEMMA RowsStutter == ASSUME Inv, Inv', RowsInv, UNCHANGED vars PROVE RowsInv'
<1>1. UNCHANGED <<cap, seen, recent, disk, hand, now, db, th>>
  BY DEF vars, loop, storage
<1>2. now <= now
  BY ShapeIs
<1>3. \A u \in InCaptures' : u \in InCaptures /\ th'[u] = th[u]
  BY <1>1 DEF InCaptures
<1> QED BY <1>1, <1>2, <1>3, SameHand, RowsStill

----------------------------------------------------------------------------
(* The loop: a row is observed, an event is noticed.                         *)

\* The row in hand is a new one, and the latest.
LEMMA NewRow ==
  ASSUME Inv, RowsInv, hand.what = "row", NEW row, row = [n |-> Cardinality(seen) + 1, s |-> hand.s, t |-> hand.t]
  PROVE  /\ row \in Rows /\ row \notin seen /\ row.s = hand.s /\ row.t = hand.t /\ row.n = Cardinality(seen) + 1
         /\ (\A r \in seen : r.t <= row.t) /\ row.t <= now /\ seen \subseteq Rows
<1>1. /\ hand.s \in Streams /\ hand.t \in Int /\ hand.t <= now /\ IsFiniteSet(seen) /\ seen \subseteq Rows
      /\ (\A r \in seen : r.n <= Cardinality(seen)) /\ \A r \in seen : r.t <= hand.t
  BY ShapeIs DEF RowsInv, LoopInv, Observing, Noted
<1>2. Cardinality(seen) \in Nat
  BY <1>1, FS_CardinalityType
<1>3. row \in Rows /\ row.s = hand.s /\ row.t = hand.t /\ row.n = Cardinality(seen) + 1
  BY <1>1, <1>2 DEF Rows
<1>4. row \notin seen
  BY <1>1, <1>2, <1>3
<1> QED BY <1>1, <1>3, <1>4

LEMMA ObserveLoop == ASSUME Inv, Inv', RowsInv, Observe PROVE LoopInv'
<1>1. PICK row : /\ row = [n |-> Cardinality(seen) + 1, s |-> hand.s, t |-> hand.t]
                 /\ seen' = seen \cup {row}
                 /\ recent' = [recent EXCEPT ![row.s] = Between(Append(@, row), row.t - Pre, row.t)]
  BY DEF Observe
<1>2. hand.what = "row" /\ hand' = Nothing /\ now' = now
  BY DEF Observe
<1>3. /\ row \in Rows /\ row \notin seen /\ row.s = hand.s /\ row.t = hand.t /\ row.n = Cardinality(seen) + 1
      /\ (\A r \in seen : r.t <= row.t) /\ row.t <= now /\ seen \subseteq Rows
  BY <1>1, <1>2, NewRow
<1>4. Observing(Nothing, seen', now)
  BY DEF Observing, Nothing
<1>5. now \in Int /\ row.t \in Int /\ row.s \in Streams /\ Pre \in Nat
  BY <1>3, ShapeIs, Bounds DEF Rows
<1>6. Noted(seen', now)
  <2>1. IsFiniteSet(seen) /\ Cardinality(seen) \in Nat /\ \A r \in seen : r.n <= Cardinality(seen) /\ r.t <= now
    BY FS_CardinalityType DEF RowsInv, LoopInv, Noted
  <2>2. IsFiniteSet(seen') /\ Cardinality(seen') = Cardinality(seen) + 1
    BY <1>1, <1>3, <2>1, FS_AddElement
  <2>3. seen' \subseteq Rows
    BY <1>1, <1>3
  <2>4. \A r \in seen : r.n \in Nat
    BY <1>3 DEF Rows
  <2>5. \A r \in seen' : r.n <= Cardinality(seen') /\ r.t <= now
    BY <1>1, <1>3, <2>1, <2>2, <2>4
  <2> QED BY <2>2, <2>3, <2>5 DEF Noted
<1>7. AtHand(recent', seen', now)
  <2>1. AtHand(recent, seen, now)
    BY DEF RowsInv, LoopInv
  <2>2. PICK s, q, p, a : s = row.s /\ q = recent[s] /\ p = Append(q, row) /\ a = row.t - Pre
    OBVIOUS
  <2>3. q \in Seq(Rows) /\ OnceEach(q) /\ InTime(q) /\ \A r \in Elements(q) : r \in seen /\ r.s = s
    BY <1>5, <2>1, <2>2 DEF AtHand
  <2>4. p \in Seq(Rows) /\ OnceEach(p) /\ InTime(p)
    BY <1>3, <2>2, <2>3, RowAppended
  <2>5. \A r : r \in Elements(p) <=> r \in Elements(q) \/ r = row
    BY <1>3, <2>2, <2>3, RowAmong
  <2>6. PICK z : z = Between(p, a, row.t)
    OBVIOUS
  <2>7. a \in Int /\ a <= row.t
    BY <1>5, <2>2
  <2>8. z \in Seq(Rows) /\ InTime(z) /\ OnceEach(z)
    BY <1>5, <2>4, <2>6, <2>7, BetweenIs
  <2>9. \A r : r \in Elements(z) <=> r \in Elements(p) /\ a <= r.t /\ r.t <= row.t
    BY <1>5, <2>4, <2>6, <2>7, BetweenIs
  <2>10. DOMAIN recent' = Streams /\ recent'[s] = z /\ \A u \in Streams : u # s => recent'[u] = recent[u]
    BY <1>1, <1>5, <2>1, <2>2, <2>6 DEF AtHand
  <2>11. recent' \in [Streams -> Seq(Rows)]
    <3>1. \A u \in Streams : recent'[u] \in Seq(Rows)
      BY <2>1, <2>8, <2>10 DEF AtHand
    <3>2. recent' = [u \in Streams |-> recent'[u]]
      BY <1>1, <2>1 DEF AtHand
    <3> QED BY <3>1, <3>2
  <2>12. ASSUME NEW u \in Streams
         PROVE  OnceEach(recent'[u]) /\ InTime(recent'[u]) /\ \A r \in Elements(recent'[u]) : r \in seen' /\ r.s = u
    <3>1. CASE u = s
      BY <1>1, <2>2, <2>3, <2>5, <2>8, <2>9, <2>10, <3>1
    <3>2. CASE u # s
      BY <1>1, <2>1, <2>10, <3>2 DEF AtHand
    <3> QED BY <3>1, <3>2
  <2>13. ASSUME NEW r \in seen', now - Pre <= r.t PROVE r \in Elements(recent'[r.s])
    <3>1. r.s \in Streams /\ r.t \in Int /\ r.t <= row.t /\ (r \in seen \/ r = row)
      BY <1>1, <1>3, <1>5 DEF Rows
    <3>2. a <= r.t
      BY <1>3, <1>5, <2>2, <2>13, <3>1
    <3>3. r = row \/ r \in Elements(recent[r.s])
      BY <2>1, <2>13, <3>1 DEF AtHand
    <3>4. CASE r.s = s
      BY <2>2, <2>5, <2>9, <2>10, <3>1, <3>2, <3>3, <3>4
    <3>5. CASE r.s # s
      BY <2>2, <2>10, <3>1, <3>3, <3>5
    <3> QED BY <3>4, <3>5
  <2> QED BY <2>11, <2>12, <2>13 DEF AtHand
<1> QED BY <1>2, <1>4, <1>6, <1>7 DEF LoopInv

LEMMA RowsObserve == ASSUME Inv, Inv', RowsInv, Observe PROVE RowsInv'
<1>1. PICK row : /\ row = [n |-> Cardinality(seen) + 1, s |-> hand.s, t |-> hand.t]
                 /\ seen' = seen \cup {row}
                 /\ cap' = [c \in Caps |->
                              IF c \in Active /\ Within(c, row.t) /\ row.s \in Covers[cap[c].scope]
                              THEN Queued(cap[c], row) ELSE cap[c]]
  BY DEF Observe
<1>2. hand.what = "row" /\ hand' = Nothing /\ UNCHANGED <<now, th, db, disk>>
  BY DEF Observe, storage
<1>3. /\ row \in Rows /\ row \notin seen /\ row.s = hand.s /\ row.t = hand.t
      /\ (\A r \in seen : r.t <= row.t) /\ row.t <= now /\ seen \subseteq Rows
  BY <1>1, <1>2, NewRow
<1>4. \A c \in Caps : cap'[c] = IF Covered(cap[c], row) THEN Queued(cap[c], row) ELSE cap[c]
  BY <1>1 DEF Active, Within, Covered
<1>5. ASSUME NEW c \in Caps
      PROVE  /\ Held(cap'[c], db.meta[c], disk[c], seen') /\ Windowed(cap'[c], db.meta[c])
             /\ HasWindow(cap'[c], db.meta[c], seen') /\ EndsWell(cap'[c], db.meta[c], seen', Nothing, now)
             /\ Kin(cap'[c], cap[c]) /\ cap'[c].end = cap[c].end /\ cap[c].pend \in [Streams -> Seq(Rows)]
             /\ Gains(cap'[c], cap[c], row)
  <2>1. PICK k, m, d, k2 : k = cap[c] /\ m = db.meta[c] /\ d = disk[c] /\ k2 = cap'[c]
    OBVIOUS
  <2>2. DOMAIN k = DOMAIN Unborn /\ k.trig \in Int /\ k.end \in Int
    BY <2>1, ShapeIs
  <2>3. Held(k, m, d, seen) /\ Windowed(k, m) /\ HasWindow(k, m, seen) /\ EndsWell(k, m, seen, hand, now)
    BY <2>1 DEF RowsInv, StoreInv, Captured
  <2>4. k2 = IF Covered(k, row) THEN Queued(k, row) ELSE k
    BY <1>4, <2>1
  <2>5. /\ Held(k2, m, d, seen') /\ Windowed(k2, m) /\ HasWindow(k2, m, seen') /\ EndsWell(k2, m, seen', Nothing, now)
        /\ Kin(k2, k) /\ k2.end = k.end /\ Gains(k2, k, row)
    <3>1. PICK obs, obs2, h, time : obs = seen /\ obs2 = seen' /\ h = hand /\ time = now
      OBVIOUS
    <3>2. /\ Held(k, m, d, obs) /\ Windowed(k, m) /\ HasWindow(k, m, obs) /\ EndsWell(k, m, obs, h, time)
          /\ obs \subseteq Rows /\ row \notin obs /\ obs2 = obs \cup {row}
          /\ h.what = "row" /\ h.s = row.s /\ h.t = row.t
      BY <1>1, <1>2, <1>3, <2>3, <3>1
    <3>3. /\ Held(k2, m, d, obs2) /\ Windowed(k2, m) /\ HasWindow(k2, m, obs2) /\ EndsWell(k2, m, obs2, Nothing, time)
          /\ Kin(k2, k) /\ k2.end = k.end /\ Gains(k2, k, row)
      BY <1>3, <2>2, <2>4, <3>2, CaptureObserves
    <3> QED BY <3>1, <3>3
  <2>6. k.pend \in [Streams -> Seq(Rows)]
    BY <2>3 DEF Held
  <2> QED BY <2>1, <2>5, <2>6
<1>6. StoreInv'
  BY <1>2, <1>5 DEF RowsInv, StoreInv, Captured
<1>7. FlushInv'
  <2>1. InCaptures' = InCaptures
    BY <1>2 DEF InCaptures
  <2> SUFFICES ASSUME NEW t \in InCaptures PROVE Timely(th[t], Nothing, now) /\ Working(t, th[t], cap')
    BY <1>2, <2>1 DEF RowsInv, FlushInv
  <2>2. PICK w : w = th[t]
    OBVIOUS
  <2>3. Timely(w, hand, now) /\ Working(t, w, cap) /\ w.ts \in Int
    BY <2>2, ShapeIs DEF RowsInv, FlushInv, InCaptures
  <2>4. Timely(w, Nothing, now)
    BY <2>3 DEF Timely, Nothing
  <2>5. row.t <= w.ts => Same(w.held, row)
    BY <1>2, <1>3, <2>3 DEF Timely, Same
  <2>6. \A c \in Caps : /\ cap'[c].state = cap[c].state /\ (\A j : Copy(j, cap[c]) => Copy(j, cap'[c]))
                        /\ (Spared(t, w, c, cap[c]) => Spared(t, w, c, cap'[c]))
    <3> SUFFICES ASSUME NEW c \in Caps
                 PROVE  /\ cap'[c].state = cap[c].state /\ (\A j : Copy(j, cap[c]) => Copy(j, cap'[c]))
                        /\ (Spared(t, w, c, cap[c]) => Spared(t, w, c, cap'[c]))
      OBVIOUS
    <3>1. PICK k, k2 : k = cap[c] /\ k2 = cap'[c]
      OBVIOUS
    <3>2. /\ k2.state = k.state /\ k2.seq = k.seq /\ k2.end = k.end /\ k.pend \in [Streams -> Seq(Rows)]
          /\ Gains(k2, k, row)
      BY <1>5, <3>1 DEF Kin
    <3>3. ASSUME NEW j, Copy(j, k) PROVE Copy(j, k2)
      BY <1>3, <3>2, <3>3, CopyGrows
    <3>4. Spared(t, w, c, k) => Spared(t, w, c, k2)
      BY <1>3, <2>3, <2>5, <3>2, SparedGrows
    <3> QED BY <3>1, <3>2, <3>3, <3>4
  <2>7. Working(t, w, cap')
    BY <2>3, <2>6, WorkingStill
  <2> QED BY <2>2, <2>4, <2>7
<1> QED BY <1>6, <1>7, ObserveLoop DEF RowsInv

----------------------------------------------------------------------------
(* An event is noticed: a capture goes on for longer, or one opens.          *)

\* One capture changes, and not what the thread has copied of it.
LEMMA OneChanges ==
  ASSUME Inv, Inv', RowsInv, NEW c \in Caps, UNCHANGED <<now, seen, recent, th, db, disk>>,
         hand'.what = "event", \A e \in Caps : e # c => cap'[e] = cap[e],
         Held(cap'[c], db.meta[c], disk[c], seen), Windowed(cap'[c], db.meta[c]), HasWindow(cap'[c], db.meta[c], seen),
         cap'[c].state = "active",
         cap[c].state = "none" \/
           (/\ cap[c].state = "active"
            /\ (\A j : Copy(j, cap[c]) => Copy(j, cap'[c]))
            /\ \A t \in InCaptures : Spared(t, th[t], c, cap[c]) => Spared(t, th[t], c, cap'[c]))
  PROVE  RowsInv'
<1>1. now \in Int /\ now <= now /\ HandOn(hand, hand', now) /\ Observing(hand', seen, now)
  BY ShapeIs DEF HandOn, Observing
<1>2. LoopInv'
  BY <1>1 DEF RowsInv, LoopInv
<1>3. ASSUME NEW e \in Caps PROVE Captured(e)'
  <2>1. CASE e = c
    <3>1. EndsWell(cap'[c], db.meta[c], seen, hand', now)
      BY DEF EndsWell
    <3> QED BY <2>1, <3>1 DEF Captured
  <2>2. CASE e # c
    <3>1. Captured(e) /\ cap'[e] = cap[e] /\ cap[e].end \in Int
      BY <2>2, ShapeIs DEF RowsInv, StoreInv
    <3>2. EndsWell(cap[e], db.meta[e], seen, hand', now)
      BY <1>1, <3>1, EndsWellStill DEF Captured
    <3> QED BY <3>1, <3>2 DEF Captured
  <2> QED BY <2>1, <2>2
<1>4. StoreInv'
  BY <1>3 DEF RowsInv, StoreInv
<1>5. FlushInv'
  <2>1. InCaptures' = InCaptures
    BY DEF InCaptures
  <2> SUFFICES ASSUME NEW t \in InCaptures PROVE Timely(th[t], hand', now) /\ Working(t, th[t], cap')
    BY <2>1 DEF RowsInv, FlushInv
  <2>2. Timely(th[t], hand, now) /\ Working(t, th[t], cap) /\ th[t].ts \in Int
    BY ShapeIs DEF RowsInv, FlushInv, InCaptures
  <2>3. \A e \in Caps : cap[e].state = "none" \/ (cap'[e].state = cap[e].state
           /\ (\A j : Copy(j, cap[e]) => Copy(j, cap'[e])) /\ (Spared(t, th[t], e, cap[e]) => Spared(t, th[t], e, cap'[e])))
    OBVIOUS
  <2> QED BY <1>1, <2>2, <2>3, TimelyStill, WorkingStill
<1> QED BY <1>2, <1>4, <1>5 DEF RowsInv

LEMMA Noticed ==
  ASSUME Inv, Notice
  PROVE  /\ hand.what = "seen" /\ hand'.what = "event" /\ UNCHANGED <<now, seen, recent, th, db, disk>>
         /\ \/ cap' = cap
            \/ \E c \in Caps : cap[c].state = "active" /\ hand.t <= cap[c].end /\
                 cap' = [cap EXCEPT ![c].end = Later(cap[c], hand.t), ![c].aged = @ \/ hand.t < now]
            \/ \E c \in Caps : cap[c].state = "none" /\
                 \E new \in Opening(Trigger[hand.s], hand.t) : cap' = [cap EXCEPT ![c] = new]
<1> DEFINE next == LeastOf({c \in Caps : cap[c].state = "none"})
           sc == Trigger[hand.s]
           same == {c \in Active : cap[c].scope = sc /\ hand.t <= cap[c].end}
<1>1. /\ hand.what = "seen" /\ UNCHANGED <<now, seen, recent, th, db, disk>>
      /\ \E caps : hand' = [hand EXCEPT !.what = "event", !.caps = caps]
      /\ \/ cap' = cap
         \/ \E c \in same : cap' = [cap EXCEPT ![c].end = Later(cap[c], hand.t), ![c].aged = @ \/ hand.t < now]
         \/ \E new \in Opening(sc, hand.t) : cap' = [cap EXCEPT ![next] = new]
  BY DEF Notice, storage
<1>2. hand'.what = "event"
  BY <1>1, ShapeIs, Domains
<1>3. \A c \in same : c \in Caps /\ cap[c].state = "active" /\ hand.t <= cap[c].end
  BY DEF Active
<1>4. next \in Caps /\ cap[next].state = "none"
  BY <1>1, NextIs DEF Inv
<1> HIDE DEF next, same
<1> QED BY <1>1, <1>2, <1>3, <1>4

LEMMA RowsExtend ==
  ASSUME Inv, Inv', RowsInv, NEW c \in Caps, cap[c].state = "active", hand.t <= cap[c].end,
         cap' = [cap EXCEPT ![c].end = Later(cap[c], hand.t), ![c].aged = @ \/ hand.t < now],
         hand.what = "seen", hand'.what = "event", UNCHANGED <<now, seen, recent, th, db, disk>>
  PROVE  RowsInv'
<1>1. PICK k, m, d, t, k2 : k = cap[c] /\ m = db.meta[c] /\ d = disk[c] /\ t = hand.t /\ k2 = cap'[c]
  OBVIOUS
<1>2. /\ t \in Int /\ now \in Int /\ k.trig \in Int /\ k.end \in Int /\ DOMAIN k = DOMAIN Unborn
      /\ Held(k, m, d, seen) /\ Windowed(k, m) /\ HasWindow(k, m, seen)
      /\ seen \subseteq Rows /\ \A r \in seen : r.t <= now
  BY <1>1, ShapeIs DEF RowsInv, StoreInv, Captured, LoopInv, Noted
<1>3. /\ Kin(k2, k) /\ k2.pend = k.pend /\ k2.dropped = k.dropped /\ k2.end = Later(k, t) /\ (k.aged => k2.aged) /\ (t < now => k2.aged)
      /\ k2.state = "active" /\ k.state = "active"
  <2>1. PICK end, aged : end = Later(k, t) /\ aged = (k.aged \/ t < now)
    OBVIOUS
  <2>2. k2 = [k EXCEPT !.end = end, !.aged = aged]
    BY <1>1, <2>1, ShapeIs
  <2>3. (k.aged => aged) /\ (t < now => aged)
    BY <2>1, Zenon
  <2>4. Kin(k2, k) /\ k2.pend = k.pend /\ k2.dropped = k.dropped /\ k2.end = end /\ k2.aged = aged /\ k2.state = k.state
    BY <1>2, <2>2, Domains DEF Kin
  <2> QED BY <1>1, <2>1, <2>3, <2>4
<1>4. k.end <= k.trig + Span
  BY <1>2, <1>3 DEF Held
<1>5. k2.end \in Int /\ k.end <= k2.end /\ k2.end <= k.trig + Span
  BY <1>2, <1>3, <1>4, LaterIs
<1>6. Prolongs(k2, k, t, now, seen)
  BY <1>1, <1>2, <1>3, <1>5 DEF Prolongs
<1>7. Held(k2, m, d, seen) /\ Windowed(k2, m) /\ HasWindow(k2, m, seen)
  BY <1>2, <1>3, <1>6, CaptureExtends
<1>8. ASSUME NEW j, Copy(j, k) PROVE Copy(j, k2)
  BY <1>3, <1>8 DEF Copy, Kin
<1>9. ASSUME NEW u \in InCaptures, Spared(u, th[u], c, k) PROVE Spared(u, th[u], c, k2)
  <2>1. th[u].ts \in Int
    BY ShapeIs DEF InCaptures
  <2> QED BY <1>2, <1>3, <1>5, <1>9, <2>1, SparedExtends
<1>10. \A e \in Caps : e # c => cap'[e] = cap[e]
  BY ShapeIs
<1> QED BY <1>1, <1>3, <1>7, <1>8, <1>9, <1>10, OneChanges

LEMMA RowsOpen ==
  ASSUME Inv, Inv', RowsInv, NEW c \in Caps, cap[c].state = "none", NEW sc, NEW k \in Opening(sc, hand.t),
         cap' = [cap EXCEPT ![c] = k],
         hand.what = "seen", hand'.what = "event", UNCHANGED <<now, seen, recent, th, db, disk>>
  PROVE  RowsInv'
<1>1. PICK k0, m, d, t : k0 = cap[c] /\ m = db.meta[c] /\ d = disk[c] /\ t = hand.t
  OBVIOUS
<1>2. /\ t \in Int /\ now \in Int /\ t <= now
      /\ Held(k0, m, d, seen) /\ AtHand(recent, seen, now) /\ seen \subseteq Rows /\ \A r \in seen : r.t <= now
  BY <1>1, ShapeIs DEF RowsInv, StoreInv, Captured, LoopInv, Noted, Observing
<1>3. /\ k.state = "active" /\ k.scope = sc /\ k.trig = t /\ k.end = t + Post /\ (t < now => k.aged)
      /\ k.seq = [s \in Streams |-> 0]
  BY <1>1, OpeningIs
<1>4. PICK rows : rows = Recovered(sc, t)
  OBVIOUS
<1>5. PICK room \in [Streams -> 0 .. PendingMax] : Fill(k, rows, room)
  BY <1>1, <1>4, OpeningIs
<1>6. rows = Prior(recent, Covers[k.scope], t)
  BY <1>3, <1>4 DEF Recovered, Prior
<1>7. ~k.aged => now <= t
  BY <1>2, <1>3
<1>8. Held(k, m, d, seen) /\ Windowed(k, m) /\ HasWindow(k, m, seen)
  BY <1>1, <1>2, <1>3, <1>5, <1>6, <1>7, CaptureOpens
<1>9. cap'[c] = k /\ \A e \in Caps : e # c => cap'[e] = cap[e]
  BY ShapeIs
<1> QED BY <1>1, <1>3, <1>8, <1>9, OneChanges

LEMMA RowsNotice == ASSUME Inv, Inv', RowsInv, Notice PROVE RowsInv'
<1>1. hand.what = "seen" /\ hand'.what = "event" /\ UNCHANGED <<now, seen, recent, th, db, disk>>
  BY Noticed
<1>2. CASE cap' = cap
  <2>1. now <= now /\ HandOn(hand, hand', now) /\ Observing(hand', seen, now)
    BY <1>1, ShapeIs DEF HandOn, Observing
  <2>2. \A u \in InCaptures' : u \in InCaptures /\ th'[u] = th[u]
    BY <1>1 DEF InCaptures
  <2> QED BY <1>1, <1>2, <2>1, <2>2, RowsStill
<1> QED BY <1>1, <1>2, Noticed, RowsExtend, RowsOpen

----------------------------------------------------------------------------
(* The thread writes captures.                                               *)

\* What is due is copied.
LEMMA JobsAre ==
  ASSUME Inv, RowsInv, NEW t
  PROVE  /\ \A j \in Jobs(t) : j.cap \in Caps /\ Copy(j, cap[j.cap])
         /\ \A j, l \in Jobs(t) : l.cap = j.cap /\ l.s = j.s => l = j
         /\ \A c \in Active, s \in Streams : cap[c].pend[s] # <<>> /\ Over(c, t) =>
              \E j \in Jobs(t) : j.cap = c /\ j.s = s /\ j.rows = cap[c].pend[s]
<1>1. \A x \in Pieces(t) : x[1] \in Caps /\ cap[x[1]].state = "active" /\ x[2] \in Streams
  BY DEF Pieces, Active
<1>2. \A j \in Jobs(t) : \E x \in Pieces(t) :
        j.cap = x[1] /\ j.s = x[2] /\ j.rows = cap[x[1]].pend[x[2]] /\ j.k = cap[x[1]].seq[x[2]] + 1
  BY DEF Jobs
<1>3. \A c \in Caps : cap[c].pend \in [Streams -> Seq(Rows)]
  BY DEF RowsInv, StoreInv, Captured, Held
<1>4. ASSUME NEW j \in Jobs(t) PROVE j.cap \in Caps /\ Copy(j, cap[j.cap])
  <2>1. PICK x \in Pieces(t) :
          j.cap = x[1] /\ j.s = x[2] /\ j.rows = cap[x[1]].pend[x[2]] /\ j.k = cap[x[1]].seq[x[2]] + 1
    BY <1>2
  <2>2. PICK q : q = j.rows
    OBVIOUS
  <2>3. q \in Seq(Rows) /\ q = cap[j.cap].pend[j.s]
    BY <1>1, <1>3, <2>1, <2>2
  <2>4. Len(q) <= Len(q)
    BY <2>3, RowSeq
  <2> QED BY <1>1, <2>1, <2>2, <2>3, <2>4 DEF Copy
<1>5. ASSUME NEW j \in Jobs(t), NEW l \in Jobs(t), l.cap = j.cap, l.s = j.s PROVE l = j
  <2>1. PICK x \in Pieces(t) :
          j = [cap |-> x[1], s |-> x[2], rows |-> cap[x[1]].pend[x[2]], k |-> cap[x[1]].seq[x[2]] + 1]
    BY DEF Jobs
  <2>2. PICK y \in Pieces(t) :
          l = [cap |-> y[1], s |-> y[2], rows |-> cap[y[1]].pend[y[2]], k |-> cap[y[1]].seq[y[2]] + 1]
    BY DEF Jobs
  <2>3. x[1] = y[1] /\ x[2] = y[2]
    BY <1>5, <2>1, <2>2
  <2> QED BY <2>1, <2>2, <2>3
<1>6. ASSUME NEW c \in Active, NEW s \in Streams, cap[c].pend[s] # <<>>, Over(c, t)
      PROVE  \E j \in Jobs(t) : j.cap = c /\ j.s = s /\ j.rows = cap[c].pend[s]
  <2>1. PICK x : x = <<c, s>>
    OBVIOUS
  <2>2. x[1] = c /\ x[2] = s /\ x \in Active \X Streams
    BY <2>1
  <2>3. x \in Pieces(t)
    BY <1>6, <2>2 DEF Pieces, Due
  <2> DEFINE j == [cap |-> x[1], s |-> x[2], rows |-> cap[x[1]].pend[x[2]], k |-> cap[x[1]].seq[x[2]] + 1]
  <2>4. j \in Jobs(t)
    BY <2>3 DEF Jobs
  <2>5. j.cap = c /\ j.s = s /\ j.rows = cap[c].pend[s]
    BY <2>2
  <2> QED BY <2>4, <2>5
<1> QED BY <1>4, <1>5, <1>6

LEMMA RowsFlush == ASSUME Inv, Inv', RowsInv, NEW t \in Threads, FlushCaptures(t) PROVE RowsInv'
<1>1. UNCHANGED <<cap, seen, recent, disk, hand, db>>
  BY DEF FlushCaptures, loop, storage
<1>2. now \in Int /\ Horizon \in Int
  BY ShapeIs, Bounds
<1>3. CASE Goes(t, "idle") /\ now' = now
  <2>1. \A u \in InCaptures' : u \in InCaptures /\ th'[u] = th[u]
    BY <1>3, GoesElsewhere
  <2> QED BY <1>1, <1>2, <1>3, <2>1, SameHand, RowsStill
<1>4. CASE /\ InCaptures = {} /\ now' = Onward
           /\ th' = [th EXCEPT ![t].pc = "chunks", ![t].ts = now, ![t].jobs = Jobs(t), ![t].held = hand, ![t].known = Active]
  <2>1. now' \in Int /\ now <= now' /\ (now < now' \/ Horizon <= now')
    BY <1>2, <1>4 DEF Onward
  <2>2. HandOn(hand, hand', now) /\ Observing(hand', seen, now')
    BY <1>1, <2>1, SameHand
  <2>3. LoopInv'
    <3>1. Noted(seen, now') /\ AtHand(recent, seen, now')
      BY <1>2, <2>1, AtHandStill DEF RowsInv, LoopInv
    <3> QED BY <1>1, <2>2, <3>1 DEF LoopInv
  <2>4. StoreInv'
    BY <1>1, <2>1, <2>2, StoreStill DEF RowsInv
  <2>5. PICK w : w = th'[t]
    OBVIOUS
  <2>6. /\ w.pc = "chunks" /\ w.ts = now /\ w.jobs = Jobs(t) /\ w.held = hand /\ w.known = Active
        /\ \A u \in Threads : u # t => th'[u] = th[u]
    BY <1>4, <2>5, ShapeIs, Domains
  <2>7. InCaptures' = {t}
    BY <1>4, <2>5, <2>6 DEF InCaptures
  <2>8. Timely(w, hand, now')
    BY <2>1, <2>6 DEF Timely, Same
  <2>9. ASSUME NEW c \in Active PROVE Spared(t, w, c, cap[c])
    <3> SUFFICES ASSUME t = "quit" \/ cap[c].end <= w.ts, NEW s \in Streams, NEW r \in Elements(cap[c].pend[s])
                 PROVE  Copied(w, c, s, r)
      BY <2>6 DEF Spared
    <3>1. Over(c, t)
      BY <1>2, <2>6, ShapeIs DEF Over, Active
    <3>2. cap[c].pend[s] # <<>>
      BY DEF Elements
    <3>3. PICK j \in Jobs(t) : j.cap = c /\ j.s = s /\ j.rows = cap[c].pend[s]
      BY <3>1, <3>2, JobsAre
    <3> QED BY <2>6, <3>3 DEF Copied
  <2>10. Working(t, w, cap)
    <3>1. \A c \in w.known : c \in Caps /\ cap[c].state # "none"
      BY <2>6 DEF Active
    <3> QED BY <2>6, <2>9, <3>1, JobsAre DEF Working
  <2>11. FlushInv'
    BY <1>1, <2>5, <2>7, <2>8, <2>10 DEF FlushInv
  <2> QED BY <2>3, <2>4, <2>11 DEF RowsInv
<1> QED BY <1>3, <1>4 DEF FlushCaptures

\* The thread t goes on with the captures as w: it is the only one.
LEMMA OneThread ==
  ASSUME Inv, FlushInv, NEW t \in InCaptures, NEW w, \A u \in Threads : u # t => th'[u] = th[u],
         th'[t] = w, Timely(w, hand', now'), Working(t, w, cap')
  PROVE  FlushInv'
<1>1. \A u \in InCaptures' : u = t
  BY DEF InCaptures, FlushInv
<1> QED BY <1>1 DEF FlushInv

\* The thread has one file less to write.
Less(w2, w, j) ==
  /\ w.pc # "finish" /\ j \in w.jobs /\ w2.jobs = w.jobs \ {j}
  /\ w2.ts = w.ts /\ w2.held = w.held /\ w2.pc = w.pc /\ w2.fins = w.fins /\ w2.known = w.known

LEMMA WorkingWrites ==
  ASSUME NEW t, NEW w, NEW w2, NEW f, NEW f2, NEW j, Working(t, w, f), Less(w2, w, j),
         \A e \in Caps : e # j.cap => f2[e] = f[e], Wrote(f2[j.cap], f[j.cap], j)
  PROVE  Working(t, w2, f2)
<1> USE DEF Wrote, Less
<1>1. /\ \A i \in w.jobs : i.cap \in Caps /\ Copy(i, f[i.cap])
      /\ \A i, l \in w.jobs : l.cap = i.cap /\ l.s = i.s => l = i
      /\ \A c \in w.known : c \in Caps /\ f[c].state # "none" /\ (f[c].state = "active" => Spared(t, w, c, f[c]))
  BY DEF Working
<1>2. ASSUME NEW i \in w2.jobs PROVE i.cap \in Caps /\ Copy(i, f2[i.cap])
  <2>1. i \in w.jobs /\ i # j
    OBVIOUS
  <2>2. CASE i.cap # j.cap
    BY <1>1, <2>1, <2>2
  <2>3. CASE i.cap = j.cap
    <3>1. i.s # j.s
      BY <1>1, <2>1, <2>3
    <3>2. Copy(i, f[j.cap])
      BY <1>1, <2>1, <2>3
    <3>3. i.s \in Streams
      BY <3>2 DEF Copy
    <3>4. Copy(i, f2[j.cap])
      BY <3>1, <3>2, <3>3 DEF Copy
    <3> QED BY <1>1, <2>1, <2>3, <3>4
  <2> QED BY <2>2, <2>3
<1>3. \A i, l \in w2.jobs : l.cap = i.cap /\ l.s = i.s => l = i
  BY <1>1
<1>4. ASSUME NEW c \in w2.known PROVE c \in Caps /\ f2[c].state # "none" /\ (f2[c].state = "active" => Spared(t, w2, c, f2[c]))
  <2>1. c \in w.known
    OBVIOUS
  <2>2. CASE c = j.cap
    <3>1. f[c].state = "active"
      BY <1>1, <2>2 DEF Copy
    <3>2. Spared(t, w, c, f[c])
      BY <1>1, <2>1, <3>1
    <3>3. Spared(t, w2, c, f2[c])
      BY <1>1, <2>2, <3>2, SparedWrites
    <3> QED BY <1>1, <2>1, <2>2, <3>3
  <2>3. CASE c # j.cap
    <3>1. f2[c] = f[c] /\ c \in Caps /\ f[c].state # "none" /\ (f[c].state = "active" => Spared(t, w, c, f[c]))
      BY <1>1, <2>1, <2>3
    <3>2. f[c].state = "active" => Spared(t, w2, c, f[c])
      BY <2>3, <3>1, SparedElsewhere
    <3> QED BY <3>1, <3>2
  <2> QED BY <2>2, <2>3
<1>5. w2.pc # "finish"
  OBVIOUS
<1> QED BY <1>2, <1>3, <1>4, <1>5 DEF Working

LEMMA RowsWrite == ASSUME Inv, Inv', RowsInv, NEW t \in Threads, WriteChunk(t) PROVE RowsInv'
<1>1. UNCHANGED <<now, hand, seen, recent>> /\ th[t].pc = "chunks" /\ t \in InCaptures
  BY DEF WriteChunk, loop, InCaptures
<1>2. PICK j \in th[t].jobs :
        /\ disk' = [disk EXCEPT ![j.cap][j.s] = Put(@, j.k, j.rows)]
        /\ db' = [db EXCEPT !.meta[j.cap][j.s] = Put(@, j.k, j.rows)]
        /\ cap' = [cap EXCEPT ![j.cap] = Chunked(@, j, th[t].ts)]
        /\ th' = [th EXCEPT ![t].jobs = @ \ {j}]
  BY DEF WriteChunk
<1>3. PICK c, k, m, d, w : c = j.cap /\ k = cap[c] /\ m = db.meta[c] /\ d = disk[c] /\ w = th[t]
  OBVIOUS
<1>4. PICK k2, m2, d2, w2 : k2 = cap'[c] /\ m2 = db'.meta[c] /\ d2 = disk'[c] /\ w2 = th'[t]
  OBVIOUS
<1>5. Timely(w, hand, now) /\ Working(t, w, cap)
  BY <1>1, <1>3 DEF RowsInv, FlushInv
<1>6. c \in Caps /\ Copy(j, k) /\ j.s \in Streams
  BY <1>2, <1>3, <1>5 DEF Working, Copy
<1>7. /\ DOMAIN k = DOMAIN Unborn /\ seen \subseteq Rows
      /\ Held(k, m, d, seen) /\ Windowed(k, m) /\ HasWindow(k, m, seen)
      /\ db.meta \in [Caps -> [Streams -> Seq(Seq(Rows))]] /\ disk \in [Caps -> [Streams -> Seq(Seq(Rows))]]
      /\ m \in [Streams -> Seq(Seq(Rows))] /\ d \in [Streams -> Seq(Seq(Rows))]
  BY <1>3, <1>6, ShapeIs DEF RowsInv, StoreInv, Captured, LoopInv, Noted
<1>8. db'.meta = [db.meta EXCEPT ![c][j.s] = Put(@, j.k, j.rows)]
  BY <1>2, <1>3, ShapeIs
<1>9. Files(m2, m, j) /\ DOMAIN db'.meta = Caps /\ \A e \in Caps : e # c => db'.meta[e] = db.meta[e]
  <2>1. Files(m2, m, j)
    BY <1>3, <1>4, <1>6, <1>7, <1>8 DEF Files
  <2> QED BY <1>6, <1>7, <1>8, <2>1
<1>10. Files(d2, d, j) /\ DOMAIN disk' = Caps /\ \A e \in Caps : e # c => disk'[e] = disk[e]
  <2>1. disk' = [disk EXCEPT ![c][j.s] = Put(@, j.k, j.rows)]
    BY <1>2, <1>3
  <2>2. Files(d2, d, j)
    BY <1>3, <1>4, <1>6, <1>7, <2>1 DEF Files
  <2> QED BY <1>6, <1>7, <2>1, <2>2
<1>11. k2 = Chunked(k, j, w.ts) /\ \A e \in Caps : e # c => cap'[e] = cap[e]
  BY <1>2, <1>3, <1>4, <1>6, ShapeIs
<1>12. /\ Held(k2, m2, d2, seen) /\ Windowed(k2, m2) /\ HasWindow(k2, m2, seen)
       /\ m2 \in [Streams -> Seq(Seq(Rows))] /\ d2 \in [Streams -> Seq(Seq(Rows))]
       /\ Wrote(k2, k, j)
  <2>1. PICK obs, ts : obs = seen /\ ts = w.ts
    OBVIOUS
  <2>2. /\ DOMAIN k = DOMAIN Unborn /\ obs \subseteq Rows /\ Held(k, m, d, obs) /\ HasWindow(k, m, obs)
        /\ k2 = Chunked(k, j, ts) /\ Files(m2, m, j) /\ Files(d2, d, j)
    BY <1>7, <1>9, <1>10, <1>11, <2>1
  <2>3. /\ Held(k2, m2, d2, obs) /\ Windowed(k2, m2) /\ HasWindow(k2, m2, obs)
        /\ m2 \in [Streams -> Seq(Seq(Rows))] /\ d2 \in [Streams -> Seq(Seq(Rows))]
        /\ Wrote(k2, k, j)
    BY <1>6, <1>7, <2>2, CaptureWrites
  <2> QED BY <2>1, <2>3
<1>13. StoreInv'
  <2>1. db'.meta = [e \in Caps |-> db'.meta[e]] /\ disk' = [e \in Caps |-> disk'[e]]
    BY <1>2, <1>7, <1>8
  <2>2. db'.meta \in [Caps -> [Streams -> Seq(Seq(Rows))]] /\ disk' \in [Caps -> [Streams -> Seq(Seq(Rows))]]
    <3>1. ASSUME NEW e \in Caps PROVE db'.meta[e] \in [Streams -> Seq(Seq(Rows))] /\ disk'[e] \in [Streams -> Seq(Seq(Rows))]
      <4>1. CASE e = c
        BY <1>4, <1>12, <4>1
      <4>2. CASE e # c
        BY <1>7, <1>9, <1>10, <4>2
      <4> QED BY <4>1, <4>2
    <3> QED BY <2>1, <3>1
  <2>3. ASSUME NEW e \in Caps PROVE Captured(e)'
    <3>1. CASE e = c
      <4>1. EndsWell(k2, m2, seen, hand, now)
        BY <1>12 DEF EndsWell, Wrote
      <4> QED BY <1>1, <1>4, <1>12, <3>1, <4>1 DEF Captured
    <3>2. CASE e # c
      BY <1>1, <1>9, <1>10, <1>11, <3>2 DEF RowsInv, StoreInv, Captured
    <3> QED BY <3>1, <3>2
  <2> QED BY <2>2, <2>3 DEF StoreInv
<1>14. FlushInv'
  <2>1. Less(w2, w, j) /\ \A u \in Threads : u # t => th'[u] = th[u]
    BY <1>1, <1>2, <1>3, <1>4, ShapeIs, Domains DEF Less
  <2>2. Timely(w2, hand', now')
    BY <1>1, <1>5, <2>1 DEF Timely, Less
  <2>3. PICK f, f2 : f = cap /\ f2 = cap'
    OBVIOUS
  <2>4. Working(t, w, f) /\ Wrote(f2[j.cap], f[j.cap], j) /\ \A e \in Caps : e # j.cap => f2[e] = f[e]
    BY <1>3, <1>4, <1>5, <1>11, <1>12, <2>3
  <2>5. Working(t, w2, f2)
    BY <2>1, <2>4, WorkingWrites
  <2>6. Working(t, w2, cap')
    BY <2>3, <2>5
  <2> QED BY <1>1, <1>4, <2>1, <2>2, <2>6, OneThread DEF RowsInv
<1>15. LoopInv'
  BY <1>1 DEF RowsInv, LoopInv
<1> QED BY <1>13, <1>14, <1>15 DEF RowsInv

LEMMA RowsChunkFails == ASSUME Inv, Inv', RowsInv, NEW t \in Threads, ChunkFails(t) PROVE RowsInv'
<1>1. UNCHANGED <<now, hand, seen, recent, cap, db>> /\ th[t].pc = "chunks" /\ t \in InCaptures /\ Abort(t)
  BY DEF ChunkFails, loop, InCaptures
<1>2. PICK j \in th[t].jobs : disk' = disk \/ disk' = [disk EXCEPT ![j.cap][j.s] = Put(@, j.k, j.rows)]
  BY DEF ChunkFails
<1>3. \A u \in InCaptures' : u \in InCaptures /\ th'[u] = th[u]
  BY <1>1, GoesElsewhere DEF Abort
<1>4. now <= now /\ HandOn(hand, hand', now) /\ Observing(hand', seen, now')
  BY <1>1, SameHand, ShapeIs
<1>5. CASE disk' = disk
  BY <1>1, <1>3, <1>4, <1>5, RowsStill
<1>6. CASE disk' = [disk EXCEPT ![j.cap][j.s] = Put(@, j.k, j.rows)]
  <2>1. PICK c, k, m, d, d2 : c = j.cap /\ k = cap[c] /\ m = db.meta[c] /\ d = disk[c] /\ d2 = disk'[c]
    OBVIOUS
  <2>2. c \in Caps /\ Copy(j, k) /\ j.s \in Streams
    BY <1>1, <1>2, <2>1 DEF RowsInv, FlushInv, Working, Copy
  <2>3. /\ Held(k, m, d, seen) /\ d \in [Streams -> Seq(Seq(Rows))]
        /\ disk \in [Caps -> [Streams -> Seq(Seq(Rows))]] /\ db.meta \in [Caps -> [Streams -> Seq(Seq(Rows))]]
    BY <2>1, <2>2 DEF RowsInv, StoreInv, Captured
  <2>4. Files(d2, d, j) /\ DOMAIN disk' = Caps /\ \A e \in Caps : e # c => disk'[e] = disk[e]
    <3>1. disk' = [disk EXCEPT ![c][j.s] = Put(@, j.k, j.rows)]
      BY <1>6, <2>1
    <3>2. Files(d2, d, j)
      BY <2>1, <2>2, <2>3, <3>1 DEF Files
    <3> QED BY <2>3, <3>1, <3>2
  <2>5. Held(k, m, d2, seen) /\ d2 \in [Streams -> Seq(Seq(Rows))]
    BY <2>2, <2>3, <2>4, CaptureFiles
  <2>6. disk' = [e \in Caps |-> disk'[e]]
    BY <1>6, <2>3
  <2>7. disk' \in [Caps -> [Streams -> Seq(Seq(Rows))]]
    <3>1. ASSUME NEW e \in Caps PROVE disk'[e] \in [Streams -> Seq(Seq(Rows))]
      <4>1. CASE e = c
        BY <2>1, <2>5, <4>1
      <4>2. CASE e # c
        BY <2>3, <2>4, <4>2
      <4> QED BY <4>1, <4>2
    <3> QED BY <2>6, <3>1
  <2>8. ASSUME NEW e \in Caps PROVE Captured(e)'
    <3>1. CASE e = c
      BY <1>1, <2>1, <2>5, <3>1 DEF RowsInv, StoreInv, Captured
    <3>2. CASE e # c
      BY <1>1, <2>4, <3>2 DEF RowsInv, StoreInv, Captured
    <3> QED BY <3>1, <3>2
  <2>9. StoreInv'
    BY <1>1, <2>3, <2>7, <2>8 DEF StoreInv
  <2>10. FlushInv'
    BY <1>1, <1>3, <1>4, FlushStill DEF RowsInv
  <2>11. LoopInv'
    BY <1>1 DEF RowsInv, LoopInv
  <2> QED BY <2>9, <2>10, <2>11 DEF RowsInv
<1> QED BY <1>2, <1>5, <1>6

LEMMA RowsPick == ASSUME Inv, Inv', RowsInv, NEW t \in Threads, PickFinished(t) PROVE RowsInv'
<1>1. UNCHANGED <<now, hand, seen, recent, cap, db, disk>> /\ th[t].pc = "chunks" /\ t \in InCaptures
  BY DEF PickFinished, loop, storage, InCaptures
<1>2. PICK w, w2 : w = th[t] /\ w2 = th'[t]
  OBVIOUS
<1>3. Timely(w, hand, now) /\ Working(t, w, cap) /\ w.jobs = {} /\ w.pc = "chunks"
  BY <1>1, <1>2 DEF RowsInv, FlushInv, PickFinished
<1>4. /\ w2.ts = w.ts /\ w2.held = w.held /\ w2.jobs = w.jobs /\ w2.known = w.known /\ w2.pc = "finish"
      /\ w2.fins = {c \in Active : Ended(c, t)}
      /\ \A u \in Threads : u # t => th'[u] = th[u]
  BY <1>2, ShapeIs, Domains DEF PickFinished
<1>5. ASSUME NEW c \in w.known PROVE c \in Caps /\ cap[c].state # "none" /\ (cap[c].state = "active" => Spared(t, w2, c, cap[c]))
  <2>1. c \in Caps /\ cap[c].state # "none" /\ (cap[c].state = "active" => Spared(t, w, c, cap[c]))
    BY <1>3 DEF Working
  <2>2. c \in w2.fins => t = "quit" \/ cap[c].end <= w.ts
    BY <1>2, <1>4, <2>1, ShapeIs DEF Ended
  <2>3. Spared(t, w, c, cap[c]) => Spared(t, w2, c, cap[c])
    BY <1>3, <1>4, <2>2 DEF Spared, Copied
  <2> QED BY <2>1, <2>3
<1>6. Working(t, w2, cap)
  BY <1>3, <1>4, <1>5 DEF Working, Active
<1>7. Timely(w2, hand, now)
  BY <1>3, <1>4 DEF Timely
<1>8. FlushInv'
  BY <1>1, <1>2, <1>4, <1>6, <1>7, OneThread DEF RowsInv
<1>9. now <= now /\ HandOn(hand, hand', now)
  BY <1>1, SameHand, ShapeIs
<1>10. StoreInv'
  BY <1>1, <1>9, StoreStill DEF RowsInv
<1>11. LoopInv'
  BY <1>1 DEF RowsInv, LoopInv
<1> QED BY <1>8, <1>10, <1>11 DEF RowsInv

LEMMA RowsFinish == ASSUME Inv, Inv', RowsInv, NEW t \in Threads, FinishCapture(t) PROVE RowsInv'
<1>1. UNCHANGED <<now, hand, seen, recent, disk>> /\ th[t].pc = "finish" /\ t \in InCaptures
  BY DEF FinishCapture, loop, InCaptures
<1>2. PICK c \in th[t].fins :
        /\ cap' = [cap EXCEPT ![c] = Closed(@, LeastOf({th[t].ts, @.end}), th[t].held, c \notin th[t].known)]
        /\ th' = [th EXCEPT ![t].fins = @ \ {c}]
        /\ db'.meta = db.meta
  BY ShapeIs DEF FinishCapture
<1>3. PICK k, m, d, w, k2, w2 : k = cap[c] /\ m = db.meta[c] /\ d = disk[c] /\ w = th[t] /\ k2 = cap'[c] /\ w2 = th'[t]
  OBVIOUS
<1>4. Timely(w, hand, now) /\ Working(t, w, cap) /\ w.pc = "finish" /\ w.ts \in Int /\ now \in Int /\ hand.t \in Int
  BY <1>1, <1>3, ShapeIs DEF RowsInv, FlushInv
<1>5. c \in Caps /\ k.state = "active" /\ w.jobs = {} /\ c \in w.fins
  BY <1>2, <1>3, <1>4 DEF Working
<1>6. /\ DOMAIN k = DOMAIN Unborn /\ k.end \in Int /\ k.trig \in Int /\ seen \subseteq Rows
      /\ Held(k, m, d, seen) /\ Windowed(k, m) /\ HasWindow(k, m, seen)
  BY <1>3, <1>5, ShapeIs DEF RowsInv, StoreInv, Captured, LoopInv, Noted
<1>7. PICK end, late : end = LeastOf({w.ts, k.end}) /\ late = (c \notin w.known)
  OBVIOUS
<1>8. end \in Int /\ end <= k.end /\ end <= w.ts
  BY <1>4, <1>6, <1>7, Least
<1>9. k2 = Closed(k, end, w.held, late) /\ \A e \in Caps : e # c => cap'[e] = cap[e]
  BY <1>2, <1>3, <1>5, <1>7, ShapeIs
<1>10. /\ k2.state = "ended" /\ k2.end = end /\ k2.held = w.held /\ k2.late = late
       /\ k2.scope = k.scope /\ k2.trig = k.trig /\ k2.aged = k.aged /\ k2.pend = k.pend /\ k2.seq = k.seq
       /\ k2.dropped = k.dropped
  BY <1>6, <1>9, Domains DEF Closed
<1>11. ~k2.late => Spared(t, w, c, k)
  <2>1. ~k2.late => c \in w.known
    BY <1>7, <1>10, Zenon
  <2> QED BY <1>3, <1>4, <1>5, <2>1 DEF Working
<1>12. Held(k2, m, d, seen) /\ Windowed(k2, m) /\ HasWindow(k2, m, seen) /\ EndsWell(k2, m, seen, hand, now)
  BY <1>4, <1>5, <1>6, <1>8, <1>10, <1>11, CaptureFinishes
<1>13. StoreInv'
  <2>1. ASSUME NEW e \in Caps PROVE Captured(e)'
    <3>1. CASE e = c
      BY <1>1, <1>2, <1>3, <1>12, <3>1 DEF Captured
    <3>2. CASE e # c
      BY <1>1, <1>2, <1>9, <3>2 DEF RowsInv, StoreInv, Captured
    <3> QED BY <3>1, <3>2
  <2> QED BY <1>1, <1>2, <2>1 DEF RowsInv, StoreInv
<1>14. FlushInv'
  <2>1. /\ w2.ts = w.ts /\ w2.held = w.held /\ w2.pc = w.pc /\ w2.jobs = w.jobs /\ w2.known = w.known /\ w2.fins = w.fins \ {c}
        /\ \A u \in Threads : u # t => th'[u] = th[u]
    BY <1>2, <1>3, ShapeIs, Domains
  <2>2. Timely(w2, hand', now')
    BY <1>1, <1>4, <2>1 DEF Timely
  <2>3. \A e \in w2.fins : e \in Caps /\ cap'[e].state = "active"
    BY <1>4, <1>9, <2>1 DEF Working
  <2>4. ASSUME NEW e \in w2.known PROVE e \in Caps /\ cap'[e].state # "none" /\ (cap'[e].state = "active" => Spared(t, w2, e, cap'[e]))
    <3>1. e \in Caps /\ cap[e].state # "none" /\ (cap[e].state = "active" => Spared(t, w, e, cap[e]))
      BY <1>4, <2>1 DEF Working
    <3>2. CASE e = c
      BY <1>3, <1>10, <3>1, <3>2
    <3>3. CASE e # c
      <4>1. cap'[e] = cap[e]
        BY <1>9, <3>1, <3>3
      <4>2. Spared(t, w, e, cap[e]) => Spared(t, w2, e, cap[e])
        BY <2>1 DEF Spared, Copied
      <4> QED BY <3>1, <4>1, <4>2
    <3> QED BY <3>2, <3>3
  <2>5. Working(t, w2, cap')
    BY <1>5, <2>1, <2>3, <2>4 DEF Working
  <2> QED BY <1>1, <1>3, <2>1, <2>2, <2>5, OneThread DEF RowsInv
<1>15. LoopInv'
  BY <1>1 DEF RowsInv, LoopInv
<1> QED BY <1>13, <1>14, <1>15 DEF RowsInv

----------------------------------------------------------------------------
(* The rows of a capture are kept.                                           *)

LEMMA RowsInit == Init => RowsInv
<1> SUFFICES ASSUME Init PROVE RowsInv
  OBVIOUS
<1>1. /\ now = Pre + 1 /\ hand = Nothing /\ seen = {} /\ recent = [s \in Streams |-> <<>>]
      /\ cap = [c \in Caps |-> Unborn] /\ th = [t \in Threads |-> Idle]
      /\ db.meta = [c \in Caps |-> [s \in Streams |-> <<>>]]
      /\ disk = [c \in Caps |-> [s \in Streams |-> <<>>]]
  BY DEF Init
<1>2. \A T : <<>> \in Seq(T) /\ Len(<<>>) = 0 /\ DOMAIN <<>> = {}
  OBVIOUS
<1>3. Elements(<<>>) = {}
  BY <1>2 DEF Elements
<1>4. LoopInv
  <2>1. Observing(hand, seen, now)
    BY <1>1 DEF Observing, Nothing
  <2>2. Noted(seen, now)
    BY <1>1, FS_EmptySet DEF Noted
  <2>3. OnceEach(<<>>) /\ InTime(<<>>)
    BY <1>2 DEF OnceEach, InTime
  <2>4. \A s \in Streams : recent[s] = <<>>
    BY <1>1
  <2>5. recent \in [Streams -> Seq(Rows)]
    BY <1>1, <1>2
  <2>6. \A r : r \notin seen
    BY <1>1
  <2>7. AtHand(recent, seen, now)
    BY <1>3, <2>3, <2>4, <2>5, <2>6 DEF AtHand
  <2> QED BY <2>1, <2>2, <2>7 DEF LoopInv
<1>5. StoreInv
  <2>1. [s \in Streams |-> <<>>] \in [Streams -> Seq(Seq(Rows))] /\ [s \in Streams |-> <<>>] \in [Streams -> Seq(Rows)]
    BY <1>2
  <2>2. /\ db.meta \in [Caps -> [Streams -> Seq(Seq(Rows))]] /\ disk \in [Caps -> [Streams -> Seq(Seq(Rows))]]
    BY <1>1, <2>1
  <2>4. ASSUME NEW c \in Caps PROVE Captured(c)
    <3>1. PICK k, m, d : k = cap[c] /\ m = db.meta[c] /\ d = disk[c]
      OBVIOUS
    <3>2. k = Unborn /\ \A s \in Streams : m[s] = <<>> /\ d[s] = <<>>
      BY <1>1, <3>1
    <3>3. /\ k.state = "none" /\ k.pend \in [Streams -> Seq(Rows)] /\ k.seq \in [Streams -> Nat]
          /\ \A s \in Streams : k.pend[s] = <<>> /\ k.seq[s] = 0
      BY <2>1, <3>2 DEF Unborn
    <3>4. ASSUME NEW s \in Streams PROVE OneStream(k.pend[s], m[s], d[s], k.seq[s], k.state, seen, s)
      <4>1. OnceEach(<<>>)
        BY <1>2 DEF OnceEach
      <4>2. OneStream(<<>>, <<>>, <<>>, 0, "none", seen, s)
        BY <1>2, <1>3, <4>1 DEF OneStream
      <4> QED BY <3>2, <3>3, <4>2
    <3>5. Held(k, m, d, seen)
      BY <3>3, <3>4 DEF Held
    <3>6. Windowed(k, m) /\ HasWindow(k, m, seen) /\ EndsWell(k, m, seen, hand, now)
      BY <3>3 DEF Windowed, HasWindow, EndsWell
    <3> QED BY <3>1, <3>5, <3>6 DEF Captured
  <2> QED BY <2>2, <2>4 DEF StoreInv
<1>6. FlushInv
  <2>1. InCaptures = {}
    BY <1>1 DEF InCaptures, Idle
  <2> QED BY <2>1 DEF FlushInv
<1> QED BY <1>4, <1>5, <1>6 DEF RowsInv

LEMMA RowsStep == ASSUME Inv, Inv', RowsInv, [Next]_vars PROVE RowsInv'
<1>1. CASE Tick BY <1>1, RowsTick
<1>2. CASE Loop BY <1>2, RowsRead, RowsObserve, RowsSee, RowsNotice, RowsPush DEF Loop
<1>3. CASE Quitting BY <1>3, RowsLeave DEF Quitting
<1>4. CASE \E t \in Threads : Thread(t)
  <2>1. PICK t \in Threads : Thread(t)
    BY <1>4
  <2> QED BY <2>1, RowsLog, RowsFlush, RowsWrite, RowsChunkFails, RowsPick, RowsFinish DEF Thread
<1>5. CASE UNCHANGED vars BY <1>5, RowsStutter
<1> QED BY <1>1, <1>2, <1>3, <1>4, <1>5 DEF Next

\* The files and what is in memory, of one capture, are its window.
LEMMA WindowKept ==
  ASSUME Inv, RowsInv, NEW c \in Caps, cap[c].state # "none", ~cap[c].aged, ~cap[c].late
  PROVE  RowsKept(c)
<1>1. PICK k, m, d : k = cap[c] /\ m = db.meta[c] /\ d = disk[c]
  OBVIOUS
<1>2. /\ k.state \in {"active", "ended"} /\ ~k.aged /\ ~k.late /\ k.trig \in Int /\ k.end \in Int
      /\ Windowed(k, m) /\ HasWindow(k, m, seen) /\ EndsWell(k, m, seen, hand, now) /\ seen \subseteq Rows
  BY <1>1, ShapeIs DEF RowsInv, StoreInv, Captured, LoopInv, Noted, Held
<1>3. \A s \in Streams : OneStream(k.pend[s], m[s], d[s], k.seq[s], k.state, seen, s)
  BY <1>1 DEF RowsInv, StoreInv, Captured, Held
<1>4. \A s \in Streams : \A i \in 1 .. Len(m[s]) : d[s][i] = m[s][i] /\ \A r \in Elements(m[s][i]) : r \in seen /\ r.s = s
  BY <1>3 DEF OneStream
<1>5. \A s \in Streams : \A i, l \in 1 .. Len(m[s]) : i # l => Elements(m[s][i]) \cap Elements(m[s][l]) = {}
  BY <1>3 DEF OneStream
<1>6. \A r : r \in Filed(c) <=> \E s \in Streams : \E i \in 1 .. Len(m[s]) : r \in Elements(d[s][i])
  BY <1>1 DEF Filed
<1>7. \A r \in seen : r.t \in Int /\ r.s \in Streams
  BY <1>2 DEF Rows
<1>8. \A r : Has(k, m, r) /\ r.s \in Streams => r \in Filed(c) \/ r \in k.dropped
  BY <1>4, <1>6 DEF Has
<1>9. \A r : r \in InWindow(c) <=> r \in seen /\ Fits(k, r) /\ r.t <= k.end
  BY <1>1 DEF InWindow, Within, Fits
<1>10. InWindow(c) \subseteq Filed(c) \cup cap[c].dropped \cup (IF cap[c].state = "active" THEN Pending(c) ELSE Missed(c))
  <2>1. CASE k.state = "active"
    <3>1. \A r \in seen : Fits(k, r) /\ r.t <= k.end => Has(k, m, r) \/ r \in Elements(k.pend[r.s])
      BY <1>2, <2>1 DEF HasWindow
    <3>2. \A r \in seen : r \in Elements(k.pend[r.s]) => r \in Pending(c)
      BY <1>1, <1>7 DEF Pending
    <3> QED BY <1>1, <1>7, <1>8, <1>9, <2>1, <3>1, <3>2
  <2>2. CASE k.state = "ended"
    <3>1. \A r \in seen : Fits(k, r) /\ r.t <= k.end => Has(k, m, r) \/ Same(k.held, r)
      BY <1>2, <2>2 DEF EndsWell
    <3>2. \A r \in seen : Same(k.held, r) => r \in Missed(c)
      BY <1>1 DEF Missed, Same
    <3> QED BY <1>1, <1>7, <1>8, <1>9, <2>2, <3>1, <3>2
  <2> QED BY <1>2, <2>1, <2>2
<1>11. Filed(c) \subseteq InWindow(c) \cup {r \in seen : r.t > cap[c].end}
  <2> SUFFICES ASSUME NEW r \in Filed(c) PROVE r \in InWindow(c) \/ (r \in seen /\ r.t > k.end)
    BY <1>1
  <2>1. PICK s \in Streams : \E i \in 1 .. Len(m[s]) : r \in Elements(m[s][i])
    BY <1>4, <1>6
  <2>2. r \in seen /\ Fits(k, r)
    BY <1>2, <1>4, <2>1 DEF Windowed
  <2>3. r.t <= k.end \/ r.t > k.end
    BY <1>2, <1>7, <2>2
  <2> QED BY <1>9, <2>2, <2>3
<1>12. FiledOnce(c)
  <2> SUFFICES ASSUME NEW s \in Streams, NEW i \in 1 .. Len(m[s]), NEW l \in 1 .. Len(m[s]), i # l
               PROVE  Elements(d[s][i]) \cap Elements(d[s][l]) = {}
    BY <1>1 DEF FiledOnce
  <2>1. d[s][i] = m[s][i] /\ d[s][l] = m[s][l]
    BY <1>4
  <2>2. Elements(m[s][i]) \cap Elements(m[s][l]) = {}
    BY <1>5
  <2> QED BY <2>1, <2>2
<1>13. cap[c].state = "active" => Filed(c) \cap Pending(c) = {}
  <2> SUFFICES ASSUME k.state = "active", NEW r \in Filed(c), r \in Pending(c) PROVE FALSE
    BY <1>1
  <2>1. PICK s \in Streams : \E i \in 1 .. Len(m[s]) : r \in Elements(m[s][i])
    BY <1>4, <1>6
  <2>2. PICK i \in 1 .. Len(m[s]) : r \in Elements(m[s][i])
    BY <2>1
  <2>3. PICK u \in Streams : r \in Elements(k.pend[u])
    BY <1>1 DEF Pending
  <2>4. r.s = u
    BY <1>3, <2>3 DEF OneStream
  <2>5. r.s = s
    BY <1>4, <2>2
  <2>6. OneStream(k.pend[s], m[s], d[s], k.seq[s], "active", seen, s)
    BY <1>3
  <2>7. Elements(m[s][i]) \cap Elements(k.pend[s]) = {}
    BY <2>6 DEF OneStream
  <2> QED BY <2>2, <2>3, <2>4, <2>5, <2>7
<1>14. \A s \in Streams : \A i \in 1 .. Len(db.meta[c][s]) : disk[c][s][i] = db.meta[c][s][i]
  BY <1>1, <1>4
<1> QED BY <1>10, <1>11, <1>12, <1>13, <1>14 DEF RowsKept

(* A capture of an event that was noticed at its own time holds every row of its
   window once, in a registered file, in memory, or counted as dropped, whatever
   failed, was tried again or came between two steps of a flush.  Only the row
   that was in hand when the last flush read the clock may be missing.        *)
THEOREM RowsAreKept == Spec => []RowsNeverLost
<1>1. Init => Inv /\ RowsInv
  BY InvInit, RowsInit
<1>2. Inv /\ RowsInv /\ [Next]_vars => Inv' /\ RowsInv'
  BY InvStep, RowsStep
<1>3. Inv /\ RowsInv => RowsNeverLost
  BY WindowKept DEF RowsNeverLost
<1> QED BY <1>1, <1>2, <1>3, PTL DEF Spec

-----------------------------------------------------------------------------
(* What goes into the history in the first place is module HistoryEvents: of
   the load of the bus it is told with hysteresis, for every threshold and every
   sequence of windows.                                                       *)
CONSTANTS Nodes, Ids, Home, Uuids, Codes, Loads, High, Normal, Window, LastTick, MaxTold
VARIABLES load, off, link, assoc, dtc, leader, owner, window, records, scopes, last3, clock, happened

Events == INSTANCE HistoryEvents WITH Horizon <- LastTick, MaxEvents <- MaxTold, events <- happened

Windows == Loads \cup {Events!Never}
LoadType == load \in [high : Nat, normal : Nat, on : BOOLEAN] /\ last3 \in Windows \X Windows \X Windows

Hot(w) == w >= High
Cool(w) == w # Events!Never /\ w <= Normal

\* What the counters stand for: the last windows in a row of their kind.
HighCounts ==
  /\ load.high >= 1 <=> Hot(last3[1])
  /\ load.high >= 2 <=> Hot(last3[1]) /\ Hot(last3[2])
  /\ load.high >= 3 <=> Hot(last3[1]) /\ Hot(last3[2]) /\ Hot(last3[3])
NormalCounts ==
  /\ load.normal >= 1 <=> Cool(last3[1])
  /\ load.normal >= 2 <=> Cool(last3[1]) /\ Cool(last3[2])
  /\ load.normal >= 3 <=> Cool(last3[1]) /\ Cool(last3[2]) /\ Cool(last3[3])

LoadInv == LoadType /\ HighCounts /\ NormalCounts /\ Events!LoadHysteresis

\* A window that is high is not normal.
LEMMA HotIsNotCool == ASSUME Events!EventsAssumption, NEW w \in Windows PROVE ~(Hot(w) /\ Cool(w))
  BY DEF Events!EventsAssumption, Windows, Hot, Cool, Events!Never

\* Which of two comparisons is taken is a truth value.
LEMMA Comparison ==
  ASSUME NEW which, NEW a \in Nat, NEW b \in Nat PROVE (IF which THEN a < 3 ELSE b >= 3) \in BOOLEAN
<1>1. (a < 3) \in BOOLEAN /\ (b >= 3) \in BOOLEAN BY SMT
<1> QED BY <1>1, Zenon

\* What the thresholds are.
LEMMA Thresholds == ASSUME Events!EventsAssumption PROVE High \in Nat /\ Normal \in Nat /\ Loads \subseteq Nat /\ Normal < High
  BY DEF Events!EventsAssumption

LEMMA LoadStarts == ASSUME Events!EventsAssumption, Events!Init PROVE LoadInv
<1>1. LoadType BY DEF Events!Init, LoadType, Windows
<1>2. ~Hot(Events!Never) /\ ~Cool(Events!Never) BY Thresholds DEF Hot, Cool, Events!Never
<1>3. HighCounts /\ NormalCounts BY <1>2 DEF Events!Init, HighCounts, NormalCounts
<1>4. Events!LoadHysteresis BY <1>2 DEF Events!Init, Events!LoadHysteresis, Hot, Cool
<1> QED BY <1>1, <1>3, <1>4 DEF LoadInv

\* Both counters after a window, and what they then say.
LEMMA WindowCounts ==
  ASSUME Events!EventsAssumption, LoadInv, NEW l \in Loads, NEW isOff \in BOOLEAN, Events!BusStats(l, isOff)
  PROVE  /\ LoadType' /\ HighCounts' /\ NormalCounts'
         /\ load'.on = (IF load.on THEN load'.normal < 3 ELSE load'.high >= 3)
<1>1. load' = Events!Loaded(l) /\ last3' = <<l, last3[1], last3[2]>> BY DEF Events!BusStats
<1>2. load.high \in Nat /\ load.normal \in Nat /\ load.on \in BOOLEAN BY DEF LoadInv, LoadType
<1>3. last3[1] \in Windows /\ last3[2] \in Windows /\ last3[3] \in Windows BY DEF LoadInv, LoadType
<1>4. /\ load'.high = (IF Hot(l) THEN load.high + 1 ELSE 0)
      /\ load'.normal = (IF Cool(l) THEN load.normal + 1 ELSE 0)
      /\ load'.on = (IF load.on THEN load'.normal < 3 ELSE load'.high >= 3)
  <2>1. l # Events!Never BY Thresholds DEF Events!Never
  <2> QED BY <1>1, <2>1 DEF Events!Loaded, Hot, Cool
<1>5. load' \in [high : Nat, normal : Nat, on : BOOLEAN]
  <2>1. DOMAIN load' = {"high", "normal", "on"} /\ load' = [high |-> load'.high, normal |-> load'.normal, on |-> load'.on]
    BY <1>1 DEF Events!Loaded
  <2>2. load'.high \in Nat BY <1>2, <1>4
  <2>3. load'.normal \in Nat BY <1>2, <1>4
  <2>4. load'.on \in BOOLEAN BY <1>4, <2>2, <2>3, Comparison, Zenon
  <2> QED BY <2>1, <2>2, <2>3, <2>4
<1>6. LoadType' BY <1>1, <1>3, <1>5 DEF LoadType, Windows
<1>7. last3'[1] = l /\ last3'[2] = last3[1] /\ last3'[3] = last3[2] BY <1>1
<1>8. HighCounts'
  <2>1. /\ load.high >= 1 <=> Hot(last3[1])
        /\ load.high >= 2 <=> Hot(last3[1]) /\ Hot(last3[2])
    BY DEF LoadInv, HighCounts
  <2>2. CASE Hot(l) BY <2>1, <2>2, <1>2, <1>4, <1>7 DEF HighCounts, Hot
  <2>3. CASE ~Hot(l) BY <2>3, <1>2, <1>4, <1>7 DEF HighCounts, Hot
  <2> QED BY <2>2, <2>3
<1>9. NormalCounts'
  <2>1. /\ load.normal >= 1 <=> Cool(last3[1])
        /\ load.normal >= 2 <=> Cool(last3[1]) /\ Cool(last3[2])
    BY DEF LoadInv, NormalCounts
  <2>2. CASE Cool(l) BY <2>1, <2>2, <1>2, <1>4, <1>7 DEF NormalCounts, Cool
  <2>3. CASE ~Cool(l) BY <2>3, <1>2, <1>4, <1>7 DEF NormalCounts, Cool
  <2> QED BY <2>2, <2>3
<1> QED BY <1>4, <1>6, <1>8, <1>9

LEMMA WindowKeeps ==
  ASSUME Events!EventsAssumption, LoadInv, NEW l \in Loads, NEW isOff \in BOOLEAN, Events!BusStats(l, isOff)
  PROVE  LoadInv'
<1>1. /\ LoadType' /\ HighCounts' /\ NormalCounts'
      /\ load'.on = (IF load.on THEN load'.normal < 3 ELSE load'.high >= 3)
  BY WindowCounts
<1>2. load'.high \in Nat /\ load'.normal \in Nat /\ load.on \in BOOLEAN BY <1>1 DEF LoadType, LoadInv
<1>3. last3'[1] \in Windows BY <1>1 DEF LoadType
<1>4. (\A k \in 1 .. 3 : last3'[k] >= High) => load'.on
  <2> SUFFICES ASSUME \A k \in 1 .. 3 : last3'[k] >= High PROVE load'.on OBVIOUS
  <2>1. Hot(last3'[1]) /\ Hot(last3'[2]) /\ Hot(last3'[3]) BY DEF Hot
  <2>2. load'.high >= 3 BY <1>1, <2>1 DEF HighCounts, Hot
  <2>3. ~Cool(last3'[1]) BY <2>1, <1>3, HotIsNotCool
  <2>4. ~(load'.normal >= 1) BY <1>1, <2>3 DEF NormalCounts, Cool
  <2>5. load'.normal < 3 BY <1>2, <2>4
  <2> QED BY <1>1, <2>2, <2>5, Zenon
<1>5. (\A k \in 1 .. 3 : last3'[k] # Events!Never /\ last3'[k] <= Normal) => ~load'.on
  <2> SUFFICES ASSUME \A k \in 1 .. 3 : last3'[k] # Events!Never /\ last3'[k] <= Normal PROVE ~load'.on OBVIOUS
  <2>1. Cool(last3'[1]) /\ Cool(last3'[2]) /\ Cool(last3'[3]) BY DEF Cool
  <2>2. load'.normal >= 3 BY <1>1, <2>1 DEF NormalCounts, Cool
  <2>3. ~Hot(last3'[1]) BY <2>1, <1>3, HotIsNotCool
  <2>4. ~(load'.high >= 1) BY <1>1, <2>3 DEF HighCounts, Hot
  <2>5. ~(load'.high >= 3) /\ ~(load'.normal < 3) BY <1>2, <2>2, <2>4
  <2> QED BY <1>1, <2>5, Zenon
<1> QED BY <1>1, <1>4, <1>5 DEF LoadInv, Events!LoadHysteresis

\* Every other event leaves the load as it is.
LEMMA OthersKeepLoad ==
  ASSUME [Events!Next]_(Events!vars), ~\E l \in Loads, isOff \in BOOLEAN : Events!BusStats(l, isOff)
  PROVE  UNCHANGED <<load, last3>>
<1>1. CASE \E i \in Ids, s \in Events!Links : Events!WirelessLink(i, s) BY <1>1 DEF Events!WirelessLink, Events!BusState
<1>2. CASE \E i \in Ids, u \in Uuids, s \in Events!AssocStates : Events!Association(i, u, s) BY <1>2 DEF Events!Association, Events!BusState
<1>3. CASE \E i \in Ids : Events!Telemetry(i) \/ Events!DtcCleared(i) BY <1>3 DEF Events!Telemetry, Events!DtcCleared, Events!BusState
<1>4. CASE \E k \in Events!NetworkKinds, n \in Nodes : Events!NetworkEvent(k, n) BY <1>4 DEF Events!NetworkEvent, Events!BusState
<1>5. CASE \E i \in Ids, c \in Codes, s \in {"INFO", "CRITICAL"}, a \in BOOLEAN : Events!Dtc(i, c, s, a)
  BY <1>5 DEF Events!Dtc, Events!BusState
<1>6. CASE \E k \in {"FAILOVER", "TRANSFER_FAILED"} \cup Events!Others, n \in Nodes : Events!Plain(k, n) BY <1>6 DEF Events!Plain, Events!BusState
<1>7. CASE \E k \in Events!Faults \cup Events!Marks, n \in Nodes \cup {0} : Events!Plain(k, n) BY <1>7 DEF Events!Plain, Events!BusState
<1>8. CASE Events!Tick BY <1>8 DEF Events!Tick, Events!BusState
<1>9. CASE UNCHANGED Events!vars BY <1>9 DEF Events!vars
<1> QED BY <1>1, <1>2, <1>3, <1>4, <1>5, <1>6, <1>7, <1>8, <1>9 DEF Events!Next

LEMMA LoadKept == ASSUME Events!EventsAssumption, LoadInv, [Events!Next]_(Events!vars) PROVE LoadInv'
<1>1. CASE \E l \in Loads, isOff \in BOOLEAN : Events!BusStats(l, isOff) BY <1>1, WindowKeeps
<1>2. CASE ~\E l \in Loads, isOff \in BOOLEAN : Events!BusStats(l, isOff)
  BY <1>2, OthersKeepLoad DEF LoadInv, LoadType, HighCounts, NormalCounts, Events!LoadHysteresis
<1> QED BY <1>1, <1>2

\* Whatever the windows are, three in a row decide what is told of the load:
\* service.py _on_bus.
THEOREM LoadIsTold == ASSUME Events!EventsAssumption PROVE Events!Spec => []Events!LoadHysteresis
<1>1. Events!Init => LoadInv BY LoadStarts
<1>2. LoadInv /\ [Events!Next]_(Events!vars) => LoadInv' BY LoadKept
<1>3. LoadInv => Events!LoadHysteresis BY DEF LoadInv
<1> QED BY <1>1, <1>2, <1>3, PTL DEF Events!Spec

\* What is told of the load turns only at the third window in a row that says
\* otherwise: service.py _on_bus.
THEOREM LoadTurnsSlowly == ASSUME Events!EventsAssumption PROVE Events!Spec => Events!LoadTurns
<1>1. Events!Init => LoadInv BY LoadStarts
<1>2. LoadInv /\ [Events!Next]_(Events!vars) => LoadInv' BY LoadKept
<1>3. LoadInv /\ [Events!Next]_(Events!vars) =>
        [load'.on # load.on =>
           IF load'.on THEN \A k \in 1 .. 3 : last3'[k] >= High
                       ELSE \A k \in 1 .. 3 : last3'[k] # Events!Never /\ last3'[k] <= Normal]_(Events!vars)
  <2> SUFFICES ASSUME LoadInv, [Events!Next]_(Events!vars), load'.on # load.on
               PROVE IF load'.on THEN \A k \in 1 .. 3 : last3'[k] >= High
                                 ELSE \A k \in 1 .. 3 : last3'[k] # Events!Never /\ last3'[k] <= Normal
    OBVIOUS
  <2>1. PICK l \in Loads, isOff \in BOOLEAN : Events!BusStats(l, isOff) BY OthersKeepLoad
  <2>2. /\ LoadType' /\ HighCounts' /\ NormalCounts'
        /\ load'.on = (IF load.on THEN load'.normal < 3 ELSE load'.high >= 3)
    BY <2>1, WindowCounts
  <2>3. load'.high \in Nat /\ load'.normal \in Nat /\ load.on \in BOOLEAN /\ load'.on \in BOOLEAN
    BY <2>2 DEF LoadType, LoadInv
  <2>4. CASE load'.on
    <3>1. load'.high >= 3 BY <2>2, <2>3, <2>4
    <3>2. Hot(last3'[1]) /\ Hot(last3'[2]) /\ Hot(last3'[3]) BY <3>1, <2>2 DEF HighCounts, Hot
    <3> QED BY <3>2, <2>4 DEF Hot
  <2>5. CASE ~load'.on
    <3>1. load'.normal >= 3 BY <2>2, <2>3, <2>5
    <3>2. Cool(last3'[1]) /\ Cool(last3'[2]) /\ Cool(last3'[3]) BY <3>1, <2>2 DEF NormalCounts, Cool
    <3> QED BY <3>2, <2>5 DEF Cool
  <2> QED BY <2>4, <2>5
<1> QED BY <1>1, <1>2, <1>3, PTL DEF Events!Spec, Events!LoadTurns
=============================================================================
