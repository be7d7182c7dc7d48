----------------------------- MODULE HistoryLog -----------------------------
(* The history of the text console: the event loop observes (history/service.py,
   history/captures.py), worker threads write to the database and to the files
   of the captures (history/storage.py), the application starts and ends them
   (app.py).

   The clock counts in twos and Pre, Post and Span are odd, so that no two of
   the instants compared coincide.                                           *)
EXTENDS Integers, Sequences, FiniteSets

CONSTANTS
  Streams,    \* what is observed: the telemetry of a sensor, the bus, ...
  Kinds,      \* kinds of event
  Scopes,     \* what a capture may be about
  Trigger,    \* the scope that an event of each kind opens a capture of, or "none"
  Concerns,   \* the scopes whose captures list events of each kind
  Covers,     \* the streams that a capture of each scope records
  Ages,       \* how old an event of each kind may be when it arrives
  Pre, Post, Span,  \* before the trigger, after it, at most after it
  QueueMax,   \* records that may wait (5000 in the code)
  PendingMax, \* rows of a capture that may wait (12000)
  MaxActive,  \* captures at a time (8)
  ChunkRows, ChunkTime,  \* when rows of an open capture are written
  MaxEvents, MaxRows, MaxInputs, MaxFails, LastSeen, Horizon  \* bounds of the model

Threads == {"timer", "quit"}
Caps    == 1 .. MaxEvents

ASSUME HistoryAssumption ==
  /\ Trigger \in [Kinds -> Scopes \cup {"none"}]
  /\ Concerns \in [Kinds -> SUBSET Scopes] /\ Covers \in [Scopes -> SUBSET Streams]
  /\ {QueueMax, PendingMax, MaxActive, ChunkRows, MaxEvents, MaxRows, MaxInputs, Horizon} \subseteq Nat \ {0}
  /\ MaxFails \in Nat /\ LastSeen \in Nat /\ Ages \in [Kinds -> SUBSET Nat] /\ ChunkTime \in Nat
  /\ \A p \in {Pre, Post, Span} : p \in Nat /\ p % 2 = 1
  /\ Post <= Span /\ LastSeen + Post <= Horizon

VARIABLES
  now,       \* the clock
  hand,      \* what the event loop has read the clock for and not yet handed on
  seen,      \* the rows observed, and how many events there were
  events,
  recent,    \* per stream, the rows of the last Pre
  cap,       \* the captures
  queue,     \* records of the history that wait, and how many were given up
  dropped,
  accepted,  \* records accepted, in all
  closed,
  th,        \* the worker threads
  db,        \* the database
  disk,      \* the files of each capture and stream
  fails      \* how often the storage has failed

loop    == <<hand, seen, events, recent>>
log     == <<queue, dropped, accepted, closed>>
storage == <<db, disk, fails>>
vars == <<now, loop, cap, log, th, storage>>

Nothing == [what |-> "none", t |-> 0, s |-> "none", n |-> 0, caps |-> {}]
Idle == [pc |-> "idle", batch |-> <<>>, lost |-> 0, ts |-> 0, jobs |-> {}, fins |-> {},
         held |-> Nothing, known |-> {}]
Unborn == [state |-> "none", scope |-> "none", trig |-> 0, end |-> 0, aged |-> FALSE,
           pend |-> [s \in Streams |-> <<>>], seq |-> [s \in Streams |-> 0],
           last |-> [s \in Streams |-> 0], dropped |-> {}, held |-> Nothing, late |-> FALSE]
Unknown == [state |-> "none", ended |-> 0, target |-> 0]

Init ==
  /\ now = Pre + 1 /\ hand = Nothing /\ seen = {} /\ events = 0
  /\ recent = [s \in Streams |-> <<>>]
  /\ cap = [c \in Caps |-> Unborn]
  /\ queue = <<>> /\ dropped = 0 /\ accepted = 0 /\ closed = FALSE
  /\ th = [t \in Threads |-> Idle]
  /\ db = [log |-> <<>>, told |-> 0, cap |-> [c \in Caps |-> Unknown],
           meta |-> [c \in Caps |-> [s \in Streams |-> <<>>]]]
  /\ disk = [c \in Caps |-> [s \in Streams |-> <<>>]] /\ fails = 0

(* The application is there until it has been left; its timers stop first.    *)
Running  == th["quit"].pc \notin {"done", "failed"}
TimersOn == th["quit"].pc = "idle"

(* A bound of the model: what happens to the application, in all.             *)
Inputs == events + Cardinality(seen) + IF TimersOn THEN 0 ELSE 1

(* Bounds of the model, for times that are far below Post (120 s) in the code:
   the loop handles what it has read the clock for, and the database answers
   (its timeout is 3 s), in less; from the history to the captures the timer's
   thread has nothing to wait for.                                           *)
Answers ==
  /\ hand.what # "none" => now + 2 - hand.t < Post
  /\ \A t \in Threads : th[t].pc = "writing" => now + 2 - th[t].ts < Post

Tick ==
  /\ Running /\ Answers /\ th["timer"].pc # "captures" /\ now < Horizon /\ now' = now + 2
  /\ UNCHANGED <<loop, cap, log, th, storage>>

----------------------------------------------------------------------------
(* The queue of the history.                                                *)

(* HistoryService._push, of the records rs.                                   *)
Push(rs) ==
  IF closed \/ rs = <<>> THEN UNCHANGED log
  ELSE /\ accepted' = accepted + 1
       /\ LET full == Len(queue) >= QueueMax
              room == IF full THEN Tail(queue) ELSE queue
          IN /\ queue' = Append(room, [Head(rs) EXCEPT !.n = accepted + 1])
             /\ dropped' = dropped + IF full THEN 1 ELSE 0
       /\ UNCHANGED closed

Record(what, caps, end) == [n |-> 0, what |-> what, caps |-> caps, end |-> end]

----------------------------------------------------------------------------
(* The event loop.  The clock is read first, the locks are taken later.      *)

Active == {c \in Caps : cap[c].state = "active"}
Within(c, t) == cap[c].trig - Pre <= t /\ t <= cap[c].end
Waiting(k) == LET Sum[T \in SUBSET Streams] ==
                    IF T = {} THEN 0
                    ELSE LET s == CHOOSE s \in T : TRUE IN Len(k.pend[s]) + Sum[T \ {s}]
              IN Sum[Streams]

Elements(q) == {q[i] : i \in DOMAIN q}
(* The rows are in the order of their times: those from a to b are in a row.  *)
Between(q, a, b) ==
  SubSeq(q, Cardinality({i \in DOMAIN q : q[i].t < a}) + 1, Cardinality({i \in DOMAIN q : q[i].t <= b}))

(* _queue_row.                                                               *)
Queued(k, row) ==
  IF Waiting(k) >= PendingMax THEN [k EXCEPT !.dropped = @ \cup {row}]
  ELSE [k EXCEPT !.pend[row.s] = Append(@, row)]

ReadRow(s) ==
  /\ Running /\ hand = Nothing /\ now <= LastSeen /\ Cardinality(seen) < MaxRows /\ Inputs < MaxInputs
  /\ hand' = [Nothing EXCEPT !.what = "row", !.s = s, !.t = now]
  /\ UNCHANGED <<now, seen, events, recent, cap, log, th, storage>>

(* _observe: into the recent rows, and into every capture that covers it.     *)
Observe ==
  /\ hand.what = "row"
  /\ LET row == [n |-> Cardinality(seen) + 1, s |-> hand.s, t |-> hand.t]
     IN /\ seen' = seen \cup {row}
        /\ recent' = [recent EXCEPT ![row.s] = Between(Append(@, row), row.t - Pre, row.t)]
        /\ cap' = [c \in Caps |->
                     IF c \in Active /\ Within(c, row.t) /\ row.s \in Covers[cap[c].scope]
                     THEN Queued(cap[c], row) ELSE cap[c]]
  /\ hand' = Nothing
  /\ UNCHANGED <<now, events, log, th, storage>>

(* An event is handled: a state seen now, or a mark of the operator made some
   time ago.  (The handlers' own comparisons with the state before are in
   HistoryEvents.)                                                           *)
SeeEvent(k, age) ==
  /\ Running /\ hand = Nothing /\ ~closed /\ now <= LastSeen /\ events < MaxEvents
  /\ Inputs < MaxInputs
  /\ events' = events + 1
  /\ hand' = [Nothing EXCEPT !.what = "seen", !.s = k, !.t = now - age]
  /\ UNCHANGED <<now, seen, recent, cap, log, th, storage>>

(* The rows already observed that a new capture of scope sc takes over, one
   stream after the other as long as there is room.                          *)
Recovered(sc, t) ==
  [s \in Streams |-> IF s \in Covers[sc] THEN Between(recent[s], t - Pre, t) ELSE <<>>]

Opened(sc, t, rows, room) ==
  [Unborn EXCEPT !.state = "active", !.scope = sc, !.trig = t, !.end = t + Post, !.aged = (t < now),
                 !.pend = [s \in Streams |-> SubSeq(rows[s], 1, room[s])],
                 !.dropped = UNION {Elements(SubSeq(rows[s], room[s] + 1, Len(rows[s]))) : s \in Streams},
                 !.last = [s \in Streams |-> t]]
Opening(sc, t) ==
  LET rows == Recovered(sc, t)
      rooms == {room \in [Streams -> 0 .. PendingMax] :
                  /\ \A s \in Streams : room[s] <= Len(rows[s])
                  /\ Cardinality({s \in Streams : room[s] \in 1 .. Len(rows[s]) - 1}) <= 1}
  IN {k \in {Opened(sc, t, rows, room) : room \in rooms} :
        Waiting(k) = PendingMax \/ (Waiting(k) < PendingMax /\ k.dropped = {})}

LeastOf(S) == CHOOSE x \in S : \A y \in S : x <= y
Later(k, t) ==
  LeastOf({k.trig + Span} \cup {IF t + Post > k.end THEN t + Post ELSE k.end})

(* on_history_event: the captures that list the event, the one it extends, the
   one it opens.                                                             *)
Notice ==
  /\ hand.what = "seen"
  /\ LET k == hand.s
         t == hand.t
         sc == Trigger[k]
         listing == {c \in Active : Within(c, t) /\ cap[c].scope \in Concerns[k]}
         same == {c \in Active : cap[c].scope = sc /\ t <= cap[c].end}
         free == {c \in Caps : cap[c].state = "none"}
         next == LeastOf(free)
         told(caps) == hand' = [hand EXCEPT !.what = "event", !.caps = caps]
     IN \/ /\ sc = "none" /\ told(listing) /\ UNCHANGED <<cap, log>>
        \/ /\ sc # "none"
           /\ \E c \in same :
                /\ \A d \in same : c <= d
                /\ cap' = [cap EXCEPT ![c].end = Later(cap[c], t), ![c].aged = @ \/ t < now]
                /\ Push(IF cap'[c].end # cap[c].end
                        THEN <<Record("extend", {c}, cap'[c].end)>> ELSE <<>>)
                /\ told(listing \cup {c})
        \/ /\ sc # "none" /\ same = {} /\ Cardinality(Active) < MaxActive
           /\ \E new \in Opening(sc, t) : cap' = [cap EXCEPT ![next] = new]
           /\ Push(<<Record("start", {next}, t + Post)>>)
           /\ told(listing \cup {next})
        \/ /\ sc # "none" /\ same = {} /\ Cardinality(Active) >= MaxActive
           /\ told(listing) /\ UNCHANGED <<cap, log>>
  /\ UNCHANGED <<now, seen, events, recent, th, storage>>

PushEvent ==
  /\ hand.what = "event"
  /\ Push(<<Record("event", hand.caps, 0)>>) /\ hand' = Nothing
  /\ UNCHANGED <<now, seen, events, recent, cap, th, storage>>

----------------------------------------------------------------------------
(* The threads.  history.flush, then the captures; leaving, the captures are
   ended and the history is closed.                                          *)

Goes(t, pc) == th' = [th EXCEPT ![t] = [Idle EXCEPT !.pc = pc]]
Abort(t) == Goes(t, IF t = "quit" THEN "failed" ELSE "idle")
FlushDone(t) == Goes(t, IF t = "quit" /\ closed THEN "session" ELSE "captures")

Leave ==
  /\ th["quit"].pc = "idle" /\ Inputs < MaxInputs /\ Goes("quit", "flush")
  /\ UNCHANGED <<now, loop, cap, log, storage>>

Writing == {t \in Threads : th[t].pc = "writing"}

(* The batch is taken off the queue; the timer fires whenever it likes.        *)
TakeBatch(t) ==
  /\ th[t].pc = "flush" \/ (t = "timer" /\ th[t].pc = "idle" /\ TimersOn)
  /\ Writing = {}
  /\ IF queue = <<>> /\ dropped = 0 THEN FlushDone(t) /\ UNCHANGED log
     ELSE /\ th' = [th EXCEPT ![t].pc = "writing", ![t].batch = queue, ![t].lost = dropped, ![t].ts = now]
          /\ queue' = <<>> /\ dropped' = 0 /\ UNCHANGED <<accepted, closed>>
  /\ UNCHANGED <<now, loop, cap, storage>>

(* The database accepts an event only if it has every capture the event names. *)
Starts(b) == UNION {b[i].caps : i \in {j \in DOMAIN b : b[j].what = "start"}}
Sound(b) ==
  \A i \in DOMAIN b : b[i].what = "event" =>
    \A c \in b[i].caps : db.cap[c].state # "none" \/ c \in Starts(SubSeq(b, 1, i))

(* write_batch, of one capture.                                               *)
Targets(b, c) ==
  {b[i].end : i \in {j \in DOMAIN b : b[j].what \in {"start", "extend"} /\ c \in b[j].caps}}
Stored(b, c) ==
  LET known == db.cap[c].state # "none" \/ c \in Starts(b)
      ends  == {db.cap[c].target} \cup Targets(b, c)
  IN IF ~known THEN db.cap[c]
     ELSE [db.cap[c] EXCEPT !.state = IF @ = "none" THEN "RECORDING" ELSE @,
                            !.target = CHOOSE x \in ends : \A y \in ends : y <= x]

Numbers(b) == [i \in DOMAIN b |-> b[i].n]

WriteBatch(t) ==
  /\ th[t].pc = "writing" /\ Sound(th[t].batch)
  /\ db' = [db EXCEPT !.log = @ \o Numbers(th[t].batch),
                      !.told = @ + th[t].lost,
                      !.cap = [c \in Caps |-> Stored(th[t].batch, c)]]
  /\ FlushDone(t)
  /\ UNCHANGED <<now, loop, cap, log, disk, fails>>

(* The storage fails: the disk is full, the database busy.                    *)
Trouble == fails < MaxFails /\ fails' = fails + 1

(* The whole batch goes back before the records that came since, up to the
   capacity of the queue.                                                    *)
RestoredAfter(b) == queue \o b
Restored(b) == b \o queue
Excess(q) == IF Len(q) > QueueMax THEN Len(q) - QueueMax ELSE 0
KeptFirst(q) == SubSeq(q, 1, Len(q) - Excess(q))
Kept(q) == SubSeq(q, Excess(q) + 1, Len(q))
CountedNew(t, q) == dropped + Excess(q)
Counted(t, q) == dropped + th[t].lost + Excess(q)

WriteFails(t) ==
  /\ th[t].pc = "writing"
  /\ Trouble \/ (~Sound(th[t].batch) /\ UNCHANGED fails)
  /\ LET q == Restored(th[t].batch)
     IN queue' = Kept(q) /\ dropped' = Counted(t, q)
  /\ Abort(t)
  /\ UNCHANGED <<now, loop, cap, accepted, closed, db, disk>>

(* CaptureManager.flush: what is due is copied under the lock.                *)
InCaptures == {t \in Threads : th[t].pc \in {"chunks", "finish"}}
Over(c, t) == t = "quit" \/ now >= cap[c].end
Due(c, s, t) ==
  \/ Over(c, t) \/ Len(cap[c].pend[s]) >= ChunkRows
  \/ now - cap[c].last[s] >= ChunkTime

Pieces(t) == {x \in Active \X Streams : cap[x[1]].pend[x[2]] # <<>> /\ Due(x[1], x[2], t)}
Jobs(t) ==
  {[cap |-> x[1], s |-> x[2], rows |-> cap[x[1]].pend[x[2]], k |-> cap[x[1]].seq[x[2]] + 1] :
     x \in Pieces(t)}

(* The clock is read: whatever is read after is later.                        *)
Onward == IF now < Horizon THEN now + 2 ELSE now

FlushCaptures(t) ==
  /\ th[t].pc = "captures" /\ Answers
  /\ \/ /\ InCaptures = {} /\ now' = Onward
        /\ th' = [th EXCEPT ![t].pc = "chunks", ![t].ts = now, ![t].jobs = Jobs(t),
                        ![t].held = hand, ![t].known = Active]
     \/ InCaptures # {} /\ t = "timer" /\ Goes(t, "idle") /\ UNCHANGED now
  /\ UNCHANGED <<loop, cap, log, storage>>

Put(files, k, x) == IF k \in DOMAIN files THEN [files EXCEPT ![k] = x] ELSE Append(files, x)

SameChunk(k, j) == k.seq
NextChunk(k, j) == [k.seq EXCEPT ![j.s] = j.k]

(* The rows of a file that was written are taken off the capture.             *)
Chunked(k, j, ts) ==
  [k EXCEPT !.pend[j.s] = SubSeq(@, Len(j.rows) + 1, Len(@)), !.seq = NextChunk(k, j), !.last[j.s] = ts]

(* A file is written and renamed, then registered; then its rows are taken off
   the capture.  The database refuses a file of a capture that it has not.    *)
WriteChunk(t) ==
  /\ th[t].pc = "chunks"
  /\ \E j \in th[t].jobs :
       /\ db.cap[j.cap].state # "none"
       /\ disk' = [disk EXCEPT ![j.cap][j.s] = Put(@, j.k, j.rows)]
       /\ db' = [db EXCEPT !.meta[j.cap][j.s] = Put(@, j.k, j.rows)]
       /\ cap' = [cap EXCEPT ![j.cap] = Chunked(@, j, th[t].ts)]
       /\ th' = [th EXCEPT ![t].jobs = @ \ {j}]
  /\ UNCHANGED <<now, loop, log, fails>>

ChunkFails(t) ==
  /\ th[t].pc = "chunks"
  /\ \E j \in th[t].jobs :
       /\ Trouble \/ (db.cap[j.cap].state = "none" /\ UNCHANGED fails)
       /\ disk' \in {disk, [disk EXCEPT ![j.cap][j.s] = Put(@, j.k, j.rows)]}
  /\ Abort(t)
  /\ UNCHANGED <<now, loop, cap, log, db>>

EndedOnLeaving(c, t) == t = "quit"
Ended(c, t) == t = "quit" \/ th[t].ts >= cap[c].end

PickFinished(t) ==
  /\ th[t].pc = "chunks" /\ th[t].jobs = {}
  /\ th' = [th EXCEPT ![t].pc = "finish",
                      ![t].fins = {c \in Active : Ended(c, t)}]
  /\ UNCHANGED <<now, loop, cap, log, storage>>

(* finish_capture; the rows still waiting are forgotten with the capture.     *)
Verdict(c, t) ==
  IF cap[c].dropped # {} \/ (t = "quit" /\ th[t].ts < cap[c].end) THEN "PARTIAL"
  ELSE IF \E s \in Streams : cap[c].seq[s] > 0 THEN "COMPLETE" ELSE "EMPTY"

Closed(k, end, held, late) ==
  [k EXCEPT !.state = "ended", !.end = end, !.held = held, !.late = late]

FinishCapture(t) ==
  /\ th[t].pc = "finish"
  /\ \E c \in th[t].fins :
       /\ db' = IF db.cap[c].state # "RECORDING" THEN db
                ELSE [db EXCEPT !.cap[c].state = Verdict(c, t),
                                !.cap[c].ended = LeastOf({th[t].ts, cap[c].end})]
       /\ cap' = [cap EXCEPT ![c] = Closed(@, LeastOf({th[t].ts, @.end}), th[t].held, c \notin th[t].known)]
       /\ th' = [th EXCEPT ![t].fins = @ \ {c}]
  /\ UNCHANGED <<now, loop, log, disk, fails>>

FinishFails(t) ==
  /\ th[t].pc = "finish" /\ th[t].fins # {} /\ Trouble /\ Abort(t)
  /\ UNCHANGED <<now, loop, cap, log, db, disk>>

CapturesDone(t) ==
  /\ th[t].pc = "finish" /\ th[t].fins = {}
  /\ Goes(t, IF t = "quit" THEN "close" ELSE "idle")
  /\ UNCHANGED <<now, loop, cap, log, storage>>

(* HistoryService.close: the window of the bus that is open, then no more.    *)
Close ==
  /\ th["quit"].pc = "close" /\ Goes("quit", "flush")
  /\ LET full == Len(queue) >= QueueMax
         room == IF full THEN Tail(queue) ELSE queue
     IN \/ /\ accepted' = accepted + 1 /\ dropped' = dropped + IF full THEN 1 ELSE 0
           /\ queue' = Append(room, [Record("bus", {}, 0) EXCEPT !.n = accepted + 1])
        \/ UNCHANGED <<accepted, dropped, queue>>
  /\ closed' = TRUE
  /\ UNCHANGED <<now, loop, cap, storage>>

FinishSession ==
  /\ th["quit"].pc = "session"
  /\ \/ Goes("quit", "done") /\ UNCHANGED fails
     \/ Trouble /\ Abort("quit")
  /\ UNCHANGED <<now, loop, cap, log, db, disk>>

----------------------------------------------------------------------------
Loop ==
  \/ (\E s \in Streams : ReadRow(s)) \/ Observe
  \/ (\E k \in Kinds : \E age \in Ages[k] : SeeEvent(k, age)) \/ Notice \/ PushEvent
Handed == Observe \/ Notice \/ PushEvent

Thread(t) ==
  \/ TakeBatch(t) \/ WriteBatch(t) \/ WriteFails(t)
  \/ FlushCaptures(t) \/ WriteChunk(t) \/ ChunkFails(t)
  \/ PickFinished(t) \/ FinishCapture(t) \/ FinishFails(t) \/ CapturesDone(t)

Quitting == Leave \/ Close \/ FinishSession

Next == Tick \/ Loop \/ Quitting \/ \E t \in Threads : Thread(t)

(* The clock goes on, the loop ends what it began, the timer fires and the
   threads run; nothing makes anything happen or the operator leave.         *)
Fairness ==
  /\ WF_vars(Tick) /\ WF_vars(Handed)
  /\ \A t \in Threads : WF_vars(Thread(t))
  /\ WF_vars(Close \/ FinishSession)

Spec == Init /\ [][Next]_vars /\ Fairness
----------------------------------------------------------------------------
(* Properties.                                                              *)

Row == [n: 1 .. MaxRows, s: Streams, t: Nat]
Rec == [n: Nat, what: {"event", "start", "extend", "bus"}, caps: SUBSET Caps, end: Nat]

TypeOK ==
  /\ now \in 0 .. Horizon + 1 /\ seen \subseteq Row /\ events \in 0 .. MaxEvents
  /\ hand.what \in {"none", "row", "seen", "event"}
  /\ recent \in [Streams -> Seq(Row)]
  /\ \A c \in Caps :
       /\ cap[c].state \in {"none", "active", "ended"}
       /\ cap[c].pend \in [Streams -> Seq(Row)] /\ Waiting(cap[c]) <= PendingMax
       /\ cap[c].end <= cap[c].trig + Span
       /\ db.cap[c].state \in {"none", "RECORDING", "COMPLETE", "PARTIAL", "EMPTY"}
  /\ Cardinality(Active) <= MaxActive
  /\ queue \in Seq(Rec) /\ Len(queue) <= QueueMax /\ dropped \in Nat /\ accepted \in Nat
  /\ closed \in BOOLEAN /\ db.log \in Seq(Nat) /\ db.told \in Nat
  /\ \A t \in Threads : th[t].pc \in {"idle", "flush", "writing", "captures", "chunks", "finish",
                                      "close", "session", "done", "failed"}

(* What is on its way to the database, and what is not there yet.             *)
Writer   == CHOOSE t \in Writing : TRUE
InFlight == IF Writing = {} THEN <<>> ELSE th[Writer].batch
Backlog  == InFlight \o queue
Lost     == IF Writing = {} THEN 0 ELSE th[Writer].lost
GivenUp  == dropped + db.told + Lost

(* The beginning of capture c was given up when the queue overflowed.         *)
StartLost(c) ==
  cap[c].state # "none" /\ db.cap[c].state = "none" /\ c \notin Starts(Backlog)

(* An event never precedes the beginning of a capture that it names, whichever
   batches failed and were put back: the database would refuse the whole batch
   for ever.  Only an overflow may take the beginning away.                   *)
StartPrecedesUse ==
  \A i \in DOMAIN Backlog : Backlog[i].what = "event" =>
    \A c \in Backlog[i].caps :
      db.cap[c].state # "none" \/ c \in Starts(SubSeq(Backlog, 1, i)) \/ StartLost(c)

(* When the console has been left without an error, nothing that was accepted is
   only in memory: it is in the database, or counted there as lost.          *)
LeftIsDurable ==
  th["quit"].pc = "done" => accepted = Len(db.log) + db.told

(* The rows of a capture, and the ones its files hold.                        *)
InWindow(c) ==
  {r \in seen : r.s \in Covers[cap[c].scope] /\ Within(c, r.t)}
Filed(c) == UNION {UNION {Elements(disk[c][s][k]) : k \in 1 .. Len(db.meta[c][s])} : s \in Streams}
Pending(c) == UNION {Elements(cap[c].pend[s]) : s \in Streams}
FiledOnce(c) ==
  \A s \in Streams : \A k, m \in 1 .. Len(db.meta[c][s]) :
    k # m => Elements(disk[c][s][k]) \cap Elements(disk[c][s][m]) = {}

(* A capture holds every row of its window once, in a registered file or still
   waiting, whatever failed, was tried again or came between two steps of a
   flush.  Only the row that was in the hands of the loop when the last flush
   began may be missing; and the files are the ones that were registered.  (A
   capture that opens after the flush of leaving has begun is not saved.)      *)
Missed(c) == {r \in seen : cap[c].held.what = "row" /\ r.s = cap[c].held.s /\ r.t = cap[c].held.t}
RowsKept(c) ==
  /\ InWindow(c) \subseteq
       Filed(c) \cup cap[c].dropped \cup (IF cap[c].state = "active" THEN Pending(c) ELSE Missed(c))
  /\ Filed(c) \subseteq InWindow(c) \cup {r \in seen : r.t > cap[c].end}
  /\ FiledOnce(c) /\ (cap[c].state = "active" => Filed(c) \cap Pending(c) = {})
  /\ \A s \in Streams : \A k \in 1 .. Len(db.meta[c][s]) : disk[c][s][k] = db.meta[c][s][k]
RowsNeverLost ==
  \A c \in Caps : cap[c].state # "none" /\ ~cap[c].aged /\ ~cap[c].late => RowsKept(c)

(* The same of the captures of the marks that the operator made a while ago.  *)
MarkIsCovered ==
  \A c \in Caps : cap[c].state # "none" /\ cap[c].aged /\ ~cap[c].late => InWindow(c) \subseteq
    Filed(c) \cup cap[c].dropped \cup Pending(c) \cup Missed(c)

(* A capture does not stay open in the database, however often the storage has
   failed before it works again.                                             *)
Forgotten == th["quit"].pc # "idle" \/ \E c \in Caps : StartLost(c) \/ cap[c].aged
CaptureEnds ==
  \A c \in Caps : cap[c].state = "active" ~> (db.cap[c].state \in {"COMPLETE", "PARTIAL", "EMPTY"} \/ Forgotten)

(* The queue, the batch being written and the database are the log that was
   promised.                                                                 *)
Promise == INSTANCE BoundedLog WITH
  accepted <- accepted,
  pending  <- Numbers(Backlog),
  durable  <- db.log,
  lost     <- GivenUp
KeepsPromise == Promise!Spec
=============================================================================
