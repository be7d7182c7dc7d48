----------------------- MODULE ConsoleSession_proofs -----------------------
(* Proofs about the serial session, for any number of connections and commands,
   any capacity of the queues and any devices on the ports: which thread may be
   where, who owns a port, what a wrong state of the connection would need,
   where a command that waits may go, and how echoes and answers alternate.   *)
EXTENDS ConsoleSession, SequenceTheorems, TLAPS

----------------------------------------------------------------------------
(* The inductive invariant.                                                  *)

Booting(c) == pc = "boot" /\ c = made
Current(c) == c \in {sc, joining} \/ Booting(c)

(* Where a reader thread may be.  One that nobody owns any more was told to stop
   and its port is closed; it may still have lines to hand over.              *)
Runs(k) ==
  /\ k.call => k.th \in {"line", "error", "gone"}
  /\ k.th = "gone" => k.call
  /\ k.chunk # <<>> => k.th = "line"
  /\ k.call /\ k.th = "line" => k.chunk # <<>>
Orphan(k) == ~k.open /\ k.stop /\ k.th # "read"

ThreadInv ==
  \A c \in Conn : /\ Runs(cl[c])
                  /\ c > made => cl[c] = Unborn
                  /\ c <= made /\ ~Current(c) => Orphan(cl[c])

(* Who owns what: one connection at a time.                                   *)
OwnerInv ==
  /\ pc \in {"close", "open", "boot"} => sc = 0
  /\ pc \in {"open", "boot"} => joining = 0
  /\ pc = "close" => joining # 0
  /\ pc = "forced" => req # "auto"
  /\ pc = "boot" => /\ made # 0 /\ cl[made].open /\ ~cl[made].stop /\ cl[made].th = "none"
                    /\ cl[made].echo = <<>> /\ cl[made].wire = <<>>
  /\ joining # 0 => sc = 0 /\ cl[joining].stop /\ cl[joining].open
  /\ sc # 0 => sc = made /\ cl[sc].open /\ ~cl[sc].stop

(* A state that is to be set DISCONNECTED is not the one of a live connection.  *)
ShownInv ==
  /\ sc # 0 => \A c \in Conn : c # sc => cl[c].th # "gone"
  /\ closing /\ sc # 0 => ~cl[sc].alive \/ cl[sc].th \notin {"read", "line"}

(* Commands that wait were typed on this connection and are somewhere once.    *)
Once(s) == \A i, j \in DOMAIN s : s[i] = s[j] => i = j
Done == {got[i][2] : i \in DOMAIN got}
OwedTo == {owed[i] : i \in DOMAIN owed}
Queued == {auth.queue[i] : i \in DOMAIN auth.queue}

CommandInv ==
  /\ ~flush => owed = <<>>
  /\ sc = 0 => auth.pending = None /\ auth.queue = <<>>
  /\ sc # 0 => \A m \in {auth.pending} \cup OwedTo \cup Queued : m # None => home[m] = sc
  /\ Once(auth.queue) /\ Once(owed)
  /\ OwedTo \cap Queued = {} /\ Done \cap (OwedTo \cup Queued) = {}
  /\ auth.pending \notin OwedTo \cup Queued \cup Done

(* Whose a line is.                                                          *)
Belongs(l, c) == l.from = c /\ (l.kind = "GATEWAY" <=> cl[c].dev = "GATEWAY")
                            /\ (l.kind = "echo" => cl[c].dev = "SENSOR")
(* The lines of a client, those of the queue, and what a connection that lost no
   line, and none was left for, has: only its own.                            *)
Own(c) == /\ \A i \in DOMAIN cl[c].chunk : Belongs(cl[c].chunk[i], c)
          /\ \A i \in DOMAIN cl[c].wire : Belongs(cl[c].wire[i], c)
Held(l) == l.from <= made /\ ~Booting(l.from) /\ Belongs(l, l.from)
QueueInv == \A i \in DOMAIN queue : Held(queue[i])
CleanInv ==
  /\ clean /\ pc \in {"open", "boot"} => queue = <<>> /\ \A c \in Conn : cl[c].chunk = <<>>
  /\ clean /\ sc # 0 => /\ \A i \in DOMAIN queue : queue[i].from = sc
                        /\ \A c \in Conn : c # sc => cl[c].chunk = <<>>
LineInv == (\A c \in Conn : Own(c)) /\ QueueInv /\ CleanInv

(* On its way to the loop, echoes and answers of a sensor alternate, and the
   echoes are the ones expected, in order; p tells whether the next line is an
   echo (0) or an answer (1).                                                *)
Coming(k) == k.chunk \o k.wire
Alternates(s, e, p) ==
  \A i \in DOMAIN s :
    IF (i + p) % 2 = 1
    THEN s[i].kind = "echo" /\ (i + 1 - p) \div 2 \in DOMAIN e /\ s[i].msg = e[(i + 1 - p) \div 2]
    ELSE s[i].kind # "echo"
Aligned(k, p) == /\ Alternates(Coming(k), k.echo, p)
                 /\ k.alive => Len(Coming(k)) = 2 * Len(k.echo) + p

Expected == clean /\ sc # 0 /\ (req = "auto" \/ ForcedTo(req) = cl[sc].dev)
EchoInv ==
  /\ Expected => \A i \in DOMAIN queue : queue[i].from = sc => queue[i].kind # "echo"
  /\ Expected /\ cl[sc].dev = "SENSOR" =>
       /\ cl[sc].filter /\ \E p \in {0, 1} : Aligned(cl[sc], p)
       /\ cl[sc].th = "line" /\ cl[sc].call => Head(cl[sc].chunk).kind # "echo"

Inv ==
  /\ TypeOK /\ ThreadInv /\ OwnerInv /\ ShownInv /\ LiveIsShown
  /\ CommandInv /\ CommandKeepsDevice /\ LineInv /\ EchoInv

----------------------------------------------------------------------------
(* Types.                                                                    *)

(* What the assumption says of the constants, and of the names of things.      *)
LEMMA Ranges ==
  /\ MaxConn \in Nat \ {0} /\ MaxCmd \in Nat /\ LineCap \in Nat /\ QueueCap \in Nat
  /\ \A c \in Conn : \A p : p \in Ports[c] => p.mode \in Modes /\ p.dev \in Devices /\ p.token \in BOOLEAN
  /\ Conn \subseteq Int /\ 0 \notin Conn /\ Cmd \subseteq Int
  /\ Query \notin Cmd /\ Unlock \notin Cmd /\ None \notin Message /\ Query # Unlock
BY SessionAssumption DEF Conn, Cmd, Query, Unlock, None, Message

LEMMA LineType ==
  ASSUME NEW c \in Conn, NEW k \in {"SENSOR", "GATEWAY", "ok", "bad", "echo"},
         NEW m \in {None} \cup Message
  PROVE  LineOf(c, k, m) \in Line
BY DEF LineOf, Line

LEMMA UnbornType == Unborn \in Client
BY DEF Unborn, Client, Devices

LEMMA ClientFields ==
  ASSUME NEW k \in Client
  PROVE  /\ k.chunk \in Seq(Line) /\ k.wire \in Seq(Line) /\ k.echo \in Seq(Message)
         /\ k.dev \in Devices /\ k.th \in {"none", "read", "line", "error", "gone", "done"}
         /\ {k.open, k.stop, k.filter, k.call, k.token, k.alive, k.unlocked} \subseteq BOOLEAN
BY DEF Client

(* An answer to each message, after its echo when a sensor is asked.          *)
LEMMA AnswersType ==
  ASSUME NEW k \in Client, NEW c \in Conn, NEW ms \in Seq(Message)
  PROVE  /\ Answers(k, c, ms) \in Seq(Line)
         /\ k.dev = "GATEWAY" => Len(Answers(k, c, ms)) = Len(ms)
         /\ k.dev # "GATEWAY" => Len(Answers(k, c, ms)) = 2 * Len(ms)
<1>1. \A m \in Message : Answer(k, m) \in {"SENSOR", "GATEWAY", "ok", "bad"}
  BY ClientFields DEF Answer
<1>2. \A i \in 1 .. Len(ms) : ms[i] \in Message
  BY ElementOfSeq
<1>3. Len(ms) \in Nat
  BY LenProperties
<1>4. CASE k.dev = "GATEWAY"
  <2>1. \A i \in 1 .. Len(ms) : LineOf(c, Answer(k, ms[i]), None) \in Line
    BY <1>1, <1>2, LineType
  <2>2. Answers(k, c, ms) = [i \in 1 .. Len(ms) |-> LineOf(c, Answer(k, ms[i]), None)]
    BY <1>4 DEF Answers
  <2>3. QED
    BY <2>1, <2>2, <1>3, <1>4
<1>5. CASE k.dev # "GATEWAY"
  <2> DEFINE n == 2 * Len(ms)
             said(i) == IF i % 2 = 1 THEN LineOf(c, "echo", ms[(i + 1) \div 2])
                        ELSE LineOf(c, Answer(k, ms[(i + 1) \div 2]), None)
  <2>1. \A i \in 1 .. n : (i + 1) \div 2 \in 1 .. Len(ms)
    BY <1>3
  <2>2. \A i \in 1 .. n : said(i) \in Line
    BY <1>1, <1>2, <2>1, LineType
  <2>3. Answers(k, c, ms) = [i \in 1 .. n |-> said(i)]
    BY <1>5 DEF Answers
  <2>4. n \in Nat
    BY <1>3
  <2> HIDE DEF said, n
  <2>5. [i \in 1 .. n |-> said(i)] \in Seq(Line) /\ Len([i \in 1 .. n |-> said(i)]) = n
    BY <2>2, <2>4
  <2>6. QED
    BY <2>3, <2>5, <1>5 DEF n
<1>6. QED
  BY <1>4, <1>5

LEMMA WrittenType ==
  ASSUME NEW k \in Client, NEW c \in Conn, NEW ms \in Seq(Message)
  PROVE  Written(k, c, ms) \in Client
<1>1. k.wire \o Answers(k, c, ms) \in Seq(Line)
  BY AnswersType, ClientFields, ConcatProperties
<1>2. Echoed(k, ms) \in Seq(Message)
  BY ClientFields, ConcatProperties DEF Echoed
<1> DEFINE u == k.unlocked \/ (k.token /\ \E i \in DOMAIN ms : ms[i] = Unlock)
<1>3. u \in BOOLEAN
  OBVIOUS
<1>4. Written(k, c, ms) = [k EXCEPT !.echo = Echoed(k, ms), !.wire = k.wire \o Answers(k, c, ms),
                                    !.unlocked = u]
  BY DEF Written
<1> HIDE DEF u
<1>5. QED
  BY <1>1, <1>2, <1>3, <1>4 DEF Client

(* The steps of a thread, and of the cable, change one client.                *)
LEMMA ThreadType ==
  ASSUME TypeOK, NEW c \in Conn, CableBreaks(c) \/ Thread(c)
  PROVE  TypeOK'
<1>1. cl[c] \in Client /\ cl \in [Conn -> Client]
  BY DEF TypeOK
<1>2. <<>> \in Seq(Line)
  OBVIOUS
<1>3. cl' \in [Conn -> Client]
  <2>1. CASE CableBreaks(c)
    BY <1>1, <1>2, <2>1 DEF CableBreaks, Client
  <2>2. CASE ThreadReads(c)
    <3>1. CASE cl[c].wire # <<>> /\ cl' = [cl EXCEPT ![c].th = "line", ![c].chunk = cl[c].wire, ![c].wire = <<>>]
      BY <1>1, <1>2, <3>1 DEF Client
    <3>2. CASE cl' = [cl EXCEPT ![c].th = "done"]
      BY <1>1, <3>2 DEF Client
    <3>3. CASE cl' = [cl EXCEPT ![c].th = IF cl[c].stop THEN "done" ELSE "error", ![c].call = ~cl[c].stop]
      BY <1>1, <3>3 DEF Client
    <3>4. QED
      BY <2>2, <3>1, <3>2, <3>3 DEF ThreadReads
  <2>3. CASE ThreadHandsOver(c)
    <3>1. CASE cl[c].chunk = <<>>
      <4>1. cl' = [cl EXCEPT ![c].th = Again(c)]
        BY <2>3, <3>1 DEF ThreadHandsOver
      <4>2. QED
        BY <1>1, <4>1 DEF Client, Again
    <3>2. CASE cl[c].chunk # <<>> /\ IsPendingEcho(c, Head(cl[c].chunk))
      <4>1. Tail(cl[c].chunk) \in Seq(Line)
        BY <1>1, <3>2, ClientFields, HeadTailProperties
      <4>2. Tail(cl[c].echo) \in Seq(Message)
        BY <1>1, <3>2, ClientFields, HeadTailProperties DEF IsPendingEcho
      <4>3. cl' = [cl EXCEPT ![c].chunk = Tail(@), ![c].echo = Tail(@)]
        BY <2>3, <3>2 DEF ThreadHandsOver
      <4>4. QED
        BY <1>1, <4>1, <4>2, <4>3 DEF Client
    <3>3. CASE cl[c].chunk # <<>> /\ ~IsPendingEcho(c, Head(cl[c].chunk))
      <4>1. cl' = [cl EXCEPT ![c].call = TRUE]
        BY <2>3, <3>3 DEF ThreadHandsOver
      <4>2. QED
        BY <1>1, <4>1 DEF Client
    <3>4. QED
      BY <3>1, <3>2, <3>3
  <2>4. CASE ThreadReports(c)
    BY <1>1, <2>4 DEF ThreadReports, Client
  <2>5. QED
    BY <2>1, <2>2, <2>3, <2>4 DEF Thread
<1>4. UNCHANGED <<session, shown, decode, safety, got>>
  BY DEF CableBreaks, Thread, ThreadReads, ThreadHandsOver, ThreadReports, ThreadOnly
<1>5. QED
  BY <1>3, <1>4 DEF TypeOK, session, shown, decode, safety

LEMMA CalledType ==
  ASSUME TypeOK, ThreadInv, NEW c \in Conn, Called(c)
  PROVE  TypeOK'
<1>1. cl[c] \in Client /\ cl \in [Conn -> Client]
  BY DEF TypeOK
<1>2. CASE EnqueueLine(c)
  <2>0. cl[c].chunk # <<>>
    BY <1>2 DEF ThreadInv, Runs, EnqueueLine
  <2>1. Head(cl[c].chunk) \in Line /\ Tail(cl[c].chunk) \in Seq(Line)
    BY <1>1, <2>0, ClientFields, HeadTailProperties
  <2>2. cl' = [cl EXCEPT ![c].call = FALSE, ![c].chunk = Tail(@)]
    BY <1>2 DEF EnqueueLine
  <2>3. cl' \in [Conn -> Client]
    BY <1>1, <2>1, <2>2 DEF Client
  <2>4. queue' \in Seq(Line) /\ clean' \in BOOLEAN
    <3>1. queue \in Seq(Line) /\ clean \in BOOLEAN
      BY DEF TypeOK
    <3>2. Append(queue, Head(cl[c].chunk)) \in Seq(Line)
      BY <2>1, <3>1, AppendProperties
    <3>3. QED
      BY <1>2, <3>1, <3>2 DEF EnqueueLine
  <2>5. QED
    BY <1>2, <2>3, <2>4 DEF TypeOK, EnqueueLine, session, shown, safety
<1>3. CASE SerialError(c)
  <2>1. cl' \in [Conn -> Client]
    BY <1>1, <1>3 DEF SerialError, Client
  <2>2. QED
    BY <1>3, <2>1 DEF TypeOK, SerialError, ThreadOnly, session, shown, decode, safety
<1>4. CASE SerialDisconnected(c)
  <2>1. cl' \in [Conn -> Client]
    BY <1>1, <1>4 DEF SerialDisconnected, Client
  <2>2. QED
    BY <1>4, <2>1, ZenonT(60) DEF TypeOK, SerialDisconnected, session, decode, safety
<1>5. QED
  BY <1>2, <1>3, <1>4 DEF Called

(* The connection.                                                           *)
LEMMA FilteredType ==
  ASSUME TypeOK, NEW m \in Mode
  PROVE  Filtered(m) \in [Conn -> Client]
<1>1. cl \in [Conn -> Client] /\ sc \in Int
  BY DEF TypeOK
<1>2. <<>> \in Seq(Message)
  OBVIOUS
<1>3. CASE sc \in Conn
  <2>1. cl[sc] \in Client
    BY <1>1, <1>3
  <2>2. sc # 0
    BY <1>3, Ranges
  <2>3. QED
    BY <1>1, <1>2, <1>3, <2>1, <2>2 DEF Filtered, Client
<1>4. CASE sc \notin Conn
  <2>1. sc = 0
    BY <1>4, SessionAssumption DEF TypeOK, Conn
  <2>2. QED
    BY <1>1, <2>1 DEF Filtered
<1>5. QED
  BY <1>3, <1>4

LEMMA ModeOf ==
  ASSUME NEW m \in Modes
  PROVE  ForcedTo(m) \in Mode
BY DEF ForcedTo, Mode, Modes

(* The number of a connection that there is, in the code 0 for none.           *)
LEMMA Numbers ==
  ASSUME TypeOK
  PROVE  /\ made \in Nat
         /\ made # 0 => made \in Conn
         /\ sc # 0 => sc \in Conn /\ sc <= made
         /\ joining # 0 => joining \in Conn /\ joining <= made
BY SessionAssumption DEF TypeOK, Conn

LEMMA SendType ==
  ASSUME TypeOK, NEW ms \in Seq(Message), Send(ms)
  PROVE  cl' \in [Conn -> Client] /\ got' \in Seq(Conn \X Cmd)
<1>1. CASE ~Writable
  BY <1>1 DEF Send, TypeOK
<1>2. CASE Writable
  <2>1. sc \in Conn
    BY <1>2, Numbers DEF Writable
  <2>2. cl \in [Conn -> Client] /\ cl[sc] \in Client
    BY <2>1 DEF TypeOK
  <2>3. Written(cl[sc], sc, ms) \in Client
    BY <2>1, <2>2, WrittenType
  <2>4. cl' \in [Conn -> Client]
    BY <1>2, <2>1, <2>2, <2>3 DEF Send
  <2>5. got \in Seq(Conn \X Cmd)
    BY DEF TypeOK
  <2>6. CASE \A i \in DOMAIN ms : Obeys(cl[sc], ms[i])
    <3>1. \A i \in 1 .. Len(ms) : <<sc, ms[i]>> \in Conn \X Cmd
      BY <2>1, <2>6, LenProperties DEF Obeys
    <3>2. DOMAIN ms = 1 .. Len(ms) /\ Len(ms) \in Nat
      BY LenProperties
    <3>3. [i \in 1 .. Len(ms) |-> <<sc, ms[i]>>] \in Seq(Conn \X Cmd)
      BY <3>1, <3>2
    <3>4. got' = got \o [i \in 1 .. Len(ms) |-> <<sc, ms[i]>>]
      BY <1>2, <2>6, <3>2 DEF Send
    <3>5. QED
      BY <2>4, <2>5, <3>3, <3>4, ConcatProperties
  <2>7. CASE ~\A i \in DOMAIN ms : Obeys(cl[sc], ms[i])
    BY <1>2, <2>4, <2>5, <2>7 DEF Send
  <2>8. QED
    BY <2>6, <2>7
<1>3. QED
  BY <1>1, <1>2

LEMMA ConnectorType ==
  ASSUME TypeOK, OwnerInv, Connector \/ Opening
  PROVE  TypeOK'
<1>1. cl \in [Conn -> Client]
  BY DEF TypeOK
<1>2. <<>> \in Seq(Line) /\ <<>> \in Seq(Message)
  OBVIOUS
<1>3. CASE CloseDone
  <2>1. joining \in Conn
    BY <1>3, Numbers DEF CloseDone
  <2>2. cl[joining] \in Client
    BY <1>1, <2>1
  <2>3. cl' = [cl EXCEPT ![joining].open = FALSE, ![joining].echo = <<>>, ![joining].wire = <<>>]
    BY <1>3 DEF CloseDone
  <2>4. cl' \in [Conn -> Client]
    BY <1>1, <1>2, <2>1, <2>2, <2>3 DEF Client
  <2>5. ForcedTo(req) \in Mode
    BY ModeOf DEF TypeOK
  <2>6. UNCHANGED <<made, sc, req, closing, queue, flush, auth, owed, home, got>> /\ joining' = 0
    BY <1>3 DEF CloseDone, safety
  <2>7. CASE pc = "close"
    <3>1. /\ pc' = "open" /\ mode' = ForcedTo(req) /\ conn' = "CONNECTING"
          /\ cmode' = "UNKNOWN" /\ clean' = ~LeftOver
      BY <1>3, <2>7 DEF CloseDone, Reopen, Reset
    <3>2. QED
      BY <2>4, <2>5, <2>6, <3>1, Numbers DEF TypeOK, Mode
  <2>8. CASE pc # "close"
    <3>1. conn' = "DISCONNECTED" /\ UNCHANGED <<pc, mode, cmode, clean>>
      BY <1>3, <2>8 DEF CloseDone
    <3>2. QED
      BY <2>4, <2>6, <3>1, Numbers DEF TypeOK
  <2>9. QED
    BY <2>7, <2>8
<1>4. CASE StartReading
  <2>0. pc = "boot"
    BY <1>4 DEF StartReading
  <2>1. made \in Conn
    <3>1. made # 0
      BY <2>0 DEF OwnerInv
    <3>2. QED
      BY <3>1, Numbers
  <2>2. cl[made] \in Client
    BY <1>1, <2>1
  <2>3. cl' = [cl EXCEPT ![made].wire = <<>>, ![made].th = "read", ![made].filter = (req # "gateway")]
    BY <1>4 DEF StartReading
  <2>4. cl' \in [Conn -> Client]
    BY <1>1, <1>2, <2>1, <2>2, <2>3 DEF Client
  <2>5. sc' \in 0 .. made
    BY <1>4, Numbers DEF StartReading, TypeOK
  <2>6. QED
    BY <1>4, <2>4, <2>5 DEF TypeOK, StartReading, decode, safety
<1>5. CASE ForcedMode
  <2>1. ForcedTo(req) \in Mode
    BY ModeOf DEF TypeOK
  <2>2. cl' \in [Conn -> Client] /\ cmode' \in Mode
    BY <1>5, <2>1, FilteredType DEF ForcedMode
  <2>3. QED
    BY <1>5, <2>2 DEF TypeOK, ForcedMode, decode, safety
<1>6. CASE SendProbe
  <2>1. <<Query>> \in Seq(Message)
    BY DEF Message
  <2>2. cl' \in [Conn -> Client] /\ got' \in Seq(Conn \X Cmd)
    BY <1>6, <2>1, SendType DEF SendProbe
  <2>3. QED
    BY <1>6, <2>2 DEF TypeOK, SendProbe, shown, decode, safety
<1>7. CASE ConnectionClosed
  BY <1>7 DEF TypeOK, ConnectionClosed, session, decode, safety
<1>8. CASE OpenFails
  BY <1>8 DEF TypeOK, OpenFails, decode, safety
<1>9. ASSUME NEW c \in Conn, c = made + 1, NEW p \in Ports[c], OpenPort(p)
      PROVE  TypeOK'
  <2> DEFINE k == [Unborn EXCEPT !.open = TRUE, !.dev = p.dev, !.token = p.token]
  <2>1. k \in Client
    BY <1>9, UnbornType, Ranges DEF Client
  <2>2. cl' = [cl EXCEPT ![c] = k]
    BY <1>9 DEF OpenPort
  <2> HIDE DEF k
  <2>3. cl' \in [Conn -> Client]
    BY <1>1, <2>1, <2>2
  <2>4. /\ made' \in 0 .. MaxConn /\ sc \in 0 .. made' /\ joining \in 0 .. made'
    BY <1>9, SessionAssumption DEF OpenPort, TypeOK, Conn
  <2>5. QED
    BY <1>9, <2>3, <2>4 DEF TypeOK, OpenPort, shown, decode, safety
<1>10. QED
  BY <1>3, <1>4, <1>5, <1>6, <1>7, <1>8, <1>9 DEF Connector, Opening

LEMMA LinesType ==
  ASSUME TypeOK, Lines
  PROVE  TypeOK'
<1>1. cl \in [Conn -> Client] /\ got \in Seq(Conn \X Cmd)
  BY DEF TypeOK
<1>2. /\ auth \in [ok: BOOLEAN, inflight: BOOLEAN, pending: {None} \cup Cmd, queue: Seq(Cmd)]
      /\ owed \in Seq(Cmd) /\ queue \in Seq(Line) /\ mode \in Mode
  BY DEF TypeOK
<1>3. <<>> \in Seq(Cmd)
  OBVIOUS
<1>4. CASE DecodeLine
  <2> DEFINE l == Head(queue)
             first == mode = "UNKNOWN" /\ Detected(l) # "UNKNOWN"
             now == IF first THEN Detected(l) ELSE mode
             unlocked == now = "SENSOR" /\ l.kind = "ok"
  <2>1. /\ mode' = now /\ queue' = Tail(queue) /\ queue # <<>> /\ flush' = unlocked
        /\ IF first THEN conn' = "READY" /\ cmode' = now /\ cl' = Filtered(now)
           ELSE UNCHANGED <<conn, cmode, cl>>
        /\ auth' = IF unlocked
                   THEN [auth EXCEPT !.ok = TRUE, !.inflight = FALSE, !.pending = None]
                   ELSE IF now = "SENSOR" /\ l.kind = "bad" THEN Refused ELSE auth
        /\ owed' = IF unlocked /\ auth.pending # None THEN <<auth.pending>> ELSE owed
        /\ UNCHANGED <<session, closing, clean, home, got>>
    BY <1>4 DEF DecodeLine
  <2>2. now \in Mode
    BY <1>2 DEF Detected, Mode
  <2>3. flush' \in BOOLEAN
    BY <2>1
  <2> HIDE DEF now, first, unlocked, l
  <2>4. cl' \in [Conn -> Client] /\ cmode' \in Mode
    BY <1>1, <2>1, <2>2, FilteredType DEF TypeOK
  <2>5. queue' \in Seq(Line)
    BY <1>2, <2>1, HeadTailProperties
  <2>6. auth' \in [ok: BOOLEAN, inflight: BOOLEAN, pending: {None} \cup Cmd, queue: Seq(Cmd)]
    BY <1>2, <1>3, <2>1 DEF Refused, NoAuth
  <2>7. owed' \in Seq(Cmd)
    BY <1>2, <2>1
  <2>8. conn' \in {"DISCONNECTED", "CONNECTING", "RECONNECTING", "SYNCHRONIZING", "READY"}
    BY <2>1 DEF TypeOK
  <2>9. QED
    BY <2>1, <2>2, <2>3, <2>4, <2>5, <2>6, <2>7, <2>8 DEF TypeOK, session
<1>5. CASE Flush
  <2>1. owed \o auth.queue \in Seq(Cmd)
    BY <1>2, ConcatProperties
  <2>2. owed \o auth.queue \in Seq(Message)
    BY <2>1, SeqMonotonic DEF Message
  <2>3. cl' \in [Conn -> Client] /\ got' \in Seq(Conn \X Cmd)
    BY <1>1, <1>5, <2>2, SendType DEF Flush
  <2>4. auth' \in [ok: BOOLEAN, inflight: BOOLEAN, pending: {None} \cup Cmd, queue: Seq(Cmd)]
    BY <1>2, <1>3, <1>5 DEF Flush
  <2>5. QED
    BY <1>3, <1>5, <2>3, <2>4 DEF TypeOK, Flush, session, shown
<1>6. QED
  BY <1>4, <1>5 DEF Lines

LEMMA CommandType ==
  ASSUME TypeOK, NEW m \in Cmd, SendCommand(m)
  PROVE  TypeOK'
<1>1. <<m>> \in Seq(Message) /\ <<Unlock>> \in Seq(Message)
  BY DEF Message
<1>2. cl' \in [Conn -> Client] /\ got' \in Seq(Conn \X Cmd)
  <2>1. Send(<<m>>) \/ Send(<<Unlock>>) \/ UNCHANGED <<cl, got>>
    BY DEF SendCommand
  <2>2. CASE UNCHANGED <<cl, got>>
    BY <2>2 DEF TypeOK
  <2>3. QED
    BY <1>1, <2>1, <2>2, SendType
<1>3. auth \in [ok: BOOLEAN, inflight: BOOLEAN, pending: {None} \cup Cmd, queue: Seq(Cmd)]
  BY DEF TypeOK
<1>4. Append(auth.queue, m) \in Seq(Cmd)
  BY <1>3, AppendProperties
<1>5. auth' \in [ok: BOOLEAN, inflight: BOOLEAN, pending: {None} \cup Cmd, queue: Seq(Cmd)]
  <2>1. \/ auth' = auth \/ auth' = [auth EXCEPT !.queue = Append(@, m)]
        \/ auth' = [auth EXCEPT !.ok = FALSE, !.inflight = TRUE, !.pending = m]
    BY DEF SendCommand
  <2>2. QED
    BY <1>3, <1>4, <2>1
<1>6. home' \in [Cmd -> 0 .. MaxConn]
  <2>1. sc \in 0 .. MaxConn
    BY SessionAssumption DEF TypeOK
  <2>2. QED
    BY <2>1 DEF TypeOK, SendCommand
<1>7. QED
  BY <1>2, <1>5, <1>6 DEF TypeOK, SendCommand, session, shown, decode

LEMMA OperatorType ==
  ASSUME TypeOK, Operator
  PROVE  TypeOK'
<1>1. cl \in [Conn -> Client]
  BY DEF TypeOK
<1>2. <<>> \in Seq(Cmd) /\ None \in {None} \cup Cmd
  OBVIOUS
<1>3. NoAuth \in [ok: BOOLEAN, inflight: BOOLEAN, pending: {None} \cup Cmd, queue: Seq(Cmd)]
  BY <1>2 DEF NoAuth
<1>4. sc # 0 => [cl EXCEPT ![sc].stop = TRUE] \in [Conn -> Client]
  BY <1>1, Numbers, ZenonT(60) DEF Client
<1>5. ASSUME NEW c \in Conn, NEW p \in Ports[c], ConnectSerial(p.mode)
      PROVE  TypeOK'
  <2>1. p.mode \in Modes
    BY Ranges
  <2>2. ForcedTo(p.mode) \in Mode
    BY <2>1, ModeOf
  <2>3. /\ auth' = NoAuth /\ sc' = 0 /\ req' = p.mode
        /\ UNCHANGED <<made, closing, queue, flush, owed, home, got>>
    BY <1>5 DEF ConnectSerial, EndSession
  <2>4. CASE sc # 0
    <3>1. /\ joining' = sc /\ pc' = "close" /\ cl' = [cl EXCEPT ![sc].stop = TRUE]
          /\ UNCHANGED <<mode, conn, cmode, clean>>
      BY <1>5, <2>4 DEF ConnectSerial
    <3>2. QED
      BY <1>3, <1>4, <2>1, <2>3, <2>4, <3>1 DEF TypeOK
  <2>5. CASE sc = 0
    <3>1. /\ pc' = "open" /\ mode' = ForcedTo(p.mode) /\ conn' = "CONNECTING"
          /\ cmode' = "UNKNOWN" /\ clean' = ~LeftOver /\ UNCHANGED <<cl, joining>>
      BY <1>5, <2>5 DEF ConnectSerial, Reopen, Reset
    <3>2. QED
      BY <1>3, <2>1, <2>2, <2>3, <3>1, Numbers DEF TypeOK, Mode
  <2>6. QED
    BY <2>4, <2>5
<1>6. CASE Disconnect
  <2>1. /\ auth' = NoAuth /\ sc' = 0
        /\ UNCHANGED <<made, pc, req, cmode, closing, decode, owed, home, got>>
    BY <1>6 DEF Disconnect, EndSession
  <2>2. CASE sc # 0
    <3>1. joining' = sc /\ cl' = [cl EXCEPT ![sc].stop = TRUE] /\ UNCHANGED conn
      BY <1>6, <2>2 DEF Disconnect
    <3>2. QED
      BY <1>3, <1>4, <2>1, <2>2, <3>1 DEF TypeOK, decode
  <2>3. CASE sc = 0
    <3>1. conn' = "DISCONNECTED" /\ UNCHANGED <<cl, joining>>
      BY <1>6, <2>3 DEF Disconnect
    <3>2. QED
      BY <1>3, <2>1, <3>1, Numbers DEF TypeOK, decode
  <2>4. QED
    BY <2>2, <2>3
<1>7. CASE ReconnectIgnored
  BY <1>7 DEF TypeOK, ReconnectIgnored, session, decode, safety
<1>8. QED
  BY <1>5, <1>6, <1>7, CommandType DEF Operator

LEMMA TypeStep ==
  ASSUME TypeOK, ThreadInv, OwnerInv, [Next]_vars
  PROVE  TypeOK'
<1>1. CASE UNCHANGED vars
  BY <1>1 DEF TypeOK, vars, session, shown, decode, safety
<1>2. QED
  BY <1>1, ThreadType, CalledType, ConnectorType, LinesType, OperatorType DEF Next

----------------------------------------------------------------------------
(* Threads and owners.                                                       *)

(* A step of one thread, or of the loop for it, that opens and stops nothing.   *)
LEMMA OneClient ==
  ASSUME TypeOK, ThreadInv, OwnerInv, NEW c \in Conn,
         \A d \in Conn : d # c => cl'[d] = cl[d],
         UNCHANGED session, Runs(cl'[c]), cl[c] # Unborn,
         cl'[c].open = cl[c].open, cl'[c].stop = cl[c].stop,
         cl'[c].th = "read" => cl[c].th = "read" \/ ~cl[c].stop,
         pc = "boot" /\ c = made =>
           cl'[c].th = "none" /\ cl'[c].echo = <<>> /\ cl'[c].wire = <<>>
  PROVE  ThreadInv' /\ OwnerInv'
<1>1. UNCHANGED <<made, sc, pc, req, joining>>
  BY DEF session
<1>2. ThreadInv'
  <2> SUFFICES ASSUME NEW d \in Conn
               PROVE  /\ Runs(cl'[d]) /\ (d > made => cl'[d] = Unborn)
                      /\ d <= made /\ ~Current(d) => Orphan(cl'[d])
    BY <1>1 DEF ThreadInv, Runs, Orphan, Current, Booting
  <2>1. CASE d # c
    BY <2>1 DEF ThreadInv
  <2>2. CASE d = c
    <3>1. ~(c > made)
      BY DEF ThreadInv
    <3>2. c <= made /\ ~Current(c) => Orphan(cl[c])
      BY DEF ThreadInv
    <3>3. c <= made /\ ~Current(c) => Orphan(cl'[c])
      BY <3>2 DEF Orphan
    <3>4. QED
      BY <2>2, <3>1, <3>3
  <2>3. QED
    BY <2>1, <2>2
<1>3. OwnerInv'
  <2>1. \A d \in Conn : cl'[d].open = cl[d].open /\ cl'[d].stop = cl[d].stop
    OBVIOUS
  <2>2. pc = "boot" => /\ made # 0 /\ cl'[made].open /\ ~cl'[made].stop /\ cl'[made].th = "none"
                       /\ cl'[made].echo = <<>> /\ cl'[made].wire = <<>>
    <3> SUFFICES ASSUME pc = "boot"
                 PROVE  /\ made # 0 /\ cl'[made].open /\ ~cl'[made].stop /\ cl'[made].th = "none"
                        /\ cl'[made].echo = <<>> /\ cl'[made].wire = <<>>
      OBVIOUS
    <3>1. /\ made # 0 /\ cl[made].open /\ ~cl[made].stop /\ cl[made].th = "none"
          /\ cl[made].echo = <<>> /\ cl[made].wire = <<>>
      BY DEF OwnerInv
    <3>2. made \in Conn
      BY <3>1, Numbers
    <3>3. CASE made = c
      BY <2>1, <3>1, <3>2, <3>3
    <3>4. CASE made # c
      BY <3>1, <3>2, <3>4
    <3>5. QED
      BY <3>3, <3>4
  <2>3. joining # 0 => sc = 0 /\ cl'[joining].stop /\ cl'[joining].open
    BY <2>1, Numbers DEF OwnerInv
  <2>4. sc # 0 => sc = made /\ cl'[sc].open /\ ~cl'[sc].stop
    BY <2>1, Numbers DEF OwnerInv
  <2>5. QED
    BY <1>1, <2>2, <2>3, <2>4 DEF OwnerInv
<1>4. QED
  BY <1>2, <1>3

LEMMA ThreadOwner ==
  ASSUME TypeOK, ThreadInv, OwnerInv, NEW c \in Conn, CableBreaks(c) \/ Thread(c) \/ Called(c)
  PROVE  ThreadInv' /\ OwnerInv'
<1>1. cl \in [Conn -> Client] /\ cl[c] \in Client
  BY DEF TypeOK
<1>2. Runs(cl[c])
  BY DEF ThreadInv
<1>3. pc = "boot" /\ c = made => cl[c].th = "none" /\ cl[c].echo = <<>> /\ cl[c].wire = <<>>
  BY DEF OwnerInv
<1>4. CASE CableBreaks(c)
  <2>1. cl[c] # Unborn /\ UNCHANGED session
    BY <1>4 DEF CableBreaks, Unborn
  <2>2. \A d \in Conn : d # c => cl'[d] = cl[d]
    BY <1>1, <1>4 DEF CableBreaks
  <2>3. cl'[c] = [cl[c] EXCEPT !.alive = FALSE, !.wire = <<>>]
    BY <1>1, <1>4 DEF CableBreaks
  <2>4. /\ Runs(cl'[c]) /\ cl'[c].open = cl[c].open /\ cl'[c].stop = cl[c].stop
        /\ cl'[c].th = cl[c].th /\ cl'[c].echo = cl[c].echo /\ cl'[c].wire = <<>>
    BY <1>1, <1>2, <2>3 DEF Runs, Client
  <2>5. QED
    BY <1>3, <2>1, <2>2, <2>4, OneClient
<1>5. ASSUME Thread(c) \/ Called(c)
      PROVE  ThreadInv' /\ OwnerInv'
  <2>1. cl[c].th # "none" /\ UNCHANGED session
    BY <1>5, <1>2 DEF Thread, Called, ThreadReads, ThreadHandsOver, ThreadReports, EnqueueLine,
                      SerialError, SerialDisconnected, ThreadOnly, Runs
  <2>2. cl[c] # Unborn
    BY <2>1 DEF Unborn
  <2>3. \A d \in Conn : d # c => cl'[d] = cl[d]
    BY <1>1, <1>5 DEF Thread, Called, ThreadReads, ThreadHandsOver, ThreadReports, EnqueueLine,
                      SerialError, SerialDisconnected
  <2>4. /\ cl'[c].open = cl[c].open /\ cl'[c].stop = cl[c].stop
        /\ cl'[c].th = "read" => cl[c].th = "read" \/ ~cl[c].stop
        /\ Runs(cl'[c])
    <3>1. CASE ThreadReads(c)
      BY <1>1, <1>2, <3>1 DEF ThreadReads, Runs, Client, Again, StopSeen
    <3>2. CASE ThreadHandsOver(c)
      BY <1>1, <1>2, <3>2 DEF ThreadHandsOver, Runs, Client, Again, StopSeen
    <3>3. CASE ThreadReports(c)
      BY <1>1, <1>2, <3>3 DEF ThreadReports, Runs, Client
    <3>4. CASE EnqueueLine(c)
      BY <1>1, <1>2, <3>4 DEF EnqueueLine, Runs, Client
    <3>5. CASE SerialError(c)
      BY <1>1, <1>2, <3>5 DEF SerialError, Runs, Client
    <3>6. CASE SerialDisconnected(c)
      BY <1>1, <1>2, <3>6 DEF SerialDisconnected, Runs, Client
    <3>7. QED
      BY <1>5, <3>1, <3>2, <3>3, <3>4, <3>5, <3>6 DEF Thread, Called
  <2>5. QED
    BY <1>3, <2>1, <2>2, <2>3, <2>4, OneClient
<1>6. QED
  BY <1>4, <1>5

(* The loop speaks to the current client: no thread moves.                     *)
Spoken(k, j) ==
  /\ k.open = j.open /\ k.stop = j.stop /\ k.th = j.th /\ k.call = j.call
  /\ k.chunk = j.chunk /\ k.alive = j.alive /\ k.dev = j.dev

LEMMA SendSpeaks ==
  ASSUME TypeOK, NEW ms \in Seq(Message), Send(ms)
  PROVE  \A c \in Conn : Spoken(cl'[c], cl[c]) /\ (c # sc => cl'[c] = cl[c])
<1>1. CASE ~Writable
  BY <1>1 DEF Send, Spoken
<1>2. CASE Writable
  <2>1. cl \in [Conn -> Client] /\ sc \in Conn
    BY <1>2, Numbers DEF Writable, TypeOK
  <2>2. cl' = [cl EXCEPT ![sc] = Written(cl[sc], sc, ms)]
    BY <1>2 DEF Send
  <2>3. Spoken(Written(cl[sc], sc, ms), cl[sc])
    <3> DEFINE u == cl[sc].unlocked \/ (cl[sc].token /\ \E i \in DOMAIN ms : ms[i] = Unlock)
    <3>1. Written(cl[sc], sc, ms) =
            [cl[sc] EXCEPT !.echo = Echoed(cl[sc], ms), !.wire = cl[sc].wire \o Answers(cl[sc], sc, ms),
                           !.unlocked = u]
      BY DEF Written
    <3> HIDE DEF u
    <3>2. cl[sc] \in Client
      BY <2>1
    <3>3. QED
      BY <3>1, <3>2 DEF Spoken, Client
  <2>4. QED
    BY <2>1, <2>2, <2>3 DEF Spoken
<1>3. QED
  BY <1>1, <1>2

LEMMA FilterSpeaks ==
  ASSUME TypeOK, NEW m, cl' = Filtered(m)
  PROVE  \A c \in Conn : Spoken(cl'[c], cl[c]) /\ (c # sc => cl'[c] = cl[c])
<1>1. CASE sc = 0
  BY <1>1 DEF Filtered, Spoken
<1>2. CASE sc # 0
  <2>1. cl \in [Conn -> Client] /\ sc \in Conn /\ cl[sc] \in Client
    BY <1>2, Numbers DEF TypeOK
  <2>2. cl' = [cl EXCEPT ![sc].filter = (m = "SENSOR"), ![sc].echo = IF m = "SENSOR" THEN @ ELSE <<>>]
    BY <1>2 DEF Filtered
  <2>3. QED
    BY <2>1, <2>2 DEF Spoken, Client
<1>3. QED
  BY <1>1, <1>2

LEMMA SpeakingOwner ==
  ASSUME TypeOK, ThreadInv, OwnerInv, UNCHANGED <<made, sc, req, joining>>,
         pc' = pc \/ (pc \in {"forced", "probe"} /\ pc' \in {"probe", "idle"}),
         \A c \in Conn : Spoken(cl'[c], cl[c]) /\ (c # sc => cl'[c] = cl[c])
  PROVE  ThreadInv' /\ OwnerInv'
<1>1. ThreadInv'
  <2> SUFFICES ASSUME NEW d \in Conn
               PROVE  /\ Runs(cl'[d]) /\ (d > made => cl'[d] = Unborn)
                      /\ d <= made /\ ~Current(d)' => Orphan(cl'[d])
    BY DEF ThreadInv, Runs, Orphan, Current, Booting
  <2>1. Runs(cl[d]) /\ (d > made => cl[d] = Unborn) /\ (d <= made /\ ~Current(d) => Orphan(cl[d]))
    BY DEF ThreadInv
  <2>2. Runs(cl'[d]) /\ (Orphan(cl[d]) => Orphan(cl'[d]))
    BY <2>1 DEF Runs, Orphan, Spoken
  <2>3. ~Current(d)' => ~Current(d)
    BY DEF Current, Booting
  <2>4. d > made => cl'[d] = Unborn
    <3>1. d > made => d # sc
      BY Numbers, Ranges DEF TypeOK
    <3>2. QED
      BY <2>1, <3>1
  <2>5. QED
    BY <2>1, <2>2, <2>3, <2>4
<1>2. OwnerInv'
  <2>1. pc' \in {"close", "open", "boot"} => pc' = pc
    OBVIOUS
  <2>2. pc' = "forced" => pc = "forced"
    OBVIOUS
  <2>3. pc = "boot" => /\ made # 0 /\ cl'[made].open /\ ~cl'[made].stop /\ cl'[made].th = "none"
                       /\ cl'[made].echo = <<>> /\ cl'[made].wire = <<>>
    <3>1. pc = "boot" => sc = 0 /\ made # 0 /\ made \in Conn
      BY Numbers DEF OwnerInv
    <3>2. pc = "boot" => cl'[made] = cl[made]
      BY <3>1
    <3>3. QED
      BY <3>1, <3>2 DEF OwnerInv
  <2>4. joining # 0 => sc = 0 /\ cl'[joining].stop /\ cl'[joining].open
    BY Numbers DEF OwnerInv, Spoken
  <2>5. sc # 0 => sc = made /\ cl'[sc].open /\ ~cl'[sc].stop
    BY Numbers DEF OwnerInv, Spoken
  <2>6. QED
    BY <2>1, <2>2, <2>3, <2>4, <2>5 DEF OwnerInv
<1>3. QED
  BY <1>1, <1>2

(* The messages that are sent, and the steps that send or filter.             *)
Speaking == ForcedMode \/ SendProbe \/ DecodeLine \/ Flush \/ \E m \in Cmd : SendCommand(m)

LEMMA Speaks ==
  ASSUME TypeOK, Speaking
  PROVE  /\ \A c \in Conn : Spoken(cl'[c], cl[c]) /\ (c # sc => cl'[c] = cl[c])
         /\ UNCHANGED <<made, sc, req, joining>>
         /\ pc' = pc \/ (pc \in {"forced", "probe"} /\ pc' \in {"probe", "idle"})
<1>1. CASE ForcedMode
  BY <1>1, FilterSpeaks DEF ForcedMode
<1>2. CASE SendProbe
  <2>1. <<Query>> \in Seq(Message)
    BY DEF Message
  <2>2. QED
    BY <1>2, <2>1, SendSpeaks DEF SendProbe
<1>3. CASE DecodeLine
  <2>1. (\E m : cl' = Filtered(m)) \/ cl' = cl
    BY <1>3 DEF DecodeLine
  <2>2. UNCHANGED session
    BY <1>3 DEF DecodeLine
  <2>3. QED
    BY <2>1, <2>2, FilterSpeaks DEF session, Spoken
<1>4. CASE Flush
  <2>1. owed \o auth.queue \in Seq(Message)
    <3>1. owed \in Seq(Cmd) /\ auth.queue \in Seq(Cmd)
      BY DEF TypeOK
    <3>2. QED
      BY <3>1, ConcatProperties, SeqMonotonic DEF Message
  <2>2. Send(owed \o auth.queue) \/ cl' = cl
    BY <1>4 DEF Flush
  <2>3. UNCHANGED session
    BY <1>4 DEF Flush
  <2>4. QED
    BY <2>1, <2>2, <2>3, SendSpeaks DEF session, Spoken
<1>5. ASSUME NEW m \in Cmd, SendCommand(m)
      PROVE  /\ \A c \in Conn : Spoken(cl'[c], cl[c]) /\ (c # sc => cl'[c] = cl[c])
             /\ UNCHANGED session
  <2>1. <<m>> \in Seq(Message) /\ <<Unlock>> \in Seq(Message)
    BY DEF Message
  <2>2. Send(<<m>>) \/ Send(<<Unlock>>) \/ cl' = cl
    BY <1>5 DEF SendCommand
  <2>3. UNCHANGED session
    BY <1>5 DEF SendCommand
  <2>4. QED
    BY <2>1, <2>2, <2>3, SendSpeaks DEF Spoken
<1>6. QED
  BY <1>1, <1>2, <1>3, <1>4, <1>5 DEF Speaking, session

LEMMA SpeakingKeepsOwner ==
  ASSUME TypeOK, ThreadInv, OwnerInv, Speaking
  PROVE  ThreadInv' /\ OwnerInv'
BY Speaks, SpeakingOwner

(* Opening and closing: who owns a port changes here.                          *)
LEMMA StopOwner ==
  ASSUME TypeOK, ThreadInv, OwnerInv, LoopFree, sc # 0, sc' = 0, joining' = sc,
         cl' = [cl EXCEPT ![sc].stop = TRUE], made' = made,
         \/ pc' = "close"
         \/ pc' = pc /\ req' = req
  PROVE  ThreadInv' /\ OwnerInv'
<1>1. cl \in [Conn -> Client] /\ sc \in Conn /\ cl[sc] \in Client /\ sc = made /\ cl[sc].open
  BY Numbers DEF TypeOK, OwnerInv
<1>2. cl'[sc] = [cl[sc] EXCEPT !.stop = TRUE] /\ \A c \in Conn : c # sc => cl'[c] = cl[c]
  BY <1>1
<1>3. /\ cl'[sc].open /\ cl'[sc].stop /\ (Runs(cl[sc]) => Runs(cl'[sc]))
  BY <1>1, <1>2 DEF Runs, Client
<1>4. joining = 0 /\ pc \notin {"close", "open", "boot"}
  BY DEF LoopFree, OwnerInv
<1>5. ThreadInv'
  <2> SUFFICES ASSUME NEW d \in Conn
               PROVE  /\ Runs(cl'[d]) /\ (d > made => cl'[d] = Unborn)
                      /\ d <= made /\ ~Current(d)' => Orphan(cl'[d])
    BY DEF ThreadInv, Runs, Orphan, Current, Booting
  <2>1. Runs(cl[d]) /\ (d > made => cl[d] = Unborn) /\ (d <= made /\ ~Current(d) => Orphan(cl[d]))
    BY DEF ThreadInv
  <2>2. CASE d = sc
    <3>1. Current(d)' /\ ~(d > made)
      BY <1>1, <2>2, Numbers DEF Current
    <3>2. QED
      BY <1>3, <2>1, <2>2, <3>1
  <2>3. CASE d # sc
    <3>1. ~Current(d)
      BY <1>4, <2>3, Ranges DEF Current, Booting
    <3>2. QED
      BY <1>2, <2>1, <2>3, <3>1
  <2>4. QED
    BY <2>2, <2>3
<1>6. OwnerInv'
  BY <1>1, <1>3, <1>4, Ranges DEF OwnerInv
<1>7. QED
  BY <1>5, <1>6

LEMMA SessionOwner ==
  ASSUME TypeOK, ThreadInv, OwnerInv,
         CloseDone \/ StartReading \/ ConnectionClosed \/ Opening \/ ReconnectIgnored \/ Disconnect
           \/ \E m \in Modes : ConnectSerial(m)
  PROVE  ThreadInv' /\ OwnerInv'
<1>1. cl \in [Conn -> Client]
  BY DEF TypeOK
<1>2. CASE CloseDone
  <2>1. /\ joining \in Conn /\ joining # 0 /\ JoinOver(joining) /\ sc = 0
        /\ cl[joining].stop /\ cl[joining] \in Client /\ joining <= made
    BY <1>1, <1>2, Numbers DEF CloseDone, OwnerInv
  <2>2. /\ cl' = [cl EXCEPT ![joining].open = FALSE, ![joining].echo = <<>>, ![joining].wire = <<>>]
        /\ joining' = 0 /\ UNCHANGED <<made, sc, req>>
        /\ IF pc = "close" THEN pc' = "open" ELSE pc' = pc
    BY <1>2 DEF CloseDone, Reopen
  <2>3. cl'[joining] = [cl[joining] EXCEPT !.open = FALSE, !.echo = <<>>, !.wire = <<>>]
    BY <1>1, <2>1, <2>2
  <2>4. Runs(cl[joining])
    BY <2>1 DEF ThreadInv
  <2>5. Runs(cl'[joining]) /\ Orphan(cl'[joining])
    BY <2>1, <2>3, <2>4 DEF Runs, Orphan, JoinOver, Client
  <2>6. \A c \in Conn : c # joining => cl'[c] = cl[c]
    BY <1>1, <2>1, <2>2
  <2>7. pc \notin {"open", "boot"}
    BY <2>1 DEF OwnerInv
  <2>8. ThreadInv'
    <3> SUFFICES ASSUME NEW d \in Conn
                 PROVE  /\ Runs(cl'[d]) /\ (d > made => cl'[d] = Unborn)
                        /\ d <= made /\ ~Current(d)' => Orphan(cl'[d])
      BY <2>2 DEF ThreadInv, Runs, Orphan, Current, Booting
    <3>1. Runs(cl[d]) /\ (d > made => cl[d] = Unborn) /\ (d <= made /\ ~Current(d) => Orphan(cl[d]))
      BY DEF ThreadInv
    <3>2. CASE d = joining
      BY <2>1, <2>5, <3>2, Ranges, Numbers
    <3>3. CASE d # joining
      <4>1. ~Current(d)
        BY <2>1, <2>7, <3>3, Ranges DEF Current, Booting
      <4>2. QED
        BY <2>6, <3>1, <3>3, <4>1
    <3>4. QED
      BY <3>2, <3>3
  <2>9. OwnerInv'
    BY <2>1, <2>2, <2>7 DEF OwnerInv
  <2>10. QED
    BY <2>8, <2>9
<1>3. CASE StartReading
  <2>1. /\ pc = "boot" /\ sc = 0 /\ joining = 0 /\ made # 0 /\ made \in Conn
        /\ cl[made] \in Client /\ cl[made].open /\ ~cl[made].stop /\ cl[made].th = "none"
    BY <1>1, <1>3, Numbers DEF StartReading, OwnerInv
  <2>2. /\ cl' = [cl EXCEPT ![made].wire = <<>>, ![made].th = "read",
                            ![made].filter = (req # "gateway")]
        /\ sc' = made /\ UNCHANGED <<made, req, joining>>
        /\ pc' = IF req = "auto" THEN "probe" ELSE "forced"
    BY <1>3 DEF StartReading
  <2>3. /\ cl'[made] = [cl[made] EXCEPT !.wire = <<>>, !.th = "read", !.filter = (req # "gateway")]
        /\ \A c \in Conn : c # made => cl'[c] = cl[c]
    BY <1>1, <2>1, <2>2
  <2>4. Runs(cl[made])
    BY <2>1 DEF ThreadInv
  <2>5. Runs(cl'[made]) /\ cl'[made].open /\ ~cl'[made].stop
    BY <2>1, <2>3, <2>4 DEF Runs, Client
  <2>6. ThreadInv'
    <3> SUFFICES ASSUME NEW d \in Conn
                 PROVE  /\ Runs(cl'[d]) /\ (d > made => cl'[d] = Unborn)
                        /\ d <= made /\ ~Current(d)' => Orphan(cl'[d])
      BY <2>2 DEF ThreadInv, Runs, Orphan, Current, Booting
    <3>1. Runs(cl[d]) /\ (d > made => cl[d] = Unborn) /\ (d <= made /\ ~Current(d) => Orphan(cl[d]))
      BY DEF ThreadInv
    <3>2. CASE d = made
      <4>1. Current(d)' /\ ~(d > made)
        BY <2>2, <3>2, Ranges DEF Current
      <4>2. QED
        BY <2>5, <3>2, <4>1
    <3>3. CASE d # made
      <4>1. ~Current(d)
        BY <2>1, <3>3, Ranges DEF Current, Booting
      <4>2. QED
        BY <2>3, <3>1, <3>3, <4>1
    <3>4. QED
      BY <3>2, <3>3
  <2>7. OwnerInv'
    BY <2>1, <2>2, <2>5 DEF OwnerInv
  <2>8. QED
    BY <2>6, <2>7
<1>4. CASE ConnectionClosed \/ ReconnectIgnored
  <2>1. UNCHANGED <<cl, made, sc, pc, req, joining>>
    BY <1>4 DEF ConnectionClosed, ReconnectIgnored, session
  <2>2. QED
    BY <2>1 DEF ThreadInv, OwnerInv, Current, Booting
<1>5. CASE OpenFails
  <2>1. pc = "open" /\ pc' = "idle" /\ UNCHANGED <<cl, made, sc, req, joining>>
    BY <1>5 DEF OpenFails
  <2>2. QED
    BY <2>1 DEF ThreadInv, OwnerInv, Current, Booting
<1>6. ASSUME NEW c \in Conn, c = made + 1, NEW p \in Ports[c], OpenPort(p)
      PROVE  ThreadInv' /\ OwnerInv'
  <2> DEFINE k == [Unborn EXCEPT !.open = TRUE, !.dev = p.dev, !.token = p.token]
  <2>1. /\ pc = "open" /\ sc = 0 /\ joining = 0 /\ made' = c /\ pc' = "boot"
        /\ cl' = [cl EXCEPT ![c] = k] /\ UNCHANGED <<sc, req, joining>>
    BY <1>6 DEF OpenPort, OwnerInv
  <2>2. /\ Runs(k) /\ k.open /\ ~k.stop /\ k.th = "none" /\ k.echo = <<>> /\ k.wire = <<>>
    BY DEF Runs, Unborn
  <2> HIDE DEF k
  <2>3. cl'[c] = k /\ \A d \in Conn : d # c => cl'[d] = cl[d]
    BY <1>1, <2>1
  <2>4. ThreadInv'
    <3> SUFFICES ASSUME NEW d \in Conn
                 PROVE  /\ Runs(cl'[d]) /\ (d > made' => cl'[d] = Unborn)
                        /\ d <= made' /\ ~Current(d)' => Orphan(cl'[d])
      BY DEF ThreadInv, Runs, Orphan, Current, Booting
    <3>1. Runs(cl[d]) /\ (d > made => cl[d] = Unborn) /\ (d <= made /\ ~Current(d) => Orphan(cl[d]))
      BY DEF ThreadInv
    <3>2. CASE d = c
      <4>1. Current(d)' /\ ~(d > made')
        BY <2>1, <3>2, Ranges DEF Current, Booting
      <4>2. QED
        BY <2>2, <2>3, <3>2, <4>1
    <3>3. CASE d # c
      <4>1. ~Current(d)
        BY <2>1, Ranges DEF Current, Booting
      <4>2. (d > made' => d > made) /\ (d <= made' => d <= made)
        BY <1>6, <2>1, <3>3, Ranges, Numbers
      <4>3. QED
        BY <2>3, <3>1, <3>3, <4>1, <4>2
    <3>4. QED
      BY <3>2, <3>3
  <2>5. OwnerInv'
    BY <2>1, <2>2, <2>3, Ranges DEF OwnerInv
  <2>6. QED
    BY <2>4, <2>5
<1>7. CASE Disconnect
  <2>1. sc' = 0 /\ LoopFree /\ UNCHANGED <<made, pc, req>>
    BY <1>7 DEF Disconnect
  <2>2. CASE sc # 0
    BY <1>7, <2>1, <2>2, StopOwner DEF Disconnect
  <2>3. CASE sc = 0
    <3>1. UNCHANGED <<cl, made, sc, pc, req, joining>>
      BY <1>7, <2>1, <2>3 DEF Disconnect
    <3>2. QED
      BY <3>1 DEF ThreadInv, OwnerInv, Current, Booting
  <2>4. QED
    BY <2>2, <2>3
<1>8. ASSUME NEW m \in Modes, ConnectSerial(m)
      PROVE  ThreadInv' /\ OwnerInv'
  <2>1. sc' = 0 /\ made' = made /\ LoopFree /\ req' = m /\ pc = "idle"
    BY <1>8 DEF ConnectSerial, Free
  <2>2. CASE sc # 0
    BY <1>8, <2>1, <2>2, StopOwner DEF ConnectSerial
  <2>3. CASE sc = 0
    <3>1. pc' = "open" /\ UNCHANGED <<cl, made, sc, joining>>
      BY <1>8, <2>1, <2>3 DEF ConnectSerial, Reopen
    <3>2. QED
      BY <2>1, <3>1 DEF ThreadInv, OwnerInv, Current, Booting, LoopFree
  <2>4. QED
    BY <2>2, <2>3
<1>9. QED
  BY <1>2, <1>3, <1>4, <1>5, <1>6, <1>7, <1>8 DEF Opening

(* The steps of Next, by what they do to the session.                         *)
Settling == CloseDone \/ StartReading \/ ConnectionClosed \/ Opening \/ ReconnectIgnored
              \/ Disconnect \/ \E m \in Modes : ConnectSerial(m)

LEMMA Steps ==
  ASSUME Next
  PROVE  (\E c \in Conn : CableBreaks(c) \/ Thread(c) \/ Called(c)) \/ Speaking \/ Settling
<1>1. \A c \in Conn : \A p : p \in Ports[c] => p.mode \in Modes
  BY Ranges
<1>2. QED
  BY <1>1 DEF Next, Connector, Lines, Operator, Speaking, Settling

LEMMA OwnerStep ==
  ASSUME TypeOK, ThreadInv, OwnerInv, [Next]_vars
  PROVE  ThreadInv' /\ OwnerInv'
<1>1. CASE UNCHANGED vars
  BY <1>1 DEF vars, session, ThreadInv, OwnerInv, Current, Booting
<1>2. CASE Next
  BY <1>2, Steps, ThreadOwner, SpeakingKeepsOwner, SessionOwner DEF Settling
<1>3. QED
  BY <1>1, <1>2

----------------------------------------------------------------------------
(* The state that is shown.                                                  *)

(* A thread, or the loop for it, reads nothing it did not read before, and only
   a thread that was not told to stop reports a disconnection.                *)
LEMMA ThreadMoves ==
  ASSUME TypeOK, ThreadInv, NEW c \in Conn, CableBreaks(c) \/ Thread(c) \/ Called(c)
  PROVE  /\ \A d \in Conn : d # c => cl'[d] = cl[d]
         /\ UNCHANGED <<session, conn, cmode, mode, flush, safety, got>>
         /\ cl'[c].alive => cl[c].alive
         /\ cl'[c].th \in {"read", "line"} => cl[c].th \in {"read", "line"}
         /\ cl'[c].th = "gone" => cl[c].th = "gone" \/ ~cl[c].stop
         /\ closing' # closing => closing' = TRUE /\ cl[c].th = "gone" /\ cl'[c].th = "done"
         /\ cl'[c].dev = cl[c].dev
         /\ cl[c].th # "none" \/ (cl'[c].th = "none" /\ cl[c].open)
<1>1. cl \in [Conn -> Client] /\ cl[c] \in Client /\ closing \in BOOLEAN
  BY DEF TypeOK
<1>2. CASE CableBreaks(c)
  BY <1>1, <1>2 DEF CableBreaks, Client, decode, shown
<1>3. CASE ThreadReads(c)
  <2>1. cl[c].th = "read" /\ ThreadOnly
    BY <1>3 DEF ThreadReads
  <2>2. \/ cl' = [cl EXCEPT ![c].th = "line", ![c].chunk = cl[c].wire, ![c].wire = <<>>]
        \/ cl' = [cl EXCEPT ![c].th = "done"]
        \/ cl' = [cl EXCEPT ![c].th = IF cl[c].stop THEN "done" ELSE "error", ![c].call = ~cl[c].stop]
    BY <1>3 DEF ThreadReads
  <2>3. /\ \A d \in Conn : d # c => cl'[d] = cl[d]
        /\ cl'[c].th \in {"line", "done", "error"}
        /\ cl'[c].alive = cl[c].alive /\ cl'[c].dev = cl[c].dev
    BY <1>1, <2>2 DEF Client
  <2>4. QED
    BY <2>1, <2>3 DEF ThreadOnly, decode, shown
<1>4. CASE ThreadHandsOver(c)
  <2>1. cl[c].th = "line" /\ ThreadOnly
    BY <1>4 DEF ThreadHandsOver
  <2>2. \/ cl' = [cl EXCEPT ![c].th = Again(c)]
        \/ cl' = [cl EXCEPT ![c].chunk = Tail(@), ![c].echo = Tail(@)]
        \/ cl' = [cl EXCEPT ![c].call = TRUE]
    BY <1>4 DEF ThreadHandsOver
  <2>3. /\ \A d \in Conn : d # c => cl'[d] = cl[d]
        /\ cl'[c].th \in {"line", "read", "done"}
        /\ cl'[c].alive = cl[c].alive /\ cl'[c].dev = cl[c].dev
    BY <1>1, <2>1, <2>2 DEF Client, Again
  <2>4. QED
    BY <2>1, <2>3 DEF ThreadOnly, decode, shown
<1>5. CASE ThreadReports(c)
  BY <1>1, <1>5 DEF ThreadReports, ThreadOnly, Client, decode, shown
<1>6. CASE EnqueueLine(c)
  BY <1>1, <1>6 DEF EnqueueLine, Client, shown
<1>7. CASE SerialError(c)
  BY <1>1, <1>7 DEF SerialError, ThreadOnly, Client, decode, shown
<1>8. CASE SerialDisconnected(c)
  BY <1>1, <1>8 DEF SerialDisconnected, Client, decode
<1>9. QED
  BY <1>2, <1>3, <1>4, <1>5, <1>6, <1>7, <1>8 DEF Thread, Called

LEMMA ThreadShows ==
  ASSUME TypeOK, ThreadInv, OwnerInv, ShownInv, LiveIsShown,
         NEW c \in Conn, CableBreaks(c) \/ Thread(c) \/ Called(c)
  PROVE  ShownInv' /\ LiveIsShown'
<1>1. /\ \A d \in Conn : d # c => cl'[d] = cl[d]
      /\ UNCHANGED <<sc, joining, conn>>
      /\ cl'[c].alive => cl[c].alive
      /\ cl'[c].th \in {"read", "line"} => cl[c].th \in {"read", "line"}
      /\ cl'[c].th = "gone" => cl[c].th = "gone" \/ ~cl[c].stop
      /\ closing' # closing => closing' = TRUE /\ cl[c].th = "gone" /\ cl'[c].th = "done"
      /\ cl[c].th # "none" \/ cl'[c].th = "none"
  BY ThreadMoves DEF session
<1>2. sc # 0 => sc \in Conn /\ joining = 0 /\ pc # "boot"
  BY Numbers DEF OwnerInv
<1>3. sc # 0 /\ c # sc => cl'[c].th # "gone"
  <2> SUFFICES ASSUME sc # 0, c # sc, cl'[c].th = "gone"
               PROVE  FALSE
    OBVIOUS
  <2>1. cl[c].th # "gone" /\ ~cl[c].stop
    BY <1>1 DEF ShownInv
  <2>2. ~Current(c)
    BY <1>2, Ranges DEF Current, Booting
  <2>3. c > made
    BY <2>1, <2>2, Ranges, Numbers DEF ThreadInv, Orphan
  <2>4. cl[c].th = "none"
    BY <2>3 DEF ThreadInv, Unborn
  <2>5. QED
    BY <1>1, <2>4
<1>4. ShownInv'
  <2>1. sc # 0 => \A d \in Conn : d # sc => cl'[d].th # "gone"
    BY <1>1, <1>3 DEF ShownInv
  <2>2. closing' /\ sc # 0 => ~cl'[sc].alive \/ cl'[sc].th \notin {"read", "line"}
    <3>1. CASE closing' = closing
      BY <1>1, <1>2, <3>1 DEF ShownInv
    <3>2. CASE closing' # closing
      BY <1>1, <1>2, <3>2 DEF ShownInv
    <3>3. QED
      BY <3>1, <3>2
  <2>3. QED
    BY <1>1, <2>1, <2>2 DEF ShownInv
<1>5. LiveIsShown'
  BY <1>1, <1>2 DEF LiveIsShown
<1>6. QED
  BY <1>4, <1>5

LEMMA ShownStep ==
  ASSUME TypeOK, ThreadInv, OwnerInv, ShownInv, LiveIsShown, [Next]_vars
  PROVE  ShownInv' /\ LiveIsShown'
<1>1. CASE UNCHANGED vars
  BY <1>1 DEF vars, session, shown, ShownInv, LiveIsShown
<1>2. CASE Speaking
  <2>1. /\ \A c \in Conn : cl'[c].th = cl[c].th /\ cl'[c].alive = cl[c].alive
        /\ UNCHANGED <<sc, joining>>
    BY <1>2, Speaks DEF Spoken
  <2>2. closing' = closing /\ conn' \in {conn, "READY"}
    BY <1>2 DEF Speaking, ForcedMode, SendProbe, DecodeLine, Flush, SendCommand, shown
  <2>3. sc # 0 => sc \in Conn
    BY Numbers
  <2>4. ShownInv'
    BY <2>1, <2>2, <2>3 DEF ShownInv
  <2>5. LiveIsShown'
    BY <2>1, <2>2, <2>3 DEF LiveIsShown
  <2>6. QED
    BY <2>4, <2>5
<1>3. CASE Settling
  <2>1. CASE StartReading
    <3>1. /\ sc' = made /\ conn' = "SYNCHRONIZING" /\ ~closing' /\ made \in Conn
          /\ \A c \in Conn : c # made => cl'[c] = cl[c] /\ ~cl[c].call
      <4>1. cl \in [Conn -> Client] /\ made \in Conn
        BY <2>1, Numbers DEF StartReading, OwnerInv, TypeOK
      <4>2. QED
        BY <2>1, <4>1 DEF StartReading, Settled
    <3>2. \A c \in Conn : c # made => cl'[c].th # "gone"
      BY <3>1 DEF ThreadInv, Runs
    <3>3. QED
      BY <3>1, <3>2 DEF ShownInv, LiveIsShown
  <2>2. CASE ConnectionClosed
    BY <2>2 DEF ConnectionClosed, session, ShownInv, LiveIsShown
  <2>3. CASE ReconnectIgnored
    BY <2>3 DEF ReconnectIgnored, session, ShownInv, LiveIsShown
  <2>4. CASE CloseDone \/ Opening \/ Disconnect \/ \E m \in Modes : ConnectSerial(m)
    <3>1. sc' = 0
      BY <2>4 DEF CloseDone, Opening, OpenFails, OpenPort, Disconnect, ConnectSerial, OwnerInv
    <3>2. QED
      BY <3>1 DEF ShownInv, LiveIsShown
  <2>5. QED
    BY <1>3, <2>1, <2>2, <2>3, <2>4 DEF Settling
<1>4. QED
  BY <1>1, <1>2, <1>3, Steps, ThreadShows

----------------------------------------------------------------------------
(* The commands.                                                             *)

(* Messages that are sent to the connection they were typed on, each for the
   first time, leave every command done at most once.                        *)
LEMMA SentOnce ==
  ASSUME TypeOK, CommandKeepsDevice, NEW ms \in Seq(Message), Send(ms),
         \A i \in DOMAIN got : home'[got[i][2]] = home[got[i][2]],
         sc # 0 => \A i \in DOMAIN ms : ms[i] \in Cmd => home'[ms[i]] = sc,
         Once(ms), \A i \in DOMAIN ms : ms[i] \notin Done
  PROVE  CommandKeepsDevice' /\ Done' \subseteq Done \cup {ms[i] : i \in DOMAIN ms}
<1>1. CASE got' = got
  BY <1>1 DEF CommandKeepsDevice, Done
<1>2. CASE got' # got
  <2>1. /\ Writable /\ \A i \in DOMAIN ms : ms[i] \in Cmd
        /\ got' = got \o [i \in DOMAIN ms |-> <<sc, ms[i]>>]
    BY <1>2 DEF Send, Obeys
  <2>2. sc # 0 /\ sc \in Conn
    BY <2>1, Numbers DEF Writable
  <2>3. Len(ms) \in Nat /\ DOMAIN ms = 1 .. Len(ms) /\ got \in Seq(Conn \X Cmd)
    BY LenProperties DEF TypeOK
  <2> DEFINE new == [i \in 1 .. Len(ms) |-> <<sc, ms[i]>>]
             n == Len(got)
  <2>4. \A i \in 1 .. Len(ms) : <<sc, ms[i]>> \in Conn \X Cmd
    BY <2>1, <2>2, <2>3
  <2>5. new \in Seq(Conn \X Cmd) /\ Len(new) = Len(ms)
    BY <2>3, <2>4
  <2>6. \A i \in 1 .. Len(ms) : new[i] = <<sc, ms[i]>>
    OBVIOUS
  <2>7. got' = got \o new
    BY <2>1, <2>3
  <2> HIDE DEF new
  <2>8. /\ n \in Nat /\ DOMAIN got = 1 .. n /\ DOMAIN got' = 1 .. n + Len(ms)
        /\ \A i \in 1 .. n : got'[i] = got[i]
        /\ \A i \in n + 1 .. n + Len(ms) : got'[i] = <<sc, ms[i - n]>> /\ i - n \in DOMAIN ms
    <3>1. n \in Nat /\ DOMAIN got = 1 .. n
      BY <2>3, LenProperties
    <3>2. /\ got' \in Seq(Conn \X Cmd) /\ Len(got') = n + Len(ms)
          /\ \A i \in 1 .. n + Len(ms) : got'[i] = IF i <= n THEN got[i] ELSE new[i - n]
      <4>1. PICK S : got \in Seq(S) /\ new \in Seq(S) /\ S = Conn \X Cmd
        BY <2>3, <2>5
      <4>2. /\ got \o new \in Seq(S) /\ Len(got \o new) = n + Len(new)
            /\ \A i \in 1 .. n + Len(new) : (got \o new)[i] = IF i <= n THEN got[i] ELSE new[i - n]
        BY <4>1, ConcatProperties
      <4>3. QED
        BY <2>5, <2>7, <4>1, <4>2
    <3>3. DOMAIN got' = 1 .. n + Len(ms)
      BY <3>2, LenProperties
    <3> HIDE DEF n
    <3>4. \A i \in n + 1 .. n + Len(ms) : i - n \in 1 .. Len(ms) /\ i \in 1 .. n + Len(ms) /\ ~(i <= n)
      BY <2>3, <3>1
    <3>5. \A i \in 1 .. n : i \in 1 .. n + Len(ms) /\ i <= n
      BY <2>3, <3>1
    <3>6. QED
      BY <2>3, <2>6, <3>1, <3>2, <3>3, <3>4, <3>5
  <2> HIDE DEF n
  <2>9. \A i \in 1 .. n : got[i][2] \in Done
    BY <2>8 DEF Done
  <2>10. \A i \in DOMAIN got' : \/ i \in 1 .. n /\ got'[i] = got[i] /\ got'[i][2] \in Done
                                \/ /\ i \in n + 1 .. n + Len(ms) /\ got'[i] = <<sc, ms[i - n]>>
                                   /\ i - n \in DOMAIN ms /\ got'[i][2] = ms[i - n]
                                   /\ got'[i][1] = sc
    BY <2>3, <2>8, <2>9
  <2>11. \A i \in DOMAIN got' : home'[got'[i][2]] = got'[i][1]
    <3>1. \A i \in 1 .. n : home[got[i][2]] = got[i][1]
      BY <2>8 DEF CommandKeepsDevice
    <3>2. \A i \in DOMAIN ms : home'[ms[i]] = sc
      BY <2>1, <2>2
    <3>3. \A i \in 1 .. n : home'[got[i][2]] = got[i][1]
      BY <2>8, <3>1
    <3>4. QED
      BY <2>10, <3>2, <3>3
  <2>12. \A i, j \in DOMAIN got' : got'[i][2] = got'[j][2] => i = j
    <3> SUFFICES ASSUME NEW i \in DOMAIN got', NEW j \in DOMAIN got', got'[i][2] = got'[j][2]
                 PROVE  i = j
      OBVIOUS
    <3>1. CASE i \in 1 .. n /\ j \in 1 .. n
      BY <2>8, <3>1 DEF CommandKeepsDevice
    <3>2. CASE i \notin 1 .. n /\ j \notin 1 .. n
      <4>1. ms[i - n] = ms[j - n] /\ i - n \in DOMAIN ms /\ j - n \in DOMAIN ms
        BY <2>10, <3>2
      <4>2. i - n = j - n
        BY <4>1 DEF Once
      <4>3. QED
        BY <2>8, <4>2
    <3>3. CASE i \in 1 .. n /\ j \notin 1 .. n
      BY <2>8, <2>9, <2>10, <3>3
    <3>4. CASE i \notin 1 .. n /\ j \in 1 .. n
      BY <2>8, <2>9, <2>10, <3>4
    <3>5. QED
      BY <3>1, <3>2, <3>3, <3>4
  <2>13. Done' \subseteq Done \cup {ms[i] : i \in DOMAIN ms}
    BY <2>10 DEF Done
  <2>14. QED
    BY <2>11, <2>12, <2>13 DEF CommandKeepsDevice
<1>3. QED
  BY <1>1, <1>2

(* What waits, as the fields of the state it is read from.                     *)
LEMMA Waits ==
  ASSUME TypeOK
  PROVE  /\ owed \in Seq(Cmd) /\ auth.queue \in Seq(Cmd) /\ auth.pending \in {None} \cup Cmd
         /\ home \in [Cmd -> 0 .. MaxConn] /\ got \in Seq(Conn \X Cmd)
         /\ OwedTo \subseteq Cmd /\ Queued \subseteq Cmd /\ Done \subseteq Cmd
<1>1. /\ owed \in Seq(Cmd) /\ auth.queue \in Seq(Cmd) /\ auth.pending \in {None} \cup Cmd
      /\ home \in [Cmd -> 0 .. MaxConn] /\ got \in Seq(Conn \X Cmd)
  BY DEF TypeOK
<1>2. \A i \in DOMAIN got : got[i] \in Conn \X Cmd
  BY <1>1, ElementOfSeq, LenProperties
<1>3. \A i \in DOMAIN owed : owed[i] \in Cmd
  BY <1>1, ElementOfSeq, LenProperties
<1>4. \A i \in DOMAIN auth.queue : auth.queue[i] \in Cmd
  BY <1>1, ElementOfSeq, LenProperties
<1>5. QED
  BY <1>1, <1>2, <1>3, <1>4 DEF OwedTo, Queued, Done

(* A command typed for the first time is done and waits nowhere.              *)
LEMMA FirstTyped ==
  ASSUME TypeOK, CommandInv, CommandKeepsDevice, NEW m \in Cmd, home[m] = 0, sc # 0
  PROVE  m \notin Done /\ m \notin OwedTo /\ m \notin Queued /\ m # auth.pending
<1>1. m \notin Done
  <2> SUFFICES ASSUME NEW i \in DOMAIN got, got[i][2] = m
               PROVE  FALSE
    BY DEF Done
  <2>1. got[i] \in Conn \X Cmd
    BY Waits, ElementOfSeq, LenProperties
  <2>2. QED
    BY <2>1, Ranges DEF CommandKeepsDevice
<1>2. m # None
  BY Ranges DEF Message
<1>3. QED
  BY <1>1, <1>2 DEF CommandInv

(* Nothing is done and nothing new waits.                                     *)
LEMMA CommandsKept ==
  ASSUME TypeOK, CommandInv, CommandKeepsDevice, UNCHANGED <<home, got, owed, flush>>,
         sc' = 0 \/ sc' = sc \/ ~flush,
         \/ auth' = NoAuth
         \/ sc = 0 /\ auth' = auth
         \/ sc' = sc /\ auth' = auth
  PROVE  CommandInv' /\ CommandKeepsDevice'
<1>1. CommandKeepsDevice'
  BY DEF CommandKeepsDevice
<1>2. CommandInv'
  <2>1. /\ Done' = Done /\ OwedTo' = OwedTo
    BY DEF Done, OwedTo
  <2>2. /\ NoAuth.pending = None /\ NoAuth.queue = <<>> /\ Once(<<>>)
    BY DEF NoAuth, Once
  <2>3. None \notin OwedTo \cup Done
    BY Waits, Ranges DEF Message
  <2>4. CASE auth' = NoAuth
    <3>1. Queued' = {}
      BY <2>2, <2>4 DEF Queued
    <3>2. sc' = sc \/ sc' = 0 \/ OwedTo = {}
      BY DEF CommandInv, OwedTo
    <3>3. sc' # 0 => \A m \in {None} \cup OwedTo : m # None => home[m] = sc'
      BY <3>2 DEF CommandInv
    <3>4. QED
      BY <2>1, <2>2, <2>3, <2>4, <3>1, <3>3 DEF CommandInv
  <2>5. CASE auth' = auth /\ sc' = sc
    <3>1. Queued' = Queued
      BY <2>5 DEF Queued
    <3>2. QED
      BY <2>1, <2>5, <3>1 DEF CommandInv
  <2>6. CASE auth' = auth /\ sc = 0 /\ sc' # sc
    <3>1. Queued' = {} /\ Queued = {} /\ OwedTo = {} /\ auth.pending = None
      <4>1. ~flush /\ owed = <<>> /\ auth.queue = <<>> /\ auth.pending = None
        BY <2>6 DEF CommandInv
      <4>2. QED
        BY <2>6, <4>1 DEF Queued, OwedTo
    <3>2. QED
      BY <2>1, <2>6, <3>1 DEF CommandInv
  <2>7. QED
    BY <2>4, <2>5, <2>6
<1>3. QED
  BY <1>1, <1>2

(* A line is decoded: an acknowledgement frees the pending command.            *)
LEMMA DecodeKeepsCommands ==
  ASSUME TypeOK, CommandInv, CommandKeepsDevice, DecodeLine
  PROVE  CommandInv' /\ CommandKeepsDevice'
<1>1. UNCHANGED <<home, got, sc>> /\ ~flush /\ owed = <<>>
  BY DEF DecodeLine, CommandInv, session
<1>2. \/ UNCHANGED <<auth, owed>>
      \/ auth' = NoAuth /\ owed' = owed
      \/ /\ flush' = TRUE /\ auth' = [auth EXCEPT !.ok = TRUE, !.inflight = FALSE, !.pending = None]
         /\ owed' = IF auth.pending # None THEN <<auth.pending>> ELSE owed
  BY DEF DecodeLine, Refused
<1>3. CommandKeepsDevice' /\ Done' = Done
  BY <1>1 DEF CommandKeepsDevice, Done
<1>4. None \notin OwedTo \cup Done \cup Queued
  BY Waits, Ranges DEF Message
<1>5. OwedTo = {}
  BY <1>1 DEF OwedTo
<1>6. CASE UNCHANGED <<auth, owed>>
  <2>1. Queued' = Queued /\ OwedTo' = OwedTo
    BY <1>6 DEF Queued, OwedTo
  <2>2. QED
    BY <1>1, <1>3, <1>6, <2>1 DEF CommandInv
<1>7. CASE auth' = NoAuth /\ owed' = owed
  <2>1. Queued' = {} /\ OwedTo' = {} /\ Once(<<>>)
    BY <1>1, <1>7 DEF Queued, OwedTo, NoAuth, Once
  <2>2. NoAuth.pending = None /\ NoAuth.queue = <<>>
    BY DEF NoAuth
  <2>3. QED
    BY <1>1, <1>3, <1>4, <1>7, <2>1, <2>2 DEF CommandInv
<1>8. CASE /\ flush' = TRUE /\ auth' = [auth EXCEPT !.ok = TRUE, !.inflight = FALSE, !.pending = None]
           /\ owed' = IF auth.pending # None THEN <<auth.pending>> ELSE owed
  <2>1. auth'.pending = None /\ auth'.queue = auth.queue
    BY <1>8 DEF TypeOK
  <2>2. Queued' = Queued
    BY <2>1 DEF Queued
  <2>3. CASE auth.pending = None
    <3>1. owed' = <<>> /\ OwedTo' = {} /\ Once(<<>>)
      BY <1>1, <1>8, <2>3 DEF OwedTo, Once
    <3>2. QED
      BY <1>1, <1>3, <1>4, <1>8, <2>1, <2>2, <3>1 DEF CommandInv
  <2>4. CASE auth.pending # None
    <3>1. owed' = <<auth.pending>>
      BY <1>8, <2>4
    <3>2. OwedTo' = {auth.pending} /\ Once(owed')
      BY <3>1 DEF OwedTo, Once
    <3>3. QED
      BY <1>1, <1>3, <1>4, <1>8, <2>1, <2>2, <2>4, <3>2 DEF CommandInv
  <2>5. QED
    BY <2>3, <2>4
<1>9. QED
  BY <1>2, <1>6, <1>7, <1>8

(* What waited is sent, the pending command before the queue.                  *)
LEMMA FlushKeepsCommands ==
  ASSUME TypeOK, CommandInv, CommandKeepsDevice, Flush
  PROVE  CommandInv' /\ CommandKeepsDevice'
<1> DEFINE ms == owed \o auth.queue
<1>1. /\ owed \in Seq(Cmd) /\ auth.queue \in Seq(Cmd)
      /\ UNCHANGED <<home, sc>> /\ flush' = FALSE /\ owed' = <<>>
      /\ auth' = [auth EXCEPT !.queue = <<>>]
      /\ Send(ms) \/ got' = got
  BY Waits DEF Flush, session
<1>2. /\ ms \in Seq(Cmd) /\ Len(ms) = Len(owed) + Len(auth.queue)
      /\ \A i \in 1 .. Len(ms) : ms[i] = IF i <= Len(owed) THEN owed[i] ELSE auth.queue[i - Len(owed)]
  BY <1>1, ConcatProperties
<1>3. /\ DOMAIN owed = 1 .. Len(owed) /\ DOMAIN auth.queue = 1 .. Len(auth.queue)
      /\ DOMAIN ms = 1 .. Len(ms) /\ Len(owed) \in Nat /\ Len(auth.queue) \in Nat /\ ms \in Seq(Message)
  <2>1. Cmd \subseteq Message
    BY DEF Message
  <2>2. QED
    BY <1>1, <1>2, <2>1, LenProperties, SeqMonotonic
<1> HIDE DEF ms
<1>4. \A i \in DOMAIN ms :
        \/ i \in DOMAIN owed /\ ms[i] = owed[i] /\ ms[i] \in OwedTo
        \/ i - Len(owed) \in DOMAIN auth.queue /\ ms[i] = auth.queue[i - Len(owed)] /\ ms[i] \in Queued
  <2> SUFFICES ASSUME NEW i \in DOMAIN ms
               PROVE \/ i \in DOMAIN owed /\ ms[i] = owed[i] /\ ms[i] \in OwedTo
                     \/ i - Len(owed) \in DOMAIN auth.queue /\ ms[i] = auth.queue[i - Len(owed)] /\ ms[i] \in Queued
    OBVIOUS
  <2>1. \/ i \in DOMAIN owed /\ ms[i] = owed[i]
        \/ i - Len(owed) \in DOMAIN auth.queue /\ ms[i] = auth.queue[i - Len(owed)]
    BY <1>2, <1>3
  <2>2. QED
    BY <2>1 DEF OwedTo, Queued
<1>5. Once(ms)
  <2> SUFFICES ASSUME NEW i \in DOMAIN ms, NEW j \in DOMAIN ms, ms[i] = ms[j]
               PROVE  i = j
    BY DEF Once
  <2>1. OwedTo \cap Queued = {}
    BY DEF CommandInv
  <2>2. CASE ms[i] \in OwedTo
    <3>1. i \in DOMAIN owed /\ j \in DOMAIN owed /\ owed[i] = owed[j]
      BY <1>4, <2>1, <2>2
    <3>2. QED
      BY <3>1 DEF CommandInv, Once
  <2>3. CASE ms[i] \in Queued
    <3>1. /\ i - Len(owed) \in DOMAIN auth.queue /\ j - Len(owed) \in DOMAIN auth.queue
          /\ auth.queue[i - Len(owed)] = auth.queue[j - Len(owed)]
      BY <1>4, <2>1, <2>3
    <3>2. i - Len(owed) = j - Len(owed)
      BY <3>1 DEF CommandInv, Once
    <3>3. QED
      BY <3>2, <1>3
  <2>4. QED
    BY <1>4, <2>2, <2>3
<1>6. /\ \A i \in DOMAIN ms : ms[i] \notin Done
      /\ sc # 0 => \A i \in DOMAIN ms : home'[ms[i]] = sc
  <2>1. None \notin OwedTo \cup Queued
    BY Waits, Ranges DEF Message
  <2>2. \A i \in DOMAIN ms : ms[i] \in OwedTo \cup Queued
    BY <1>4
  <2>3. Done \cap (OwedTo \cup Queued) = {}
    BY DEF CommandInv
  <2>4. sc # 0 => \A m \in OwedTo \cup Queued : home[m] = sc
    BY <2>1 DEF CommandInv
  <2>5. QED
    BY <1>1, <2>2, <2>3, <2>4
<1>7. CommandKeepsDevice' /\ Done' \subseteq Done \cup OwedTo \cup Queued
  <2>1. CASE Send(ms)
    <3>1. CommandKeepsDevice' /\ Done' \subseteq Done \cup {ms[i] : i \in DOMAIN ms}
      BY <1>1, <1>3, <1>5, <1>6, <2>1, SentOnce
    <3>2. QED
      BY <1>4, <3>1
  <2>2. CASE got' = got
    BY <1>1, <2>2 DEF CommandKeepsDevice, Done
  <2>3. QED
    BY <1>1, <2>1, <2>2
<1>8. CommandInv'
  <2>1. auth'.pending = auth.pending /\ auth'.queue = <<>>
    BY <1>1 DEF TypeOK
  <2>2. OwedTo' = {} /\ Queued' = {} /\ Once(<<>>)
    BY <1>1, <2>1 DEF OwedTo, Queued, Once
  <2>3. QED
    BY <1>1, <1>7, <2>1, <2>2 DEF CommandInv
<1>9. QED
  BY <1>7, <1>8

(* A command is typed: it is sent, it waits in the queue, or it waits for the
   acknowledgement of the authentication it starts.                           *)
LEMMA TypedKeepsCommands ==
  ASSUME TypeOK, CommandInv, CommandKeepsDevice, NEW m \in Cmd, SendCommand(m)
  PROVE  CommandInv' /\ CommandKeepsDevice'
<1>1. /\ sc # 0 /\ sc' = sc /\ home[m] = 0 /\ home' = [home EXCEPT ![m] = sc]
      /\ UNCHANGED <<owed, flush>>
  BY DEF SendCommand, session, decode
<1>2. m \notin Done /\ m \notin OwedTo /\ m \notin Queued /\ m # auth.pending /\ m # None
  BY <1>1, FirstTyped, Ranges DEF Message
<1>3. \A n \in Cmd \ {m} : home'[n] = home[n]
  BY <1>1, Waits
<1>4. home'[m] = sc
  BY <1>1, Waits
<1>5. \A i \in DOMAIN got : home'[got[i][2]] = home[got[i][2]]
  <2>1. \A i \in DOMAIN got : got[i][2] \in Done
    BY DEF Done
  <2>2. QED
    BY <1>2, <1>3, <2>1, Waits
<1>6. OwedTo' = OwedTo
  BY <1>1 DEF OwedTo
<1>7. \A n \in {auth.pending, m} \cup OwedTo \cup Queued : n # None => home'[n] = sc
  <2>1. \A n \in {auth.pending} \cup OwedTo \cup Queued : n # None => home[n] = sc /\ n \in Cmd /\ n # m
    BY <1>1, <1>2, Waits DEF CommandInv
  <2>2. QED
    BY <1>3, <1>4, <2>1
<1>8. Done' \subseteq Done /\ CommandKeepsDevice' /\ auth' = auth => CommandInv' /\ CommandKeepsDevice'
  <2>1. auth' = auth => Queued' = Queued
    BY DEF Queued
  <2>2. QED
    BY <1>1, <1>6, <1>7, <2>1 DEF CommandInv
<1>9. CASE auth' = auth /\ Send(<<m>>)
  <2>1. <<m>> \in Seq(Message) /\ Once(<<m>>) /\ {<<m>>[i] : i \in DOMAIN <<m>>} = {m}
    BY DEF Message, Once
  <2>2. CommandKeepsDevice' /\ Done' \subseteq Done \cup {m}
    BY <1>2, <1>4, <1>5, <1>9, <2>1, SentOnce
  <2>3. Queued' = Queued
    BY <1>9 DEF Queued
  <2>4. QED
    BY <1>1, <1>2, <1>6, <1>7, <1>9, <2>2, <2>3 DEF CommandInv
<1>10. CASE got' = got /\ auth' \in {auth, [auth EXCEPT !.queue = Append(@, m)]}
  <2>1. CommandKeepsDevice' /\ Done' = Done
    BY <1>5, <1>10 DEF CommandKeepsDevice, Done
  <2>2. CASE auth' = [auth EXCEPT !.queue = Append(@, m)]
    <3>1. auth'.pending = auth.pending /\ auth'.queue = Append(auth.queue, m)
      BY <2>2 DEF TypeOK
    <3>2. /\ Len(auth.queue) \in Nat /\ DOMAIN auth.queue = 1 .. Len(auth.queue)
          /\ auth.queue \in Seq(Cmd)
      BY Waits, LenProperties
    <3>3. /\ DOMAIN auth'.queue = 1 .. Len(auth.queue) + 1
          /\ \A i \in 1 .. Len(auth.queue) : auth'.queue[i] = auth.queue[i]
          /\ auth'.queue[Len(auth.queue) + 1] = m
      BY <3>1, <3>2, AppendProperties, LenProperties
    <3>4. \A i \in 1 .. Len(auth.queue) : auth.queue[i] \in Queued
      BY <3>2 DEF Queued
    <3>5. Queued' \subseteq Queued \cup {m}
      BY <3>2, <3>3, <3>4 DEF Queued
    <3>6. Once(auth'.queue)
      BY <1>2, <3>2, <3>3, <3>4, SMTT(60) DEF Once, CommandInv
    <3>7. QED
      BY <1>1, <1>2, <1>6, <1>7, <2>1, <3>1, <3>5, <3>6 DEF CommandInv
  <2>3. QED
    BY <1>8, <1>10, <2>1, <2>2
<1>11. CASE /\ Send(<<Unlock>>)
            /\ auth' \in {auth, [auth EXCEPT !.ok = FALSE, !.inflight = TRUE, !.pending = m]}
  <2>1. <<Unlock>> \in Seq(Message) /\ Once(<<Unlock>>) /\ {<<Unlock>>[i] : i \in DOMAIN <<Unlock>>} = {Unlock}
    BY DEF Message, Once
  <2>2. got' = got
    <3>1. ~(\A i \in DOMAIN <<Unlock>> : Obeys(cl[sc], <<Unlock>>[i]))
      BY Ranges DEF Obeys
    <3>2. QED
      BY <1>11, <3>1 DEF Send
  <2>3. CommandKeepsDevice' /\ Done' = Done
    BY <1>5, <2>2 DEF CommandKeepsDevice, Done
  <2>4. CASE auth' = [auth EXCEPT !.ok = FALSE, !.inflight = TRUE, !.pending = m]
    <3>1. auth'.pending = m /\ auth'.queue = auth.queue
      BY <2>4 DEF TypeOK
    <3>2. Queued' = Queued
      BY <3>1 DEF Queued
    <3>3. QED
      BY <1>1, <1>2, <1>6, <1>7, <2>3, <3>1, <3>2 DEF CommandInv
  <2>5. QED
    BY <1>8, <1>11, <2>3, <2>4
<1>12. \/ auth' = auth /\ Send(<<m>>)
       \/ got' = got /\ auth' \in {auth, [auth EXCEPT !.queue = Append(@, m)]}
       \/ /\ Send(<<Unlock>>)
          /\ auth' \in {auth, [auth EXCEPT !.ok = FALSE, !.inflight = TRUE, !.pending = m]}
  BY DEF SendCommand
<1>13. QED
  BY <1>9, <1>10, <1>11, <1>12

LEMMA CommandStep ==
  ASSUME TypeOK, ThreadInv, OwnerInv, CommandInv, CommandKeepsDevice, [Next]_vars
  PROVE  CommandInv' /\ CommandKeepsDevice'
<1>1. CASE UNCHANGED vars
  BY <1>1, CommandsKept DEF vars, session, decode, safety
<1>2. ASSUME NEW c \in Conn, CableBreaks(c) \/ Thread(c) \/ Called(c)
      PROVE  CommandInv' /\ CommandKeepsDevice'
  <2>1. UNCHANGED <<session, flush, safety, got>>
    BY <1>2, ThreadMoves
  <2>2. QED
    BY <2>1, CommandsKept DEF session, safety
<1>3. CASE Speaking
  <2>1. CASE ForcedMode
    BY <2>1, CommandsKept DEF ForcedMode, decode, safety
  <2>2. CASE SendProbe
    <3>1. got' = got
      <4>1. ~(\A i \in DOMAIN <<Query>> : Obeys(cl[sc], <<Query>>[i]))
        BY Ranges DEF Obeys
      <4>2. QED
        BY <2>2, <4>1 DEF SendProbe, Send
    <3>2. QED
      BY <2>2, <3>1, CommandsKept DEF SendProbe, decode, safety
  <2>3. QED
    BY <1>3, <2>1, <2>2, DecodeKeepsCommands, FlushKeepsCommands, TypedKeepsCommands DEF Speaking
<1>4. CASE Settling
  <2>1. CASE CloseDone
    <3>1. sc' = sc /\ UNCHANGED <<flush, safety, got>>
      BY <2>1 DEF CloseDone
    <3>2. QED
      BY <3>1, CommandsKept DEF safety
  <2>2. CASE StartReading
    <3>1. sc = 0 /\ ~flush /\ UNCHANGED <<flush, safety, got>>
      BY <2>2 DEF StartReading, OwnerInv, decode, Settled
    <3>2. QED
      BY <3>1, CommandsKept DEF safety
  <2>3. CASE ConnectionClosed \/ ReconnectIgnored \/ OpenFails \/ \E p : OpenPort(p)
    <3>1. sc' = sc /\ UNCHANGED <<flush, safety, got>>
      BY <2>3 DEF ConnectionClosed, ReconnectIgnored, OpenFails, OpenPort, session, decode
    <3>2. QED
      BY <3>1, CommandsKept DEF safety
  <2>4. CASE Disconnect \/ \E m \in Modes : ConnectSerial(m)
    <3>1. sc' = 0 /\ auth' = NoAuth /\ UNCHANGED <<flush, owed, home, got>>
      BY <2>4 DEF Disconnect, ConnectSerial, EndSession, decode
    <3>2. QED
      BY <3>1, CommandsKept
  <2>5. QED
    BY <1>4, <2>1, <2>2, <2>3, <2>4 DEF Settling, Opening
<1>5. QED
  BY <1>1, <1>2, <1>3, <1>4, Steps

----------------------------------------------------------------------------
(* The lines.                                                                *)

(* Where an element of a sequence was before.                                 *)
LEMMA TailFrom ==
  ASSUME NEW S, NEW s \in Seq(S), s # <<>>
  PROVE  /\ Tail(s) \in Seq(S) /\ Len(Tail(s)) = Len(s) - 1 /\ Len(s) \in Nat \ {0}
         /\ \A i \in DOMAIN Tail(s) : i + 1 \in DOMAIN s /\ Tail(s)[i] = s[i + 1]
         /\ Head(s) = s[1] /\ 1 \in DOMAIN s
<1>1. Tail(s) \in Seq(S) /\ Len(Tail(s)) = Len(s) - 1 /\ Len(s) \in Nat /\ DOMAIN s = 1 .. Len(s)
  BY HeadTailProperties, LenProperties
<1>2. Len(s) # 0
  BY EmptySeq
<1>3. DOMAIN Tail(s) = 1 .. Len(s) - 1
  BY <1>1, LenProperties
<1>4. \A i \in 1 .. Len(s) - 1 : Tail(s)[i] = s[i + 1]
  BY <1>1, HeadTailProperties
<1>5. QED
  BY <1>1, <1>2, <1>3, <1>4, HeadTailProperties

LEMMA ConcatFrom ==
  ASSUME NEW S, NEW s \in Seq(S), NEW t \in Seq(S)
  PROVE  /\ s \o t \in Seq(S) /\ Len(s \o t) = Len(s) + Len(t) /\ Len(s) \in Nat /\ Len(t) \in Nat
         /\ \A i \in DOMAIN (s \o t) : \/ i \in DOMAIN s /\ i <= Len(s) /\ (s \o t)[i] = s[i]
                                       \/ /\ i - Len(s) \in DOMAIN t /\ i > Len(s)
                                          /\ (s \o t)[i] = t[i - Len(s)]
         /\ DOMAIN (s \o t) = 1 .. Len(s) + Len(t)
<1>1. /\ s \o t \in Seq(S) /\ Len(s \o t) = Len(s) + Len(t)
      /\ \A i \in 1 .. Len(s) + Len(t) : (s \o t)[i] = IF i <= Len(s) THEN s[i] ELSE t[i - Len(s)]
  BY ConcatProperties
<1>2. /\ DOMAIN (s \o t) = 1 .. Len(s) + Len(t) /\ DOMAIN s = 1 .. Len(s) /\ DOMAIN t = 1 .. Len(t)
      /\ Len(s) \in Nat /\ Len(t) \in Nat
  BY <1>1, LenProperties
<1>3. QED
  BY <1>1, <1>2

LEMMA AppendFrom ==
  ASSUME NEW S, NEW s \in Seq(S), NEW e \in S
  PROVE  /\ Append(s, e) \in Seq(S)
         /\ \A i \in DOMAIN Append(s, e) : \/ i \in DOMAIN s /\ Append(s, e)[i] = s[i]
                                           \/ Append(s, e)[i] = e
<1>1. /\ Append(s, e) \in Seq(S) /\ Len(Append(s, e)) = Len(s) + 1
      /\ \A i \in 1 .. Len(s) : Append(s, e)[i] = s[i]
      /\ Append(s, e)[Len(s) + 1] = e
  BY AppendProperties
<1>2. DOMAIN Append(s, e) = 1 .. Len(s) + 1 /\ DOMAIN s = 1 .. Len(s) /\ Len(s) \in Nat
  BY <1>1, LenProperties
<1>3. QED
  BY <1>1, <1>2

(* What a device says is of its own kind; a sensor repeats each message before
   it answers it, and an answer is no echo.                                   *)
LEMMA AnswersSay ==
  ASSUME NEW k \in Client, NEW c \in Conn, NEW ms \in Seq(Message)
  PROVE  \A i \in DOMAIN Answers(k, c, ms) :
           LET l == Answers(k, c, ms)[i]
           IN /\ l.from = c /\ (l.kind = "GATEWAY" <=> k.dev = "GATEWAY")
              /\ k.dev = "GATEWAY" => l.kind # "echo"
              /\ k.dev # "GATEWAY" =>
                   IF i % 2 = 1
                   THEN l.kind = "echo" /\ l.msg = ms[(i + 1) \div 2] /\ (i + 1) \div 2 \in DOMAIN ms
                   ELSE l.kind # "echo"
<1>1. /\ k.dev = "GATEWAY" => \A m \in Message : Answer(k, m) = "GATEWAY"
      /\ k.dev # "GATEWAY" => \A m \in Message : Answer(k, m) \in {"SENSOR", "ok", "bad"}
  <2>1. k.dev = "GATEWAY" => \A m \in Message : Answer(k, m) = "GATEWAY"
    BY DEF Answer
  <2>2. k.dev # "GATEWAY" => \A m \in Message : Answer(k, m) \in {"SENSOR", "ok", "bad"}
    BY Ranges DEF Answer
  <2>3. QED
    BY <2>1, <2>2
<1>2. /\ \A i \in 1 .. Len(ms) : ms[i] \in Message
      /\ Len(ms) \in Nat /\ DOMAIN ms = 1 .. Len(ms)
  BY ElementOfSeq, LenProperties
<1>3. CASE k.dev = "GATEWAY"
  <2>1. Answers(k, c, ms) = [i \in 1 .. Len(ms) |-> LineOf(c, Answer(k, ms[i]), None)]
    BY <1>3 DEF Answers
  <2>2. \A i \in 1 .. Len(ms) : LineOf(c, Answer(k, ms[i]), None) = LineOf(c, "GATEWAY", None)
    BY <1>1, <1>2, <1>3
  <2>3. QED
    BY <1>3, <2>1, <2>2 DEF LineOf
<1>4. CASE k.dev # "GATEWAY"
  <2> DEFINE n == 2 * Len(ms)
             m(i) == ms[(i + 1) \div 2]
             said(i) == IF i % 2 = 1 THEN LineOf(c, "echo", m(i)) ELSE LineOf(c, Answer(k, m(i)), None)
  <2>1. \A i \in 1 .. n : (i + 1) \div 2 \in 1 .. Len(ms)
    BY <1>2
  <2>2. Answers(k, c, ms) = [i \in 1 .. n |-> said(i)]
    BY <1>4 DEF Answers
  <2>3. \A i \in 1 .. n : m(i) \in Message /\ Answer(k, m(i)) \in {"SENSOR", "ok", "bad"}
    BY <1>1, <1>2, <1>4, <2>1
  <2>4. \A i \in 1 .. n : /\ said(i).from = c /\ said(i).kind # "GATEWAY"
                          /\ IF i % 2 = 1 THEN said(i).kind = "echo" /\ said(i).msg = m(i)
                             ELSE said(i).kind # "echo"
    BY <2>3 DEF LineOf
  <2> HIDE DEF n, said
  <2>5. QED
    BY <1>2, <1>4, <2>1, <2>2, <2>4
<1>5. QED
  BY <1>3, <1>4

LEMMA QueueOf ==
  ASSUME TypeOK
  PROVE  queue \in Seq(Line) /\ \A i \in DOMAIN queue : queue[i] \in Line /\ queue[i].from \in Conn
<1>1. queue \in Seq(Line)
  BY DEF TypeOK
<1>2. \A i \in DOMAIN queue : queue[i] \in Line
  BY <1>1, ElementOfSeq, LenProperties
<1>3. QED
  BY <1>1, <1>2 DEF Line

(* A step that leaves queue and ports alone.                                   *)
LEMMA QueueKept ==
  ASSUME TypeOK, QueueInv, queue' = queue, made' = made, pc' = "boot" => pc = "boot",
         \A c \in Conn : cl'[c].dev = cl[c].dev
  PROVE  QueueInv'
<1>1. \A l : l.from \in Conn /\ Held(l) => Held(l)'
  BY DEF Held, Booting, Belongs
<1>2. QED
  BY <1>1, QueueOf DEF QueueInv

(* What a step of the cable or of a thread does to the lines.                  *)
LEMMA ThreadLines ==
  ASSUME TypeOK, ThreadInv, OwnerInv, LineInv, NEW c \in Conn, CableBreaks(c) \/ Thread(c) \/ Called(c)
  PROVE  LineInv'
<1>1. /\ \A d \in Conn : d # c => cl'[d] = cl[d]
      /\ UNCHANGED session /\ cl'[c].dev = cl[c].dev
      /\ cl[c].th # "none" \/ (cl'[c].th = "none" /\ cl[c].open)
  BY ThreadMoves
<1>2. UNCHANGED <<made, sc, pc, req, joining>>
  BY <1>1 DEF session
<1>3. cl \in [Conn -> Client] /\ cl[c] \in Client /\ cl[c].chunk \in Seq(Line) /\ cl[c].wire \in Seq(Line)
  BY ClientFields DEF TypeOK
<1>4. Own(c) /\ QueueInv /\ CleanInv /\ \A d \in Conn : Own(d)
  BY DEF LineInv
<1>5. Runs(cl[c])
  BY DEF ThreadInv
<1>6. \A l : Belongs(l, c) => Belongs(l, c)'
  BY <1>1 DEF Belongs
<1>7. \A d \in Conn : d # c => Own(d)'
  BY <1>1, <1>4 DEF Own, Belongs
<1>8. c <= made /\ (cl[c].th # "none" => ~Booting(c))
  <2>1. cl[c] # Unborn
    BY <1>1 DEF Unborn
  <2>2. c <= made
    BY <2>1, Ranges, Numbers DEF ThreadInv
  <2>3. QED
    BY <2>2 DEF Booting, OwnerInv
(* A line is read only on the connection that is open and settled.            *)
<1>9. cl[c].th = "read" => c = sc \/ (sc = 0 /\ pc \notin {"open", "boot"})
  <2> SUFFICES ASSUME cl[c].th = "read"
               PROVE  c = sc \/ (sc = 0 /\ pc \notin {"open", "boot"})
    OBVIOUS
  <2>1. Current(c) /\ ~Booting(c)
    BY <1>8 DEF ThreadInv, Orphan
  <2>2. QED
    BY <2>1, Ranges DEF Current, OwnerInv
<1>10. CASE CableBreaks(c)
  <2>1. cl'[c].chunk = cl[c].chunk /\ cl'[c].wire = <<>> /\ queue' = queue /\ clean' = clean
    BY <1>3, <1>10 DEF CableBreaks, Client, decode
  <2>2. Own(c)'
    BY <1>4, <1>6, <2>1 DEF Own
  <2>3. CleanInv'
    BY <1>1, <1>2, <1>4, <2>1 DEF CleanInv
  <2>4. QED
    BY <1>1, <1>2, <1>4, <1>7, <2>1, <2>2, <2>3, QueueKept DEF LineInv
<1>11. CASE Thread(c)
  <2>1. queue' = queue /\ clean' = clean
    BY <1>11 DEF Thread, ThreadReads, ThreadHandsOver, ThreadReports, ThreadOnly, decode
  <2>2. \/ cl'[c].chunk = cl[c].chunk /\ cl'[c].wire = cl[c].wire
        \/ cl'[c].chunk = cl[c].wire /\ cl'[c].wire = <<>> /\ cl[c].th = "read"
        \/ cl[c].chunk # <<>> /\ cl'[c].chunk = Tail(cl[c].chunk) /\ cl'[c].wire = cl[c].wire
    <3>1. CASE ThreadReads(c)
      BY <1>3, <3>1 DEF ThreadReads, Client
    <3>2. CASE ThreadHandsOver(c)
      BY <1>3, <3>2 DEF ThreadHandsOver, Client
    <3>3. CASE ThreadReports(c)
      BY <1>3, <3>3 DEF ThreadReports, Client
    <3>4. QED
      BY <1>11, <3>1, <3>2, <3>3 DEF Thread
  <2>3. Own(c)'
    <3>1. cl[c].chunk # <<>> => \A i \in DOMAIN Tail(cl[c].chunk) : Belongs(Tail(cl[c].chunk)[i], c)
      BY <1>3, <1>4, TailFrom DEF Own
    <3>2. \A i \in DOMAIN <<>> : Belongs(<<>>[i], c)
      OBVIOUS
    <3>3. QED
      BY <1>4, <1>6, <2>2, <3>1, <3>2 DEF Own
  <2>4. CleanInv'
    <3>1. CASE cl'[c].chunk = cl[c].wire /\ cl[c].th = "read"
      <4>1. c = sc \/ (sc = 0 /\ pc \notin {"open", "boot"})
        BY <1>9, <3>1
      <4>2. c = sc => sc # 0 /\ pc \notin {"open", "boot"}
        BY Ranges DEF OwnerInv
      <4>3. QED
        BY <1>1, <1>2, <1>4, <2>1, <4>1, <4>2 DEF CleanInv
    <3>2. CASE cl[c].chunk # <<>> \/ cl'[c].chunk = cl[c].chunk
      BY <1>1, <1>2, <1>4, <2>1, <3>2 DEF CleanInv
    <3>3. QED
      BY <2>2, <3>1, <3>2
  <2>5. QED
    BY <1>1, <1>2, <1>4, <1>7, <2>1, <2>3, <2>4, QueueKept DEF LineInv
<1>12. CASE SerialError(c) \/ SerialDisconnected(c)
  <2>1. cl'[c].chunk = cl[c].chunk /\ cl'[c].wire = cl[c].wire /\ queue' = queue /\ clean' = clean
    BY <1>3, <1>12 DEF SerialError, SerialDisconnected, ThreadOnly, Client, decode
  <2>2. Own(c)'
    BY <1>4, <1>6, <2>1 DEF Own
  <2>3. CleanInv'
    BY <1>1, <1>2, <1>4, <2>1 DEF CleanInv
  <2>4. QED
    BY <1>1, <1>2, <1>4, <1>7, <2>1, <2>2, <2>3, QueueKept DEF LineInv
<1>13. CASE EnqueueLine(c)
  <2>1. cl[c].th = "line" /\ cl[c].chunk # <<>> /\ ~Booting(c)
    BY <1>5, <1>8, <1>13 DEF EnqueueLine, Runs
  <2>2. /\ cl'[c].chunk = Tail(cl[c].chunk) /\ cl'[c].wire = cl[c].wire
        /\ \/ queue' = Append(queue, Head(cl[c].chunk)) /\ clean' = clean
           \/ queue' = queue /\ clean' = FALSE
    BY <1>3, <1>13 DEF EnqueueLine, Client
  <2>3. PICK l \in Line : l = Head(cl[c].chunk) /\ Belongs(l, c) /\ l.from = c
    <3>1. Head(cl[c].chunk) = cl[c].chunk[1] /\ 1 \in DOMAIN cl[c].chunk
      BY <1>3, <2>1, TailFrom
    <3>2. cl[c].chunk[1] \in Line
      BY <1>3, <3>1, ElementOfSeq, LenProperties
    <3>3. QED
      BY <1>4, <3>1, <3>2 DEF Own, Belongs
  <2>4. Own(c)'
    BY <1>3, <1>4, <1>6, <2>1, <2>2, TailFrom DEF Own
  <2>5. QueueInv'
    <3>1. CASE queue' = queue
      BY <1>1, <1>2, <1>4, <3>1, QueueKept
    <3>2. CASE queue' = Append(queue, l)
      <4>1. \A k : k.from \in Conn /\ Held(k) => Held(k)'
        BY <1>1, <1>2 DEF Held, Booting, Belongs
      <4>2. Held(l)'
        BY <1>2, <1>6, <1>8, <2>1, <2>3 DEF Held, Booting, Belongs
      <4>3. \A i \in DOMAIN queue' : queue'[i] = l \/ (i \in DOMAIN queue /\ queue'[i] = queue[i])
        BY <2>3, <3>2, AppendFrom, QueueOf
      <4>4. QED
        BY <1>4, <4>1, <4>2, <4>3, QueueOf DEF QueueInv
    <3>3. QED
      BY <2>2, <2>3, <3>1, <3>2
  <2>6. CleanInv'
    <3> SUFFICES ASSUME clean' = TRUE
                 PROVE  CleanInv'
      BY <2>2 DEF CleanInv, TypeOK
    <3>1. queue' = Append(queue, l) /\ clean
      BY <2>2, <2>3 DEF TypeOK
    <3>2. pc \notin {"open", "boot"} /\ (sc # 0 => c = sc)
      BY <1>4, <2>1, <3>1 DEF CleanInv
    <3>3. sc # 0 => \A i \in DOMAIN queue' : queue'[i].from = sc
      BY <1>4, <2>3, <3>1, <3>2, AppendFrom, QueueOf DEF CleanInv
    <3>4. QED
      BY <1>1, <1>2, <1>4, <3>1, <3>2, <3>3 DEF CleanInv
  <2>7. QED
    BY <1>7, <2>4, <2>5, <2>6 DEF LineInv
<1>14. QED
  BY <1>10, <1>11, <1>12, <1>13 DEF Called

(* What a written client is, field by field.                                  *)
LEMMA WrittenFields ==
  ASSUME NEW k \in Client, NEW c \in Conn, NEW ms \in Seq(Message)
  PROVE  LET w == Written(k, c, ms)
         IN /\ w.echo = Echoed(k, ms) /\ w.wire = k.wire \o Answers(k, c, ms)
            /\ w.filter = k.filter /\ Spoken(w, k)
<1> DEFINE u == k.unlocked \/ (k.token /\ \E i \in DOMAIN ms : ms[i] = Unlock)
<1>1. Written(k, c, ms) = [k EXCEPT !.echo = Echoed(k, ms), !.wire = k.wire \o Answers(k, c, ms),
                                    !.unlocked = u]
  BY DEF Written
<1> HIDE DEF u
<1>2. QED
  BY <1>1 DEF Client, Spoken

LEMMA FilteredFields ==
  ASSUME TypeOK, NEW m, cl' = Filtered(m)
  PROVE  /\ \A c \in Conn : cl'[c].wire = cl[c].wire
         /\ sc # 0 => /\ cl'[sc].filter = (m = "SENSOR")
                      /\ m = "SENSOR" => cl'[sc].echo = cl[sc].echo
<1>1. CASE sc = 0
  BY <1>1 DEF Filtered
<1>2. CASE sc # 0
  <2>1. cl \in [Conn -> Client] /\ sc \in Conn /\ cl[sc] \in Client
    BY <1>2, Numbers DEF TypeOK
  <2>2. cl' = [cl EXCEPT ![sc].filter = (m = "SENSOR"), ![sc].echo = IF m = "SENSOR" THEN @ ELSE <<>>]
    BY <1>2 DEF Filtered
  <2>3. QED
    BY <2>1, <2>2 DEF Client
<1>3. QED
  BY <1>1, <1>2

(* The loop writes messages to the current client, sets its filter, or leaves
   the clients alone.                                                        *)
LEMMA SpeaksLines ==
  ASSUME TypeOK, Speaking
  PROVE  \/ cl' = cl
         \/ /\ sc \in Conn /\ cl[sc].alive /\ ~ForcedMode /\ ~DecodeLine
            /\ \E ms \in Seq(Message) : cl' = [cl EXCEPT ![sc] = Written(cl[sc], sc, ms)]
         \/ ForcedMode
         \/ DecodeLine
<1>1. ASSUME NEW ms \in Seq(Message), Send(ms)
      PROVE  \/ cl' = cl
             \/ /\ sc \in Conn /\ cl[sc].alive
                /\ \E xs \in Seq(Message) : cl' = [cl EXCEPT ![sc] = Written(cl[sc], sc, xs)]
  BY <1>1, Numbers DEF Send, Writable
<1>2. CASE SendProbe
  <2>1. <<Query>> \in Seq(Message)
    BY DEF Message
  <2>2. QED
    BY <1>1, <1>2, <2>1 DEF SendProbe
<1>3. CASE Flush
  <2>1. owed \o auth.queue \in Seq(Message)
    <3>1. owed \in Seq(Cmd) /\ auth.queue \in Seq(Cmd)
      BY DEF TypeOK
    <3>2. QED
      BY <3>1, ConcatProperties, SeqMonotonic DEF Message
  <2>2. QED
    BY <1>1, <1>3, <2>1 DEF Flush
<1>4. ASSUME NEW m \in Cmd, SendCommand(m)
      PROVE  \/ cl' = cl
             \/ /\ sc \in Conn /\ cl[sc].alive
                /\ \E xs \in Seq(Message) : cl' = [cl EXCEPT ![sc] = Written(cl[sc], sc, xs)]
  <2>1. <<m>> \in Seq(Message) /\ <<Unlock>> \in Seq(Message)
    BY DEF Message
  <2>2. QED
    BY <1>1, <1>4, <2>1 DEF SendCommand
<1>5. QED
  BY <1>2, <1>3, <1>4 DEF Speaking

LEMMA SpeakingLines ==
  ASSUME TypeOK, ThreadInv, OwnerInv, LineInv, Speaking
  PROVE  LineInv'
<1>1. /\ \A c \in Conn : Spoken(cl'[c], cl[c]) /\ (c # sc => cl'[c] = cl[c])
      /\ UNCHANGED <<made, sc, req, joining>>
      /\ pc' = pc \/ (pc \in {"forced", "probe"} /\ pc' \in {"probe", "idle"})
  BY Speaks
<1>2. clean' = clean /\ (queue' = queue \/ (queue # <<>> /\ queue' = Tail(queue)))
  BY DEF Speaking, ForcedMode, SendProbe, DecodeLine, Flush, SendCommand, decode
<1>3. \A c \in Conn : \A l : Belongs(l, c) => Belongs(l, c)'
  BY <1>1 DEF Belongs, Spoken
<1>4. \A c \in Conn : \A i \in DOMAIN cl'[c].wire : Belongs(cl'[c].wire[i], c)
  <2> SUFFICES ASSUME NEW c \in Conn, NEW i \in DOMAIN cl'[c].wire
               PROVE  Belongs(cl'[c].wire[i], c)
    OBVIOUS
  <2>1. CASE cl'[c].wire = cl[c].wire
    BY <2>1 DEF LineInv, Own
  <2>2. CASE c = sc /\ \E ms \in Seq(Message) : cl' = [cl EXCEPT ![sc] = Written(cl[sc], sc, ms)]
    <3>1. PICK ms \in Seq(Message) : cl' = [cl EXCEPT ![sc] = Written(cl[sc], sc, ms)]
      BY <2>2
    <3>2. cl \in [Conn -> Client] /\ cl[c] \in Client /\ cl'[c] = Written(cl[c], c, ms)
      BY <2>2, <3>1 DEF TypeOK
    <3>3. cl'[c].wire = cl[c].wire \o Answers(cl[c], c, ms)
      BY <3>2, WrittenFields
    <3>4. Answers(cl[c], c, ms) \in Seq(Line) /\ cl[c].wire \in Seq(Line)
      BY <3>2, AnswersType, ClientFields
    <3>5. \/ i \in DOMAIN cl[c].wire /\ cl'[c].wire[i] = cl[c].wire[i]
          \/ /\ i - Len(cl[c].wire) \in DOMAIN Answers(cl[c], c, ms)
             /\ cl'[c].wire[i] = Answers(cl[c], c, ms)[i - Len(cl[c].wire)]
      <4>1. PICK w \in Seq(Line), a \in Seq(Line) : w = cl[c].wire /\ a = Answers(cl[c], c, ms)
        BY <3>4
      <4>2. \A j \in DOMAIN (w \o a) :
              \/ j \in DOMAIN w /\ (w \o a)[j] = w[j]
              \/ j - Len(w) \in DOMAIN a /\ (w \o a)[j] = a[j - Len(w)]
        BY ConcatFrom
      <4>3. cl'[c].wire = w \o a
        BY <3>3, <4>1
      <4>4. QED
        BY <4>1, <4>2, <4>3
    <3>6. \A j \in DOMAIN Answers(cl[c], c, ms) : Belongs(Answers(cl[c], c, ms)[j], c)
      BY <3>2, AnswersSay, ClientFields DEF Belongs, Devices
    <3>7. QED
      BY <3>5, <3>6 DEF LineInv, Own
  <2>3. CASE c # sc \/ cl' = cl
    BY <1>1, <2>1, <2>3
  <2>4. CASE ForcedMode \/ DecodeLine
    <3>1. cl' = cl \/ \E m : cl' = Filtered(m)
      BY <2>4 DEF ForcedMode, DecodeLine
    <3>2. cl'[c].wire = cl[c].wire
      BY <1>1, <3>1, FilteredFields
    <3>3. QED
      BY <2>1, <3>2
  <2>5. QED
    BY <2>2, <2>3, <2>4, SpeaksLines
<1>5. \A c \in Conn : Own(c)'
  <2>1. \A c \in Conn : cl'[c].chunk = cl[c].chunk
    BY <1>1 DEF Spoken
  <2>2. QED
    BY <1>3, <1>4, <2>1 DEF LineInv, Own
<1>6. \A i \in DOMAIN queue' : \E j \in DOMAIN queue : queue'[i] = queue[j]
  BY <1>2, TailFrom, QueueOf
<1>7. QueueInv'
  <2>1. \A l : l.from \in Conn /\ Held(l) => Held(l)'
    BY <1>1, <1>3 DEF Held, Booting
  <2>2. QED
    BY <1>6, <2>1, QueueOf DEF LineInv, QueueInv
<1>8. CleanInv'
  <2>1. pc' \in {"open", "boot"} => pc \in {"open", "boot"} /\ sc = 0 /\ pc = pc'
    BY <1>1 DEF OwnerInv
  <2>2. \A c \in Conn : cl'[c].chunk = cl[c].chunk
    BY <1>1 DEF Spoken
  <2>3. CleanInv
    BY DEF LineInv
  <2>4. queue = <<>> => queue' = <<>>
    BY <1>2
  <2>5. QED
    BY <1>1, <1>2, <1>6, <2>1, <2>2, <2>3, <2>4 DEF CleanInv
<1>9. QED
  BY <1>5, <1>7, <1>8 DEF LineInv

(* The session settles: what is open, and what is left of the connection before,
   changes here.                                                             *)
LEMMA SettlingLines ==
  ASSUME TypeOK, ThreadInv, OwnerInv, LineInv, Settling
  PROVE  LineInv'
<1>1. cl \in [Conn -> Client] /\ QueueInv /\ CleanInv /\ \A c \in Conn : Own(c)
  BY DEF TypeOK, LineInv
<1>2. \A c \in Conn : cl[c].chunk # <<>> => cl[c].th = "line"
  BY DEF ThreadInv, Runs
(* Nothing is left over when the next connection starts clean.                *)
<1>3. ~LeftOver => queue = <<>> /\ \A c \in Conn : cl[c].chunk = <<>>
  BY <1>2 DEF LeftOver
(* A step that only changes who is connected, and closes the ports' wires.    *)
<1>4. ASSUME queue' = queue, made' = made, pc' = "boot" => pc = "boot",
             \A c \in Conn : /\ cl'[c].dev = cl[c].dev /\ cl'[c].chunk = cl[c].chunk
                             /\ cl'[c].wire \in {cl[c].wire, <<>>},
             sc' \in {0, sc} \/ pc \in {"open", "boot"},
             \/ clean' = clean /\ (pc' \in {"open", "boot"} => pc \in {"open", "boot"})
             \/ clean' = ~LeftOver /\ sc' = 0
      PROVE  LineInv'
  <2>1. \A c \in Conn : \A l : Belongs(l, c) => Belongs(l, c)'
    BY <1>4 DEF Belongs
  <2>2. \A c \in Conn : Own(c)'
    BY <1>1, <1>4, <2>1 DEF Own
  <2>3. QueueInv'
    BY <1>1, <1>4, QueueKept
  <2>4. CleanInv'
    <3>1. CASE clean' = clean /\ (pc' \in {"open", "boot"} => pc \in {"open", "boot"})
      BY <1>1, <1>4, <3>1 DEF CleanInv
    <3>2. CASE clean' = ~LeftOver /\ sc' = 0
      BY <1>3, <1>4, <3>2 DEF CleanInv
    <3>3. QED
      BY <1>4, <3>1, <3>2
  <2>5. QED
    BY <2>2, <2>3, <2>4 DEF LineInv
<1>5. CASE CloseDone
  <2>1. joining \in Conn /\ cl[joining] \in Client /\ pc \notin {"open", "boot"}
    BY <1>1, <1>5, Numbers DEF CloseDone, OwnerInv
  <2>2. cl' = [cl EXCEPT ![joining].open = FALSE, ![joining].echo = <<>>, ![joining].wire = <<>>]
    BY <1>5 DEF CloseDone
  <2>3. \A c \in Conn : /\ cl'[c].dev = cl[c].dev /\ cl'[c].chunk = cl[c].chunk
                        /\ cl'[c].wire \in {cl[c].wire, <<>>}
    BY <1>1, <2>1, <2>2 DEF Client
  <2>4. queue' = queue /\ made' = made /\ sc' = sc /\ sc = 0
    BY <1>5 DEF CloseDone, OwnerInv
  <2>5. \/ pc' = "open" /\ clean' = ~LeftOver
        \/ pc' = pc /\ clean' = clean
    BY <1>5 DEF CloseDone, Reopen
  <2>6. QED
    BY <1>4, <2>1, <2>3, <2>4, <2>5
<1>6. CASE StartReading
  <2>1. made \in Conn /\ cl[made] \in Client /\ pc = "boot"
    BY <1>1, <1>6, Numbers DEF StartReading, OwnerInv
  <2>2. cl' = [cl EXCEPT ![made].wire = <<>>, ![made].th = "read", ![made].filter = (req # "gateway")]
    BY <1>6 DEF StartReading
  <2>3. \A c \in Conn : /\ cl'[c].dev = cl[c].dev /\ cl'[c].chunk = cl[c].chunk
                        /\ cl'[c].wire \in {cl[c].wire, <<>>}
    BY <1>1, <2>1, <2>2 DEF Client
  <2>4. queue' = queue /\ made' = made /\ clean' = clean /\ pc' \notin {"open", "boot"}
    BY <1>6 DEF StartReading, decode
  <2>5. QED
    BY <1>4, <2>1, <2>3, <2>4
<1>7. CASE ConnectionClosed \/ ReconnectIgnored \/ OpenFails
  BY <1>4, <1>7 DEF ConnectionClosed, ReconnectIgnored, OpenFails, session, decode
<1>8. ASSUME NEW c \in Conn, c = made + 1, NEW p \in Ports[c], OpenPort(p)
      PROVE  LineInv'
  <2> DEFINE k == [Unborn EXCEPT !.open = TRUE, !.dev = p.dev, !.token = p.token]
  <2>1. /\ pc = "open" /\ sc = 0 /\ made' = c /\ sc' = 0 /\ pc' = "boot"
        /\ queue' = queue /\ clean' = clean /\ cl' = [cl EXCEPT ![c] = k]
    BY <1>8 DEF OpenPort, OwnerInv, decode
  <2>2. k.chunk = <<>> /\ k.wire = <<>>
    BY DEF Unborn
  <2> HIDE DEF k
  <2>3. cl'[c] = k /\ \A d \in Conn : d # c => cl'[d] = cl[d]
    BY <1>1, <2>1
  <2>4. \A d \in Conn : Own(d)'
    <3>1. Own(c)'
      BY <2>2, <2>3 DEF Own
    <3>2. \A d \in Conn : d # c => Own(d)'
      BY <1>1, <2>3 DEF Own, Belongs
    <3>3. QED
      BY <3>1, <3>2
  <2>5. QueueInv'
    <3>1. \A l : l.from \in Conn /\ Held(l) => Held(l)'
      <4> SUFFICES ASSUME NEW l, l.from \in Conn, Held(l)
                   PROVE  Held(l)'
        OBVIOUS
      <4>1. l.from <= made /\ l.from # c /\ l.from <= c
        <5>1. l.from \in Int /\ made \in Int /\ l.from <= made
          <6>1. Conn \subseteq Int
            BY Ranges
          <6>2. l.from \in Int /\ l.from <= made
            BY <6>1 DEF Held
          <6>3. QED
            BY <6>2, Numbers
        <5>2. QED
          BY <1>8, <5>1
      <4>2. cl'[l.from] = cl[l.from]
        BY <2>3, <4>1
      <4>3. QED
        BY <2>1, <4>1, <4>2 DEF Held, Booting, Belongs
    <3>2. QED
      BY <1>1, <2>1, <3>1, QueueOf DEF QueueInv
  <2>6. CleanInv'
    BY <1>1, <2>1, <2>2, <2>3 DEF CleanInv
  <2>7. QED
    BY <2>4, <2>5, <2>6 DEF LineInv
<1>9. CASE Disconnect \/ \E m \in Modes : ConnectSerial(m)
  <2>1. cl' = cl \/ (sc \in Conn /\ cl' = [cl EXCEPT ![sc].stop = TRUE])
    BY <1>9, Numbers DEF Disconnect, ConnectSerial
  <2>2. \A c \in Conn : cl'[c].dev = cl[c].dev /\ cl'[c].chunk = cl[c].chunk /\ cl'[c].wire = cl[c].wire
    <3>1. CASE sc \in Conn /\ cl' = [cl EXCEPT ![sc].stop = TRUE]
      <4>1. cl[sc] \in Client
        BY <1>1, <3>1
      <4>2. QED
        BY <1>1, <3>1, <4>1 DEF Client
    <3>2. QED
      BY <2>1, <3>1
  <2>3. queue' = queue /\ made' = made /\ sc' = 0
    BY <1>9 DEF Disconnect, ConnectSerial, decode
  <2>4. \/ pc' = pc /\ clean' = clean
        \/ pc' = "open" /\ clean' = ~LeftOver
        \/ pc' = "close" /\ clean' = clean
    BY <1>9 DEF Disconnect, ConnectSerial, Reopen, decode
  <2>5. QED
    BY <1>4, <2>2, <2>3, <2>4
<1>10. QED
  BY <1>5, <1>6, <1>7, <1>8, <1>9 DEF Settling, Opening

LEMMA LineStep ==
  ASSUME TypeOK, ThreadInv, OwnerInv, LineInv, [Next]_vars
  PROVE  LineInv'
<1>1. CASE UNCHANGED vars
  BY <1>1 DEF vars, session, decode, LineInv, Own, QueueInv, CleanInv, Held, Booting, Belongs
<1>2. CASE Next
  BY <1>2, Steps, ThreadLines, SpeakingLines, SettlingLines
<1>3. QED
  BY <1>1, <1>2

----------------------------------------------------------------------------
(* Echoes and answers.                                                       *)

(* Sequence r is s without its first line.                                    *)
Drops(s, r) == Len(r) = Len(s) - 1 /\ \A i \in 1 .. Len(s) - 1 : r[i] = s[i + 1]

(* The parity of the next line changes with each line taken: an echo takes the
   message that is expected with it, an answer none.                          *)
LEMMA TakenEcho ==
  ASSUME NEW s \in Seq(Line), NEW r \in Seq(Line), NEW e \in Seq(Message),
         e # <<>>, Drops(s, r), Alternates(s, e, 0)
  PROVE  Alternates(r, Tail(e), 1)
<1>1. /\ Len(s) \in Nat /\ DOMAIN s = 1 .. Len(s) /\ DOMAIN r = 1 .. Len(s) - 1
      /\ \A i \in 1 .. Len(s) - 1 : r[i] = s[i + 1]
  BY LenProperties DEF Drops
<1>2. /\ Len(e) \in Nat \ {0} /\ DOMAIN e = 1 .. Len(e) /\ DOMAIN Tail(e) = 1 .. Len(e) - 1
      /\ \A i \in 1 .. Len(e) - 1 : Tail(e)[i] = e[i + 1]
  BY TailFrom, LenProperties
<1> SUFFICES ASSUME NEW i \in 1 .. Len(s) - 1
             PROVE  IF (i + 1) % 2 = 1
                    THEN /\ s[i + 1].kind = "echo" /\ (i + 1 - 1) \div 2 \in DOMAIN Tail(e)
                         /\ s[i + 1].msg = Tail(e)[(i + 1 - 1) \div 2]
                    ELSE s[i + 1].kind # "echo"
  BY <1>1 DEF Alternates
<1>3. i + 1 \in 1 .. Len(s)
  BY <1>1
<1>4. IF ((i + 1) + 0) % 2 = 1
      THEN /\ s[i + 1].kind = "echo" /\ ((i + 1) + 1 - 0) \div 2 \in DOMAIN e
           /\ s[i + 1].msg = e[((i + 1) + 1 - 0) \div 2]
      ELSE s[i + 1].kind # "echo"
  BY <1>1, <1>3 DEF Alternates
<1>5. CASE (i + 1) % 2 = 1
  <2>1. i \in Nat /\ ((i + 1) + 1 - 0) \div 2 = (i \div 2) + 1 /\ i \div 2 >= 1 /\ (i + 1 - 1) \div 2 = i \div 2
    BY <1>5
  <2>2. (i \div 2) + 1 \in 1 .. Len(e)
    BY <1>2, <1>4, <1>5, <2>1
  <2>3. i \div 2 \in 1 .. Len(e) - 1
    BY <1>2, <2>1, <2>2
  <2>4. QED
    BY <1>2, <1>4, <1>5, <2>1, <2>3
<1>6. QED
  BY <1>4, <1>5

LEMMA TakenAnswer ==
  ASSUME NEW s \in Seq(Line), NEW r \in Seq(Line), NEW e \in Seq(Message),
         Drops(s, r), Alternates(s, e, 1)
  PROVE  Alternates(r, e, 0)
<1>1. /\ Len(s) \in Nat /\ DOMAIN s = 1 .. Len(s) /\ DOMAIN r = 1 .. Len(s) - 1
      /\ \A i \in 1 .. Len(s) - 1 : r[i] = s[i + 1]
  BY LenProperties DEF Drops
<1> SUFFICES ASSUME NEW i \in 1 .. Len(s) - 1
             PROVE  IF (i + 0) % 2 = 1
                    THEN /\ s[i + 1].kind = "echo" /\ (i + 1 - 0) \div 2 \in DOMAIN e
                         /\ s[i + 1].msg = e[(i + 1 - 0) \div 2]
                    ELSE s[i + 1].kind # "echo"
  BY <1>1 DEF Alternates
<1>2. i + 1 \in 1 .. Len(s)
  BY <1>1
<1>3. IF ((i + 1) + 1) % 2 = 1
      THEN /\ s[i + 1].kind = "echo" /\ ((i + 1) + 1 - 1) \div 2 \in DOMAIN e
           /\ s[i + 1].msg = e[((i + 1) + 1 - 1) \div 2]
      ELSE s[i + 1].kind # "echo"
  BY <1>1, <1>2 DEF Alternates
<1>4. ((i + 1) + 1) % 2 = (i + 0) % 2 /\ (i + 1) + 1 - 1 = i + 1 - 0
  OBVIOUS
<1>5. QED
  BY <1>3, <1>4

LEMMA Halves ==
  \A i, j, n \in Nat : \A p \in {0, 1} : i = j + 2 * n + p =>
    (i + p) % 2 = j % 2 /\ (i + 1 - p) \div 2 = n + ((j + 1) \div 2)
<1> SUFFICES ASSUME NEW i \in Nat, NEW j \in Nat, NEW n \in Nat, NEW p \in {0, 1}, i = j + 2 * n + p
             PROVE  (i + p) % 2 = j % 2 /\ (i + 1 - p) \div 2 = n + ((j + 1) \div 2)
  OBVIOUS
<1>1. PICK h \in Nat, r \in {0, 1} : j = 2 * h + r
  <2>1. j = 2 * (j \div 2) + (j % 2) /\ j \div 2 \in Nat /\ j % 2 \in {0, 1}
    OBVIOUS
  <2>2. QED
    BY <2>1
<1>2. (i + p) % 2 = r /\ j % 2 = r
  <2>1. i + p = 2 * (h + n + p) + r /\ h + n + p \in Nat
    BY <1>1
  <2>2. \A m \in Nat : (2 * m + r) % 2 = r
    OBVIOUS
  <2>3. QED
    BY <1>1, <2>1, <2>2
<1>3. (i + 1 - p) \div 2 = h + n + r /\ (j + 1) \div 2 = h + r
  <2>1. i + 1 - p = 2 * (h + n) + r + 1 /\ h + n \in Nat
    BY <1>1
  <2>2. \A m \in Nat : (2 * m + r + 1) \div 2 = m + r
    OBVIOUS
  <2>3. QED
    BY <1>1, <2>1, <2>2
<1>4. QED
  BY <1>1, <1>2, <1>3

(* A sensor that is asked answers after everything it has said: the messages are
   expected after those that are.                                            *)
LEMMA Asked ==
  \A s \in Seq(Line), e \in Seq(Message), p \in {0, 1}, k \in Client, c \in Conn, ms \in Seq(Message) :
    k.dev = "SENSOR" /\ Alternates(s, e, p) /\ Len(s) = 2 * Len(e) + p =>
      /\ Alternates(s \o Answers(k, c, ms), e \o ms, p)
      /\ Len(s \o Answers(k, c, ms)) = 2 * Len(e \o ms) + p
<1> TAKE s \in Seq(Line), e \in Seq(Message), p \in {0, 1}, k \in Client, c \in Conn, ms \in Seq(Message)
<1> HAVE k.dev = "SENSOR" /\ Alternates(s, e, p) /\ Len(s) = 2 * Len(e) + p
<1>1. PICK t \in Seq(Line) : t = Answers(k, c, ms) /\ Len(t) = 2 * Len(ms)
  BY AnswersType
<1>2. /\ Len(s) \in Nat /\ Len(e) \in Nat /\ Len(ms) \in Nat
      /\ DOMAIN s = 1 .. Len(s) /\ DOMAIN e = 1 .. Len(e) /\ DOMAIN ms = 1 .. Len(ms)
      /\ DOMAIN t = 1 .. 2 * Len(ms)
  BY <1>1, LenProperties
<1>3. /\ DOMAIN (s \o t) = 1 .. Len(s) + Len(t) /\ Len(s \o t) = Len(s) + Len(t)
      /\ \A i \in DOMAIN (s \o t) : \/ i \in DOMAIN s /\ (s \o t)[i] = s[i]
                                    \/ /\ i - Len(s) \in DOMAIN t /\ i > Len(s)
                                       /\ (s \o t)[i] = t[i - Len(s)]
  <2>1. s \in Seq(Line) /\ t \in Seq(Line)
    BY <1>1
  <2>2. /\ s \o t \in Seq(Line) /\ Len(s \o t) = Len(s) + Len(t) /\ Len(s) \in Nat /\ Len(t) \in Nat
        /\ \A i \in DOMAIN (s \o t) : \/ i \in DOMAIN s /\ i <= Len(s) /\ (s \o t)[i] = s[i]
                                      \/ /\ i - Len(s) \in DOMAIN t /\ i > Len(s)
                                         /\ (s \o t)[i] = t[i - Len(s)]
        /\ DOMAIN (s \o t) = 1 .. Len(s) + Len(t)
    BY ONLY <2>1, ConcatFrom, ZenonT(30)
  <2>3. QED
    BY ONLY <2>2, ZenonT(30)
<1>4. /\ Len(e \o ms) = Len(e) + Len(ms) /\ DOMAIN (e \o ms) = 1 .. Len(e) + Len(ms)
      /\ \A i \in 1 .. Len(e) + Len(ms) : (e \o ms)[i] = IF i <= Len(e) THEN e[i] ELSE ms[i - Len(e)]
  BY ConcatProperties, LenProperties
<1>5. \A i \in DOMAIN t : IF i % 2 = 1
                          THEN /\ t[i].kind = "echo" /\ t[i].msg = ms[(i + 1) \div 2]
                               /\ (i + 1) \div 2 \in DOMAIN ms
                          ELSE t[i].kind # "echo"
  <2>1. k.dev # "GATEWAY"
    OBVIOUS
  <2>2. \A i \in DOMAIN Answers(k, c, ms) :
          IF i % 2 = 1
          THEN /\ Answers(k, c, ms)[i].kind = "echo" /\ Answers(k, c, ms)[i].msg = ms[(i + 1) \div 2]
               /\ (i + 1) \div 2 \in DOMAIN ms
          ELSE Answers(k, c, ms)[i].kind # "echo"
    BY <2>1, AnswersSay
  <2>3. t = Answers(k, c, ms)
    BY <1>1
  <2>4. QED
    BY ONLY <2>2, <2>3
<1>6. ASSUME NEW i \in DOMAIN (s \o t)
      PROVE  LET l == (s \o t)[i]
                 n == (i + 1 - p) \div 2
             IN IF (i + p) % 2 = 1
                THEN l.kind = "echo" /\ n \in DOMAIN (e \o ms) /\ l.msg = (e \o ms)[n]
                ELSE l.kind # "echo"
  <2>1. CASE i \in DOMAIN s /\ (s \o t)[i] = s[i]
    <3>1. IF (i + p) % 2 = 1
          THEN /\ s[i].kind = "echo" /\ (i + 1 - p) \div 2 \in DOMAIN e
               /\ s[i].msg = e[(i + 1 - p) \div 2]
          ELSE s[i].kind # "echo"
      BY <2>1 DEF Alternates
    <3>2. \A n \in DOMAIN e : n \in DOMAIN (e \o ms) /\ (e \o ms)[n] = e[n]
      BY <1>2, <1>4
    <3>3. QED
      BY <2>1, <3>1, <3>2
  <2>2. CASE i - Len(s) \in DOMAIN t /\ i > Len(s) /\ (s \o t)[i] = t[i - Len(s)]
    <3>1. PICK j \in 1 .. 2 * Len(ms) : j = i - Len(s)
      BY <1>2, <2>2
    <3>2. i = j + 2 * Len(e) + p /\ j \in Nat /\ Len(e) \in Nat
      BY <1>2, <1>3, <3>1
    <3>3. (i + p) % 2 = j % 2 /\ (i + 1 - p) \div 2 = Len(e) + ((j + 1) \div 2)
      <4>1. PICK n \in Nat : n = Len(e)
        BY <1>2
      <4>2. i = j + 2 * n + p /\ i \in Nat
        BY <3>2, <4>1
      <4>3. (i + p) % 2 = j % 2 /\ (i + 1 - p) \div 2 = n + ((j + 1) \div 2)
        <5>1. j \in Nat
          BY <3>2
        <5>2. QED
          BY <4>2, <5>1, Halves
      <4>4. QED
        BY <4>1, <4>3
    <3>4. \A n \in DOMAIN ms : Len(e) + n \in DOMAIN (e \o ms) /\ (e \o ms)[Len(e) + n] = ms[n]
      BY <1>2, <1>4
    <3>5. QED
      BY <1>2, <1>5, <2>2, <3>1, <3>3, <3>4
  <2>3. QED
    BY <1>3, <2>1, <2>2
<1>7. Len(s \o t) = 2 * Len(e \o ms) + p
  BY <1>1, <1>2, <1>3, <1>4
<1>8. QED
  BY <1>1, <1>6, <1>7 DEF Alternates

(* Lines that are lost at the end change nothing of those that remain.         *)
LEMMA Shortened ==
  ASSUME NEW s \in Seq(Line), NEW t \in Seq(Line), NEW e, NEW p, Alternates(s \o t, e, p)
  PROVE  Alternates(s, e, p)
<1>1. \A i \in DOMAIN s : i \in DOMAIN (s \o t) /\ (s \o t)[i] = s[i]
  <2>1. /\ Len(s) \in Nat /\ Len(t) \in Nat /\ DOMAIN s = 1 .. Len(s)
        /\ DOMAIN (s \o t) = 1 .. Len(s) + Len(t)
    BY ConcatFrom, LenProperties
  <2>2. \A i \in 1 .. Len(s) : (s \o t)[i] = s[i]
    BY <2>1, ConcatProperties
  <2>3. QED
    BY <2>1, <2>2
<1>2. QED
  BY <1>1 DEF Alternates

LEMMA DropsFirst ==
  \A s, t \in Seq(Line) : s # <<>> =>
    \E all, rest \in Seq(Line) :
      /\ all = s \o t /\ rest = Tail(s) \o t /\ Drops(all, rest)
      /\ 1 \in DOMAIN all /\ all[1] = Head(s)
      /\ Len(all) \in Nat /\ Len(rest) = Len(all) - 1
<1> SUFFICES ASSUME NEW s \in Seq(Line), NEW t \in Seq(Line), s # <<>>
             PROVE  \E all, rest \in Seq(Line) :
                      /\ all = s \o t /\ rest = Tail(s) \o t /\ Drops(all, rest)
                      /\ 1 \in DOMAIN all /\ all[1] = Head(s)
                      /\ Len(all) \in Nat /\ Len(rest) = Len(all) - 1
  OBVIOUS
<1>1. /\ Tail(s) \in Seq(Line) /\ Len(Tail(s)) = Len(s) - 1 /\ Len(s) \in Nat \ {0} /\ Head(s) = s[1]
      /\ DOMAIN Tail(s) = 1 .. Len(s) - 1 /\ Len(t) \in Nat
      /\ \A i \in 1 .. Len(s) - 1 : Tail(s)[i] = s[i + 1]
  BY TailFrom, LenProperties
<1>2. /\ Len(s \o t) = Len(s) + Len(t) /\ DOMAIN (s \o t) = 1 .. Len(s) + Len(t)
      /\ \A i \in 1 .. Len(s) + Len(t) : (s \o t)[i] = IF i <= Len(s) THEN s[i] ELSE t[i - Len(s)]
      /\ s \o t \in Seq(Line)
  BY ConcatProperties, LenProperties
<1>3. PICK r \in Seq(Line) : r = Tail(s)
  BY <1>1
<1>4. /\ r \o t \in Seq(Line) /\ Len(r \o t) = Len(r) + Len(t)
      /\ \A i \in 1 .. Len(r) + Len(t) : (r \o t)[i] = IF i <= Len(r) THEN r[i] ELSE t[i - Len(r)]
  BY ConcatProperties
<1>5. Len(r) = Len(s) - 1 /\ \A i \in 1 .. Len(s) - 1 : r[i] = s[i + 1]
  BY <1>1, <1>3
<1>6. \A i \in 1 .. Len(s) + Len(t) - 1 : (r \o t)[i] = (s \o t)[i + 1]
  <2> SUFFICES ASSUME NEW i \in 1 .. Len(s) + Len(t) - 1
               PROVE  (r \o t)[i] = (s \o t)[i + 1]
    OBVIOUS
  <2>1. i \in 1 .. Len(r) + Len(t) /\ i + 1 \in 1 .. Len(s) + Len(t) /\ i \in Nat
    BY <1>1, <1>5
  <2>2. CASE i <= Len(s) - 1
    <3>1. (r \o t)[i] = r[i] /\ (s \o t)[i + 1] = s[i + 1]
      BY <1>1, <1>2, <1>4, <1>5, <2>1, <2>2
    <3>2. r[i] = s[i + 1]
      BY <1>5, <2>1, <2>2
    <3>3. QED
      BY <3>1, <3>2
  <2>3. CASE ~(i <= Len(s) - 1)
    <3>1. (r \o t)[i] = t[i - Len(r)] /\ (s \o t)[i + 1] = t[(i + 1) - Len(s)]
      BY <1>1, <1>2, <1>4, <1>5, <2>1, <2>3
    <3>2. i - Len(r) = (i + 1) - Len(s)
      BY <1>1, <1>5, <2>1
    <3>3. QED
      BY <3>1, <3>2
  <2>4. QED
    BY <2>2, <2>3
<1>7. (s \o t)[1] = s[1] /\ 1 \in DOMAIN (s \o t)
  BY <1>1, <1>2
<1>8. Len(r \o t) = Len(s \o t) - 1
  BY <1>1, <1>2, <1>4, <1>5
<1>9. Drops(s \o t, r \o t)
  BY <1>2, <1>6, <1>8 DEF Drops
<1>10. Len(s \o t) \in Nat
  BY <1>1, <1>2
<1>11. QED
  BY <1>1, <1>2, <1>3, <1>4, <1>7, <1>8, <1>9, <1>10

LEMMA FirstTaken ==
  ASSUME NEW k \in Client, k.chunk # <<>>
  PROVE  \E s, r \in Seq(Line) :
           /\ s = k.chunk \o k.wire /\ r = Tail(k.chunk) \o k.wire /\ Drops(s, r)
           /\ 1 \in DOMAIN s /\ s[1] = Head(k.chunk) /\ Len(s) \in Nat /\ Len(r) = Len(s) - 1
<1>1. PICK x, y \in Seq(Line) : x = k.chunk /\ y = k.wire /\ x # <<>>
  BY ClientFields
<1>2. PICK s, r \in Seq(Line) :
          /\ s = x \o y /\ r = Tail(x) \o y /\ Drops(s, r)
          /\ 1 \in DOMAIN s /\ s[1] = Head(x) /\ Len(s) \in Nat /\ Len(r) = Len(s) - 1
  <2>1. \E all, rest \in Seq(Line) :
            /\ all = x \o y /\ rest = Tail(x) \o y /\ Drops(all, rest)
            /\ 1 \in DOMAIN all /\ all[1] = Head(x)
            /\ Len(all) \in Nat /\ Len(rest) = Len(all) - 1
    <3>1. x # <<>>
      BY <1>1
    <3>2. QED
      BY <3>1, DropsFirst
  <2>2. QED
    BY <2>1
<1>3. QED
  BY <1>1, <1>2, Zenon

(* The step of the current client's thread, of a sensor whose echoes are
   expected.                                                                 *)
LEMMA ThreadAligned ==
  ASSUME TypeOK, ThreadInv, NEW c \in Conn, CableBreaks(c) \/ Thread(c) \/ Called(c), cl[c].filter,
         NEW p \in {0, 1}, Aligned(cl[c], p),
         cl[c].th = "line" /\ cl[c].call => Head(cl[c].chunk).kind # "echo"
  PROVE  /\ cl'[c].filter /\ \E q \in {0, 1} : Aligned(cl'[c], q)
         /\ cl'[c].th = "line" /\ cl'[c].call => Head(cl'[c].chunk).kind # "echo"
<1>1. cl \in [Conn -> Client] /\ cl[c] \in Client /\ Runs(cl[c])
  BY DEF TypeOK, ThreadInv
<1>2. /\ cl[c].chunk \in Seq(Line) /\ cl[c].wire \in Seq(Line) /\ cl[c].echo \in Seq(Message)
      /\ cl[c].alive \in BOOLEAN
  BY <1>1, ClientFields
<1>3. PICK k \in Client : k = cl[c]
  BY <1>1
<1>4. /\ Alternates(k.chunk \o k.wire, k.echo, p)
      /\ k.alive => Len(k.chunk \o k.wire) = 2 * Len(k.echo) + p
  BY <1>3 DEF Aligned, Coming
<1>5. PICK j : j = cl'[c]
  OBVIOUS
(* Nothing of the lines has changed.                                          *)
<1>6. ASSUME j.chunk = k.chunk, j.wire = k.wire, j.echo = k.echo, j.filter = k.filter, j.alive = k.alive,
             j.th = "line" /\ j.call => k.th = "line" /\ k.call
      PROVE  /\ j.filter /\ \E q \in {0, 1} : Aligned(j, q)
             /\ j.th = "line" /\ j.call => Head(j.chunk).kind # "echo"
  BY <1>3, <1>4, <1>6 DEF Aligned, Coming
<1>7. CASE CableBreaks(c)
  <2>1. /\ ~j.alive /\ j.wire = <<>> /\ j.chunk = k.chunk /\ j.echo = k.echo /\ j.filter = k.filter
        /\ j.th = k.th /\ j.call = k.call
    BY <1>1, <1>3, <1>5, <1>7 DEF CableBreaks, Client
  <2>2. Alternates(k.chunk, k.echo, p)
    BY <1>2, <1>3, <1>4, Shortened
  <2>3. k.chunk \o <<>> = k.chunk
    BY <1>2, <1>3, ConcatEmptySeq
  <2>4. Aligned(j, p)
    BY <2>1, <2>2, <2>3 DEF Aligned, Coming
  <2>5. QED
    BY <1>3, <1>5, <2>1, <2>4
<1>8. CASE ThreadReads(c)
  <2>1. k.th = "read" /\ k.chunk = <<>> /\ ~k.call
    BY <1>1, <1>3, <1>8 DEF ThreadReads, Runs, Client
  <2>2. CASE cl' = [cl EXCEPT ![c].th = "line", ![c].chunk = cl[c].wire, ![c].wire = <<>>]
    <3>1. /\ j.chunk = k.wire /\ j.wire = <<>> /\ j.echo = k.echo /\ j.filter = k.filter
          /\ j.alive = k.alive /\ j.call = k.call
      BY <1>1, <1>3, <1>5, <2>2 DEF Client
    <3>2. k.wire \o <<>> = k.wire /\ <<>> \o k.wire = k.wire
      BY <1>2, <1>3, ConcatEmptySeq
    <3>3. Aligned(j, p)
      BY <1>4, <2>1, <3>1, <3>2 DEF Aligned, Coming
    <3>4. QED
      BY <1>3, <1>5, <2>1, <3>1, <3>3
  <2>3. CASE \/ cl' = [cl EXCEPT ![c].th = "done"]
             \/ cl' = [cl EXCEPT ![c].th = IF cl[c].stop THEN "done" ELSE "error", ![c].call = ~cl[c].stop]
    <3>1. /\ j.chunk = k.chunk /\ j.wire = k.wire /\ j.echo = k.echo /\ j.filter = k.filter
          /\ j.alive = k.alive /\ j.th # "line"
      BY <1>1, <1>3, <1>5, <2>3 DEF Client
    <3>2. QED
      BY <1>5, <1>6, <3>1
  <2>4. QED
    BY <1>8, <2>2, <2>3 DEF ThreadReads
<1>9. CASE ThreadHandsOver(c) /\ cl[c].chunk # <<>> /\ IsPendingEcho(c, Head(cl[c].chunk))
  <2>1. cl' = [cl EXCEPT ![c].chunk = Tail(@), ![c].echo = Tail(@)] /\ ~k.call
    BY <1>3, <1>9 DEF ThreadHandsOver
  <2>2. /\ j.chunk = Tail(k.chunk) /\ j.wire = k.wire /\ j.echo = Tail(k.echo) /\ j.filter = k.filter
        /\ j.alive = k.alive /\ j.call = k.call
    BY <1>1, <1>3, <1>5, <2>1 DEF Client
  <2>3. k.echo # <<>> /\ Head(k.chunk).kind = "echo" /\ k.chunk # <<>>
    BY <1>3, <1>9 DEF IsPendingEcho
  <2>4. PICK s, r \in Seq(Line) :
          /\ s = k.chunk \o k.wire /\ r = Tail(k.chunk) \o k.wire /\ Drops(s, r)
          /\ 1 \in DOMAIN s /\ s[1] = Head(k.chunk) /\ Len(s) \in Nat /\ Len(r) = Len(s) - 1
    BY <1>3, <2>3, FirstTaken
  <2>5. p = 0
    <3>1. p = 1 => (1 + p) % 2 # 1
      OBVIOUS
    <3>2. p = 1 => s[1].kind # "echo"
      BY <1>4, <2>4, <3>1 DEF Alternates
    <3>3. QED
      BY <2>3, <2>4, <3>2
  <2>6. Alternates(r, Tail(k.echo), 1)
    BY <1>2, <1>3, <1>4, <2>3, <2>4, <2>5, TakenEcho
  <2>7. k.alive => Len(r) = 2 * Len(Tail(k.echo)) + 1
    <3>1. Len(Tail(k.echo)) = Len(k.echo) - 1 /\ Len(k.echo) \in Nat
      BY <1>2, <1>3, <2>3, TailFrom
    <3>2. PICK n \in Nat : n = Len(k.echo) /\ Len(Tail(k.echo)) = n - 1
      BY <3>1
    <3>3. k.alive => Len(s) = 2 * n + 0
      BY <1>4, <2>4, <2>5, <3>2, Zenon
    <3>4. Len(s) \in Nat /\ Len(r) = Len(s) - 1
      BY <2>4
    <3>5. k.alive => Len(r) = 2 * (n - 1) + 1
      BY <3>3, <3>4
    <3>6. QED
      BY <3>2, <3>5
  <2>8. Aligned(j, 1)
    BY <2>2, <2>4, <2>6, <2>7 DEF Aligned, Coming
  <2>9. QED
    BY <1>3, <1>5, <2>1, <2>2, <2>8
<1>10. CASE ThreadHandsOver(c) /\ cl[c].chunk # <<>> /\ ~IsPendingEcho(c, Head(cl[c].chunk))
  <2>1. cl' = [cl EXCEPT ![c].call = TRUE]
    BY <1>10 DEF ThreadHandsOver
  <2>2. /\ j.chunk = k.chunk /\ j.wire = k.wire /\ j.echo = k.echo /\ j.filter = k.filter
        /\ j.alive = k.alive
    BY <1>1, <1>3, <1>5, <2>1 DEF Client
  <2>3. Head(k.chunk).kind # "echo"
    <3>1. PICK s \in Seq(Line) : s = k.chunk \o k.wire /\ 1 \in DOMAIN s /\ s[1] = Head(k.chunk)
      BY <1>2, <1>3, <1>10, DropsFirst
    <3>2. CASE p = 1
      <4>1. (1 + p) % 2 # 1
        BY <3>2
      <4>2. QED
        BY <1>4, <3>1, <4>1 DEF Alternates
    <3>3. CASE p = 0
      <4>1. (1 + p) % 2 = 1 /\ (1 + 1 - p) \div 2 = 1
        BY <3>3
      <4>2. s[1].kind = "echo" => 1 \in DOMAIN k.echo /\ s[1].msg = k.echo[1]
        BY <1>4, <3>1, <4>1 DEF Alternates
      <4>3. 1 \in DOMAIN k.echo => k.echo # <<>> /\ Head(k.echo) = k.echo[1]
        BY <1>2, <1>3, TailFrom
      <4>4. QED
        BY <1>3, <1>10, <3>1, <4>2, <4>3 DEF IsPendingEcho
    <3>4. QED
      BY <3>2, <3>3
  <2>4. Aligned(j, p)
    BY <1>4, <2>2 DEF Aligned, Coming
  <2>5. QED
    BY <1>3, <1>5, <2>2, <2>3, <2>4
<1>11. CASE EnqueueLine(c)
  <2>1. cl' = [cl EXCEPT ![c].call = FALSE, ![c].chunk = Tail(@)] /\ k.call /\ k.th = "line"
    BY <1>3, <1>11 DEF EnqueueLine
  <2>2. /\ j.chunk = Tail(k.chunk) /\ j.wire = k.wire /\ j.echo = k.echo /\ j.filter = k.filter
        /\ j.alive = k.alive /\ ~j.call
    BY <1>1, <1>3, <1>5, <2>1 DEF Client
  <2>3. k.chunk # <<>> /\ Head(k.chunk).kind # "echo"
    BY <1>1, <1>3, <2>1 DEF Runs
  <2>4. PICK s, r \in Seq(Line) :
          /\ s = k.chunk \o k.wire /\ r = Tail(k.chunk) \o k.wire /\ Drops(s, r)
          /\ 1 \in DOMAIN s /\ s[1] = Head(k.chunk) /\ Len(s) \in Nat /\ Len(r) = Len(s) - 1
    BY <1>3, <2>3, FirstTaken
  <2>5. p = 1
    <3>1. p = 0 => (1 + p) % 2 = 1
      OBVIOUS
    <3>2. p = 0 => s[1].kind = "echo"
      BY <1>4, <2>4, <3>1 DEF Alternates
    <3>3. QED
      BY <2>3, <2>4, <3>2
  <2>6. Alternates(r, k.echo, 0)
    BY <1>2, <1>3, <1>4, <2>4, <2>5, TakenAnswer
  <2>7. k.alive => Len(r) = 2 * Len(k.echo) + 0
    <3>1. Len(k.echo) \in Nat
      BY <1>2, <1>3, LenProperties
    <3>2. PICK n \in Nat : n = Len(k.echo)
      BY <3>1
    <3>3. k.alive => Len(s) = 2 * n + 1
      BY <1>4, <2>4, <2>5, <3>2, Zenon
    <3>4. Len(s) \in Nat /\ Len(r) = Len(s) - 1
      BY <2>4
    <3>5. k.alive => Len(r) = 2 * n + 0
      BY <3>3, <3>4
    <3>6. QED
      BY <3>2, <3>5
  <2>8. Aligned(j, 0)
    BY <2>2, <2>4, <2>6, <2>7 DEF Aligned, Coming
  <2>9. QED
    BY <1>3, <1>5, <2>2, <2>8
<1>12. CASE \/ ThreadHandsOver(c) /\ cl[c].chunk = <<>>
            \/ ThreadReports(c) \/ SerialError(c) \/ SerialDisconnected(c)
  <2>1. /\ j.chunk = k.chunk /\ j.wire = k.wire /\ j.echo = k.echo /\ j.filter = k.filter
        /\ j.alive = k.alive /\ j.th # "line"
    BY <1>1, <1>3, <1>5, <1>12 DEF ThreadHandsOver, ThreadReports, SerialError, SerialDisconnected,
                                   Client, Again
  <2>2. QED
    BY <1>5, <1>6, <2>1
<1>13. QED
  BY <1>7, <1>8, <1>9, <1>10, <1>11, <1>12 DEF Thread, Called

LEMMA Regrouped ==
  \A L : \A x, y, t \in Seq(L) : (x \o y) \o t = x \o (y \o t)
OBVIOUS

(* What is written to a sensor keeps the order of its echoes.                  *)
LEMMA WrittenAligned ==
  ASSUME NEW k \in Client, k.dev = "SENSOR", k.filter, k.alive,
         NEW c \in Conn, NEW ms \in Seq(Message), NEW p \in {0, 1}, Aligned(k, p)
  PROVE  Aligned(Written(k, c, ms), p)
<1>1. PICK w : w = Written(k, c, ms)
  OBVIOUS
<1>2. w.echo = k.echo \o ms /\ w.wire = k.wire \o Answers(k, c, ms) /\ w.chunk = k.chunk
  <2>1. /\ w.echo = Echoed(k, ms) /\ w.wire = k.wire \o Answers(k, c, ms) /\ Spoken(w, k)
    BY <1>1, WrittenFields
  <2>2. Echoed(k, ms) = k.echo \o ms
    BY DEF Echoed
  <2>3. QED
    BY <2>1, <2>2 DEF Spoken
<1>3. PICK x, y, t \in Seq(Line), e \in Seq(Message) :
        x = k.chunk /\ y = k.wire /\ t = Answers(k, c, ms) /\ e = k.echo
  <2>1. /\ k.chunk \in Seq(Line) /\ k.wire \in Seq(Line) /\ k.echo \in Seq(Message)
        /\ Answers(k, c, ms) \in Seq(Line)
    BY ClientFields, AnswersType
  <2>2. QED
    BY <2>1
<1>4. PICK s \in Seq(Line) : s = x \o y /\ x \o (y \o t) = s \o t
  <2>1. x \o y \in Seq(Line)
    BY ConcatProperties
  <2>2. (x \o y) \o t = x \o (y \o t)
    OBVIOUS
  <2>3. QED
    BY <2>1, <2>2, Zenon
<1>5. Alternates(s, e, p) /\ Len(s) = 2 * Len(e) + p
  <2>1. Coming(k) = s /\ k.echo = e
    BY <1>3, <1>4 DEF Coming
  <2>2. QED
    BY <2>1 DEF Aligned
<1>6. /\ Alternates(s \o Answers(k, c, ms), e \o ms, p)
      /\ Len(s \o Answers(k, c, ms)) = 2 * Len(e \o ms) + p
  <2>1. k.dev = "SENSOR" /\ Alternates(s, e, p) /\ Len(s) = 2 * Len(e) + p
    BY <1>5
  <2>2. Alternates(s \o Answers(k, c, ms), e \o ms, p)
    BY <2>1, Asked, Zenon
  <2>3. Len(s \o Answers(k, c, ms)) = 2 * Len(e \o ms) + p
    <3>1. t = Answers(k, c, ms) /\ Len(t) = 2 * Len(ms)
      BY <1>3, AnswersType
    <3>2. Len(s \o t) = Len(s) + Len(t) /\ Len(e \o ms) = Len(e) + Len(ms)
      BY ConcatProperties
    <3>3. Len(s) \in Nat /\ Len(e) \in Nat /\ Len(ms) \in Nat
      BY LenProperties
    <3>4. QED
      BY <1>5, <3>1, <3>2, <3>3
  <2>4. QED
    BY <2>2, <2>3
<1>7. Coming(w) = s \o Answers(k, c, ms) /\ w.echo = e \o ms
  BY <1>2, <1>3, <1>4 DEF Coming
<1>8. Aligned(w, p)
  BY <1>6, <1>7 DEF Aligned
<1>9. QED
  BY <1>1, <1>8

LEMMA ThreadEcho ==
  ASSUME TypeOK, ThreadInv, OwnerInv, LineInv, EchoInv,
         NEW c \in Conn, CableBreaks(c) \/ Thread(c) \/ Called(c)
  PROVE  EchoInv'
<1>1. /\ \A d \in Conn : d # c => cl'[d] = cl[d]
      /\ UNCHANGED session /\ cl'[c].dev = cl[c].dev
  BY ThreadMoves
<1>2. UNCHANGED <<sc, req>> /\ (sc # 0 => sc \in Conn) /\ clean \in BOOLEAN
  BY <1>1, Numbers DEF session, TypeOK
<1>3. clean' => clean
  BY <1>2 DEF CableBreaks, Thread, Called, ThreadReads, ThreadHandsOver, ThreadReports, EnqueueLine,
              SerialError, SerialDisconnected, ThreadOnly, decode
<1>4. Expected' => Expected
  BY <1>1, <1>2, <1>3 DEF Expected
<1>5. Expected' /\ cl'[sc].dev = "SENSOR" =>
        /\ cl'[sc].filter /\ \E p \in {0, 1} : Aligned(cl'[sc], p)
        /\ cl'[sc].th = "line" /\ cl'[sc].call => Head(cl'[sc].chunk).kind # "echo"
  <2> SUFFICES ASSUME Expected', cl'[sc].dev = "SENSOR"
               PROVE  /\ cl'[sc].filter /\ \E p \in {0, 1} : Aligned(cl'[sc], p)
                      /\ cl'[sc].th = "line" /\ cl'[sc].call => Head(cl'[sc].chunk).kind # "echo"
    OBVIOUS
  <2>1. /\ sc \in Conn /\ cl[sc].dev = "SENSOR" /\ cl[sc].filter
        /\ \E p \in {0, 1} : Aligned(cl[sc], p)
        /\ cl[sc].th = "line" /\ cl[sc].call => Head(cl[sc].chunk).kind # "echo"
    BY <1>1, <1>2, <1>4 DEF EchoInv, Expected
  <2>2. CASE c = sc
    BY <2>1, <2>2, ThreadAligned
  <2>3. CASE c # sc
    BY <1>1, <2>1, <2>3
  <2>4. QED
    BY <2>2, <2>3
<1>6. Expected' => \A i \in DOMAIN queue' : queue'[i].from = sc => queue'[i].kind # "echo"
  <2> SUFFICES ASSUME Expected'
               PROVE  \A i \in DOMAIN queue' : queue'[i].from = sc => queue'[i].kind # "echo"
    OBVIOUS
  <2>1. Expected /\ sc \in Conn /\ sc # 0
    BY <1>2, <1>4 DEF Expected
  <2>2. CASE queue' = queue
    BY <2>1, <2>2 DEF EchoInv
  <2>3. CASE EnqueueLine(c) /\ queue' = Append(queue, Head(cl[c].chunk))
    <3>1. cl[c].th = "line" /\ cl[c].call /\ cl[c].chunk # <<>> /\ cl[c].chunk \in Seq(Line)
      <4>1. cl[c].chunk \in Seq(Line)
        BY ClientFields DEF TypeOK
      <4>2. QED
        BY <2>3, <4>1 DEF EnqueueLine, ThreadInv, Runs
    <3>2. Head(cl[c].chunk) = cl[c].chunk[1] /\ 1 \in DOMAIN cl[c].chunk
      BY <3>1, TailFrom
    <3>3. PICK l \in Line : l = Head(cl[c].chunk) /\ Belongs(l, c)
      <4>1. Head(cl[c].chunk) \in Line
        BY <3>1, <3>2, ElementOfSeq, LenProperties
      <4>2. QED
        BY <3>2, <4>1 DEF LineInv, Own
    <3>4. l.from = sc => l.kind # "echo"
      <4> SUFFICES ASSUME l.from = sc
                   PROVE  l.kind # "echo"
        OBVIOUS
      <4>1. c = sc
        BY <3>3 DEF Belongs
      <4>2. CASE cl[sc].dev = "SENSOR"
        BY <2>1, <3>1, <3>3, <4>1, <4>2 DEF EchoInv
      <4>3. CASE cl[sc].dev # "SENSOR"
        BY <3>3, <4>1, <4>3 DEF Belongs
      <4>4. QED
        BY <4>2, <4>3
    <3>5. \A i \in DOMAIN queue' : (i \in DOMAIN queue /\ queue'[i] = queue[i]) \/ queue'[i] = l
      BY <2>3, <3>3, AppendFrom, QueueOf
    <3>6. QED
      BY <2>1, <3>4, <3>5 DEF EchoInv
  <2>4. queue' = queue \/ (EnqueueLine(c) /\ queue' = Append(queue, Head(cl[c].chunk)))
    BY DEF CableBreaks, Thread, Called, ThreadReads, ThreadHandsOver, ThreadReports, EnqueueLine,
           SerialError, SerialDisconnected, ThreadOnly, decode
  <2>5. QED
    BY <2>2, <2>3, <2>4
<1>7. QED
  BY <1>2, <1>5, <1>6 DEF EchoInv

LEMMA SpeakingEcho ==
  ASSUME TypeOK, ThreadInv, OwnerInv, LineInv, EchoInv, Speaking
  PROVE  EchoInv'
<1>1. /\ \A c \in Conn : Spoken(cl'[c], cl[c]) /\ (c # sc => cl'[c] = cl[c])
      /\ UNCHANGED <<made, sc, req, joining>>
  BY Speaks
<1>2. clean' = clean /\ (queue' = queue \/ (queue # <<>> /\ queue' = Tail(queue)))
  BY DEF Speaking, ForcedMode, SendProbe, DecodeLine, Flush, SendCommand, decode
<1>3. sc # 0 => sc \in Conn
  BY Numbers
<1>4. Expected' => Expected
  BY <1>1, <1>2, <1>3 DEF Expected, Spoken
<1>5. \A i \in DOMAIN queue' : \E j \in DOMAIN queue : queue'[i] = queue[j]
  BY <1>2, TailFrom, QueueOf
<1>6. Expected' => \A i \in DOMAIN queue' : queue'[i].from = sc => queue'[i].kind # "echo"
  BY <1>4, <1>5 DEF EchoInv
<1>7. ASSUME Expected', cl'[sc].dev = "SENSOR"
      PROVE  /\ cl'[sc].filter /\ \E p \in {0, 1} : Aligned(cl'[sc], p)
             /\ cl'[sc].th = "line" /\ cl'[sc].call => Head(cl'[sc].chunk).kind # "echo"
  <2>1. /\ Expected /\ sc # 0 /\ sc \in Conn /\ cl[sc] \in Client /\ cl[sc].dev = "SENSOR"
        /\ cl[sc].th = cl'[sc].th /\ cl[sc].call = cl'[sc].call /\ cl[sc].chunk = cl'[sc].chunk
        /\ cl[sc].alive = cl'[sc].alive
    BY <1>1, <1>3, <1>4, <1>7 DEF Expected, Spoken, TypeOK
  <2>2. /\ cl[sc].filter
        /\ cl[sc].th = "line" /\ cl[sc].call => Head(cl[sc].chunk).kind # "echo"
    BY <2>1 DEF EchoInv
  <2>3. PICK p \in {0, 1} : Aligned(cl[sc], p)
    BY <2>1 DEF EchoInv
  <2>4. CASE cl' = cl
    BY <2>2, <2>3, <2>4
  <2>5. CASE /\ cl[sc].alive
             /\ \E ms \in Seq(Message) : cl' = [cl EXCEPT ![sc] = Written(cl[sc], sc, ms)]
    <3>1. PICK ms \in Seq(Message) : cl' = [cl EXCEPT ![sc] = Written(cl[sc], sc, ms)]
      BY <2>5
    <3>2. cl'[sc] = Written(cl[sc], sc, ms)
      BY <2>1, <3>1 DEF TypeOK
    <3>3. Aligned(Written(cl[sc], sc, ms), p) /\ Written(cl[sc], sc, ms).filter = cl[sc].filter
      BY <2>1, <2>2, <2>3, <2>5, WrittenAligned, WrittenFields
    <3>4. QED
      BY <2>1, <2>2, <3>2, <3>3
  <2>6. CASE cl' = Filtered("SENSOR")
    <3>1. /\ cl'[sc].wire = cl[sc].wire /\ cl'[sc].filter /\ cl'[sc].echo = cl[sc].echo
      BY <2>1, <2>6, FilteredFields
    <3>2. Aligned(cl'[sc], p)
      BY <2>1, <2>3, <3>1 DEF Aligned, Coming
    <3>3. QED
      BY <2>1, <2>2, <3>1, <3>2
  <2>7. CASE ForcedMode
    <3>1. ForcedTo(req) = "SENSOR" /\ cl' = Filtered(ForcedTo(req))
      BY <2>1, <2>7 DEF ForcedMode, OwnerInv, Expected
    <3>2. QED
      BY <2>6, <3>1
  <2>8. CASE DecodeLine
    <3>1. /\ queue # <<>>
          /\ \/ cl' = cl
             \/ Detected(Head(queue)) # "UNKNOWN" /\ cl' = Filtered(Detected(Head(queue)))
      BY <2>8 DEF DecodeLine
    <3>2. Head(queue) = queue[1] /\ 1 \in DOMAIN queue
      BY <3>1, TailFrom, QueueOf
    <3>3. queue[1].from = sc /\ Belongs(queue[1], sc)
      BY <2>1, <3>2 DEF LineInv, CleanInv, QueueInv, Held, Expected
    <3>4. queue[1].kind # "GATEWAY"
      BY <2>1, <3>3 DEF Belongs
    <3>5. Detected(Head(queue)) # "UNKNOWN" => Detected(Head(queue)) = "SENSOR"
      BY <3>2, <3>4 DEF Detected
    <3>6. QED
      BY <2>4, <2>6, <3>1, <3>5
  <2>9. QED
    BY <2>4, <2>5, <2>7, <2>8, SpeaksLines
<1>8. QED
  BY <1>1, <1>6, <1>7 DEF EchoInv

LEMMA NoConnectionEcho ==
  ASSUME sc' = 0
  PROVE  EchoInv'
BY DEF EchoInv, Expected

(* The session settles: a connection starts to read with nothing expected and
   nothing said.                                                             *)
LEMMA SettlingEcho ==
  ASSUME TypeOK, ThreadInv, OwnerInv, LineInv, EchoInv, Settling
  PROVE  EchoInv'
<1>1. CASE ConnectionClosed \/ ReconnectIgnored
  BY <1>1 DEF ConnectionClosed, ReconnectIgnored, session, decode, EchoInv, Expected
<1>2. CASE CloseDone \/ Opening \/ Disconnect \/ \E m \in Modes : ConnectSerial(m)
  <2>1. sc' = 0
    BY <1>2 DEF CloseDone, Opening, OpenFails, OpenPort, Disconnect, ConnectSerial, OwnerInv
  <2>2. QED
    BY <2>1, NoConnectionEcho
<1>3. CASE StartReading
  <2>1. /\ made \in Conn /\ pc = "boot" /\ sc' = made /\ queue' = queue /\ clean' = clean /\ req' = req
        /\ cl' = [cl EXCEPT ![made].wire = <<>>, ![made].th = "read", ![made].filter = (req # "gateway")]
    BY <1>3, Numbers DEF StartReading, OwnerInv, decode
  <2>2. PICK k \in Client : k = cl[made]
    BY <2>1 DEF TypeOK
  <2>3. PICK j : j = cl'[made]
    OBVIOUS
  <2>4. /\ j.wire = <<>> /\ j.th = "read" /\ j.filter = (req # "gateway")
        /\ j.chunk = k.chunk /\ j.echo = k.echo /\ j.alive = k.alive /\ j.dev = k.dev
    BY <2>1, <2>2, <2>3 DEF TypeOK, Client
  <2>5. k.echo = <<>> /\ (clean => queue = <<>> /\ k.chunk = <<>>)
    BY <2>1, <2>2 DEF OwnerInv, LineInv, CleanInv
  <2>6. Expected' => clean /\ (j.dev = "SENSOR" => req # "gateway")
    BY <2>1, <2>3 DEF Expected, ForcedTo
  <2>7. Expected' => \A i \in DOMAIN queue' : queue'[i].from = sc' => queue'[i].kind # "echo"
    BY <2>1, <2>5, <2>6
  <2>8. Expected' => Aligned(j, 0)
    <3> SUFFICES ASSUME Expected'
                 PROVE  Aligned(j, 0)
      OBVIOUS
    <3>1. j.chunk = <<>> /\ j.wire = <<>> /\ j.echo = <<>>
      BY <2>4, <2>5, <2>6
    <3>2. Coming(j) = <<>>
      BY <3>1 DEF Coming
    <3>3. QED
      BY <3>1, <3>2 DEF Aligned, Alternates
  <2>9. QED
    BY <2>1, <2>3, <2>4, <2>6, <2>7, <2>8 DEF EchoInv
<1>4. QED
  BY <1>1, <1>2, <1>3 DEF Settling

LEMMA EchoStep ==
  ASSUME TypeOK, ThreadInv, OwnerInv, LineInv, EchoInv, [Next]_vars
  PROVE  EchoInv'
<1>1. CASE UNCHANGED vars
  BY <1>1 DEF vars, session, decode, EchoInv, Expected
<1>2. CASE Next
  BY <1>2, Steps, ThreadEcho, SpeakingEcho, SettlingEcho
<1>3. QED
  BY <1>1, <1>2

----------------------------------------------------------------------------
(* The invariant, and what it says.                                          *)

LEMMA Starts == Init => Inv
<1> SUFFICES ASSUME Init
             PROVE  Inv
  OBVIOUS
<1>1. /\ \A c \in Conn : cl[c] = Unborn
      /\ made = 0 /\ sc = 0 /\ pc = "idle" /\ req = "auto" /\ joining = 0 /\ closing = FALSE
      /\ queue = <<>> /\ flush = FALSE /\ owed = <<>> /\ got = <<>> /\ auth = NoAuth
  BY DEF Init
<1>2. TypeOK
  <2>1. cl \in [Conn -> Client]
    BY UnbornType DEF Init
  <2>2. made \in 0 .. MaxConn /\ home \in [Cmd -> 0 .. MaxConn]
    BY Ranges DEF Init
  <2>3. /\ queue \in Seq(Line) /\ owed \in Seq(Cmd) /\ got \in Seq(Conn \X Cmd)
        /\ NoAuth \in [ok: BOOLEAN, inflight: BOOLEAN, pending: {None} \cup Cmd, queue: Seq(Cmd)]
    BY <1>1, EmptySeq DEF NoAuth
  <2>4. auth \in [ok: BOOLEAN, inflight: BOOLEAN, pending: {None} \cup Cmd, queue: Seq(Cmd)]
    BY <1>1, <2>3
  <2>5. sc \in 0 .. made /\ joining \in 0 .. made
    BY <1>1
  <2>6. /\ conn \in {"DISCONNECTED", "CONNECTING", "RECONNECTING", "SYNCHRONIZING", "READY"}
        /\ cmode \in Mode /\ mode \in Mode /\ clean \in BOOLEAN /\ req \in Modes
        /\ pc \in {"idle", "close", "open", "boot", "forced", "probe"}
    BY DEF Init, Modes, Mode
  <2>7. closing \in BOOLEAN /\ flush \in BOOLEAN
    BY <1>1
  <2>8. QED
    BY <2>1, <2>2, <2>3, <2>4, <2>5, <2>6, <2>7 DEF TypeOK
<1>3. ThreadInv
  BY <1>1, Ranges DEF ThreadInv, Unborn, Runs, Conn
<1>4. OwnerInv /\ ShownInv /\ LiveIsShown
  BY <1>1 DEF OwnerInv, ShownInv, LiveIsShown
<1>5. CommandInv /\ CommandKeepsDevice
  BY <1>1 DEF CommandInv, CommandKeepsDevice, NoAuth, Once, OwedTo, Queued, Done
<1>6. LineInv
  BY <1>1 DEF LineInv, Own, QueueInv, CleanInv, Unborn
<1>7. EchoInv
  BY <1>1 DEF EchoInv, Expected
<1>8. QED
  BY <1>2, <1>3, <1>4, <1>5, <1>6, <1>7 DEF Inv

LEMMA Keeps == Inv /\ [Next]_vars => Inv'
<1> SUFFICES ASSUME Inv, [Next]_vars
             PROVE  Inv'
  OBVIOUS
<1>1. /\ TypeOK /\ ThreadInv /\ OwnerInv /\ ShownInv /\ LiveIsShown
      /\ CommandInv /\ CommandKeepsDevice /\ LineInv /\ EchoInv
  BY DEF Inv
<1>2. TypeOK' /\ ThreadInv' /\ OwnerInv'
  BY <1>1, TypeStep, OwnerStep
<1>3. ShownInv' /\ LiveIsShown'
  BY <1>1, ShownStep
<1>4. CommandInv' /\ CommandKeepsDevice'
  BY <1>1, CommandStep
<1>5. LineInv' /\ EchoInv'
  BY <1>1, LineStep, EchoStep
<1>6. QED
  BY <1>2, <1>3, <1>4, <1>5 DEF Inv

LEMMA Always == Spec => []Inv
<1>1. QED
  BY Starts, Keeps, PTL DEF Spec

(* Every variable of the session stays in its range, whatever the connections,
   the devices and the capacities: no thread, callback or coroutine leaves a
   value the others do not expect.                                           *)
THEOREM SessionTypes == Spec => []TypeOK
<1>1. Inv => TypeOK
  BY DEF Inv
<1>2. QED
  BY <1>1, Always, PTL

(* No reader thread is inside read() of a descriptor that close() has closed:
   the time limit of the join is reached only by a thread that waits for the
   loop (SerialClient.close).                                                *)
THEOREM ReadsOpenPorts == Spec => []NoReadAfterClose
<1>1. Inv => NoReadAfterClose
  <2> SUFFICES ASSUME Inv, NEW c \in Conn, cl[c].th = "read"
               PROVE  cl[c].open
    BY DEF NoReadAfterClose
  <2>1. TypeOK /\ ThreadInv /\ OwnerInv
    BY DEF Inv
  <2>2. c <= made
    <3>1. c > made => cl[c] = Unborn
      BY <2>1 DEF ThreadInv
    <3>2. cl[c] # Unborn
      BY DEF Unborn
    <3>3. c \in Int /\ made \in Int
      BY <2>1, Ranges, Numbers
    <3>4. QED
      BY <3>1, <3>2, <3>3
  <2>3. CASE ~Current(c)
    BY <2>1, <2>2, <2>3 DEF ThreadInv, Orphan
  <2>4. CASE Current(c)
    <3>1. c # 0
      BY Ranges
    <3>2. QED
      BY <2>1, <2>4, <3>1 DEF Current, Booting, OwnerInv
  <2>5. QED
    BY <2>3, <2>4
<1>2. QED
  BY <1>1, Always, PTL

(* No port stays open that nobody will close, however :connect, :reconnect and
   :disconnect interleave with a connection that is being made.               *)
THEOREM PortsAreOwned == Spec => []PortIsOwned
<1>1. Inv => PortIsOwned
  <2> SUFFICES ASSUME Inv, NEW c \in Conn, cl[c].open
               PROVE  c \in {sc, joining} \/ (c = made /\ pc = "boot")
    BY DEF PortIsOwned
  <2>1. TypeOK /\ ThreadInv
    BY DEF Inv
  <2>2. c <= made
    <3>1. c > made => cl[c] = Unborn
      BY <2>1 DEF ThreadInv
    <3>2. cl[c] # Unborn
      BY DEF Unborn
    <3>3. c \in Int /\ made \in Int
      BY <2>1, Ranges, Numbers
    <3>4. QED
      BY <3>1, <3>2, <3>3
  <2>3. Current(c)
    BY <2>1, <2>2 DEF ThreadInv, Orphan
  <2>4. QED
    BY <2>3 DEF Current, Booting
<1>2. QED
  BY <1>1, Always, PTL

(* A live connection is not shown as closed or as being made: the failure of an
   earlier one, published late, does not overwrite its state.                 *)
THEOREM LiveStateIsShown == Spec => []LiveIsShown
<1>1. Inv => LiveIsShown
  BY DEF Inv
<1>2. QED
  BY <1>1, Always, PTL

(* A command that waited for the authentication is carried out at most once, and
   by the device it was typed for, whatever reconnections, refusals and late
   acknowledgements happen in between.                                       *)
THEOREM CommandsKeepTheirDevice == Spec => []CommandKeepsDevice
<1>1. Inv => CommandKeepsDevice
  BY DEF Inv
<1>2. QED
  BY <1>1, Always, PTL

(* The echoes of the sensor console never reach the decoder: they are expected
   in the order in which they come, across chunks, probes and commands.        *)
THEOREM EchoesAreFiltered == Spec => []EchoFiltered
<1>1. Inv => EchoFiltered
  BY DEF Inv, EchoInv, Expected, EchoFiltered
<1>2. QED
  BY <1>1, Always, PTL
=============================================================================
