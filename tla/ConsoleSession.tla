--------------------------- MODULE ConsoleSession ---------------------------
(* The serial session of the text console: the event loop of the application
   (app.py), the reader thread of each SerialClient (serial_client.py), the
   detection of the protocol (router.py), the authorization of commands
   (security.py) and the device on the other end of the cable.

   A thread hands a line to the loop with call_from_thread and blocks until the
   loop has run it.  The loop runs one piece of a coroutine at a time, and
   nothing at all while close() joins a thread.                             *)
EXTENDS Integers, Sequences, FiniteSets

CONSTANTS
  MaxConn,    \* connections made in a behaviour
  MaxCmd,     \* commands typed
  LineCap,    \* capacity of the line queue (5000 in the code)
  QueueCap,   \* commands that may wait for the authentication (32)
  Ports,      \* what connection c may find: the mode asked for, the device on the
              \* port, whether the token configured is the one of the device
  Deaths      \* connections that the cable may interrupt

Conn   == 1 .. MaxConn
Cmd    == 1 .. MaxCmd
Modes   == {"auto", "sensor", "gateway"}
Devices == {"SENSOR", "GATEWAY"}
Query  == 0              \* VERSION, STATUS: commands that change nothing
Unlock == -1             \* AUTH UNLOCK
None   == -2

ASSUME SessionAssumption ==
  /\ MaxConn \in Nat \ {0} /\ MaxCmd \in Nat
  /\ LineCap \in Nat \ {0} /\ QueueCap \in Nat
  /\ Deaths \subseteq Conn
  /\ Ports \in [Conn -> SUBSET [mode: Modes, dev: Devices, token: BOOLEAN]]

Message == {Query, Unlock} \cup Cmd
Mode == {"UNKNOWN", "SENSOR", "GATEWAY"}

(* What a line of the device says: its own vocabulary, an acknowledgement of
   the authentication, a refusal, or the echo of a message received.          *)
Line == [from: Conn, kind: {"SENSOR", "GATEWAY", "ok", "bad", "echo"},
         msg: {None} \cup Message]
LineOf(c, k, m) == [from |-> c, kind |-> k, msg |-> m]

Client ==
  [open: BOOLEAN, stop: BOOLEAN, filter: BOOLEAN,
   th: {"none", "read", "line", "error", "gone", "done"},
   call: BOOLEAN, chunk: Seq(Line), echo: Seq(Message), wire: Seq(Line),
   dev: Devices, token: BOOLEAN, alive: BOOLEAN, unlocked: BOOLEAN]

VARIABLES
  cl,        \* the SerialClient instances, their threads and their devices
  made,      \* how many there are
  sc,        \* serial_client of the application, 0 for None
  pc,        \* where _connect_serial is; "idle" is _connecting = False
  req,       \* the mode it was asked for
  joining,   \* the client whose thread the loop is waiting for, 0 if none
  conn,      \* connection_state
  cmode,     \* connection_mode
  closing,   \* a coroutine is still to set DISCONNECTED
  mode,      \* mode of the decoder
  queue,     \* _line_queue
  flush,     \* _on_command_ack is between its first await and its sends
  auth,      \* _device_auth_until, _inflight, _pending_command and _queue
  owed,      \* the pending command an acknowledgement has taken
  home,      \* the connection each command was typed on, 0 before
  got,       \* commands the devices carried out, in order
  clean      \* no line of this connection was dropped, none is left from before

session == <<made, sc, pc, req, joining>>
shown   == <<conn, cmode, closing>>
decode  == <<mode, queue, flush, clean>>
safety  == <<auth, owed, home>>
vars == <<cl, session, shown, decode, safety, got>>

NoAuth == [ok |-> FALSE, inflight |-> FALSE, pending |-> None, queue |-> <<>>]

Unborn ==
  [open |-> FALSE, stop |-> FALSE, filter |-> TRUE, th |-> "none", call |-> FALSE,
   chunk |-> <<>>, echo |-> <<>>, wire |-> <<>>, dev |-> "SENSOR",
   token |-> TRUE, alive |-> TRUE, unlocked |-> FALSE]

Init ==
  /\ cl = [c \in Conn |-> Unborn] /\ made = 0 /\ sc = 0
  /\ pc = "idle" /\ req = "auto" /\ joining = 0
  /\ conn = "DISCONNECTED" /\ cmode = "UNKNOWN" /\ closing = FALSE
  /\ mode = "UNKNOWN" /\ queue = <<>> /\ flush = FALSE /\ clean = TRUE
  /\ auth = NoAuth /\ owed = <<>> /\ home = [m \in Cmd |-> 0] /\ got = <<>>

LoopFree == joining = 0

----------------------------------------------------------------------------
(* The device.  Its answers are on the wire as soon as the message is written;
   when they are read is open.  Lines it says unasked are left out: they are of
   the kinds of its answers.                                                 *)

(* What device d answers to message m.                                        *)
Answer(d, m) ==
  IF d.dev = "GATEWAY" THEN "GATEWAY"
  ELSE CASE m = Unlock -> IF d.token THEN "ok" ELSE "bad"
         [] m \in Cmd  -> IF d.unlocked THEN "SENSOR" ELSE "bad"
         [] OTHER      -> "SENSOR"

(* What device d, number c, says to messages ms: an answer to each, after the
   echo that the console of a sensor gives.                                  *)
Answers(d, c, ms) ==
  IF d.dev = "GATEWAY"
  THEN [i \in 1 .. Len(ms) |-> LineOf(c, Answer(d, ms[i]), None)]
  ELSE [i \in 1 .. 2 * Len(ms) |->
          LET m == ms[(i + 1) \div 2]
          IN IF i % 2 = 1 THEN LineOf(c, "echo", m) ELSE LineOf(c, Answer(d, m), None)]

Obeys(d, m) == m \in Cmd /\ (d.dev = "GATEWAY" \/ d.unlocked)

CableBreaks(c) ==
  /\ c \in Deaths /\ cl[c].open /\ cl[c].alive
  /\ cl' = [cl EXCEPT ![c].alive = FALSE, ![c].wire = <<>>]
  /\ UNCHANGED <<session, shown, decode, safety, got>>

----------------------------------------------------------------------------
(* The reader thread.                                                       *)

ThreadOnly == UNCHANGED <<session, shown, decode, safety, got>>

(* while not stop_event.is_set().                                             *)
StopMissed(c) == FALSE
StopSeen(c) == cl[c].stop
Again(c) == IF StopSeen(c) THEN "done" ELSE "read"

(* backend.read returns what has arrived, nothing after its timeout, or an
   exception when the cable is gone.                                         *)
ThreadReads(c) ==
  /\ cl[c].th = "read"
  /\ \/ /\ cl[c].alive /\ cl[c].wire # <<>>
        /\ cl' = [cl EXCEPT ![c].th = "line", ![c].chunk = cl[c].wire, ![c].wire = <<>>]
     \/ /\ cl[c].alive /\ cl[c].wire = <<>> /\ Again(c) = "done"
        /\ cl' = [cl EXCEPT ![c].th = "done"]
     \/ /\ ~cl[c].alive
        /\ cl' = [cl EXCEPT ![c].th = IF cl[c].stop THEN "done" ELSE "error",
                            ![c].call = ~cl[c].stop]
  /\ ThreadOnly

IsPendingEcho(c, l) ==
  /\ cl[c].filter /\ l.kind = "echo" /\ cl[c].echo # <<>> /\ Head(cl[c].echo) = l.msg

(* One complete line of the chunk: an expected echo is consumed, anything else
   goes to the loop, and the thread waits there.  Whether to stop is asked only
   after the last line.                                                      *)
ThreadHandsOver(c) ==
  /\ cl[c].th = "line" /\ ~cl[c].call
  /\ IF cl[c].chunk = <<>> THEN cl' = [cl EXCEPT ![c].th = Again(c)]
     ELSE IF IsPendingEcho(c, Head(cl[c].chunk))
     THEN cl' = [cl EXCEPT ![c].chunk = Tail(@), ![c].echo = Tail(@)]
     ELSE cl' = [cl EXCEPT ![c].call = TRUE]
  /\ ThreadOnly

(* on_error has returned: _report_disconnect.                                 *)
ThreadReports(c) ==
  /\ cl[c].th = "error" /\ ~cl[c].call
  /\ cl' = IF cl[c].stop THEN [cl EXCEPT ![c].th = "done"]
           ELSE [cl EXCEPT ![c].th = "gone", ![c].call = TRUE]
  /\ ThreadOnly

----------------------------------------------------------------------------
(* Callbacks of the threads, run by the loop.                               *)

EnqueueLine(c) ==
  /\ LoopFree /\ cl[c].call /\ cl[c].th = "line"
  /\ cl' = [cl EXCEPT ![c].call = FALSE, ![c].chunk = Tail(@)]
  /\ IF Len(queue) < LineCap
     THEN queue' = Append(queue, Head(cl[c].chunk)) /\ UNCHANGED clean
     ELSE clean' = FALSE /\ UNCHANGED queue
  /\ UNCHANGED <<session, shown, mode, flush, safety, got>>

SerialError(c) ==
  /\ LoopFree /\ cl[c].call /\ cl[c].th = "error"
  /\ cl' = [cl EXCEPT ![c].call = FALSE]
  /\ ThreadOnly

(* `connected` follows connection_state twice a second; just after a connection
   begins or ends it may still be False.                                     *)
SerialDisconnected(c) ==
  /\ LoopFree /\ cl[c].call /\ cl[c].th = "gone"
  /\ cl' = [cl EXCEPT ![c].call = FALSE, ![c].th = "done"]
  /\ \/ closing' = TRUE
     \/ conn \in {"DISCONNECTED", "CONNECTING"} /\ UNCHANGED closing
  /\ UNCHANGED <<session, conn, cmode, decode, safety, got>>

ConnectionClosed ==
  /\ LoopFree /\ closing
  /\ closing' = FALSE /\ conn' = "DISCONNECTED"
  /\ UNCHANGED <<cl, session, cmode, decode, safety, got>>

----------------------------------------------------------------------------
(* Opening and closing.                                                     *)

(* A line of a connection that is over, still on its way to the decoder.      *)
LeftOver ==
  \/ flush \/ queue # <<>>
  \/ \E c \in Conn : cl[c].th = "line" /\ cl[c].chunk # <<>>

Ungated == TRUE
Free == pc = "idle"

ForcedTo(m) == CASE m = "auto" -> "UNKNOWN" [] m = "sensor" -> "SENSOR" [] OTHER -> "GATEWAY"

(* DecoderRouter.reset; without it the decoder keeps the mode of the connection before.    *)
ForcedOrKept(m) == IF m = "auto" THEN mode ELSE ForcedTo(m)
Reset(m) == ForcedTo(m)

(* What _connect_serial does once _close_serial has returned.                 *)
Reopen(m) ==
  /\ pc' = "open" /\ mode' = Reset(m)
  /\ conn' = "CONNECTING" /\ cmode' = "UNKNOWN" /\ clean' = ~LeftOver

(* _close_serial: the session of commands ends at once, the client after its
   thread, which the loop waits for.                                         *)
EndSessionKeepingQueue == auth' = [auth EXCEPT !.ok = FALSE, !.inflight = FALSE]
EndSession == auth' = NoAuth

ConnectSerial(m) ==
  /\ LoopFree /\ Free
  /\ req' = m /\ EndSession /\ sc' = 0
  /\ IF sc # 0
     THEN /\ joining' = sc /\ pc' = "close"
          /\ cl' = [cl EXCEPT ![sc].stop = TRUE]
          /\ UNCHANGED <<mode, conn, cmode, clean>>
     ELSE Reopen(m) /\ UNCHANGED <<cl, joining>>
  /\ UNCHANGED <<made, closing, queue, flush, owed, home, got>>

(* :reconnect while a connection is being made shows RECONNECTING and stops at
   the guard of _connect_serial.                                             *)
ReconnectIgnored ==
  /\ LoopFree /\ pc # "idle" /\ conn' = "RECONNECTING"
  /\ UNCHANGED <<cl, session, cmode, closing, decode, safety, got>>

Disconnect ==
  /\ LoopFree /\ (sc # 0 \/ pc # "idle")
  /\ EndSession /\ sc' = 0
  /\ IF sc # 0
     THEN /\ joining' = sc /\ cl' = [cl EXCEPT ![sc].stop = TRUE]
          /\ UNCHANGED conn
     ELSE conn' = "DISCONNECTED" /\ UNCHANGED <<cl, joining>>
  /\ UNCHANGED <<made, pc, req, cmode, closing, decode, owed, home, got>>

(* join returns when the thread has ended, or when its time is over.  A read
   ends well within that time: only a thread that waits for the loop exceeds
   it.                                                                       *)
JoinSkipped(c) == TRUE
JoinOver(c) == cl[c].th \in {"none", "done"} \/ cl[c].call

CloseDone ==
  /\ joining # 0 /\ JoinOver(joining)
  /\ cl' = [cl EXCEPT ![joining].open = FALSE, ![joining].echo = <<>>, ![joining].wire = <<>>]
  /\ joining' = 0
  /\ IF pc = "close" THEN Reopen(req)
     ELSE conn' = "DISCONNECTED" /\ UNCHANGED <<pc, mode, cmode, clean>>
  /\ UNCHANGED <<made, sc, req, closing, queue, flush, safety, got>>

OpenPort(p) ==
  /\ LoopFree /\ pc = "open" /\ p.mode = req
  /\ made' = made + 1 /\ pc' = "boot"
  /\ cl' = [cl EXCEPT ![made + 1] = [Unborn EXCEPT !.open = TRUE, !.dev = p.dev, !.token = p.token]]
  /\ UNCHANGED <<sc, req, joining, shown, decode, safety, got>>

(* The port does not open: _connecting is released, the message published, and
   only then the state set.                                                  *)
OpenFails ==
  /\ LoopFree /\ pc = "open"
  /\ pc' = "idle" /\ closing' = TRUE
  /\ UNCHANGED <<cl, made, sc, req, joining, conn, cmode, decode, safety, got>>

(* After the pause for the boot (everything that was ready has run by then) the
   input is discarded, the thread started and ConnectionOpened published.    *)
NoPause == TRUE
Settled == ~closing /\ ~flush /\ \A c \in Conn : ~cl[c].call

StartReading ==
  /\ LoopFree /\ pc = "boot" /\ Settled
  /\ pc' = IF req = "auto" THEN "probe" ELSE "forced"
  /\ sc' = made /\ conn' = "SYNCHRONIZING"
  /\ cl' = [cl EXCEPT ![made].wire = <<>>, ![made].th = "read",
                      ![made].filter = (req # "gateway")]
  /\ UNCHANGED <<made, req, joining, cmode, closing, decode, safety, got>>

(* set_console_echo_filter, in _on_mode_detected.                             *)
Filtered(m) ==
  IF sc = 0 THEN cl
  ELSE [cl EXCEPT ![sc].filter = (m = "SENSOR"), ![sc].echo = IF m = "SENSOR" THEN @ ELSE <<>>]

ForcedMode ==
  /\ LoopFree /\ pc = "forced"
  /\ pc' = "probe" /\ conn' = "READY" /\ cmode' = ForcedTo(req)
  /\ cl' = Filtered(cmode')
  /\ UNCHANGED <<made, sc, req, joining, closing, decode, safety, got>>

----------------------------------------------------------------------------
(* Commands.                                                                *)

NotEchoed(k, ms) == k.echo
Echoed(k, ms) == IF k.filter THEN k.echo \o ms ELSE k.echo

(* write_line, of messages ms one after the other: an echo is expected before
   the bytes leave; the device takes the message.  The ms are commands only, or
   one question or AUTH UNLOCK alone: the device answers all as it is.       *)
Written(k, c, ms) ==
  [k EXCEPT !.echo = Echoed(k, ms), !.wire = @ \o Answers(k, c, ms),
            !.unlocked = @ \/ (k.token /\ \E i \in DOMAIN ms : ms[i] = Unlock)]
Writable == sc # 0 /\ cl[sc].open /\ cl[sc].alive

(* Messages ms are written to the current client.                             *)
Send(ms) ==
  IF Writable
  THEN /\ cl' = [cl EXCEPT ![sc] = Written(@, sc, ms)]
       /\ got' = IF \A i \in DOMAIN ms : Obeys(cl[sc], ms[i])
                 THEN got \o [i \in DOMAIN ms |-> <<sc, ms[i]>>] ELSE got
  ELSE UNCHANGED <<cl, got>>

(* _send_probe.                                                              *)
SendProbe ==
  /\ LoopFree /\ pc = "probe"
  /\ pc' = "idle" /\ Send(<<Query>>)
  /\ UNCHANGED <<made, sc, req, joining, shown, decode, safety>>

(* An acknowledgement is good for 240 s; that they are over is seen here.     *)
NeedsAuth(expired) == cmode = "SENSOR" /\ (expired \/ ~auth.ok)

(* _send_raw with a command that changes something, typed by the operator with
   the key plugged in.                                                       *)
SendCommand(m) ==
  /\ LoopFree /\ sc # 0 /\ home[m] = 0 /\ \A n \in Cmd : n < m => home[n] # 0
  /\ home' = [home EXCEPT ![m] = sc]
  /\ \E expired \in BOOLEAN :
       \/ ~NeedsAuth(expired) /\ UNCHANGED auth /\ Send(<<m>>)
       \/ /\ NeedsAuth(expired) /\ auth.inflight /\ UNCHANGED <<cl, got>>
          /\ auth' = IF Len(auth.queue) < QueueCap
                     THEN [auth EXCEPT !.queue = Append(@, m)] ELSE auth
       \/ /\ NeedsAuth(expired) /\ ~auth.inflight
          /\ auth' = IF Writable
                     THEN [auth EXCEPT !.ok = FALSE, !.inflight = TRUE, !.pending = m] ELSE auth
          /\ Send(<<Unlock>>)
  /\ UNCHANGED <<session, shown, decode, owed>>

----------------------------------------------------------------------------
(* The lines.                                                               *)

Detected(l) ==
  CASE l.kind \in {"SENSOR", "ok", "bad"} -> "SENSOR"
    [] l.kind = "GATEWAY"                 -> "GATEWAY"
    [] OTHER                              -> "UNKNOWN"

RefusedInFlight == [auth EXCEPT !.ok = FALSE, !.pending = None, !.queue = <<>>]
Refused == NoAuth

(* ProtocolRouter.decode: the first line that tells decides the mode for good;
   then the decoder of that mode.  An acknowledgement frees the command that
   waits (Flush sends it).                                                   *)
DecodeLine ==
  /\ LoopFree /\ ~flush /\ queue # <<>>
  /\ queue' = Tail(queue)
  /\ LET l == Head(queue)
         first == mode = "UNKNOWN" /\ Detected(l) # "UNKNOWN"
         now == IF first THEN Detected(l) ELSE mode
         unlocked == now = "SENSOR" /\ l.kind = "ok"
     IN /\ mode' = now
        /\ IF first
           THEN conn' = "READY" /\ cmode' = now /\ cl' = Filtered(now)
           ELSE UNCHANGED <<conn, cmode, cl>>
        /\ flush' = unlocked
        /\ auth' = IF unlocked
                   THEN [auth EXCEPT !.ok = TRUE, !.inflight = FALSE, !.pending = None]
                   ELSE IF now = "SENSOR" /\ l.kind = "bad" THEN Refused ELSE auth
        /\ owed' = IF unlocked /\ auth.pending # None THEN <<auth.pending>> ELSE owed
  /\ UNCHANGED <<session, closing, clean, home, got>>

(* _on_command_ack after its message was published: the pending command, then
   the queue, in order; nothing, when the key has been taken out.             *)
Flush ==
  /\ LoopFree /\ flush
  /\ flush' = FALSE /\ owed' = <<>> /\ auth' = [auth EXCEPT !.queue = <<>>]
  /\ Send(owed \o auth.queue) \/ UNCHANGED <<cl, got>>
  /\ UNCHANGED <<session, shown, mode, queue, clean, home>>

----------------------------------------------------------------------------
Thread(c) == ThreadReads(c) \/ ThreadHandsOver(c) \/ ThreadReports(c)
Called(c) == EnqueueLine(c) \/ SerialError(c) \/ SerialDisconnected(c)
Connector == CloseDone \/ StartReading \/ ForcedMode \/ SendProbe \/ ConnectionClosed
Opening   == OpenFails \/ \E c \in Conn : c = made + 1 /\ \E p \in Ports[c] : OpenPort(p)
Lines     == DecodeLine \/ Flush
Operator  == \/ (\E c \in Conn : c = made + 1 /\ \E p \in Ports[c] : ConnectSerial(p.mode))
             \/ Disconnect \/ ReconnectIgnored
             \/ (\E m \in Cmd : SendCommand(m))

Next ==
  \/ \E c \in Conn : CableBreaks(c) \/ Thread(c) \/ Called(c)
  \/ Connector \/ Opening \/ Lines \/ Operator

(* The threads and the coroutines run; the device answers.  Nothing makes the
   operator act or the cable break.                         *)
Fairness ==
  /\ \A c \in Conn : WF_vars(Thread(c)) /\ WF_vars(Called(c))
  /\ WF_vars(CloseDone) /\ WF_vars(Connector) /\ WF_vars(Opening) /\ WF_vars(Lines)

Spec == Init /\ [][Next]_vars /\ Fairness
----------------------------------------------------------------------------
(* Properties.                                                              *)

TypeOK ==
  /\ cl \in [Conn -> Client] /\ made \in 0 .. MaxConn /\ sc \in 0 .. made
  /\ pc \in {"idle", "close", "open", "boot", "forced", "probe"}
  /\ req \in Modes /\ joining \in 0 .. made
  /\ conn \in {"DISCONNECTED", "CONNECTING", "RECONNECTING", "SYNCHRONIZING", "READY"}
  /\ cmode \in Mode /\ mode \in Mode
  /\ closing \in BOOLEAN /\ flush \in BOOLEAN /\ clean \in BOOLEAN
  /\ queue \in Seq(Line) /\ owed \in Seq(Cmd)
  /\ auth \in [ok: BOOLEAN, inflight: BOOLEAN, pending: {None} \cup Cmd, queue: Seq(Cmd)]
  /\ home \in [Cmd -> 0 .. MaxConn] /\ got \in Seq(Conn \X Cmd)

(* A thread is never inside read() of a descriptor that close() has closed, the
   failure that the order "signal, wait, close" of SerialClient.close is for:
   a thread the wait gives up on is one that waits for the loop.              *)
NoReadAfterClose == \A c \in Conn : cl[c].th = "read" => cl[c].open

(* An open port belongs to the application, to the connection being made or to
   a close that is under way: concurrent :connect, :reconnect and :disconnect
   leave no port open that nobody will close.                                *)
PortIsOwned ==
  \A c \in Conn : cl[c].open => c \in {sc, joining} \/ (c = made /\ pc = "boot")

(* The state shown is not DISCONNECTED, nor CONNECTING, while the console reads
   a cable that is alive: the failure of an earlier connection, published
   late, does not overwrite the state of the next one.                        *)
LiveIsShown ==
  joining = 0 /\ sc # 0 /\ cl[sc].alive /\ cl[sc].th \in {"read", "line"} =>
    conn \in {"SYNCHRONIZING", "READY", "RECONNECTING"}

(* The echo of the sensor console never reaches the decoder, as long as no line
   was lost and the mode that was asked for is not the wrong one.             *)
EchoFiltered ==
  clean /\ sc # 0 /\ (req = "auto" \/ ForcedTo(req) = cl[sc].dev) =>
    \A i \in DOMAIN queue : queue[i].from = sc => queue[i].kind # "echo"

(* A command that waited for the authentication is carried out at most once, and
   by the device it was typed for: a reconnection forgets the commands that
   wait.                                                                     *)
CommandKeepsDevice ==
  /\ \A i \in DOMAIN got : home[got[i][2]] = got[i][1]
  /\ \A i, j \in DOMAIN got : got[i][2] = got[j][2] => i = j

(* A reader that was told to stop ends, even one that waits for a loop that
   waits for it.                                                             *)
ReaderStops == \A c \in Conn : cl[c].stop ~> cl[c].th = "done"

Undisturbed == clean /\ Writable
(* The authentication of the firmware, which has no timeout, is over some time:
   confirmed, refused, or the connection was disturbed.                       *)
AuthenticationEnds ==
  auth.inflight ~> (~auth.inflight \/ ~Undisturbed \/ cl[sc].dev # cmode)

(* A connection does not stay in SYNCHRONIZING: the answer to the first
   question decides the mode, which the connection before does not.           *)
SynchronizationEnds == conn = "SYNCHRONIZING" ~> (conn # "SYNCHRONIZING" \/ ~Undisturbed)
=============================================================================
