---------------------------- MODULE DataChannel ----------------------------
(* How far the data channel of a wireless sensor is, as the text console shows
   it (data_channel.py), from what the sensor's module tells: a line for each
   step and a report of the link now and then. Any line may be lost. The module
   itself is outside this model but for the lines it sends and in what order
   (node-can/src/wireless_link.cpp).                                         *)
EXTENDS Integers, Sequences

CONSTANT MaxLines   \* bound of the model: lines that arrive

Stages == <<"bind", "ap", "offer", "station", "hello", "session", "telemetry">>
Keys == {Stages[k] : k \in 1 .. 7}
Reasons == {"KEY", "PROTOCOL", "SEND", "REPLAY", "BUSY", "NOT_BOUND"}
Benign == {"REPLAY", "BUSY"}

VARIABLES
  panel,    \* the sensor is a panel, which sends no readings
  ap,       \* the module's access point: "never", "on", "off"
  offered, station, pending, secure, asleep,   \* the module's side of the link
  told,     \* the stages as the lines of the steps leave them: state and time
  link,     \* the last report of the link, and when it came
  reading,  \* when the last reading came
  lines,    \* lines that arrived so far: the clock of the console
  whole,    \* no line was lost so far
  fresh     \* a report of the link was the last thing, and it arrived

module == <<ap, offered, station, pending, secure, asleep>>
vars == <<panel, module, told, link, reading, lines, whole, fresh>>

Blank == [state |-> "pending", at |-> 0]
Never == 0

Init ==
  /\ panel \in BOOLEAN /\ ap = "never"
  /\ offered = FALSE /\ station = FALSE /\ pending = FALSE /\ secure = FALSE /\ asleep = FALSE
  /\ told = [k \in Keys |-> IF k = "bind" THEN [state |-> "done", at |-> 0] ELSE Blank]
  /\ link = [state |-> "NONE", at |-> Never] /\ reading = Never
  /\ lines = 0 /\ whole = TRUE /\ fresh = FALSE

-----------------------------------------------------------------------------
(* The console *)

Done(s, k) == s[k].state = "done"
Mark(s, k, state, at) == [s EXCEPT ![k] = [state |-> state, at |-> at]]
Reset(s, ks) == [k \in Keys |-> IF k \in ks THEN Blank ELSE s[k]]
\* A HELLO that came shows that the steps before it were made.
Reached(s, at) == [k \in Keys |-> IF k \in {"ap", "offer", "station"} /\ ~Done(s, k) THEN [state |-> "done", at |-> at] ELSE s[k]]
Later == {"offer", "station", "hello", "session", "telemetry"}

\* What a line makes of the stages.
Step(s, e, at) ==
  CASE e.kind = "AP_UP" -> Mark(s, "ap", "done", at)
    [] e.kind \in {"AP_DOWN", "AP_ERROR", "NO_KEY"} -> Mark(Reset(s, Later), "ap", "failed", at)
    [] e.kind = "OFFER" -> Mark(s, "offer", "done", at)
    [] e.kind = "OFFER_ERROR" -> Mark(s, "offer", "failed", at)
    [] e.kind = "STATION_JOIN" ->
         IF Done(s, "offer") /\ ~Done(s, "session") THEN Mark(s, "station", "done", at) ELSE s
    [] e.kind = "STATION_LEAVE" ->
         IF ~Done(s, "session") /\ Done(s, "station") THEN Reset(s, {"station", "hello"}) ELSE s
    [] e.kind = "HELLO_OK" -> Reset(Mark(Reached(s, at), "hello", "done", at), {"session"})
    [] e.kind = "HELLO_REJECT" ->
         LET r == IF e.reason = "NOT_BOUND" THEN s ELSE Reached(s, at)
         IN IF e.reason \in Benign THEN s ELSE IF Done(r, "session") THEN r ELSE Mark(r, "hello", "failed", at)
    [] e.kind = "HANDSHAKE_TIMEOUT" -> IF Done(s, "session") THEN s ELSE Mark(s, "session", "failed", at)
    [] e.kind = "SESSION_UP" ->
         LET r == Reached(s, at) IN Mark(IF Done(r, "hello") THEN r ELSE Mark(r, "hello", "done", at), "session", "done", at)
    [] e.kind = "SESSION_DOWN" -> Reset(s, Later)

Implied(state) ==
  CASE state \in {"OFFERING", "SLEEPING"} -> {"ap", "offer"}
    [] state = "HANDSHAKE" -> {"ap", "offer", "station", "hello"}
    [] state = "SECURE" -> {"ap", "offer", "station", "hello", "session"}
    [] OTHER -> {}

\* What the link says, where no step that failed is more recent.
Deduced(s) ==
  [k \in Keys |->
     IF k \in Implied(link.state) /\ ~Done(s, k)
        /\ ~(s[k].state = "failed" /\ (k \in {"ap", "offer"} \/ s[k].at >= link.at))
       THEN [s[k] EXCEPT !.state = "done"] ELSE s[k]]
\* A session whose end was not heard: the link says so.
Trusted(s) == s
Overruled(s) ==
  IF link.state # "SECURE" /\ Done(s, "session") /\ link.at > s["session"].at THEN Reset(s, {"session", "telemetry"}) ELSE s
Read(s) ==
  IF ~panel /\ Done(s, "session") /\ reading # Never /\ reading >= s["session"].at
    THEN Mark(s, "telemetry", "done", reading) ELSE s

\* The stages as they are shown: the first that is not done is the present one.
Shown == Read(Overruled(Deduced(IF link.state = "NO_KEY" /\ told["ap"].state # "failed"
                                  THEN [told EXCEPT !["ap"].state = "failed"] ELSE told)))
Open == {k \in 1 .. 7 : ~Done(Shown, Stages[k]) /\ ~(panel /\ Stages[k] = "telemetry")}
Current == IF Open = {} THEN "complete" ELSE Stages[CHOOSE k \in Open : \A j \in Open : k <= j]

\* A line that arrives.
Heard(c, e) ==
  LET at == c.at + 1
  IN IF e.kind = "LINK" THEN [told |-> c.told, link |-> [state |-> e.state, at |-> at], at |-> at]
     ELSE [told |-> Step(c.told, e, at), link |-> c.link, at |-> at]
Taken(c, es, heard, k) == IF k \in heard THEN Heard(c, es[k]) ELSE c
\* Up to three lines are sent, in this order; some arrive.
Lines(es) ==
  \E heard \in SUBSET DOMAIN es :
    LET first == Taken([told |-> told, link |-> link, at |-> lines], es, heard, 1)
        c == Taken(Taken(first, es, heard, 2), es, heard, 3)
    IN /\ c.at <= MaxLines
       /\ told' = c.told /\ link' = c.link /\ lines' = c.at
       /\ fresh' = (es[Len(es)].kind = "LINK" /\ Len(es) \in heard)
       /\ whole' = (whole /\ heard = DOMAIN es)
       /\ UNCHANGED <<panel, reading>>

-----------------------------------------------------------------------------
(* The module: external *)

E(kind) == [kind |-> kind]
LinkState(p, s, z) == IF s THEN "SECURE" ELSE IF p THEN "HANDSHAKE" ELSE IF z THEN "SLEEPING" ELSE "OFFERING"
Report(p, s, z) == [kind |-> "LINK", state |-> LinkState(p, s, z)]

StartAccessPoint == ap # "on" /\ ap' = "on" /\ Lines(<<E("AP_UP")>>) /\ UNCHANGED <<offered, station, pending, secure, asleep>>
AccessPointError == ap # "on" /\ Lines(<<E("AP_ERROR")>>) /\ UNCHANGED module
\* An outage: the session first, then the access point.
AccessPointOutage ==
  /\ ap = "on" /\ ap' = "off" /\ offered' = FALSE /\ station' = FALSE /\ pending' = FALSE /\ secure' = FALSE
  /\ Lines(IF secure THEN <<E("SESSION_DOWN"), Report(FALSE, FALSE, asleep), E("AP_DOWN")>> ELSE <<E("AP_DOWN")>>)
  /\ UNCHANGED asleep
Offer == ap = "on" /\ ~secure /\ ~pending /\ ~offered /\ offered' = TRUE /\ Lines(<<E("OFFER")>>) /\ UNCHANGED <<ap, station, pending, secure, asleep>>
OfferError == ap = "on" /\ ~secure /\ ~pending /\ Lines(<<E("OFFER_ERROR")>>) /\ UNCHANGED module
StationJoin == ap = "on" /\ ~station /\ station' = TRUE /\ Lines(<<E("STATION_JOIN")>>) /\ UNCHANGED <<ap, offered, pending, secure, asleep>>
StationLeave == station /\ station' = FALSE /\ Lines(<<E("STATION_LEAVE")>>) /\ UNCHANGED <<ap, offered, pending, secure, asleep>>
Hello ==
  /\ station /\ pending' = TRUE /\ Lines(<<E("HELLO_OK"), Report(TRUE, secure, FALSE)>>)
  /\ UNCHANGED <<ap, offered, station, secure, asleep>>
HelloReject(reason) ==
  /\ station /\ (reason = "REPLAY" => secure) /\ (reason = "BUSY" => pending)
  /\ Lines(<<[kind |-> "HELLO_REJECT", reason |-> reason]>>) /\ UNCHANGED module
HandshakeTimeout ==
  /\ pending /\ pending' = FALSE /\ Lines(<<E("HANDSHAKE_TIMEOUT"), Report(FALSE, secure, asleep)>>)
  /\ UNCHANGED <<ap, offered, station, secure, asleep>>
SessionUp ==
  /\ pending /\ pending' = FALSE /\ secure' = TRUE /\ asleep' = FALSE /\ Lines(<<E("SESSION_UP"), Report(FALSE, TRUE, FALSE)>>)
  /\ UNCHANGED <<ap, offered, station>>
SessionDown(sleeps) ==
  /\ secure /\ secure' = FALSE /\ offered' = FALSE /\ (sleeps => panel) /\ asleep' = sleeps
  /\ Lines(<<E("SESSION_DOWN"), Report(pending, FALSE, sleeps)>>)
  /\ UNCHANGED <<ap, station, pending>>
Reported == Lines(<<Report(pending, secure, asleep)>>) /\ UNCHANGED module
Reading ==
  /\ secure /\ ~panel /\ lines < MaxLines /\ lines' = lines + 1 /\ reading' = lines' /\ fresh' = FALSE
  /\ UNCHANGED <<panel, module, told, link, whole>>

Next ==
  \/ StartAccessPoint \/ AccessPointError \/ AccessPointOutage \/ Offer \/ OfferError
  \/ StationJoin \/ StationLeave \/ Hello \/ \E r \in Reasons : HelloReject(r)
  \/ HandshakeTimeout \/ SessionUp \/ \E z \in BOOLEAN : SessionDown(z)
  \/ Reported \/ Reading

Spec == Init /\ [][Next]_vars

-----------------------------------------------------------------------------
\* Types.
TypeOK == /\ Current \in Keys \cup {"complete"} /\ lines \in 0 .. MaxLines
          /\ \A k \in Keys : told[k].at <= lines /\ told[k].state \in {"pending", "done", "failed"}

\* The screen shows a session as authenticated if and only if the module has
\* one, once a report of the link has come after what happened last, whatever
\* lines were lost before; and a module without access point is shown as such
\* by a console that missed nothing, although the link goes on "offering"
\* (data_channel.py channel_view).
TellsStage ==
  /\ fresh => (Done(Shown, "session") <=> secure)
  /\ whole /\ ap = "off" => Current = "ap"
=============================================================================
