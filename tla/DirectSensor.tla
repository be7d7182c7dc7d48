---------------------------- MODULE DirectSensor ----------------------------
(* A vibration sensor on the console's own serial port: the commands the
   console sends, what the firmware does and answers (node-wifi/main.c and
   serial_console.c), and what the decoder of the answers
   (protocol/sensor_direct.py), the controller and the application leave on the
   screen. The sensor is unlocked, its accelerometer is there and the port stays
   open (module ConsoleSession has the opening, the losing and the
   authorization).                                                            *)
EXTENDS Integers, Sequences, FiniteSets

CONSTANTS
  Modes,       \* modes of analysis; an IDLE sensor analyses nothing, a SEISMIC one no spectrum
  Gains,
  MaxAsked,    \* bounds of the model: what the operator asks for,
  MaxEvents    \* and what the sensor does on its own

VARIABLES
  staged, active, queued,  \* configurations of the sensor: being put together, in force, to be put in force
  stream, once, fft,       \* it sends readings; it will send one; it will send a spectrum
  fault,                   \* it has an active fault
  todo, lines,             \* on the wire: commands to the sensor, lines to the console
  last,                    \* the decoder's copy of the last STATUS
  conf, result,            \* on the screen: the configuration, and how its last change went
  shown,                   \* on the screen: what is known of the sensor otherwise
  flow,                    \* commands an action of the operator has still to send
  opened, answered,        \* the screen of the spectrum is open; it was answered and is still true
  asked, own               \* what the operator asked for and what the sensor did on its own

config == <<staged, active, queued>>
output == <<stream, once, fft>>
sensor == <<config, output, fault>>
screen == <<last, conf, result, shown, answered>>
operator == <<flow, opened, asked>>
vars == <<sensor, todo, lines, screen, operator, own>>

Fields == {"mode", "gain"}
Configs == {c \in [Fields -> Modes \cup Gains] : c["mode"] \in Modes /\ c["gain"] \in Gains}
None == "none"
Missing == "?"
Nothing == << >>
Get(p, k, default) == IF k \in DOMAIN p THEN p[k] ELSE default

Cmd(do) == [do |-> do, field |-> None, value |-> None]
Set(k, v) == [do |-> "SET", field |-> k, value |-> v]
L(token, payload) == [token |-> token, p |-> payload]

Init ==
  /\ staged \in Configs /\ active = staged /\ queued = {}
  /\ stream \in BOOLEAN /\ once = FALSE /\ fft = FALSE /\ fault \in BOOLEAN
  /\ todo = <<Cmd("STATUS"), Cmd("GET")>> /\ lines = <<>> /\ last = Nothing
  /\ conf = [k \in Fields |-> Missing] /\ result = "IDLE"
  /\ shown = [stream |-> FALSE, fault |-> FALSE, mode |-> Missing, spectrum |-> None, valid |-> TRUE]
  /\ flow = <<>> /\ opened = FALSE /\ answered = FALSE /\ asked = 0 /\ own = 0

-----------------------------------------------------------------------------
(* The sensor *)

Word(on) == IF on THEN "ON" ELSE "OFF"
Status == [mode |-> active["mode"], gain |-> active["gain"], stream |-> Word(stream), fault |-> fault]
Ok(p) == L("OK", p)
Says(ls) == lines' = lines \o ls
Telemetry(s, o, word) ==
  stream' = s /\ once' = o /\ Says(<<Ok([stream |-> word])>>) /\ UNCHANGED <<config, fft, fault>>
\* What a command does, and its answer.
Obey(c) ==
  \/ c.do = "STATUS" /\ Says(<<L("STATUS", Status)>>) /\ UNCHANGED sensor
  \/ c.do = "GET" /\ Says(<<L("STAGED", staged)>>) /\ UNCHANGED sensor
  \/ /\ c.do = "SET" /\ staged' = [staged EXCEPT ![c.field] = c.value]
     /\ Says(<<Ok([staged |-> c.field])>>) /\ UNCHANGED <<active, queued, output, fault>>
  \/ c.do = "APPLY" /\ queued' = {staged} /\ Says(<<Ok([apply |-> "QUEUED"])>>) /\ UNCHANGED <<staged, active, output, fault>>
  \/ c.do = "ON" /\ Telemetry(TRUE, once, "ON")
  \/ c.do = "OFF" /\ Telemetry(FALSE, FALSE, "OFF")
  \/ c.do = "ONCE" /\ Telemetry(stream, TRUE, "ONCE")
  \/ c.do = "FFT" /\ fft' = TRUE /\ Says(<<Ok(Nothing)>>) /\ UNCHANGED <<config, stream, once, fault>>
  \/ c.do = "DTC" /\ Says(<<L("DTC", [fault |-> fault])>>) /\ UNCHANGED sensor
  \/ c.do = "CLEAR" /\ fault' = FALSE /\ Says(<<Ok([clear |-> TRUE])>>) /\ UNCHANGED <<config, output>>
  \/ /\ c.do = "ACQ" /\ UNCHANGED sensor
     /\ Says(<<IF active["mode"] # "IDLE" THEN Ok([acq |-> "POLLING"]) ELSE L("ERR", Nothing)>>)
Execute ==
  /\ todo # <<>> /\ todo' = Tail(todo) /\ Obey(Head(todo))
  /\ UNCHANGED <<screen, operator, own>>

\* The main loop puts a configuration in force and reports some of its fields.
ApplyPending ==
  /\ queued # {} /\ active' \in queued /\ queued' = {}
  /\ Says(<<L("CONFIG_APPLIED", [mode |-> active'["mode"]])>>)
  /\ UNCHANGED <<staged, output, fault, todo, screen, operator, own>>
\* The same loop analyses a buffer after that: the spectrum goes out before the reading.
Reads == queued = {} /\ active["mode"] # "IDLE" /\ (once \/ fft \/ stream)
Computed == active["mode"] # "SEISMIC"
Analyse ==
  /\ Reads /\ (once \/ fft \/ own < MaxEvents) /\ own' = IF once \/ fft THEN own ELSE own + 1
  /\ Says((IF fft THEN <<L("FFT", [valid |-> Computed])>> ELSE <<>>)
          \o IF once \/ stream THEN <<L("TEL", [mode |-> active["mode"], valid |-> Computed, fault |-> fault])>> ELSE <<>>)
  /\ once' = FALSE /\ fft' = FALSE /\ UNCHANGED <<config, stream, fault, todo, screen, operator>>
\* The accelerometer does not answer.
ReadFails ==
  /\ Reads /\ own < MaxEvents /\ own' = own + 1
  /\ Says(<<L("ERR", Nothing)>>) /\ UNCHANGED <<sensor, todo, screen, operator>>
Fault ==
  /\ ~fault /\ own < MaxEvents /\ own' = own + 1 /\ fault' = TRUE
  /\ Says(<<L("DTC_EVENT", Nothing)>>) /\ UNCHANGED <<config, output, todo, screen, operator>>

-----------------------------------------------------------------------------
(* The console: a line that arrives *)

\* DirectSensorStatusReceived: every field is taken from the payload, absent or not.
DirectStatus(p) ==
  /\ conf' = [k \in Fields |-> Get(p, k, Missing)]
  /\ shown' = [shown EXCEPT !.stream = Get(p, "stream", "OFF") = "ON", !.mode = Get(p, "mode", Missing),
                            !.fault = Get(p, "fault", FALSE)]
Faulty(f) == shown' = [shown EXCEPT !.fault = f] /\ UNCHANGED conf
\* ConfigurationApplied: fields that the line does not have become unknown.
ConfigurationApplied(p) ==
  conf' = [k \in Fields |-> Get(p, k, Missing)] /\ shown' = [shown EXCEPT !.mode = p["mode"]]
\* What an OK adds to the copy of the last STATUS, which is then taken again.
Noted(p) ==
  IF "stream" \in DOMAIN p
  THEN [k \in {"stream"} \cup DOMAIN last |-> IF k = "stream" THEN p.stream ELSE last[k]] ELSE last
Acknowledged(p) ==
  /\ last' = Noted(p)
  /\ CASE DOMAIN p \cap {"stream", "acq"} # {} -> DirectStatus(Noted(p))
       [] "clear" \in DOMAIN p -> Faulty(FALSE)
       [] OTHER -> UNCHANGED <<conf, shown>>
\* A reading without a spectrum puts an earlier spectrum away.
Telemetered(p) ==
  /\ shown' = [shown EXCEPT !.mode = p["mode"], !.fault = p.fault, !.valid = p.valid,
                            !.spectrum = IF p.valid THEN @ ELSE None]
  /\ conf' = [conf EXCEPT !["mode"] = p["mode"]]

StatusLine(p) == last' = p /\ DirectStatus(p)
AppliedLine(p) == ConfigurationApplied(p) /\ UNCHANGED last
DtcLine(p) == Faulty(p.fault) /\ UNCHANGED last
DtcEvent == Faulty(TRUE) /\ UNCHANGED last
TelemetryLine(p) == Telemetered(p) /\ UNCHANGED last
SpectrumLine(p) == shown' = [shown EXCEPT !.spectrum = IF p.valid THEN "new" ELSE @] /\ UNCHANGED <<last, conf>>
NotedOnly == UNCHANGED <<last, conf, shown>>
Decode(l) ==
  \/ l.token = "STATUS" /\ StatusLine(l.p)
  \/ l.token = "CONFIG_APPLIED" /\ AppliedLine(l.p)
  \/ l.token = "OK" /\ Acknowledged(l.p)
  \/ l.token = "DTC" /\ DtcLine(l.p)
  \/ l.token = "DTC_EVENT" /\ DtcEvent
  \/ l.token = "TEL" /\ TelemetryLine(l.p)
  \/ l.token = "FFT" /\ SpectrumLine(l.p)
  \/ l.token \in {"STAGED", "ERR"} /\ NotedOnly

\* The acknowledgements that the screen shows as the result of a change.
AckOf(l) ==
  CASE l.token = "STAGED" \/ "staged" \in DOMAIN l.p -> "STAGED"
    [] l.token = "CONFIG_APPLIED" -> "APPLIED"
    [] l.token = "ERR" -> "FAILED"
    [] "apply" \in DOMAIN l.p -> "QUEUED"
    [] OTHER -> result
Answers(l) ==
  CASE l.token = "FFT" -> l.p.valid
    [] l.token = "TEL" -> answered /\ l.p.valid
    [] OTHER -> answered

NotRead(l) == <<>>
\* A configuration that was applied is read back.
Follow(l) == IF l.token = "CONFIG_APPLIED" THEN <<Cmd("STATUS")>> ELSE <<>>
Receive ==
  /\ lines # <<>> /\ lines' = Tail(lines)
  /\ Decode(Head(lines)) /\ result' = AckOf(Head(lines)) /\ answered' = Answers(Head(lines))
  /\ todo' = todo \o Follow(Head(lines))
  /\ UNCHANGED <<sensor, operator, own>>

-----------------------------------------------------------------------------
(* The console: what the operator asks for *)

\* Bound of the model: he starts once the first STATUS was read.
Asks(c) == flow = <<>> /\ last # Nothing /\ asked < MaxAsked /\ asked' = asked + 1 /\ todo' = Append(todo, c)
Rest == UNCHANGED <<sensor, lines, last, conf, result, own>>
Command(c) == Asks(Cmd(c)) /\ Rest /\ UNCHANGED <<flow, opened, answered, shown>>
\* The configuration: its fields one after another, with a pause between two,
\* and then their application.
Configure(c) ==
  /\ Asks(Set("mode", c["mode"])) /\ flow' = <<Set("gain", c["gain"]), Cmd("APPLY")>>
  /\ Rest /\ UNCHANGED <<opened, answered, shown>>
\* An earlier spectrum is not the one asked for.
Outdated == [shown EXCEPT !.spectrum = IF @ = None THEN None ELSE "old"]
\* A spectrum: it counts as asked for before anything is sent. A reading is
\* asked for after a pause, and then the screen opens.
Spectrum ==
  /\ shown.mode # "SEISMIC" /\ Asks(Cmd("FFT")) /\ flow' = <<Cmd("ONCE")>> /\ opened' = FALSE
  /\ shown' = Outdated /\ answered' = FALSE /\ Rest
SendRest ==
  /\ flow # <<>> /\ todo' = Append(todo, Head(flow)) /\ flow' = Tail(flow)
  /\ opened' = (opened \/ Head(flow) = Cmd("ONCE"))
  /\ Rest /\ UNCHANGED <<asked, answered, shown>>

Single == {"ON", "OFF", "ONCE", "DTC", "CLEAR", "ACQ", "STATUS"}
Firmware == Execute \/ ApplyPending \/ Analyse \/ ReadFails \/ Fault
Requests(cs) == (\E c \in cs : Command(c)) \/ (\E c \in Configs : Configure(c)) \/ Spectrum \/ SendRest
Next == Firmware \/ Receive \/ Requests(Single)

Spec == Init /\ [][Next]_vars

-----------------------------------------------------------------------------
TypeOK ==
  /\ staged \in Configs /\ active \in Configs /\ queued \in {{}} \cup {{c} : c \in Configs}
  /\ stream \in BOOLEAN /\ once \in BOOLEAN /\ fft \in BOOLEAN /\ fault \in BOOLEAN
  /\ conf \in [Fields -> Modes \cup Gains \cup {Missing}]
  /\ result \in {"IDLE", "STAGED", "QUEUED", "APPLIED", "FAILED"}
  /\ shown \in [stream : BOOLEAN, fault : BOOLEAN, mode : Modes \cup {Missing}, spectrum : {None, "old", "new"}, valid : BOOLEAN]
  /\ opened \in BOOLEAN /\ answered \in BOOLEAN

\* Once everything that was sent is answered, the configuration that is shown is
\* the one in force, all of it, and no change is shown as waiting: although an
\* acknowledgement can bring back what the last STATUS said, CONFIG_APPLIED says
\* a part only, and answers arrive while others are on their way.
Quiet == todo = <<>> /\ lines = <<>> /\ flow = <<>> /\ queued = {}
Settles == Quiet => conf = active /\ result # "QUEUED"

\* A spectrum that was answered is on the screen that was opened for it, however
\* early the answer came: it is not taken for an earlier one.
SpectrumIsShown == opened /\ answered => shown.spectrum = "new"

ScreenIsRight == Settles /\ SpectrumIsShown
=============================================================================
