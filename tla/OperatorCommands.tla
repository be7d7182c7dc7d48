-------------------------- MODULE OperatorCommands --------------------------
(* How a command of the operator becomes a line for the equipment: the screens
   he asks from, the dialogs in between, the sensor that counts as selected and
   the authorization (app.py, command_catalog.py, screens.py, dialogs.py,
   security.py). One wireless sensor is bound to a module and may be handed over
   to another while a dialog is open; a second sensor stays. The port is open
   (module ConsoleSession has the port and the queue of the authentication);
   messages, the texts on the screens and the opening of the spectrum's screen
   (module DirectSensor) are left out.                                        *)
EXTENDS Integers, Sequences, FiniteSets, SequencesExt

CONSTANTS
  Modules,    \* CAN modules; the wireless sensor has the number of its module
  Profile,    \* profiles of the two sensors
  MaxInputs   \* bound of the model: what the operator does

Other == 0    \* the sensor that stays
None == -1
CommandsAssumption ==
  /\ Modules \subseteq Nat \ {0} /\ IsFiniteSet(Modules)
  /\ Profile \in [{"wireless", "other"} -> {"VIBRATION", "ACOUSTIC"}] /\ MaxInputs \in Nat

VARIABLES
  mode,            \* what the port is connected to
  guard, key,      \* authorization that is configured; the key is plugged in
  owner, plane,    \* module of the wireless sensor; it has an authenticated session
  selected,        \* sensor that commands without a target are for
  stack, modal,    \* screens, each over the one before; flows with a dialog open, the last one on top
  running, flows,  \* an action is said to run; actions on their way
  sent,            \* the last command that was sent
  inputs

env == <<mode, guard, key, owner, plane>>
screens == <<stack, modal>>
vars == <<env, selected, screens, running, flows, sent, inputs>>

Connections == {"SENSOR_DIRECT", "DEMO", "GATEWAY_CAN"}
Workers == {1, 2}
Sensors == Modules \cup {Other}
Bound == owner # None
Known == IF Bound THEN {owner, Other} ELSE {Other}
ProfileOf(i) == IF i = Other THEN Profile["other"] ELSE Profile["wireless"]
Network == <<"network", 0>>
Direct == <<"direct", 0>>
Sensor(i) == <<"sensor", i>>
Node(n) == <<"node", n>>

-----------------------------------------------------------------------------
(* The catalog of actions *)

NetworkActions == {"network.status", "network.probe_status", "network.election", "network.liveness"}
NodeActions == {"node.status", "node.sensor_on", "node.sensor_off", "node.clear_fault"}
AcousticActions == {"sensor.measure_reset", "sensor.baseline_learn", "sensor.baseline_clear", "sensor.acoustic_calibrate"}
BareActions == {"sensor.restart_acq", "sensor.dtc_refresh", "sensor.wifi_on", "sensor.wifi_off"}
Queries == {"network.status", "network.probe_status", "node.status", "sensor.status", "sensor.dtc_refresh", "sensor.wifi_status"}
SensorActions ==
  AcousticActions \cup BareActions \cup
  {"sensor.status", "sensor.telemetry_once", "sensor.fft", "sensor.wifi_status", "sensor.telemetry_on", "sensor.telemetry_off",
   "sensor.telemetry_period", "sensor.configure", "sensor.stop_now", "sensor.dtc_clear"}
Actions == NetworkActions \cup NodeActions \cup SensorActions
WithParameter ==
  {"network.liveness", "sensor.fft", "sensor.telemetry_period", "sensor.baseline_learn", "sensor.acoustic_calibrate"}
WithConfirmation ==
  {"network.election", "node.sensor_off", "node.clear_fault", "sensor.measure_reset", "sensor.baseline_clear",
   "sensor.dtc_clear", "sensor.wifi_on"}
Protected == Actions \ (Queries \cup {"sensor.stop_now"})
InMode(do, m) ==
  CASE do = "network.probe_status" -> m # "SENSOR_DIRECT"
    [] do \in BareActions -> m # "GATEWAY_CAN"
    [] do = "sensor.stop_now" -> m = "SENSOR_DIRECT"
    [] OTHER -> TRUE
ForProfile(do, p) == (do \in AcousticActions => p = "ACOUSTIC") /\ (do = "sensor.restart_acq" => p = "VIBRATION")
Scope(do) == CASE do \in NetworkActions -> "network" [] do \in NodeActions -> "node" [] OTHER -> "sensor"
ActionsFor(t) == {do \in Actions : Scope(do) = t[1] /\ InMode(do, mode) /\ (t[1] = "sensor" => ForProfile(do, ProfileOf(t[2])))}

\* The sensor is bound and its module has no session with it.
WithoutPlane(i) == mode = "GATEWAY_CAN" /\ i = owner /\ Bound /\ ~plane
Offered(t) == IF t[1] = "sensor" /\ WithoutPlane(t[2]) THEN {} ELSE ActionsFor(t)
Targets ==
  (IF mode = "SENSOR_DIRECT" THEN {} ELSE {Network} \cup {Node(n) : n \in Modules}) \cup {Sensor(i) : i \in Known}
FirstTarget == IF mode = "SENSOR_DIRECT" THEN Sensor(Other) ELSE Network

-----------------------------------------------------------------------------
(* Sending *)

S(do, to, by, named) == [do |-> do, to |-> to, by |-> by, named |-> named]
Nothing == S("none", Network, "none", None)
\* The connected equipment changes something when it reads this: the operator's key is asked for.
RequiresAuth(c) ==
  CASE c.to[1] \in {"sensor", "gateway"} \/ c.by = "wireless" -> TRUE
    [] c.to[1] = "direct" /\ c.by # "wireless" -> c.do \notin Queries \cup {"sensor.stop_now"}
    [] OTHER -> c.do \notin Queries
Authorized == guard = "off" \/ (guard = "presence" /\ key)
\* The sensor still has its session, a command for no wireless sensor needs none.
Fit(c) == c.to[1] # "sensor" \/ ~WithoutPlane(c.to[2])
SendRaw(cs) ==
  sent' = IF \E c \in cs : mode = "DEMO" \/ ~RequiresAuth(c) \/ Authorized
          THEN LET c == CHOOSE c \in cs : TRUE IN [call |-> c, fit |-> Fit(c), right |-> Authorized, known |-> Known]
          ELSE sent

\* What a request becomes, when it is for the selected sensor s: without one,
\* only the queries and the radio have something left to address.
NeedsNoSensor == {"sensor.status", "sensor.telemetry_on", "sensor.telemetry_off", "sensor.wifi_status", "sensor.wifi_on",
                  "sensor.wifi_off", "sensor.stop_now"}
Elsewhere(do) ==
  CASE do = "sensor.status" -> {<<"probe", 0>>}
    [] do \in {"sensor.wifi_status", "sensor.wifi_on", "sensor.wifi_off"} /\ mode = "GATEWAY_CAN" -> {<<"gateway", 0>>}
    [] OTHER -> {}
Address(do, s) ==
  CASE mode = "SENSOR_DIRECT" -> IF s \in Known \/ do \in NeedsNoSensor THEN {Direct} ELSE {}
    [] mode # "SENSOR_DIRECT" /\ s \in Known -> {Sensor(s)}
    [] OTHER -> Elsewhere(do)
\* Calibration through a module needs three stable readings.
MayLack(do) == do = "sensor.acoustic_calibrate" /\ mode # "SENSOR_DIRECT"
ForSelected(do, s, by, named) ==
  \/ SendRaw({S(do, a, by, named) : a \in Address(do, s)})
  \/ MayLack(do) /\ UNCHANGED sent

-----------------------------------------------------------------------------
(* Screens *)

Screen(kind, t) == [kind |-> kind, target |-> t, list |-> IF kind = "commands" THEN Offered(t) ELSE {}]
Top == Last(stack)
Free == modal = <<>>
\* A target that is no longer there becomes the first one.
Retargeted(t) == IF t \in Targets THEN t ELSE FirstTarget
Refresh ==
  /\ Top.kind = "commands" /\ stack' = [stack EXCEPT ![Len(stack)] = Screen("commands", Retargeted(Top.target))]
  /\ stack' # stack /\ UNCHANGED <<env, selected, modal, running, flows, sent, inputs>>

Uses == inputs < MaxInputs /\ Free /\ inputs' = inputs + 1
Shows(s, sel) == stack' = s /\ selected' = sel /\ UNCHANGED <<env, modal, running, flows, sent>>
Home == Screen("home", Network)
CommandTarget == CASE Top.kind \in {"sensor", "node"} -> Top.target
                   [] Top.kind \notin {"sensor", "node"} /\ mode = "SENSOR_DIRECT" /\ selected # None -> Sensor(selected)
                   [] OTHER -> Network
OpenCommands ==
  Uses /\ Top.kind # "commands" /\ Shows(Append(stack, Screen("commands", Retargeted(CommandTarget))), selected)
SetTarget(t) ==
  Uses /\ Top.kind = "commands" /\ t # Top.target /\ Shows([stack EXCEPT ![Len(stack)] = Screen("commands", t)], selected)
OpenTarget(t) ==
  /\ Uses /\ Len(stack) < 3 /\ Top.kind \notin {"sensor", "node"}
  /\ Shows(Append(stack, Screen(t[1], t)), IF t[1] = "sensor" THEN t[2] ELSE None)
GoHome == Uses /\ Len(stack) > 1 /\ Shows(<<Home>>, selected)
GoBack == Uses /\ Len(stack) > 1 /\ Shows(Front(stack), selected)
ShowWireless == Uses /\ Top.kind # "wireless" /\ Shows(<<Home, Screen("wireless", Network)>>, selected)

-----------------------------------------------------------------------------
(* An action of the catalog: its parameter, its confirmation, its command *)

Idle == [at |-> "idle", do |-> "none", target |-> Network, module |-> None, close |-> 0]
Dialogs == {"param", "confirm", "config", "module", "policy", "unbind"}
AfterParameter(do) == IF do \in WithConfirmation THEN "confirm" ELSE "go"
AfterStart(do) == IF do \in WithParameter THEN "param" ELSE AfterParameter(do)
At(w, at) == [flows EXCEPT ![w].at = at]
Ends(w) == flows' = [flows EXCEPT ![w] = Idle]
Shown(w, at) == IF at \in Dialogs THEN Append(modal, w) ELSE modal

\* Refused while another one runs, which is only said once that one has begun.
StartAction(w, do, t, close) ==
  /\ Uses /\ flows[w].at = "idle" /\ ~running
  /\ flows' = [flows EXCEPT ![w] = [at |-> "start", do |-> do, target |-> t, module |-> None, close |-> close]]
  /\ UNCHANGED <<env, selected, screens, running, sent>>
FromCommands(w, dos) == Top.kind = "commands" /\ \E do \in Top.list \cap dos : StartAction(w, do, Top.target, Len(stack))
Shortcuts(i) == {"sensor.fft"} \cup IF i = Other THEN {"sensor.measure_reset", "sensor.baseline_learn", "sensor.status"} ELSE {}
FromSensor(w, dos) ==
  /\ Top.kind = "sensor"
  /\ \E do \in Shortcuts(Top.target[2]) \cap ActionsFor(Top.target) \cap dos : StartAction(w, do, Top.target, 0)

KeptChoice(do, i) == selected
\* An action for a sensor selects it: what the action calls is for the selected one.
Chosen(do, i) == i
Begin(w) ==
  /\ flows[w].at = "start" /\ running' = TRUE
  /\ flows' = At(w, AfterStart(flows[w].do)) /\ modal' = Shown(w, AfterStart(flows[w].do))
  /\ UNCHANGED <<env, selected, stack, sent, inputs>>
Onwards(w) ==
  CASE flows[w].at = "param" -> AfterParameter(flows[w].do)
    [] flows[w].at = "config" -> "apply"
    [] flows[w].at = "module" -> "policy"
    [] flows[w].at \in {"policy", "unbind"} -> "associate"
    [] OTHER -> "go"
Answered(w) == modal # <<>> /\ w = Last(modal) /\ inputs < MaxInputs /\ inputs' = inputs + 1
Accept(w) ==
  /\ Answered(w) /\ flows' = At(w, Onwards(w))
  /\ modal' = IF Onwards(w) \in Dialogs THEN modal ELSE Front(modal)
  /\ UNCHANGED <<env, selected, stack, running, sent>>
\* The wireless dialogs are no actions of the catalog.
IsAction(w) == flows[w].do \in Actions
Cancel(w) ==
  /\ Answered(w) /\ Ends(w) /\ modal' = Front(modal) /\ running' = (running /\ ~IsAction(w))
  /\ UNCHANGED <<env, selected, stack, sent>>

\* The screen that asked is closed, if it is still the one on top.
Closed(w) == IF Free /\ flows[w].close = Len(stack) /\ Top.kind = "commands" THEN Front(stack) ELSE stack
CanCommand(do, t) == {S(do, IF do = "network.probe_status" THEN <<"probe", 0>> ELSE t, "action", t[2])}
Finishes(w) == Ends(w) /\ running' = FALSE /\ UNCHANGED modal
ForNetwork(w) == Finishes(w) /\ SendRaw(CanCommand(flows[w].do, flows[w].target)) /\ UNCHANGED selected
ForNode(w) == Finishes(w) /\ SendRaw(CanCommand(flows[w].do, flows[w].target)) /\ selected' = None
ForSensor(w, do, i) ==
  CASE WithoutPlane(i) -> Finishes(w) /\ UNCHANGED <<selected, sent>>
    [] ~WithoutPlane(i) /\ do = "sensor.configure" /\ i \in Known ->
         /\ flows' = At(w, "config") /\ modal' = Append(modal, w)
         /\ selected' = Chosen(do, i) /\ UNCHANGED <<running, sent>>
    [] ~WithoutPlane(i) /\ do = "sensor.configure" /\ i \notin Known -> Finishes(w) /\ selected' = Chosen(do, i) /\ UNCHANGED sent
    [] OTHER -> Finishes(w) /\ selected' = Chosen(do, i) /\ ForSelected(do, Chosen(do, i), "action", i)
Execute(w) ==
  /\ flows[w].at = "go" /\ stack' = Closed(w)
  /\ CASE flows[w].target[1] = "network" -> ForNetwork(w)
       [] flows[w].target[1] = "node" -> ForNode(w)
       [] OTHER -> ForSensor(w, flows[w].do, flows[w].target[2])
  /\ UNCHANGED <<env, inputs>>
\* The form was filled in: the configuration goes to the sensor it was opened for.
ApplyConfigRequest(w) ==
  /\ flows[w].at = "apply" /\ Finishes(w)
  /\ LET i == flows[w].target[2]
     IN  SendRaw(IF i \in Known THEN {S("sensor.configure", a, "action", i) : a \in Address("sensor.configure", i)} ELSE {})
  /\ UNCHANGED <<env, selected, stack, inputs>>

-----------------------------------------------------------------------------
(* Binding, unbinding and the policy of the wireless sensor *)

RequestWireless(w, do, at, n) ==
  /\ Uses /\ Top.kind = "wireless" /\ mode = "GATEWAY_CAN" /\ flows[w].at = "idle"
  /\ flows' = [flows EXCEPT ![w] = [Idle EXCEPT !.at = at, !.do = do, !.module = n]] /\ modal' = Append(modal, w)
  /\ UNCHANGED <<env, selected, stack, running, sent>>
\* The operator chooses among the modules that hear it.
RequestBind(w) == ~Bound /\ \E n \in Modules : RequestWireless(w, "BIND", "module", n)
RequestPolicy(w) == Bound /\ RequestWireless(w, "POLICY", "policy", owner)
RequestUnbind(w) == Bound /\ RequestWireless(w, "UNBIND", "unbind", owner)
Associate(w) ==
  /\ flows[w].at = "associate" /\ Ends(w)
  /\ SendRaw({S(flows[w].do, Node(flows[w].module), "wireless", flows[w].module)})
  /\ UNCHANGED <<env, selected, screens, running, inputs>>

-----------------------------------------------------------------------------
(* Commands that are typed *)

Typed(sel) == Uses /\ selected' = sel /\ UNCHANGED <<env, screens, running, flows>>
Unnamed == {"sensor.status", "sensor.telemetry_on", "sensor.telemetry_off", "sensor.telemetry_once", "sensor.telemetry_period",
            "sensor.restart_acq", "sensor.wifi_on", "sensor.wifi_off", "sensor.wifi_status", "sensor.stop_now"}
Named == {"sensor.fft", "sensor.dtc_refresh", "sensor.dtc_clear", "sensor.configure"} \cup AcousticActions
\* Those that may name a sensor select it, if it is known.
Meant(i) == IF i \in Known THEN i ELSE selected
Line(do, i) == Typed(Meant(i)) /\ ForSelected(do, Meant(i), "line", i)
LineForSelected(do) == Typed(selected) /\ ForSelected(do, selected, "line", None)
LineForNode(t) ==
  /\ Uses /\ Len(stack) < 3 /\ t \in Targets \ {Network}
  /\ Shows(Append(stack, Screen(t[1], t)), IF t[1] = "sensor" THEN t[2] ELSE None)
LineForNetwork(do) == Typed(selected) /\ SendRaw({S(do, Network, "line", None)})
LineForAssociation ==
  /\ Typed(selected) /\ mode = "GATEWAY_CAN"
  /\ \/ ~Bound /\ \E n \in Modules : SendRaw({S("BIND", Node(n), "wireless", n)})
     \/ Bound /\ \E do \in {"POLICY", "UNBIND"} : SendRaw({S(do, Node(owner), "wireless", owner)})
Lines(dos) ==
  \/ \E do \in Named \cap dos, i \in Sensors : Line(do, i)
  \/ \E do \in (Named \cup Unnamed) \cap dos : LineForSelected(do)
  \/ \E t \in Targets : LineForNode(t)
  \/ \E do \in {"network.status", "network.election"} \cap dos : LineForNetwork(do)
  \/ LineForAssociation

-----------------------------------------------------------------------------
(* What happens meanwhile *)

Handover(n) ==
  /\ mode # "SENSOR_DIRECT" /\ n # owner /\ owner' = n /\ plane' \in {FALSE, n # None}
  /\ selected' = IF Bound /\ selected = owner THEN None ELSE selected
  /\ UNCHANGED <<mode, guard, key, screens, running, flows, sent, inputs>>
PlaneChanges == Bound /\ plane' = ~plane /\ UNCHANGED <<mode, guard, key, owner, selected, screens, running, flows, sent, inputs>>
KeyMoves == guard = "presence" /\ key' = ~key /\ UNCHANGED <<mode, guard, owner, plane, selected, screens, running, flows, sent, inputs>>

\* The operator may already have chosen what his commands are for.
Init ==
  /\ mode \in Connections /\ guard \in {"off", "presence", "refused"} /\ key = FALSE
  /\ owner \in (IF mode = "SENSOR_DIRECT" THEN {} ELSE Modules) \cup {None} /\ plane = FALSE
  /\ selected \in Known /\ stack \in {<<Home>>} \cup {<<Home, Screen("commands", t)>> : t \in Targets} /\ modal = <<>> /\ running = FALSE
  /\ flows = [w \in Workers |-> Idle]
  /\ sent = [call |-> Nothing, fit |-> TRUE, right |-> TRUE, known |-> {}] /\ inputs = 0

Navigate ==
  \/ OpenCommands \/ GoHome \/ GoBack \/ ShowWireless
  \/ \E t \in Targets : SetTarget(t) \/ (t # Network /\ OpenTarget(t))
Flow(w, dos) ==
  \/ FromCommands(w, dos) \/ FromSensor(w, dos) \/ Begin(w) \/ Accept(w) \/ Cancel(w) \/ Execute(w) \/ ApplyConfigRequest(w)
  \/ RequestBind(w) \/ RequestPolicy(w) \/ RequestUnbind(w) \/ Associate(w)
World == (\E n \in Modules \cup {None} : Handover(n)) \/ PlaneChanges \/ KeyMoves \/ Refresh
Operates(dos) == Navigate \/ Lines(dos) \/ World \/ \E w \in Workers : Flow(w, dos)
Next == Operates(Actions)

Spec == Init /\ [][Next]_vars

-----------------------------------------------------------------------------
TypeOK ==
  /\ mode \in Connections /\ guard \in {"off", "presence", "refused"} /\ key \in BOOLEAN
  /\ owner \in Modules \cup {None} /\ plane \in BOOLEAN /\ selected \in Sensors \cup {None}
  /\ Len(stack) \in 1 .. 4 /\ modal \in BoundedSeq(Workers, 2) /\ running \in BOOLEAN
  /\ \A w \in Workers : flows[w].at \in Dialogs <=> w \in Range(modal)
  /\ sent.fit \in BOOLEAN /\ sent.right \in BOOLEAN /\ sent.known \subseteq Sensors /\ inputs \in 0 .. MaxInputs

\* An action of the catalog reaches the sensor it was chosen for, however long
\* the dialogs stay open and whatever selects another one meanwhile; once that
\* sensor is gone nothing but a query is sent. Its session is up at that moment,
\* except for a configuration: the code looks at the session before the form opens
\* and not again (app.py:2254-2262, 2294-2299, 1695-1745; see SentInSession). And
\* what the catalog calls protected is never sent without the authorization of
\* that moment.
CommandReachesItsSensor ==
  LET c == sent.call
  IN  (c.by = "action" /\ c.do \in SensorActions) =>
        /\ c.to \in {Sensor(c.named), Direct} \/ (c.named \notin sent.known /\ c.do \in Queries)
        /\ sent.fit \/ c.do = "sensor.configure"
        /\ c.do \in Protected => sent.right \/ mode = "DEMO"

\* Telemetry and configuration of a wireless sensor are sent only while its module
\* has a session with it (app.py:2252). The code keeps this of every action of the
\* catalog but the configuration.
SentInSession == (sent.call.by = "action" /\ sent.call.do \in SensorActions) => sent.fit

\* A line that names a sensor is for that sensor or for none.
LineReachesItsSensor ==
  (sent.call.by = "line" /\ sent.call.named # None /\ sent.call.to[1] = "sensor") => sent.call.to = Sensor(sent.call.named)
=============================================================================
