----------------------- MODULE OperatorCommands_proofs -----------------------
(* Proofs about module OperatorCommands, for any modules, any profiles of the
   sensors, any number of inputs and any part of the catalog: a command of the
   catalog reaches the sensor it was chosen for, or none.                     *)
EXTENDS OperatorCommands, SequenceTheorems, TLAPS

-----------------------------------------------------------------------------
(* The inductive invariant: the screens list, and the actions on their way
   hold, only what is for their target in the mode of the connection. What was
   offered a while ago still is: the mode stays for as long as the port does.  *)

Places == {Network} \cup {Node(n) : n \in Modules} \cup {Sensor(i) : i \in Sensors}
Kinds == {"home", "wireless", "commands", "network", "node", "sensor"}
Views == [kind : Kinds, target : Places, list : SUBSET Actions]

Suits(do, t) == do \in SensorActions => t[1] = "sensor" /\ InMode(do, mode)
Suited(s) == \A do \in s.list : Suits(do, s.target)

\* The first screen is never closed: there is one on top to ask from.
Stacked ==
  /\ stack \in Seq(Views) /\ Len(stack) > 0 /\ stack[1].kind # "commands"
  /\ \A k \in 1 .. Len(stack) : Suited(stack[k])
Flowing ==
  /\ DOMAIN flows = Workers
  /\ \A w \in Workers : DOMAIN flows[w] = DOMAIN Idle /\ Suits(flows[w].do, flows[w].target)
Owned == owner \in Modules \cup {None}

Inv == Owned /\ Stacked /\ Flowing /\ CommandReachesItsSensor

\* The parts of the catalog have nothing in common.
LEMMA CatalogIsDisjoint ==
  /\ \A do \in SensorActions : do \notin NetworkActions /\ do \notin NodeActions /\ do \in Actions
  /\ SensorActions \cap {"none", "BIND", "POLICY", "UNBIND"} = {}
BY DEF SensorActions, NetworkActions, NodeActions, AcousticActions, BareActions, Actions

LEMMA PlacesAre ==
  ASSUME Owned
  PROVE  /\ Targets \subseteq Places /\ FirstTarget \in Places
         /\ \A t : Retargeted(t) \in Places
<1>1. Other \in Sensors /\ \A i \in Known : i \in Sensors
  BY DEF Owned, Known, Sensors, Bound
<1>2. Targets \subseteq Places /\ FirstTarget \in Places
  BY <1>1 DEF Targets, FirstTarget, Places
<1> QED BY <1>2 DEF Retargeted

LEMMA PlaceHasKind == \A t \in Places : t[1] \in Kinds
<1>1. \A n : Node(n)[1] = "node" /\ Sensor(n)[1] = "sensor"
  BY DEF Node, Sensor
<1>2. Network[1] = "network"
  BY DEF Network
<1> QED BY <1>1, <1>2 DEF Places, Kinds

\* What is offered for a target is for it.
LEMMA OfferedSuits ==
  ASSUME NEW t
  PROVE  /\ Offered(t) \subseteq ActionsFor(t) /\ ActionsFor(t) \subseteq Actions
         /\ \A do \in ActionsFor(t) : Suits(do, t)
<1>1. Offered(t) \subseteq ActionsFor(t) /\ ActionsFor(t) \subseteq Actions
  BY DEF Offered, ActionsFor
<1>2. ASSUME NEW do \in ActionsFor(t), do \in SensorActions PROVE t[1] = "sensor" /\ InMode(do, mode)
  <2>1. Scope(do) = t[1] /\ InMode(do, mode)
    BY <1>2 DEF ActionsFor
  <2>2. Scope(do) = "sensor"
    BY <1>2, CatalogIsDisjoint DEF Scope
  <2> QED BY <2>1, <2>2
<1> QED BY <1>1, <1>2 DEF Suits

LEMMA ScreenIs ==
  ASSUME NEW kind \in Kinds, NEW t \in Places
  PROVE  /\ Screen(kind, t) \in Views /\ Suited(Screen(kind, t))
         /\ Screen(kind, t).kind = kind /\ Screen(kind, t).target = t
<1>1. Screen(kind, t) \in Views
  BY OfferedSuits DEF Screen, Views
<1>2. Suited(Screen(kind, t))
  BY OfferedSuits DEF Screen, Suited
<1> QED BY <1>1, <1>2 DEF Screen

LEMMA HomeIs == Home \in Views /\ Suited(Home) /\ Home.kind # "commands"
<1>1. Network \in Places
  BY DEF Places
<1>2. "home" \in Kinds /\ "home" # "commands"
  BY DEF Kinds
<1> QED BY <1>1, <1>2, ScreenIs DEF Home

\* What suits goes on to suit.
LEMMA SuitsStill ==
  ASSUME UNCHANGED mode
  PROVE  /\ \A do, t : Suits(do, t) => Suits(do, t)'
         /\ \A s : Suited(s) => Suited(s)'
BY DEF Suits, Suited, InMode

-----------------------------------------------------------------------------
(* What may become of the screens *)

LEMMA TopIs ==
  ASSUME Stacked
  PROVE  /\ Top = stack[Len(stack)] /\ Top \in Views /\ Suited(Top)
         /\ Top.kind = "commands" => Len(stack) > 1
BY DEF Stacked, Top, Last

LEMMA ScreensStay == ASSUME Stacked, UNCHANGED <<mode, stack>> PROVE Stacked'
BY SuitsStill DEF Stacked

LEMMA PushKeeps ==
  ASSUME Stacked, UNCHANGED mode, NEW s \in Views, Suited(s), stack' = Append(stack, s)
  PROVE  Stacked'
<1>1. stack \in Seq(Views) /\ Len(stack) > 0 /\ Len(stack) \in Nat
  BY DEF Stacked
<1>2. /\ stack' \in Seq(Views) /\ Len(stack') = Len(stack) + 1 /\ stack'[Len(stack) + 1] = s
      /\ \A k \in 1 .. Len(stack) : stack'[k] = stack[k]
  BY <1>1
<1>3. \A k \in 1 .. Len(stack') : Suited(stack'[k])
  BY <1>1, <1>2 DEF Stacked
<1>4. stack'[1].kind # "commands"
  BY <1>1, <1>2 DEF Stacked
<1> QED BY <1>1, <1>2, <1>3, <1>4, SuitsStill DEF Stacked

LEMMA ReplaceKeeps ==
  ASSUME Stacked, UNCHANGED mode, NEW s \in Views, Suited(s), Len(stack) > 1,
         stack' = [stack EXCEPT ![Len(stack)] = s]
  PROVE  Stacked'
<1> DEFINE q == [stack EXCEPT ![Len(stack)] = s]
<1>1. stack \in Seq(Views) /\ Len(stack) \in Nat
  BY DEF Stacked
<1>2. /\ q \in Seq(Views) /\ Len(q) = Len(stack) /\ q[Len(stack)] = s
      /\ \A k \in 1 .. Len(stack) : k # Len(stack) => q[k] = stack[k]
  BY <1>1
<1>3. stack' = q
  OBVIOUS
<1> HIDE DEF q
<1>4. ASSUME NEW k \in 1 .. Len(q) PROVE Suited(q[k])
  <2>1. CASE k = Len(stack)
    BY <1>2, <2>1
  <2>2. CASE k # Len(stack)
    BY <1>2, <2>2 DEF Stacked
  <2> QED BY <2>1, <2>2
<1>5. 1 \in 1 .. Len(stack) /\ 1 # Len(stack)
  BY <1>1
<1>6. q[1].kind # "commands"
  BY <1>2, <1>5 DEF Stacked
<1>7. Len(q) > 0
  BY <1>1, <1>2
<1> QED BY <1>2, <1>3, <1>4, <1>6, <1>7, SuitsStill DEF Stacked

LEMMA FrontKeeps ==
  ASSUME Stacked, UNCHANGED mode, Len(stack) > 1, stack' = Front(stack)
  PROVE  Stacked'
<1>1. stack \in Seq(Views) /\ Len(stack) \in Nat
  BY DEF Stacked
<1>2. /\ stack' \in Seq(Views) /\ Len(stack') = Len(stack) - 1
      /\ \A k \in 1 .. Len(stack) - 1 : stack'[k] = stack[k]
  BY <1>1 DEF Front
<1>3. \A k \in 1 .. Len(stack') : Suited(stack'[k])
  BY <1>1, <1>2 DEF Stacked
<1>4. stack'[1].kind # "commands"
  BY <1>1, <1>2 DEF Stacked
<1> QED BY <1>1, <1>2, <1>3, <1>4, SuitsStill DEF Stacked

LEMMA HomeKeeps ==
  ASSUME UNCHANGED mode, NEW s \in Views, Suited(s), stack' = <<Home>> \/ stack' = <<Home, s>>
  PROVE  Stacked'
<1>1. CASE stack' = <<Home>>
  <2>1. stack' \in Seq(Views) /\ Len(stack') = 1 /\ stack'[1] = Home
    BY <1>1, HomeIs
  <2> QED BY <2>1, HomeIs, SuitsStill DEF Stacked
<1>2. CASE stack' = <<Home, s>>
  <2>1. stack' \in Seq(Views) /\ Len(stack') = 2 /\ stack'[1] = Home /\ stack'[2] = s
    BY <1>2, HomeIs
  <2>2. \A k \in 1 .. Len(stack') : Suited(stack'[k])
    BY <2>1, HomeIs
  <2> QED BY <2>1, <2>2, HomeIs, SuitsStill DEF Stacked
<1> QED BY <1>1, <1>2

-----------------------------------------------------------------------------
(* What may become of the actions, and what is sent *)

LEMMA FlowsStay == ASSUME Flowing, UNCHANGED <<mode, flows>> PROVE Flowing'
BY SuitsStill DEF Flowing

\* The action of one worker goes a step further, ends, or is another one that
\* suits.
LEMMA FlowKeeps ==
  ASSUME Flowing, UNCHANGED mode, NEW w \in Workers, NEW f, DOMAIN f = DOMAIN Idle, Suits(f.do, f.target),
         flows' = [flows EXCEPT ![w] = f]
  PROVE  Flowing'
BY SuitsStill DEF Flowing

LEMMA AtKeeps ==
  ASSUME Flowing, UNCHANGED mode, NEW w \in Workers, NEW at, flows' = At(w, at)
  PROVE  Flowing'
<1> DEFINE f == [flows[w] EXCEPT !.at = at]
<1>1. DOMAIN f = DOMAIN Idle /\ f.do = flows[w].do /\ f.target = flows[w].target
  BY DEF Flowing, Idle
<1>2. flows' = [flows EXCEPT ![w] = f]
  BY DEF At
<1> QED BY <1>1, <1>2, FlowKeeps DEF Flowing

LEMMA EndKeeps ==
  ASSUME Flowing, UNCHANGED mode, NEW w \in Workers, Ends(w)
  PROVE  Flowing'
<1>1. Suits(Idle.do, Idle.target)
  BY CatalogIsDisjoint DEF Suits, Idle
<1> QED BY <1>1, FlowKeeps DEF Ends

\* What the property asks of a command when it is sent.
Due(c) ==
  c.by = "action" /\ c.do \in SensorActions =>
    /\ c.to \in {Sensor(c.named), Direct} \/ (c.named \notin Known /\ c.do \in Queries)
    /\ Fit(c) \/ c.do = "sensor.configure"
    /\ c.do \in Protected => RequiresAuth(c)

LEMMA SentStays == ASSUME CommandReachesItsSensor, UNCHANGED <<mode, sent>> PROVE CommandReachesItsSensor'
BY DEF CommandReachesItsSensor

LEMMA SendingKeeps ==
  ASSUME CommandReachesItsSensor, UNCHANGED mode, NEW cs, SendRaw(cs),
         \A c \in cs : Due(c), \A c, d \in cs : c = d
  PROVE  CommandReachesItsSensor'
<1>1. CASE \E c \in cs : mode = "DEMO" \/ ~RequiresAuth(c) \/ Authorized
  <2>1. PICK c \in cs : mode = "DEMO" \/ ~RequiresAuth(c) \/ Authorized
    BY <1>1
  <2>2. (CHOOSE d \in cs : TRUE) = c
    BY <2>1
  <2>3. sent' = [call |-> c, fit |-> Fit(c), right |-> Authorized, known |-> Known]
    BY <1>1, <2>2 DEF SendRaw
  <2>4. sent'.call = c /\ sent'.fit = Fit(c) /\ sent'.right = Authorized /\ sent'.known = Known
    BY <2>3
  <2>5. Due(c)
    OBVIOUS
  <2> QED BY <2>1, <2>4, <2>5 DEF CommandReachesItsSensor, Due
<1>2. CASE ~\E c \in cs : mode = "DEMO" \/ ~RequiresAuth(c) \/ Authorized
  BY <1>2, SentStays DEF SendRaw
<1> QED BY <1>1, <1>2

\* A command that is no action of a sensor has nothing to keep.
LEMMA OthersAreDue ==
  ASSUME NEW do, NEW to, NEW by, NEW named, by # "action" \/ do \notin SensorActions
  PROVE  Due(S(do, to, by, named))
BY DEF Due, S

\* Where a request for sensor i goes.
LEMMA AddressIs ==
  ASSUME NEW do, NEW i, NEW a \in Address(do, i)
  PROVE  /\ Address(do, i) = {a}
         /\ \/ a = Direct
            \/ a = Sensor(i) /\ i \in Known
            \/ i \notin Known /\ mode # "SENSOR_DIRECT" /\ a = <<"probe", 0>> /\ do = "sensor.status"
            \/ /\ i \notin Known /\ mode = "GATEWAY_CAN" /\ a = <<"gateway", 0>>
               /\ do \in {"sensor.wifi_status", "sensor.wifi_on", "sensor.wifi_off"}
<1>1. CASE mode = "SENSOR_DIRECT"
  <2>1. Address(do, i) \in {{Direct}, {}}
    BY <1>1 DEF Address
  <2>2. Address(do, i) = {Direct}
    BY <2>1
  <2> QED BY <2>2
<1>2. CASE mode # "SENSOR_DIRECT" /\ i \in Known
  <2>1. Address(do, i) = {Sensor(i)}
    BY <1>2 DEF Address
  <2> QED BY <1>2, <2>1
<1>3. CASE mode # "SENSOR_DIRECT" /\ i \notin Known
  <2>1. Address(do, i) = Elsewhere(do)
    BY <1>3 DEF Address
  <2>2. a \in Elsewhere(do)
    BY <2>1
  <2>3. CASE do = "sensor.status"
    BY <1>3, <2>1, <2>2, <2>3 DEF Elsewhere
  <2>4. CASE do # "sensor.status"
    BY <1>3, <2>1, <2>2, <2>4 DEF Elsewhere
  <2> QED BY <2>3, <2>4
<1> QED BY <1>1, <1>2, <1>3

LEMMA ActionIsDue ==
  ASSUME NEW do, NEW i, NEW a \in Address(do, i), Suits(do, <<"sensor", i>>), ~WithoutPlane(i) \/ do = "sensor.configure"
  PROVE  Due(S(do, a, "action", i))
<1> SUFFICES ASSUME do \in SensorActions
             PROVE  /\ a \in {Sensor(i), Direct} \/ (i \notin Known /\ do \in Queries)
                    /\ Fit(S(do, a, "action", i)) \/ do = "sensor.configure"
                    /\ do \in Protected => RequiresAuth(S(do, a, "action", i))
  BY DEF Due, S
<1>1. InMode(do, mode)
  BY DEF Suits
<1>2. a \in {Sensor(i), Direct} \/ (i \notin Known /\ do \in Queries)
  <2>1. mode = "GATEWAY_CAN" => do \notin {"sensor.wifi_on", "sensor.wifi_off"}
    BY <1>1 DEF InMode, BareActions
  <2> QED BY <2>1, AddressIs DEF Queries
<1>3. Fit(S(do, a, "action", i)) \/ do = "sensor.configure"
  BY AddressIs DEF Fit, S, Sensor, Direct
<1>4. do \in Protected => RequiresAuth(S(do, a, "action", i))
  BY DEF Protected, RequiresAuth, S
<1> QED BY <1>2, <1>3, <1>4

-----------------------------------------------------------------------------
(* Every step keeps it: navigation *)

LEMMA NavigateKeeps ==
  ASSUME Inv, Navigate
  PROVE  Inv'
<1>1. UNCHANGED <<env, flows, sent>>
  BY DEF Navigate, OpenCommands, GoHome, GoBack, ShowWireless, SetTarget, OpenTarget, Shows
<1>2. /\ UNCHANGED mode /\ Owned' /\ Flowing' /\ CommandReachesItsSensor'
      /\ Owned /\ Stacked
  BY <1>1, FlowsStay, SentStays DEF Inv, env, Owned
<1>3. "commands" \in Kinds /\ "wireless" \in Kinds /\ Network \in Places
  BY DEF Kinds, Places
<1>4. ASSUME NEW t PROVE Screen("commands", Retargeted(t)) \in Views /\ Suited(Screen("commands", Retargeted(t)))
  BY <1>2, <1>3, PlacesAre, ScreenIs
<1>5. CASE OpenCommands
  BY <1>2, <1>4, <1>5, PushKeeps DEF OpenCommands, Shows, Inv
<1>6. CASE GoHome
  BY <1>2, <1>6, HomeIs, HomeKeeps DEF GoHome, Shows, Inv
<1>7. CASE GoBack
  BY <1>2, <1>7, FrontKeeps DEF GoBack, Shows, Inv
<1>8. CASE ShowWireless
  BY <1>2, <1>3, <1>8, ScreenIs, HomeKeeps DEF ShowWireless, Shows, Inv
<1>9. ASSUME NEW t \in Targets, SetTarget(t) PROVE Inv'
  <2>1. t \in Places
    BY <1>2, PlacesAre
  <2>2. Screen("commands", t) \in Views /\ Suited(Screen("commands", t))
    BY <1>3, <2>1, ScreenIs
  <2> QED BY <1>2, <1>9, <2>2, TopIs, ReplaceKeeps DEF SetTarget, Shows, Inv
<1>10. ASSUME NEW t \in Targets, OpenTarget(t) PROVE Inv'
  <2>1. t \in Places /\ t[1] \in Kinds
    BY <1>2, PlacesAre, PlaceHasKind
  <2>2. Screen(t[1], t) \in Views /\ Suited(Screen(t[1], t))
    BY <2>1, ScreenIs
  <2> QED BY <1>2, <1>10, <2>2, PushKeeps DEF OpenTarget, Shows, Inv
<1> QED BY <1>5, <1>6, <1>7, <1>8, <1>9, <1>10 DEF Navigate

-----------------------------------------------------------------------------
(* Lines *)

\* What is typed is no action of the catalog.
LEMMA TypedIsDue ==
  ASSUME CommandReachesItsSensor, UNCHANGED mode, NEW do, NEW s, NEW named, ForSelected(do, s, "line", named)
  PROVE  CommandReachesItsSensor'
<1>1. CASE UNCHANGED sent
  BY <1>1, SentStays
<1>2. CASE SendRaw({S(do, a, "line", named) : a \in Address(do, s)})
  <2>1. \A c \in {S(do, a, "line", named) : a \in Address(do, s)} : Due(c)
    BY OthersAreDue
  <2>2. \A a, b \in Address(do, s) : a = b
    BY AddressIs
  <2> QED BY <1>2, <2>1, <2>2, SendingKeeps
<1> QED BY <1>1, <1>2 DEF ForSelected

LEMMA OneIsDue ==
  ASSUME CommandReachesItsSensor, UNCHANGED mode, NEW do, NEW to, NEW by, NEW named,
         by # "action" \/ do \notin SensorActions, SendRaw({S(do, to, by, named)})
  PROVE  CommandReachesItsSensor'
<1>1. \A c \in {S(do, to, by, named)} : Due(c)
  BY OthersAreDue
<1> QED BY <1>1, SendingKeeps

LEMMA LinesKeep ==
  ASSUME Inv, NEW dos, Lines(dos)
  PROVE  Inv'
<1>1. UNCHANGED <<env, flows>>
  BY DEF Lines, Line, LineForSelected, LineForNode, LineForNetwork, LineForAssociation, Typed, Shows
<1>2. /\ UNCHANGED mode /\ Owned' /\ Flowing' /\ Owned /\ Stacked /\ CommandReachesItsSensor
  BY <1>1, FlowsStay DEF Inv, env, Owned
<1>3. ASSUME NEW sel, Typed(sel), CommandReachesItsSensor' PROVE Inv'
  BY <1>2, <1>3, ScreensStay DEF Typed, screens, Inv
<1>4. ASSUME NEW do, NEW i, Line(do, i) PROVE Inv'
  BY <1>2, <1>3, <1>4, TypedIsDue DEF Line
<1>5. ASSUME NEW do, LineForSelected(do) PROVE Inv'
  BY <1>2, <1>3, <1>5, TypedIsDue DEF LineForSelected
<1>6. ASSUME NEW t \in Targets, LineForNode(t) PROVE Inv'
  <2>1. t \in Places /\ t[1] \in Kinds
    BY <1>2, PlacesAre, PlaceHasKind
  <2>2. Screen(t[1], t) \in Views /\ Suited(Screen(t[1], t))
    BY <2>1, ScreenIs
  <2>3. CommandReachesItsSensor'
    BY <1>2, <1>6, SentStays DEF LineForNode, Shows
  <2> QED BY <1>2, <1>6, <2>2, <2>3, PushKeeps DEF LineForNode, Shows, Inv
<1>7. ASSUME NEW do, LineForNetwork(do) PROVE Inv'
  BY <1>2, <1>3, <1>7, OneIsDue DEF LineForNetwork
<1>8. CASE LineForAssociation
  <2>1. CASE \E n \in Modules : SendRaw({S("BIND", Node(n), "wireless", n)})
    BY <1>2, <1>3, <1>8, <2>1, OneIsDue DEF LineForAssociation
  <2>2. CASE \E do \in {"POLICY", "UNBIND"} : SendRaw({S(do, Node(owner), "wireless", owner)})
    BY <1>2, <1>3, <1>8, <2>2, OneIsDue DEF LineForAssociation
  <2> QED BY <1>8, <2>1, <2>2 DEF LineForAssociation
<1> QED BY <1>4, <1>5, <1>6, <1>7, <1>8 DEF Lines

-----------------------------------------------------------------------------
(* What happens meanwhile *)

LEMMA WorldKeeps ==
  ASSUME Inv, World
  PROVE  Inv'
<1>1. UNCHANGED <<mode, flows, sent>>
  BY DEF World, Handover, PlaneChanges, KeyMoves, Refresh, env
<1>2. Flowing' /\ CommandReachesItsSensor' /\ Owned /\ Stacked
  BY <1>1, FlowsStay, SentStays DEF Inv
<1>3. ASSUME NEW n \in Modules \cup {None}, Handover(n) PROVE Inv'
  BY <1>1, <1>2, <1>3, ScreensStay DEF Handover, screens, Owned, Inv
<1>4. CASE PlaneChanges \/ KeyMoves
  BY <1>1, <1>2, <1>4, ScreensStay DEF PlaneChanges, KeyMoves, screens, Owned, Inv
<1>5. CASE Refresh
  <2> DEFINE s == Screen("commands", Retargeted(Top.target))
  <2>1. "commands" \in Kinds /\ Retargeted(Top.target) \in Places
    BY <1>2, PlacesAre DEF Kinds
  <2>2. s \in Views /\ Suited(s)
    BY <2>1, ScreenIs
  <2>3. Len(stack) > 1 /\ stack' = [stack EXCEPT ![Len(stack)] = s] /\ UNCHANGED owner
    BY <1>2, <1>5, TopIs DEF Refresh, env
  <2> HIDE DEF s
  <2>4. Stacked'
    BY <1>1, <1>2, <2>2, <2>3, ReplaceKeeps
  <2> QED BY <1>2, <2>3, <2>4 DEF Owned, Inv
<1> QED BY <1>3, <1>4, <1>5 DEF World

-----------------------------------------------------------------------------
(* The actions of the catalog, and the wireless dialogs *)

LEMMA StartKeeps ==
  ASSUME Inv, NEW w \in Workers, NEW do, NEW t, NEW close, Suits(do, t), StartAction(w, do, t, close)
  PROVE  Inv'
<1> DEFINE f == [at |-> "start", do |-> do, target |-> t, module |-> None, close |-> close]
<1>1. UNCHANGED <<mode, owner, stack, sent>> /\ flows' = [flows EXCEPT ![w] = f]
  BY DEF StartAction, env, screens
<1>2. DOMAIN f = DOMAIN Idle /\ f.do = do /\ f.target = t
  BY DEF Idle
<1> HIDE DEF f
<1>3. Flowing'
  BY <1>1, <1>2, FlowKeeps DEF Inv
<1> QED BY <1>1, <1>3, ScreensStay, SentStays DEF Inv, Owned

LEMMA AskedKeeps ==
  ASSUME Inv, NEW w \in Workers, NEW dos, FromCommands(w, dos) \/ FromSensor(w, dos)
  PROVE  Inv'
<1>1. Suited(Top)
  BY TopIs DEF Inv
<1>2. CASE FromCommands(w, dos)
  BY <1>1, <1>2, StartKeeps DEF FromCommands, Suited
<1>3. CASE FromSensor(w, dos)
  BY <1>3, OfferedSuits, StartKeeps DEF FromSensor
<1> QED BY <1>2, <1>3

LEMMA DialogKeeps ==
  ASSUME Inv, NEW w \in Workers, Begin(w) \/ Accept(w) \/ Cancel(w)
  PROVE  Inv'
<1>1. UNCHANGED <<mode, owner, stack, sent>>
  BY DEF Begin, Accept, Cancel, env
<1>2. Flowing'
  BY <1>1, AtKeeps, EndKeeps DEF Begin, Accept, Cancel, Inv
<1> QED BY <1>1, <1>2, ScreensStay, SentStays DEF Inv, Owned

LEMMA ClosedKeeps ==
  ASSUME Stacked, UNCHANGED mode, NEW w, stack' = Closed(w)
  PROVE  Stacked'
BY TopIs, FrontKeeps, ScreensStay DEF Closed

LEMMA ExecuteKeeps ==
  ASSUME Inv, NEW w \in Workers, Execute(w)
  PROVE  Inv'
<1> DEFINE do == flows[w].do  t == flows[w].target  i == t[2]
<1>1. UNCHANGED <<mode, owner>> /\ stack' = Closed(w)
  BY DEF Execute, env
<1>2. Owned' /\ Stacked'
  BY <1>1, ClosedKeeps DEF Inv, Owned
<1>3. Suits(do, t) /\ Flowing /\ CommandReachesItsSensor
  BY DEF Inv, Flowing
<1> HIDE DEF do, t
<1>4. CASE t[1] \in {"network", "node"}
  <2>1. Ends(w) /\ SendRaw(CanCommand(do, t))
    BY <1>4 DEF Execute, ForNetwork, ForNode, Finishes, do, t
  <2>2. do \notin SensorActions
    BY <1>3, <1>4 DEF Suits
  <2>3. CommandReachesItsSensor'
    BY <1>1, <1>3, <2>1, <2>2, OneIsDue DEF CanCommand
  <2> QED BY <1>1, <1>2, <1>3, <2>1, <2>3, EndKeeps DEF Inv
<1>5. ASSUME Finishes(w), UNCHANGED sent PROVE Inv'
  BY <1>1, <1>2, <1>3, <1>5, EndKeeps, SentStays DEF Finishes, Inv
<1>6. CASE t[1] \notin {"network", "node"}
  <2>1. ForSensor(w, do, i)
    BY <1>6 DEF Execute, do, t
  <2>2. CASE WithoutPlane(i)
    BY <1>5, <2>1, <2>2 DEF ForSensor
  <2>3. CASE ~WithoutPlane(i) /\ do = "sensor.configure" /\ i \in Known
    <3>1. flows' = At(w, "config") /\ UNCHANGED sent
      BY <2>1, <2>3 DEF ForSensor
    <3> QED BY <1>1, <1>2, <1>3, <3>1, AtKeeps, SentStays DEF Inv
  <2>4. CASE ~WithoutPlane(i) /\ do = "sensor.configure" /\ i \notin Known
    <3>1. Finishes(w) /\ UNCHANGED sent
      BY <2>1, <2>4 DEF ForSensor
    <3> QED BY <1>5, <3>1
  <2>5. CASE ~WithoutPlane(i) /\ do # "sensor.configure"
    <3>1. Finishes(w) /\ ForSelected(do, i, "action", i)
      BY <2>1, <2>5 DEF ForSensor, Chosen
    <3>2. ASSUME SendRaw({S(do, a, "action", i) : a \in Address(do, i)}) PROVE CommandReachesItsSensor'
      <4>1. Suits(do, <<"sensor", i>>)
        BY <1>3 DEF Suits
      <4>2. \A c \in {S(do, a, "action", i) : a \in Address(do, i)} : Due(c)
        BY <2>5, <4>1, ActionIsDue
      <4>3. \A a, b \in Address(do, i) : a = b
        BY AddressIs
      <4> QED BY <1>1, <1>3, <3>2, <4>2, <4>3, SendingKeeps
    <3>3. CASE UNCHANGED sent
      BY <1>5, <3>1, <3>3
    <3>4. CASE ~UNCHANGED sent
      BY <1>1, <1>2, <1>3, <3>1, <3>2, <3>4, EndKeeps DEF ForSelected, Finishes, Inv
    <3> QED BY <3>3, <3>4
  <2> QED BY <2>2, <2>3, <2>4, <2>5
<1> QED BY <1>4, <1>6

LEMMA ApplyKeeps ==
  ASSUME Inv, NEW w \in Workers, ApplyConfigRequest(w)
  PROVE  Inv'
<1> DEFINE i == flows[w].target[2]
           cs == IF i \in Known THEN {S("sensor.configure", a, "action", i) : a \in Address("sensor.configure", i)} ELSE {}
<1>1. UNCHANGED <<mode, owner, stack>> /\ Finishes(w) /\ SendRaw(cs)
  BY DEF ApplyConfigRequest, env
<1>2. Suits("sensor.configure", <<"sensor", i>>)
  BY DEF Suits, InMode, BareActions
<1>3. \A c \in cs : Due(c)
  BY <1>2, ActionIsDue
<1>4. \A c, d \in cs : c = d
  <2>1. \A a, b \in Address("sensor.configure", i) : a = b
    BY AddressIs
  <2> QED BY <2>1
<1> HIDE DEF cs
<1>5. CommandReachesItsSensor'
  BY <1>1, <1>3, <1>4, SendingKeeps DEF Inv
<1> QED BY <1>1, <1>5, ScreensStay, EndKeeps DEF Finishes, Inv, Owned

LEMMA WirelessKeeps ==
  ASSUME Inv, NEW w \in Workers, RequestBind(w) \/ RequestPolicy(w) \/ RequestUnbind(w) \/ Associate(w)
  PROVE  Inv'
<1>1. ASSUME NEW do \in {"BIND", "POLICY", "UNBIND"}, NEW at, NEW n, RequestWireless(w, do, at, n) PROVE Inv'
  <2> DEFINE f == [Idle EXCEPT !.at = at, !.do = do, !.module = n]
  <2>1. UNCHANGED <<mode, owner, stack, sent>> /\ flows' = [flows EXCEPT ![w] = f]
    BY <1>1 DEF RequestWireless, env
  <2>2. DOMAIN f = DOMAIN Idle /\ f.do = do
    BY DEF Idle
  <2>3. Suits(f.do, f.target)
    BY <2>2, CatalogIsDisjoint DEF Suits
  <2> HIDE DEF f
  <2>4. Flowing'
    BY <2>1, <2>2, <2>3, FlowKeeps DEF Inv
  <2> QED BY <2>1, <2>4, ScreensStay, SentStays DEF Inv, Owned
<1>2. CASE Associate(w)
  <2>1. UNCHANGED <<mode, owner, stack>> /\ Ends(w)
    BY <1>2 DEF Associate, env, screens
  <2>2. CommandReachesItsSensor'
    BY <1>2, <2>1, OneIsDue DEF Associate, Inv
  <2> QED BY <2>1, <2>2, ScreensStay, EndKeeps DEF Inv, Owned
<1> QED BY <1>1, <1>2 DEF RequestBind, RequestPolicy, RequestUnbind

-----------------------------------------------------------------------------
LEMMA InvInit == Init => Inv
<1> SUFFICES ASSUME Init PROVE Inv
  OBVIOUS
<1>1. Owned
  BY DEF Init, Owned
<1>2. Flowing
  BY CatalogIsDisjoint DEF Init, Flowing, Suits, Idle
<1>3. CommandReachesItsSensor
  BY DEF Init, CommandReachesItsSensor, Nothing, S
<1>4. CASE stack = <<Home>>
  <2>1. stack \in Seq(Views) /\ Len(stack) = 1 /\ stack[1] = Home
    BY <1>4, HomeIs
  <2>2. Stacked
    BY <2>1, HomeIs DEF Stacked
  <2> QED BY <1>1, <1>2, <1>3, <2>2 DEF Inv
<1>5. ASSUME NEW t \in Targets, stack = <<Home, Screen("commands", t)>> PROVE Inv
  <2>1. "commands" \in Kinds /\ t \in Places
    BY <1>1, PlacesAre DEF Kinds
  <2>2. Screen("commands", t) \in Views /\ Suited(Screen("commands", t))
    BY <2>1, ScreenIs
  <2>3. stack \in Seq(Views) /\ Len(stack) = 2 /\ stack[1] = Home /\ stack[2] = Screen("commands", t)
    BY <1>5, <2>2, HomeIs
  <2>4. \A k \in 1 .. Len(stack) : Suited(stack[k])
    BY <2>2, <2>3, HomeIs
  <2>5. Stacked
    BY <2>3, <2>4, HomeIs DEF Stacked
  <2> QED BY <1>1, <1>2, <1>3, <2>5 DEF Inv
<1> QED BY <1>4, <1>5 DEF Init

LEMMA OperatesKeeps ==
  ASSUME Inv, NEW dos, Operates(dos)
  PROVE  Inv'
<1>1. ASSUME NEW w \in Workers, Flow(w, dos) PROVE Inv'
  BY <1>1, AskedKeeps, DialogKeeps, ExecuteKeeps, ApplyKeeps, WirelessKeeps DEF Flow
<1> QED BY <1>1, NavigateKeeps, LinesKeep, WorldKeeps DEF Operates

LEMMA InvSame == ASSUME Inv, UNCHANGED vars PROVE Inv'
<1>1. UNCHANGED <<mode, owner, stack, flows, sent>>
  BY DEF vars, env, screens
<1> QED BY <1>1, ScreensStay, FlowsStay, SentStays DEF Inv, Owned

\* An action of the catalog reaches the sensor it was chosen for, or none,
\* however long its dialogs stay open, whatever is selected, closed, handed over
\* or typed meanwhile, and with any number of actions waiting; its session is up
\* then, unless it is a configuration; and nothing that is protected goes without
\* the authorization of that moment (app.py _start_action and its successors,
\* command_catalog.py, security.py).
THEOREM CommandsReachTheirSensors == Spec => []CommandReachesItsSensor
<1>1. Init => Inv
  BY InvInit
<1>2. Inv /\ [Next]_vars => Inv'
  BY OperatesKeeps, InvSame DEF Next
<1>3. Inv => CommandReachesItsSensor
  BY DEF Inv
<1> QED BY <1>1, <1>2, <1>3, PTL DEF Spec
=============================================================================
