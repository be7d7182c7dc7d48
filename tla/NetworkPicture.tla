--------------------------- MODULE NetworkPicture ---------------------------
(***************************************************************************)
(* What the console shows of the functional modules, drawn only from the   *)
(* lines that Probe 00 prints of the frames it hears:                      *)
(*   src/Codigo/node-can/src/  main.ino, comandos.cpp, falhas.cpp          *)
(*   src/Front/pico_tui/protocol/legacy_gateway.py, gateway_text.py        *)
(*   src/Front/pico_tui/services/controller.py, core/state_store.py        *)
(*   src/Front/pico_tui/presentation.py                                    *)
(* One frame gives several lines, and each line replaces every field of    *)
(* the module it names, those it does not carry included.  The modules     *)
(* are in one network with one leader; how they come to have it is         *)
(* CanCoordination.                                                        *)
(***************************************************************************)
EXTENDS Naturals, Sequences, FiniteSets, SequencesExt

CONSTANTS
  Modules,         \* functional modules
  MaxFrames        \* bound: frames that are caused by somebody else than an obeying module

PictureAssumption == Modules \subseteq Nat \ {0} /\ IsFiniteSet(Modules) /\ Modules # {} /\ MaxFrames \in Nat

VARIABLES
  leader,          \* the leader of the network, or 0 while none is in office
  real,            \* what a module is: at work, sensor off, or in fault
  table,           \* what the leader has on record of it
  commands,        \* sensor commands that are on their way to a module
  known, observed, \* modules that the Probe has registered; the leader it has observed, or 0
  lines,           \* lines of the Probe that the console has yet to decode
  shown,           \* what the console has of each module
  misled,          \* modules that turned down the last command that was heard for them
  frames

network == <<leader, real, table, commands, misled>>
station == <<known, observed, lines>>
vars == <<network, station, shown, frames>>

Blank == [here |-> FALSE, status |-> "UNKNOWN", role |-> "UNKNOWN", can |-> "UNKNOWN", sensor |-> "UNKNOWN"]
Line(k, n, w) == [kind |-> k, node |-> n, word |-> w]

-----------------------------------------------------------------------------
(* The lines of the Probe *)

Discovered(n) == IF n \in known THEN <<>> ELSE <<Line("DISCOVERED", n, "")>>
Control(n, code) == <<Line("CONTROL", n, code)>>

(* 23 50 and 23 51: the state of a module, from itself or from the leader. *)
StateFrame(n, s) == Control(n, s) \o Discovered(n) \o <<Line("STATUS", n, s)>>
(* 23 21: the answer to a request.  The Probe does not register the module. *)
AnswerFrame(n, s) == Control(n, s) \o <<Line("STATUS", n, s)>>
(* 22 10: a command for the local sensor of a module. *)
CommandFrame(n, a) == <<Line("COMMAND", n, a)>>
(* 23 52: four bytes are too few to be an answer, the line after it is one. *)
AckFrame(n) == <<Line("CONTROL_ACK", n, ""), Line("CMD_ACK", n, "")>>
SensorFrame(n) == Discovered(n) \o <<Line("SENSOR", n, "1")>>
HeartbeatFrame(n) == (IF observed = n THEN <<>> ELSE <<Line("LEADER", n, "")>>) \o <<Line("HEARTBEAT", n, "")>>
LeaderFrame(n) == <<Line("ANNOUNCED", n, "")>>
ElectionFrame(n) == Discovered(n) \o <<Line("ELECTION", n, "")>>
JoinFrame(n) == Discovered(n) \o <<Line("JOIN", n, "")>>

Printed(ls) == lines' = lines \o ls
(* A confirmed fault is overwritten only by a forced state. *)
Recorded(n, s) == table' = [table EXCEPT ![n] = IF @ = "FALHA" THEN @ ELSE s]
Heard(n) == known' = known \cup {n}
LocalStatus(n) == IF n = leader THEN "LIDER" ELSE real[n]
(* The lines are decoded in the order of their frames: nothing is lost by *)
(* letting the next frame wait until they are.                            *)
Caused == frames < MaxFrames /\ frames' = frames + 1 /\ lines = <<>>
InOffice == leader # 0

-----------------------------------------------------------------------------
(* The network *)

Heartbeat ==
  /\ Caused /\ InOffice /\ Printed(HeartbeatFrame(leader)) /\ observed' = leader
  /\ UNCHANGED <<network, known, shown>>

(* At some heartbeats the leader repeats what it has on record of a module. *)
ReplicaEntry(n) ==
  /\ Caused /\ InOffice /\ Printed(StateFrame(n, table[n])) /\ Heard(n)
  /\ UNCHANGED <<network, observed, shown>>

StatusResponse(n) ==
  /\ Caused /\ Printed(AnswerFrame(n, LocalStatus(n))) /\ Recorded(n, LocalStatus(n))
  /\ UNCHANGED <<leader, real, commands, misled, known, observed, shown>>

SensorData(n) ==
  /\ Caused /\ n # leader /\ real[n] = "ATIVO" /\ Printed(SensorFrame(n)) /\ Heard(n) /\ Recorded(n, "ATIVO")
  /\ UNCHANGED <<leader, real, commands, misled, observed, shown>>

(* An election, in which a module in fault takes no part: all announce     *)
(* themselves, which the Probe registers, the others report as followers   *)
(* and the winner reports twice, before and after its announcement.        *)
Each(ms, Frame(_)) == LET s == SetToSeq(ms) IN FlattenSeq([i \in DOMAIN s |-> Frame(s[i])])
TakeOffice(n) ==
  LET voters == {m \in Modules : real[m] # "FALHA"}
      follows(m) == AnswerFrame(m, "ATIVO")
  IN  /\ Caused /\ n # leader /\ n \in voters
      /\ Printed(Each(voters, ElectionFrame) \o Each(voters \ {n}, follows) \o AnswerFrame(n, "LIDER")
                 \o LeaderFrame(n) \o AnswerFrame(n, "LIDER"))
      /\ leader' = n /\ observed' = n /\ known' = known \cup voters
      /\ table' = [m \in Modules |-> IF table[m] = "FALHA" THEN "FALHA" ELSE IF m = n THEN "LIDER" ELSE
                                     IF m \in voters THEN "ATIVO" ELSE table[m]]
      /\ UNCHANGED <<real, commands, misled, shown>>

(* The leader finds the readings of a module at fault and orders it to stop. *)
ConfirmFault(n) ==
  /\ Caused /\ InOffice /\ n # leader /\ table[n] # "FALHA"
  /\ Printed(StateFrame(n, "FALHA") \o CommandFrame(n, "DISABLE_FAULT")) /\ Heard(n)
  /\ table' = [table EXCEPT ![n] = "FALHA"] /\ commands' = [commands EXCEPT ![n] = Append(@, "DISABLE_FAULT")]
  /\ UNCHANGED <<leader, real, misled, observed, shown>>

(* A command typed at the console of another module; one typed at the *)
(* Probe has no line that the console would understand.               *)
TypeCommand(n, a, atProbe) ==
  /\ Caused /\ Printed(IF atProbe THEN <<Line("OTHER", n, "")>> ELSE CommandFrame(n, a))
  /\ commands' = [commands EXCEPT ![n] = Append(@, a)]
  /\ UNCHANGED <<leader, real, table, misled, known, observed, shown>>

Rejects(n, a) == real[n] = "FALHA" /\ a \in {"OFF", "ON"}
After(a) == CASE a = "OFF" -> "DESATIVADO" [] a = "DISABLE_FAULT" -> "FALHA" [] OTHER -> "ATIVO"

SensorControl(n) ==
  /\ commands[n] # <<>> /\ lines = <<>>
  /\ commands' = [commands EXCEPT ![n] = Tail(@)]
  /\ LET a == Head(commands[n])
     IN  /\ real' = [real EXCEPT ![n] = IF Rejects(n, a) THEN @ ELSE After(a)]
         /\ IF Rejects(n, a) THEN Printed(AckFrame(n)) ELSE Printed(StateFrame(n, After(a)) \o AckFrame(n))
         /\ misled' = IF Rejects(n, a) THEN misled \cup {n} ELSE misled \ {n}
         /\ CASE Rejects(n, a) -> UNCHANGED table
              [] a = "CLEAR_FAULT" -> table' = [table EXCEPT ![n] = "ATIVO"]
              [] OTHER -> Recorded(n, After(a))
         /\ known' = IF Rejects(n, a) THEN known ELSE known \cup {n}
         /\ leader' = IF a = "DISABLE_FAULT" /\ n = leader THEN 0 ELSE leader
  /\ UNCHANGED <<observed, shown, frames>>

(* A module starts again: it forgets its fault, the leader does not. *)
Restart(n) ==
  /\ Caused /\ n # leader /\ commands[n] = <<>>
  /\ Printed(JoinFrame(n) \o StateFrame(n, "ATIVO")) /\ Heard(n)
  /\ real' = [real EXCEPT ![n] = "ATIVO"] /\ Recorded(n, "ATIVO") /\ misled' = misled \ {n}
  /\ UNCHANGED <<leader, commands, observed, shown>>

-----------------------------------------------------------------------------
(* The console *)

StatusName(s) ==
  CASE s = "LIDER" -> "LEADER" [] s = "ATIVO" -> "ONLINE" [] s = "DESATIVADO" -> "OFFLINE" [] OTHER -> "FALHA"
ActionState(a) == CASE a = "OFF" -> "OFFLINE" [] a = "DISABLE_FAULT" -> "FALHA" [] OTHER -> "ONLINE"
NodeStatus(raw) ==
  CASE raw \in {"LEADER", "LIDER", "ATIVO", "ONLINE"} -> "ONLINE"
    [] raw \in {"DESATIVADO", "OFFLINE"} -> "OFFLINE"
    [] OTHER -> "LOST"
RoleKept(n, raw) == IF raw = "LEADER" THEN "LEADER" ELSE shown[n].role
Role(n, raw) == IF raw = "LEADER" THEN "LEADER" ELSE "FOLLOWER"

(* A report of a module sets its status, its role and its CAN state. *)
PhysicalNode(n, raw) ==
  shown' = [shown EXCEPT ![n] = [@ EXCEPT !.here = TRUE, !.status = NodeStatus(raw), !.role = Role(n, raw), !.can = raw]]
LegacyHeartbeat(n) == shown' = [shown EXCEPT ![n] = [@ EXCEPT !.here = TRUE, !.status = "ONLINE", !.role = "LEADER"]]
LocalNodeTelemetry(n, on) == shown' = [shown EXCEPT ![n] = [@ EXCEPT !.here = TRUE, !.status = "ONLINE", !.sensor = on]]

(* The lines with a frame in them, and those that tell a state. *)
FrameHeard(l) ==
  CASE l.kind = "CONTROL" -> PhysicalNode(l.node, StatusName(l.word))
    [] l.kind = "COMMAND" -> PhysicalNode(l.node, ActionState(l.word))
    [] l.kind = "SENSOR"  -> LocalNodeTelemetry(l.node, l.word)
    [] OTHER              -> LegacyHeartbeat(l.node)
StateTold(l) ==
  PhysicalNode(l.node, CASE l.kind = "STATUS" -> l.word [] l.kind = "DISCOVERED" -> "ONLINE" [] OTHER -> "LEADER")

Decode(l) ==
  CASE l.kind \in {"CONTROL", "COMMAND", "SENSOR", "HEARTBEAT"} -> FrameHeard(l)
    [] l.kind \in {"STATUS", "DISCOVERED", "LEADER", "ANNOUNCED"} -> StateTold(l)
    [] OTHER -> UNCHANGED shown

Receive ==
  /\ lines # <<>> /\ Decode(Head(lines)) /\ lines' = Tail(lines)
  /\ UNCHANGED <<network, known, observed, frames>>

(* The refresh of the screen rates a module by its age alone. *)
RefreshFreshness(n, s) ==
  /\ shown[n].here /\ shown[n].status # s /\ shown' = [shown EXCEPT ![n].status = s]
  /\ UNCHANGED <<network, station, frames>>

NodeCondition(n) ==
  CASE shown[n].status = "LOST" -> "CRITICAL"
    [] shown[n].status \in {"STALE", "OFFLINE"} \/ (shown[n].status # "LOST" /\ shown[n].can = "FALHA") -> "ATTENTION"
    [] OTHER -> "NORMAL"

-----------------------------------------------------------------------------
Init ==
  /\ leader \in Modules
  /\ real = [n \in Modules |-> "ATIVO"] /\ table = [n \in Modules |-> IF n = leader THEN "LIDER" ELSE "ATIVO"]
  /\ commands = [n \in Modules |-> <<>>] /\ misled = {}
  /\ known = {} /\ observed = 0 /\ lines = <<>>
  /\ shown = [n \in Modules |-> Blank] /\ frames = 0

Traffic(n) ==
  \/ ReplicaEntry(n) \/ StatusResponse(n) \/ SensorData(n) \/ TakeOffice(n) \/ ConfirmFault(n) \/ Restart(n)
  \/ \E a \in {"OFF", "ON", "CLEAR_FAULT"}, atProbe \in BOOLEAN : TypeCommand(n, a, atProbe)

Next ==
  \/ Heartbeat \/ Receive
  \/ \E n \in Modules : Traffic(n) \/ SensorControl(n) \/ (\E s \in {"ONLINE", "STALE"} : RefreshFreshness(n, s))

Spec == Init /\ [][Next]_vars

-----------------------------------------------------------------------------
TypeOK ==
  /\ leader \in Modules \cup {0} /\ misled \subseteq Modules /\ known \subseteq Modules /\ observed \in Modules \cup {0}
  /\ \A n \in Modules :
       /\ real[n] \in {"ATIVO", "DESATIVADO", "FALHA"} /\ table[n] \in {"ATIVO", "DESATIVADO", "FALHA", "LIDER"}
       /\ shown[n].status \in {"UNKNOWN", "ONLINE", "STALE", "OFFLINE", "LOST"}
       /\ shown[n].role \in {"UNKNOWN", "LEADER", "FOLLOWER"}

(* Nothing is under way to module n, its leader has its fault right, and   *)
(* it turned down no command since it was last heard of.                   *)
Settled(n) ==
  /\ lines = <<>> /\ commands[n] = <<>> /\ n \notin misled
  /\ table[n] = "FALHA" <=> real[n] = "FALHA"

(* When all that was printed has been decoded, a module that the console   *)
(* knows is shown as needing attention for a fault if and only if it is in *)
(* fault, and none but the leader is shown as the leader.                  *)
PictureIsTrue ==
  \A n \in Modules :
    (shown[n].here /\ Settled(n)) =>
      /\ real[n] = "FALHA" => NodeCondition(n) # "NORMAL"
      /\ shown[n].can = "FALHA" => real[n] = "FALHA"
      /\ shown[n].role = "LEADER" => n = leader
=============================================================================
