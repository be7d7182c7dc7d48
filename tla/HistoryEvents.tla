---------------------------- MODULE HistoryEvents ----------------------------
(* What of the events of the protocol goes into the history (history/service.py)
   and what is captured because of it (history/captures.py): events that change
   nothing are told once, the load of the bus with hysteresis, the bus itself
   once in a Window. How a record then reaches the disk is module HistoryLog.  *)
EXTENDS Integers, Sequences

CONSTANTS
  Nodes, Ids, Home,   \* modules, names of sensors, the module each name is of
  Uuids, Codes,       \* identities and fault codes of sensors
  Loads, High, Normal,\* loads of the bus; from High on, down to Normal
  Window,             \* of the bus (30 s)
  Horizon, MaxEvents  \* bounds of the model

EventsAssumption ==
  /\ Nodes \subseteq Nat \ {0} /\ Home \in [Ids -> Nodes]
  /\ Loads \subseteq Nat /\ High \in Nat /\ Normal \in Nat /\ Normal < High
  /\ {Window, Horizon, MaxEvents} \subseteq Nat \ {0}

Links == {"DOWN", "NO_KEY", "OFFERING", "SECURE", "SLEEPING"}
AssocStates == {"BOUND", "ONLINE", "STALE", "LOST", "REJECTED", "UNBOUND"}
NetworkKinds == {"LEADER_OBSERVED", "LEADER_ANNOUNCED", "LEADER_FAILURE_DETECTED", "ELECTION_REQUESTED", "JOIN_OBSERVED"}
Faults == {"FAULT_STARTED", "FAULT_ENDED"}
Marks == {"OPERATOR_NOTE", "OPERATOR_FLAG", "OPERATOR_BUTTON", "OPERATOR_STEP", "PANEL_OFF"}
Others == {"CONFIG_APPLIED", "CONNECTION_OPENED", "CONNECTION_CLOSED", "COMMAND_REJECTED", "LOG"}
None == "NONE"
NoDtc == <<None, FALSE>>
Never == -1

VARIABLES
  load,    \* windows of high and of normal load in a row, and what was told
  off,     \* the bus is off
  link, assoc, dtc, leader,   \* what was told of each last
  owner,   \* the module a sensor is taken to be of, 0 if none
  window,  \* when the window of the bus began
  records, \* the records of the last event, one after another
  scopes,  \* what is captured because of them
  last3,   \* the last three loads, latest first
  clock, events

vars == <<load, off, link, assoc, dtc, leader, owner, window, records, scopes, last3, clock, events>>
Memory == <<link, assoc, dtc, leader, owner>>
BusState == <<load, off, window, last3>>

Init ==
  /\ load = [high |-> 0, normal |-> 0, on |-> FALSE] /\ off = FALSE
  /\ link = [i \in Ids |-> None]
  /\ assoc = [k \in Nodes \X Uuids |-> None]
  /\ dtc = [k \in Ids \X Codes |-> NoDtc]
  /\ leader = 0 /\ owner = [i \in Ids |-> 0] /\ window = Never
  /\ records = <<>> /\ scopes = {} /\ last3 = <<Never, Never, Never>>
  /\ clock = 0 /\ events = 0

Network == <<"NETWORK">>
Event == events < MaxEvents /\ events' = events + 1 /\ UNCHANGED clock
Told(kind, s) == records' = <<kind>> /\ scopes' = {s} \ {<<>>}
NotTold == records' = <<>> /\ scopes' = {}

\* What is captured because of a record: decide_scope.
LinkScope(i, was, state) ==
  IF (was = "SECURE" /\ state # "SECURE") \/ state \in {"DOWN", "NO_KEY"} THEN <<"NODE", Home[i]>> ELSE <<>>
AssocScope(n, state) == IF state \in {"STALE", "LOST", "REJECTED"} THEN <<"NODE", n>> ELSE <<>>
KindScope(kind, n) ==
  CASE kind \in {"FAILOVER", "LEADER_FAILURE_DETECTED", "ELECTION_REQUESTED", "CAN_HIGH_LOAD",
                 "CAN_BUS_OFF", "CAN_BUS_RECOVERED"} \cup (Marks \ {"OPERATOR_STEP", "PANEL_OFF"}) -> Network
    [] kind = "TRANSFER_FAILED" -> <<"NODE", n>>
    [] kind = "FAULT_STARTED" -> IF n = 0 THEN Network ELSE <<"NODE", n>>
    [] OTHER -> <<>>

-----------------------------------------------------------------------------
\* The load after one more window, and what is told of it.
Loaded(l) ==
  LET high == IF l >= High THEN load.high + 1 ELSE 0
      normal == IF l <= Normal THEN load.normal + 1 ELSE 0
  IN [high |-> high, normal |-> normal, on |-> IF load.on THEN normal < 3 ELSE high >= 3]

\* A window of the history that is due is written, and the next one begins later.
Flushed(began) == IF clock - began >= Window THEN Never ELSE began

\* A window of the bus: up to two records, the state of the controller after
\* the load; and the sample of the bus that is due.
BusStats(l, isOff) ==
  LET loaded == Loaded(l)
      kinds == (IF loaded.on = load.on THEN <<>> ELSE IF loaded.on THEN <<"CAN_HIGH_LOAD">> ELSE <<"CAN_LOAD_RECOVERED">>)
               \o (IF isOff = off THEN <<>> ELSE IF isOff THEN <<"CAN_BUS_OFF">> ELSE <<"CAN_BUS_RECOVERED">>)
  IN /\ Event
     /\ load' = loaded /\ off' = isOff /\ last3' = <<l, last3[1], last3[2]>>
     /\ window' = Flushed(IF window = Never THEN clock ELSE window)
     /\ records' = kinds /\ scopes' = {KindScope(kinds[k], 0) : k \in DOMAIN kinds} \ {<<>>}
     /\ UNCHANGED Memory

WirelessLink(i, state) ==
  LET was == link[i]
      sleeping == state = "SLEEPING" \/ (was = "SLEEPING" /\ state = "SECURE")
  IN /\ Event /\ link' = [link EXCEPT ![i] = state] /\ owner' = [owner EXCEPT ![i] = Home[i]]
     /\ IF state # was /\ ~sleeping THEN Told("LINK_STATE", LinkScope(i, was, state)) ELSE NotTold
     /\ UNCHANGED <<assoc, dtc, leader, BusState>>

Association(i, u, state) ==
  LET k == <<Home[i], u>>
  IN /\ Event /\ assoc' = [assoc EXCEPT ![k] = state]
     /\ owner' = [owner EXCEPT ![i] = IF state = "UNBOUND" THEN 0 ELSE Home[i]]
     /\ IF assoc[k] # state THEN Told("ASSOCIATION", AssocScope(Home[i], state)) ELSE NotTold
     /\ UNCHANGED <<link, dtc, leader, BusState>>

Telemetry(i) ==
  /\ Event /\ owner' = [owner EXCEPT ![i] = Home[i]] /\ NotTold
  /\ UNCHANGED <<link, assoc, dtc, leader, BusState>>

\* A leader that is told again is not told twice, be there a failure between or not.
NetworkEvent(kind, n) ==
  LET led == kind \in {"LEADER_OBSERVED", "LEADER_ANNOUNCED"}
  IN /\ Event /\ leader' = IF led THEN n ELSE leader
     /\ IF led /\ leader = n THEN NotTold ELSE Told(kind, KindScope(kind, n))
     /\ UNCHANGED <<link, assoc, dtc, owner, BusState>>

\* A fault code with what is said of it: told if that changes. The code compares
\* the number of occurrences as well, which is left out here: one that only
\* counts on is told there and not here.
Dtc(i, c, severity, active) ==
  LET now == <<severity, active>>
  IN /\ Event /\ dtc' = [dtc EXCEPT ![<<i, c>>] = now]
     /\ IF dtc[<<i, c>>] = now THEN NotTold
        ELSE Told("DTC", IF severity = "INFO" THEN <<>> ELSE <<"SENSOR", i>>)
     /\ UNCHANGED <<link, assoc, leader, owner, BusState>>

DtcCleared(i) ==
  /\ Event /\ dtc' = [k \in Ids \X Codes |-> IF k[1] = i THEN NoDtc ELSE dtc[k]]
  /\ Told("DTC_CLEARED", <<>>) /\ UNCHANGED <<link, assoc, leader, owner, BusState>>

\* Told whenever they come.
Plain(kind, n) == Event /\ Told(kind, KindScope(kind, n)) /\ UNCHANGED <<Memory, BusState>>
Tick == clock < Horizon /\ clock' = clock + 1 /\ UNCHANGED <<Memory, BusState, records, scopes, events>>

Next ==
  \/ \E l \in Loads, isOff \in BOOLEAN : BusStats(l, isOff)
  \/ \E i \in Ids, s \in Links : WirelessLink(i, s)
  \/ \E i \in Ids, u \in Uuids, s \in AssocStates : Association(i, u, s)
  \/ \E i \in Ids : Telemetry(i) \/ DtcCleared(i)
  \/ \E k \in NetworkKinds, n \in Nodes : NetworkEvent(k, n)
  \/ \E i \in Ids, c \in Codes, s \in {"INFO", "CRITICAL"}, a \in BOOLEAN : Dtc(i, c, s, a)
  \/ \E k \in {"FAILOVER", "TRANSFER_FAILED"} \cup Others, n \in Nodes : Plain(k, n)
  \/ \E k \in Faults \cup Marks, n \in Nodes \cup {0} : Plain(k, n)
  \/ Tick

Spec == Init /\ [][Next]_vars

-----------------------------------------------------------------------------
\* Which rows a capture takes in, by kind and name of the stream.
Include(s, kind, name) ==
  CASE kind = "BUS" \/ s = Network -> TRUE
    [] kind = "NODE" /\ s # Network -> IF s[1] = "NODE" THEN name = s[2] ELSE name = owner[s[2]]
    [] OTHER -> IF s[1] = "SENSOR" THEN name = s[2] ELSE owner[name] = s[2]

\* Types.
TypeOK ==
  /\ load \in [high : Nat, normal : Nat, on : BOOLEAN] /\ off \in BOOLEAN
  /\ link \in [Ids -> Links \cup {None}] /\ owner \in [Ids -> Nodes \cup {0}]
  /\ assoc \in [Nodes \X Uuids -> AssocStates \cup {None}]
  /\ leader \in Nodes \cup {0} /\ clock \in 0 .. Horizon /\ events \in 0 .. MaxEvents
  /\ Len(records) <= 2 /\ \A s \in scopes : Include(s, "BUS", "")

\* The load of the bus is told as high once three windows in a row were high,
\* goes on so until three in a row were normal, and so on: no single window of
\* another kind turns it (service.py _on_bus).
LoadHysteresis ==
  /\ (\A k \in 1 .. 3 : last3[k] >= High) => load.on
  /\ (\A k \in 1 .. 3 : last3[k] # Never /\ last3[k] <= Normal) => ~load.on

\* What is told as high or as normal again stays so until that many windows say
\* otherwise.
LoadTurns ==
  [][load'.on # load.on =>
       IF load'.on THEN \A k \in 1 .. 3 : last3'[k] >= High ELSE \A k \in 1 .. 3 : last3'[k] # Never /\ last3'[k] <= Normal]_vars
=============================================================================
