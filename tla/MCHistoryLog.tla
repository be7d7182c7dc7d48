---------------------------- MODULE MCHistoryLog ----------------------------
(* Instance of HistoryLog for TLC: the telemetry of one sensor; a fault of the
   sensor, a mark of the operator and a configuration, which is only listed.  *)
EXTENDS HistoryLog

MCTrigger ==
  [k \in {"DTC", "MARK", "CONFIG"} |->
     CASE k = "DTC" -> "SENSOR" [] k = "MARK" -> "NETWORK" [] k = "CONFIG" -> "none"]
MCConcerns ==
  [k \in {"DTC", "MARK", "CONFIG"} |-> IF k = "MARK" THEN {"NETWORK"} ELSE {"SENSOR", "NETWORK"}]
MCCovers   == [s \in {"SENSOR", "NETWORK"} |-> {"TELEMETRY"}]
MCAtOnce   == [k \in {"DTC", "MARK", "CONFIG"} |-> {0}]
MCLate     == [MCAtOnce EXCEPT !["MARK"] = {0, 2}]
=============================================================================
