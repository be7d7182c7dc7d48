------------------------- MODULE MCOperatorCommands -------------------------
(* The operator's commands on a Probe, by themselves: two modules, a wireless
   vibration sensor and an acoustic sensor that stays.                        *)
EXTENDS OperatorCommands

MCProfile == [wireless |-> "VIBRATION", other |-> "ACOUSTIC"]
MCInit == Init /\ mode = "GATEWAY_CAN" /\ guard = "presence"
=============================================================================
