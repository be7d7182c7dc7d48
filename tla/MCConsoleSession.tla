-------------------------- MODULE MCConsoleSession --------------------------
(* Instance of ConsoleSession for TLC: first a sensor, found or asked for with a
   token that it refuses; then a gateway.                                  *)
EXTENDS ConsoleSession

Port(m, d, t) == [mode |-> m, dev |-> d, token |-> t]

MCPorts ==
  <<{Port("auto", "SENSOR", TRUE), Port("sensor", "SENSOR", FALSE)},
    {Port("auto", "GATEWAY", TRUE)}>>
=============================================================================
