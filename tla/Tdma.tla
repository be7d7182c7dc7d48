-------------------------------- MODULE Tdma --------------------------------
(***************************************************************************)
(* The TDMA arithmetic of a heartbeat: which active follower answers the   *)
(* heartbeat of a given tick.  Node-can/src/main.ino.                      *)
(* SensorCycleUnskipped is a slip the code could have had, outside Spec.   *)
(***************************************************************************)
EXTENDS Integers, FiniteSets

CONSTANT SyncMod   \* REPLICA_SYNC_MODULO

(* One heartbeat in SyncMod carries a table entry and nobody answers it;   *)
(* the slot counter skips it.                                              *)
IsSyncTick(t)  == t % SyncMod = 0
SensorCycleUnskipped(t) == t
SensorCycle(t) == t - (t \div SyncMod)

(* A follower ranks itself by identifier among the active ones.            *)
Rank(active, n) == Cardinality({m \in active : m < n})

Turn(t, slots, rank) == ~IsSyncTick(t) /\ slots > 0 /\ SensorCycle(t) % slots = rank
=============================================================================
