----------------------------- MODULE BoundedLog -----------------------------
(* What the history promises of the records it accepts: they become durable in
   the order they were accepted, each once; a record that is given up before is
   counted.                                                                  *)
EXTENDS Naturals, Sequences

VARIABLES
  accepted,  \* how many records were accepted; a record is its number
  pending,   \* the ones not yet durable
  durable,   \* the ones that are
  lost       \* how many were given up

vars == <<accepted, pending, durable, lost>>

Init == accepted = 0 /\ pending = <<>> /\ durable = <<>> /\ lost = 0

(* The records of s but the one at place i.                                   *)
AllBut(s, i) == SubSeq(s, 1, i - 1) \o SubSeq(s, i + 1, Len(s))

(* A record is accepted; an earlier one may have to make room.                *)
Accept ==
  /\ accepted' = accepted + 1 /\ UNCHANGED durable
  /\ \/ pending' = Append(pending, accepted + 1) /\ UNCHANGED lost
     \/ \E i \in DOMAIN pending :
          pending' = Append(AllBut(pending, i), accepted + 1) /\ lost' = lost + 1

(* Records are given up, the earliest first.                                  *)
Discard ==
  \E k \in 1 .. Len(pending) :
    /\ pending' = SubSeq(pending, k + 1, Len(pending)) /\ lost' = lost + k
    /\ UNCHANGED <<accepted, durable>>

(* The first k records become durable together.                               *)
Persist ==
  \E k \in 1 .. Len(pending) :
    /\ durable' = durable \o SubSeq(pending, 1, k)
    /\ pending' = SubSeq(pending, k + 1, Len(pending))
    /\ UNCHANGED <<accepted, lost>>

Next == Accept \/ Discard \/ Persist
Spec == Init /\ [][Next]_vars
=============================================================================
