-------------------------- MODULE TdmaRound_proofs --------------------------
(***************************************************************************)
(* What holds of the TDMA round for every set of followers, modulus of the *)
(* replica, modulus of the tick and absence limit.                         *)
(***************************************************************************)
EXTENDS TdmaRound, FiniteSetTheorems, TLAPS

(* The followers are finitely many, whichever of them are active.          *)
LEMMA FiniteFollowers ==
  ASSUME RoundAssumption, NEW S \in SUBSET Follower
  PROVE  IsFiniteSet(S) /\ Cardinality(S) \in Nat
<1>1. IsFiniteSet(1..31)
  <2>1. 1 \in Int /\ 31 \in Int
    OBVIOUS
  <2>2. QED
    BY <2>1, FS_Interval, Zenon
<1>2. S \in SUBSET (1..31)
  BY DEF RoundAssumption
<1>3. IsFiniteSet(S)
  BY <1>1, <1>2, FS_Subset
<1>4. QED
  BY <1>3, FS_CardinalityType

(* A follower with a lower identifier has a lower rank: getActiveNodeSlot  *)
(* is one to one on the active Nodes of a table.                           *)
LEMMA RankIncreasing ==
  ASSUME RoundAssumption, NEW S \in SUBSET Follower,
         NEW f \in S, NEW g \in S, f < g
  PROVE  Rank(S, f) < Rank(S, g)
<1> DEFINE Below(h) == {m \in S : m < h}
<1>1. S \subseteq Int
  BY DEF RoundAssumption
<1>2. Below(f) \subseteq Below(g)
  <2>1. ASSUME NEW m \in S, m < f PROVE m < g
    BY <1>1, <2>1
  <2>2. QED
    BY <2>1
<1>3. f \in Below(g) /\ f \notin Below(f)
  BY <1>1
<1>4. IsFiniteSet(Below(g)) /\ Cardinality(Below(g)) \in Nat
  <2>1. Below(g) \in SUBSET Follower
    OBVIOUS
  <2>2. QED
    BY <2>1, FiniteFollowers
<1>5. Cardinality(Below(f)) \in Nat
  <2>1. Below(f) \in SUBSET Follower
    OBVIOUS
  <2>2. QED
    BY <2>1, FiniteFollowers
<1>6. /\ Cardinality(Below(f)) <= Cardinality(Below(g))
      /\ Cardinality(Below(g)) = Cardinality(Below(f)) => Below(g) = Below(f)
  BY <1>2, <1>4, FS_Subset
<1>7. Cardinality(Below(f)) # Cardinality(Below(g))
  BY <1>3, <1>6
<1>8. Cardinality(Below(f)) < Cardinality(Below(g))
  BY <1>4, <1>5, <1>6, <1>7
<1>9. QED
  BY <1>8 DEF Rank

(* The tick, the active followers and the ages keep their types in every   *)
(* step of the round.                                                      *)
LEMMA RoundTypeStep ==
  ASSUME RoundAssumption, TypeOK, [Next]_vars
  PROVE  TypeOK'
<1>1. CASE Heartbeat
  <2>1. tick' \in 0..(TickMod - 1)
    BY <1>1 DEF TypeOK, Heartbeat, RoundAssumption
  <2>2. silent' \in [Follower -> Nat]
    BY <1>1 DEF TypeOK, Heartbeat
  <2>3. QED
    BY <1>1, <2>1, <2>2 DEF TypeOK, Heartbeat
<1>2. ASSUME NEW f \in Follower, Switch(f)
      PROVE  TypeOK'
  BY <1>2 DEF TypeOK, Switch, RoundAssumption
<1>3. ASSUME NEW f \in Follower, DeclareAbsent(f)
      PROVE  TypeOK'
  BY <1>3 DEF TypeOK, DeclareAbsent
<1>4. CASE UNCHANGED vars
  BY <1>4 DEF TypeOK, vars
<1>5. QED
  BY <1>1, <1>2, <1>3, <1>4 DEF Next

(* The byte tick stays below its modulus, only followers of the leader are *)
(* active, and sensor changes respect their bound (main.ino:984-1021,      *)
(* 1027-1069).                                                             *)
THEOREM RoundTypeCorrect == Spec => []TypeOK
<1> USE RoundAssumption
<1>1. Init => TypeOK
  BY DEF Init, TypeOK, RoundAssumption
<1>2. TypeOK /\ [Next]_vars => TypeOK'
  BY RoundTypeStep
<1>3. QED
  BY <1>1, <1>2, PTL DEF Spec

(* Two followers whose turn it is have the same rank, so they are one.     *)
LEMMA OneVoiceIsTyped ==
  ASSUME RoundAssumption, TypeOK
  PROVE  OneVoice
<1> SUFFICES ASSUME NEW f \in active, NEW g \in active, Answers(f), Answers(g)
             PROVE  f = g
  BY DEF OneVoice
<1>1. active \in SUBSET Follower
  BY DEF TypeOK
<1>2. Rank(active, f) = Rank(active, g)
  BY DEF Answers, Turn
<1>3. f \in Int /\ g \in Int
  BY <1>1 DEF RoundAssumption
<1>4. Rank(active, f) \in Nat /\ Rank(active, g) \in Nat
  <2>1. {m \in active : m < f} \in SUBSET Follower /\ {m \in active : m < g} \in SUBSET Follower
    BY <1>1
  <2>2. QED
    BY <2>1, FiniteFollowers DEF Rank
<1>5. ~(f < g)
  BY <1>1, <1>2, <1>4, RankIncreasing
<1>6. ~(g < f)
  BY <1>1, <1>2, <1>4, RankIncreasing
<1>7. QED
  BY <1>3, <1>5, <1>6

(* One voice per heartbeat, for every set of followers, at every tick of   *)
(* the byte counter, replica ticks and wrap included, and whoever is       *)
(* declared absent or switched off: while the replicas of the table agree, *)
(* no two followers send their sensor data in the same slot                *)
(* (handleHeartbeatMessage, getActiveNodeSlot).                            *)
THEOREM OneVoicePerHeartbeat == Spec => []OneVoice
<1> USE RoundAssumption
<1>1. TypeOK => OneVoice
  BY OneVoiceIsTyped
<1>2. QED
  BY <1>1, RoundTypeCorrect, PTL

(***************************************************************************)
(* How long a follower waits.  The inductive invariant looks back: none of *)
(* the ticks since an active follower was last heard was its turn in the   *)
(* enrolled table.  With up to three followers, one in any four ticks of   *)
(* the byte counter is, across the replica ticks and the wrap.             *)
(***************************************************************************)
Few == Cardinality(enrolled) <= (IF changes = 0 THEN 3 ELSE 2)
Due(t, slots, rank) == ~IsSyncTick(t) /\ SensorCycle(t) % slots = rank
IsDue(t, f) == Due(t, Cardinality(enrolled), Rank(enrolled, f))
Ago(j) == (tick - j) % TickMod
Missed(f) == \A j \in 1..silent[f] : ~IsDue(Ago(j), f)

Waiting ==
  Few => /\ changes = 0 => active = enrolled
         /\ \A f \in active : silent[f] <= 3 /\ Missed(f)

(* One in four, with the moduli of the code: the tick is a byte, and every *)
(* 83rd carries a table entry.                                             *)
LEMMA OneInFour ==
  ASSUME TickMod = 256, SyncMod = 83,
         NEW t \in 0..255, NEW n \in 1..3, NEW r \in 0..(n - 1)
  PROVE  \/ Due(t, n, r) \/ Due((t - 1) % TickMod, n, r)
         \/ Due((t - 2) % TickMod, n, r) \/ Due((t - 3) % TickMod, n, r)
<1>1. CASE n = 1
  BY <1>1, SMT DEF Due, IsSyncTick, SensorCycle
<1>2. CASE n = 2
  BY <1>2, SMT DEF Due, IsSyncTick, SensorCycle
<1>3. CASE n = 3
  <2>1. CASE r = 0
    BY <1>3, <2>1, SMTT(60) DEF Due, IsSyncTick, SensorCycle
  <2>2. CASE r = 1
    BY <1>3, <2>2, SMTT(60) DEF Due, IsSyncTick, SensorCycle
  <2>3. CASE r = 2
    BY <1>3, <2>3, SMTT(60) DEF Due, IsSyncTick, SensorCycle
  <2>4. QED
    BY <1>3, <2>1, <2>2, <2>3
<1>4. QED
  BY <1>1, <1>2, <1>3

(* The rank of an enrolled follower is one of the slots.                   *)
LEMMA RankInSlots ==
  ASSUME RoundAssumption, NEW S \in SUBSET Follower, NEW f \in S
  PROVE  /\ Cardinality(S) \in Nat \ {0}
         /\ Rank(S, f) \in 0..(Cardinality(S) - 1)
<1> DEFINE B == {m \in S : m < f}
<1>1. S \subseteq Int
  BY DEF RoundAssumption
<1>2. IsFiniteSet(S) /\ Cardinality(S) \in Nat /\ Cardinality(B) \in Nat
  <2>1. B \in SUBSET Follower
    OBVIOUS
  <2>2. QED
    BY <2>1, FiniteFollowers
<1>3. f \notin B /\ B \subseteq S
  BY <1>1
<1>4. /\ Cardinality(B) <= Cardinality(S)
      /\ Cardinality(S) = Cardinality(B) => S = B
  BY <1>2, <1>3, FS_Subset
<1>5. Cardinality(B) < Cardinality(S)
  BY <1>2, <1>3, <1>4
<1>6. QED
  BY <1>2, <1>5 DEF Rank

(* Whose turn it is in the enrolled table answers, if it is active: of two *)
(* followers, one that is alone answers every heartbeat.                   *)
LEMMA DueAnswers ==
  ASSUME RoundAssumption, TypeOK, Few, changes = 0 => active = enrolled,
         NEW f \in active, IsDue(tick, f)
  PROVE  Answers(f)
<1>1. active \in SUBSET Follower /\ enrolled \in SUBSET Follower /\ active \subseteq enrolled
  BY DEF TypeOK
<1>2. /\ Cardinality(enrolled) \in Nat /\ IsFiniteSet(enrolled)
      /\ Cardinality(active) \in Nat \ {0} /\ Rank(active, f) \in 0..(Cardinality(active) - 1)
  BY <1>1, FiniteFollowers, RankInSlots
<1>3. CASE active = enrolled
  BY <1>2, <1>3 DEF IsDue, Due, Answers, Turn
<1>4. CASE active # enrolled
  <2>1. Cardinality(enrolled) <= 2
    BY <1>4 DEF Few
  <2>2. Cardinality(active) <= Cardinality(enrolled) /\ Cardinality(active) # Cardinality(enrolled)
    BY <1>1, <1>2, <1>4, FS_Subset
  <2>3. Cardinality(active) = 1 /\ Rank(active, f) = 0
    BY <1>2, <2>1, <2>2
  <2>4. SensorCycle(tick) \in Int
    BY DEF SensorCycle, TypeOK, RoundAssumption
  <2>5. SensorCycle(tick) % 1 = 0
    BY <2>4
  <2>6. QED
    BY <2>3, <2>5 DEF IsDue, Due, Answers, Turn
<1>5. QED
  BY <1>3, <1>4

LEMMA HeartbeatWaits ==
  ASSUME RoundAssumption, TickMod = 256, SyncMod = 83, TypeOK, Waiting, Heartbeat
  PROVE  Waiting'
<1> SUFFICES ASSUME Few
             PROVE  /\ changes' = 0 => active' = enrolled'
                    /\ \A f \in active' : silent'[f] <= 3 /\ Missed(f)'
  BY DEF Waiting, Few, Heartbeat
<1>1. /\ UNCHANGED <<enrolled, active, changes>> /\ tick' = (tick + 1) % 256
      /\ tick \in 0..255 /\ silent \in [Follower -> Nat]
  BY DEF Heartbeat, TypeOK
<1>2. (changes = 0 => active = enrolled) /\ \A f \in active : silent[f] <= 3 /\ Missed(f)
  BY DEF Waiting
<1>3. ASSUME NEW f \in active
      PROVE  silent'[f] <= 3 /\ Missed(f)'
  <2>1. f \in Follower /\ f \in enrolled /\ enrolled \in SUBSET Follower
    BY DEF TypeOK
  <2>2. CASE Answers(f)
    <3>1. silent'[f] = 0
      BY <2>1, <2>2 DEF Heartbeat
    <3>2. QED
      BY <3>1 DEF Missed
  <2>3. CASE ~Answers(f)
    <3>1. silent[f] \in Nat /\ silent'[f] = silent[f] + 1
      BY <1>1, <2>1, <2>3 DEF Heartbeat
    <3>2. ~IsDue(tick, f)
      BY <1>2, <2>3, DueAnswers
    <3>3. \A t : IsDue(t, f)' <=> IsDue(t, f)
      BY <1>1 DEF IsDue
    <3>4. ASSUME NEW j \in 1..silent'[f]
          PROVE  ~IsDue(Ago(j), f)'
      <4>1. CASE j = 1
        <5>1. Ago(j)' = tick
          BY <1>1, <4>1 DEF Ago
        <5>2. QED
          BY <3>2, <3>3, <5>1 DEF IsDue
      <4>2. CASE j # 1
        <5>1. Ago(j)' = Ago(j - 1)
          BY <1>1, <4>2 DEF Ago
        <5>2. j - 1 \in 1..silent[f]
          BY <3>1, <4>2
        <5>3. ~IsDue(Ago(j - 1), f)
          BY <1>2, <5>2 DEF Missed
        <5>4. QED
          BY <3>3, <5>1, <5>3 DEF IsDue
      <4>3. QED
        BY <4>1, <4>2
    <3>5. silent[f] # 3
      <4>1. SUFFICES ASSUME silent[f] = 3 PROVE FALSE
        OBVIOUS
      <4>2. ~IsDue(Ago(1), f) /\ ~IsDue(Ago(2), f) /\ ~IsDue(Ago(3), f)
        BY <1>2, <4>1 DEF Missed
      <4>3. /\ Cardinality(enrolled) \in 1..3
            /\ Rank(enrolled, f) \in 0..(Cardinality(enrolled) - 1)
        BY <2>1, RankInSlots DEF Few
      <4>4. QED
        BY <1>1, <3>2, <4>2, <4>3, OneInFour DEF IsDue, Ago
    <3>6. QED
      BY <1>2, <3>1, <3>4, <3>5 DEF Missed
  <2>4. QED
    BY <2>2, <2>3
<1>4. QED
  BY <1>1, <1>2, <1>3

LEMMA WaitingStep ==
  ASSUME RoundAssumption, TickMod = 256, SyncMod = 83, AbsencePeriods >= 5,
         TypeOK, Waiting, [Next]_vars
  PROVE  Waiting'
<1>1. CASE Heartbeat
  BY <1>1, HeartbeatWaits
<1>2. ASSUME NEW f \in Follower, Switch(f)
      PROVE  Waiting'
  <2>1. /\ UNCHANGED <<enrolled, tick>> /\ changes' = changes + 1 /\ changes \in Nat
        /\ silent' = [silent EXCEPT ![f] = 0] /\ silent \in [Follower -> Nat]
        /\ active' \in SUBSET (active \cup {f}) /\ active \in SUBSET Follower
    BY <1>2 DEF Switch, TypeOK
  <2>2. SUFFICES ASSUME Few'
                 PROVE  \A g \in active' : silent'[g] <= 3 /\ Missed(g)'
    BY <2>1 DEF Waiting
  <2>3. Few
    <3>1. Cardinality(enrolled) \in Nat
      BY FiniteFollowers DEF TypeOK
    <3>2. QED
      BY <2>1, <2>2, <3>1 DEF Few
  <2>4. ASSUME NEW g \in active'
        PROVE  silent'[g] <= 3 /\ Missed(g)'
    <3>1. CASE g = f
      <4>1. silent'[g] = 0
        BY <2>1, <3>1
      <4>2. QED
        BY <4>1 DEF Missed
    <3>2. CASE g # f
      <4>1. g \in active /\ silent'[g] = silent[g]
        BY <2>1, <3>2
      <4>2. silent[g] <= 3 /\ Missed(g)
        BY <2>3, <4>1 DEF Waiting
      <4>3. \A j : IsDue(Ago(j), g)' <=> IsDue(Ago(j), g)
        BY <2>1 DEF IsDue, Ago
      <4>4. QED
        BY <4>1, <4>2, <4>3 DEF Missed
    <3>3. QED
      BY <3>1, <3>2
  <2>5. QED
    BY <2>4
<1>3. ASSUME NEW f \in Follower, DeclareAbsent(f)
      PROVE  Waiting'
  <2>1. f \in active /\ silent[f] >= 5
    BY <1>3 DEF DeclareAbsent, Overdue, TypeOK, RoundAssumption
  <2>2. ~Few
    BY <2>1 DEF Waiting, TypeOK
  <2>3. QED
    BY <1>3, <2>2 DEF DeclareAbsent, Waiting, Few
<1>4. CASE UNCHANGED vars
  BY <1>4 DEF vars, Waiting, Few, Missed, IsDue, Ago
<1>5. QED
  BY <1>1, <1>2, <1>3, <1>4 DEF Next

(* With up to three followers, or two while sensors are switched off and   *)
(* on any number of times, each is heard before the fifth period is over,  *)
(* whichever identifiers they have and wherever the tick stands: nobody is *)
(* accused of an absence that is the round's own (leaderCheckNodeAbsence,  *)
(* isReplicaSyncTick, handleHeartbeatMessage).                             *)
THEOREM EveryoneIsHeardInTime ==
  ASSUME TickMod = 256, SyncMod = 83, AbsencePeriods >= 5
  PROVE  Spec => []HeardInTime
<1> USE RoundAssumption
<1>1. Init => Waiting
  BY DEF Init, Waiting, Missed, RoundAssumption
<1>2. TypeOK /\ Waiting /\ [Next]_vars => Waiting'
  BY WaitingStep
<1>3. TypeOK /\ Waiting => HeardInTime
  BY DEF Waiting, HeardInTime, Few, TypeOK, RoundAssumption
<1>4. QED
  BY <1>1, <1>2, <1>3, RoundTypeCorrect, PTL DEF Spec
=============================================================================
