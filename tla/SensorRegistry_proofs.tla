----------------------- MODULE SensorRegistry_proofs -----------------------
(* Proofs about module SensorRegistry: no two modules own the same sensor for
   the console, and its losses are those of the readings.

   It is nearly inductive. A sensor that is not listed must be blank, for any
   event lists it again; and of all the events, only the word of a module that
   has it changes who has a sensor: every other keeps the identity and the state
   of association of every record, whatever it does to the rest (Alike), or
   marks it as renamed: a SENSOR line, and the version of a sensor on the USB
   port, write an identity and leave the association as it was.               *)
EXTENDS SensorRegistry, FiniteSetTheorems, TLAPS

\* A record with an identity, a state and counters, and one that has the same
\* of all.
Record(r) == {"uuid", "renamed", "assoc", "lost", "late"} \subseteq DOMAIN r /\ r.renamed \in BOOLEAN
SameOwner(q, r) == Record(q) /\ q.uuid = r.uuid /\ q.renamed = r.renamed /\ q.assoc = r.assoc
SameCounts(q, r) == q.lost = r.lost /\ q.late = r.late
Alike(q, r) == SameOwner(q, r) /\ SameCounts(q, r)

\* A record that keeps its owner or is marked as renamed.
OwnerStays(q, r) == Record(q) /\ q.assoc = r.assoc /\ (SameOwner(q, r) \/ q.renamed)

Listing == known \subseteq Ids /\ DOMAIN sensor = Ids /\ \A i \in Ids : Record(sensor[i])
Inv ==
  /\ Listing
  /\ \A i \in Ids : i \notin known => sensor[i].assoc = "UNBOUND"
  /\ OneOwner

-----------------------------------------------------------------------------
(* What the operators on a record keep *)

LEMMA NotedIsAlike ==
  ASSUME NEW r, Record(r), NEW key, NEW severity
  PROVE  Alike(Noted(r, key, severity), r)
BY DEF Noted, Alike, SameOwner, SameCounts, Record

LEMMA NotedIfIsAlike ==
  ASSUME NEW r, Record(r), NEW p, NEW key, NEW severity
  PROVE  Alike(NotedIf(p, r, key, severity), r)
BY NotedIsAlike DEF NotedIf, Alike, SameOwner, SameCounts

LEMMA TouchedIsAlike ==
  ASSUME NEW r, Record(r)
  PROVE  Alike(Touched(r), r)
BY DEF Touched, Alike, SameOwner, SameCounts, Record

LEMMA RaisedIsAlike ==
  ASSUME NEW r, Record(r), NEW c
  PROVE  Alike(Raised(r, c), r)
<1> DEFINE t == NotedIf(c # "0" /\ r.dtc[c] = 0, r, <<"dtc", c>>, "WARNING")
<1>1. Alike(t, r)
  BY NotedIfIsAlike
<1> HIDE DEF t
<1>2. Raised(r, c) = [t EXCEPT !.dtc[c] = @ + 1]
  BY DEF Raised, t
<1> QED BY <1>1, <1>2 DEF Alike, SameOwner, SameCounts, Record

LEMMA FaultsAreAlike ==
  ASSUME NEW r, Record(r), NEW x
  PROVE  Alike(Faults(r, x), r)
<1>1. Alike(Cleared(r), r)
  BY DEF Cleared, Alike, SameOwner, SameCounts, Record
<1>2. Alike(r, r)
  BY DEF Alike, SameOwner, SameCounts
<1>3. Faults(r, x) \in {Cleared(r), Raised(r, x.code), r}
  BY DEF Faults
<1> QED BY <1>1, <1>2, <1>3, RaisedIsAlike

LEMMA AlikeIsTransitive ==
  ASSUME NEW a, NEW b, NEW c, Alike(a, b), Alike(b, c)
  PROVE  Alike(a, c)
BY DEF Alike, SameOwner, SameCounts

\* A number changes the counters of a sensor and nothing of who has it.
LEMMA CountedKeepsOwner ==
  ASSUME NEW r, Record(r), NEW i, NEW k
  PROVE  SameOwner(Counted(r, i, k), r)
<1> DEFINE d == [r EXCEPT !.dup = @ + 1]
           n == [r EXCEPT !.lost = @ + Delta(i, k) - 1]
           l == [r EXCEPT !.late = @ + 1]
           t == NotedIf(Delta(i, k) > 1, n, <<"lost">>, "WARNING")
<1>1. SameOwner(d, r) /\ SameOwner(n, r) /\ SameOwner(l, r) /\ SameOwner(r, r)
  BY DEF SameOwner, Record
<1>2. Record(n)
  BY <1>1 DEF SameOwner
<1> HIDE DEF d, n, l
<1>3. Alike(t, n)
  BY <1>2, NotedIfIsAlike
<1>4. SameOwner(t, r)
  BY <1>1, <1>3 DEF Alike, SameOwner, SameCounts
<1>5. Counted(r, i, k) \in {r, d, t, l}
  <2> HIDE DEF t
  <2> QED BY DEF Counted, d, n, t, l
<1> HIDE DEF t
<1> QED BY <1>1, <1>4, <1>5

LEMMA SoundedIsAlike ==
  ASSUME NEW r, Record(r), NEW i, NEW sound
  PROVE  Alike(Sounded(r, i, sound), r)
<1> DEFINE f == flagged[i]
           a == NotedIf(Rising(sound.flags, f.sound.flags, "mic"), r, <<"mic">>, "CRITICAL")
           b == NotedIf(Rising(sound.flags, f.sound.flags, "overload"), a, <<"overload">>, "WARNING")
           c == NotedIf(Rising(sound.flags, f.sound.flags, "dose"), b, <<"dose">>, "WARNING")
           d == NotedIf(Rising(sound.flags, f.sound.flags, "anomaly"), c, <<"anomaly">>, "WARNING")
           e == NotedIf(sound.ready /\ f.heard /\ f.sound.learning, d, <<"baseline">>, "INFO")
           g == NotedIf(FreshSound(sound, f.sound, f.heard), e, <<"sound">>, "INFO")
<1>0. Sounded(r, i, sound) = g
  BY DEF Sounded
<1>1. Alike(a, r) BY NotedIfIsAlike
<1>2. Record(a) BY <1>1 DEF Alike, SameOwner, SameCounts
<1> HIDE DEF a
<1>3. Alike(b, a) BY <1>2, NotedIfIsAlike
<1>4. Record(b) BY <1>3 DEF Alike, SameOwner, SameCounts
<1> HIDE DEF b
<1>5. Alike(c, b) BY <1>4, NotedIfIsAlike
<1>6. Record(c) BY <1>5 DEF Alike, SameOwner, SameCounts
<1> HIDE DEF c
<1>7. Alike(d, c) BY <1>6, NotedIfIsAlike
<1>8. Record(d) BY <1>7 DEF Alike, SameOwner, SameCounts
<1> HIDE DEF d
<1>9. Alike(e, d) BY <1>8, NotedIfIsAlike
<1>10. Record(e) BY <1>9 DEF Alike, SameOwner, SameCounts
<1> HIDE DEF e
<1>11. Alike(g, e) BY <1>10, NotedIfIsAlike
<1> HIDE DEF g
<1> QED BY <1>0, <1>1, <1>3, <1>5, <1>7, <1>9, <1>11 DEF Alike, SameOwner, SameCounts

LEMMA TransitionsAreAlike ==
  ASSUME NEW r, Record(r), NEW i, NEW x
  PROVE  Alike(Transitions(r, i, x), r)
<1> DEFINE a == NotedIf(x.clip /\ ~flagged[i].clip, r, <<"clip">>, "WARNING")
           b == NotedIf(x.trigger /\ ~flagged[i].trigger, a, <<"stalta">>, "INFO")
<1>0. Transitions(r, i, x) \in {b, Sounded(b, i, x.sound)}
  BY DEF Transitions
<1>1. Alike(a, r) BY NotedIfIsAlike
<1>2. Record(a) BY <1>1 DEF Alike, SameOwner, SameCounts
<1> HIDE DEF a
<1>3. Alike(b, a) BY <1>2, NotedIfIsAlike
<1>4. Record(b) BY <1>3 DEF Alike, SameOwner, SameCounts
<1> HIDE DEF b
<1>5. Alike(Sounded(b, i, x.sound), b) BY <1>4, SoundedIsAlike
<1> QED BY <1>0, <1>1, <1>3, <1>5 DEF Alike, SameOwner, SameCounts

LEMMA EvaluatedIsAlike ==
  ASSUME NEW r, Record(r), NEW lim
  PROVE  Alike(Evaluated(r, lim), r)
BY DEF Evaluated, Alike, SameOwner, SameCounts, Record

LEMMA ReadIsAlike ==
  ASSUME NEW r, Record(r), NEW i, NEW x
  PROVE  Alike(Read(r, i, x), r)
<1> DEFINE p == IF x.sound # NoReport THEN "ACOUSTIC" ELSE IF x.mode = "ROTATING" THEN "VIBRATION" ELSE Touched(r).profile
           s == [Touched(r) EXCEPT !.rx = @ + 1, !.status = "ONLINE", !.mode = x.mode, !.value = x.value,
                                   !.fft = @ /\ ~x.fftOff,
                                   !.profile = IF x.sound # NoReport THEN "ACOUSTIC"
                                               ELSE IF x.mode = "ROTATING" THEN "VIBRATION" ELSE @]
<1>1. Alike(Touched(r), r)
  BY TouchedIsAlike
<1>2. Alike(s, Touched(r))
  BY <1>1 DEF Alike, SameOwner, SameCounts, Record
<1>3. Record(s)
  BY <1>2 DEF Alike, SameOwner, SameCounts
<1>4. Read(r, i, x) = Evaluated(s, limit[i])
  BY DEF Read
<1> HIDE DEF s
<1> QED BY <1>1, <1>2, <1>3, <1>4, EvaluatedIsAlike, AlikeIsTransitive

LEMMA InModeIsAlike ==
  ASSUME NEW r, Record(r), NEW m
  PROVE  Alike(InMode(r, m), r)
BY DEF InMode, Alike, SameOwner, SameCounts, Record

LEMMA ReportedIsAlike ==
  ASSUME NEW r, Record(r), NEW since
  PROVE  Alike(Reported(r, since), r)
BY DEF Reported, Alike, SameOwner, SameCounts, Record

LEMMA RefreshedIsAlike ==
  ASSUME NEW r, Record(r)
  PROVE  Alike(Refreshed(r), r)
<1> DEFINE now == AgeStatus(clock - r.seen)
<1>1. PICK t \in {Noted(r, <<"stale">>, "WARNING"), Noted(r, <<"lost_contact">>, "CRITICAL"),
                  Noted(r, <<"recovered">>, "INFO"), r} : Refreshed(r) = [t EXCEPT !.status = now]
  BY DEF Refreshed
<1>2. Alike(t, r)
  BY NotedIsAlike DEF Alike, SameOwner, SameCounts
<1>3. Alike([t EXCEPT !.status = now], t)
  BY <1>2 DEF Alike, SameOwner, SameCounts, Record
<1> QED BY <1>1, <1>2, <1>3 DEF Alike, SameOwner, SameCounts

-----------------------------------------------------------------------------
(* What the events keep *)

\* A step that lists sensors and leaves to each who has it, or marks it as
\* renamed.
LEMMA OwnersKept ==
  ASSUME Inv, known \subseteq known', known' \subseteq Ids, DOMAIN sensor' = Ids,
         \A i \in Ids : OwnerStays(sensor'[i], sensor[i])
  PROVE  Inv'
<1>1. \A i \in Ids : i \notin known' => sensor'[i].assoc = "UNBOUND"
  BY DEF Inv, OwnerStays
<1>2. ASSUME NEW i \in known', NEW j \in known', i[1] # j[1], {sensor'[i].assoc, sensor'[j].assoc} \subseteq Claims,
             ~sensor'[i].renamed, ~sensor'[j].renamed
      PROVE  sensor'[i].uuid # sensor'[j].uuid
  <2>1. i \in Ids /\ j \in Ids /\ sensor[i].assoc \in Claims /\ sensor[j].assoc \in Claims
    BY <1>2 DEF OwnerStays
  <2>2. "UNBOUND" \notin Claims
    BY DEF Claims
  <2>3. i \in known /\ j \in known
    BY <2>1, <2>2 DEF Inv
  <2>4. SameOwner(sensor'[i], sensor[i]) /\ SameOwner(sensor'[j], sensor[j])
    BY <1>2, <2>1 DEF OwnerStays
  <2> QED BY <1>2, <2>1, <2>3, <2>4 DEF Inv, OneOwner, SameOwner
<1> QED BY <1>1, <1>2 DEF Inv, Listing, OneOwner, OwnerStays

LEMMA Same ==
  ASSUME Inv, UNCHANGED <<known, sensor>>
  PROVE  Inv'
BY DEF Inv, Listing, OneOwner

\* Only the record of sensor i is written, and it may be listed.
Writes(i, r) ==
  /\ known' = known \/ known' = known \cup {i}
  /\ DOMAIN sensor' = Ids /\ \A j \in Ids : sensor'[j] = IF j = i THEN r ELSE sensor[j]
Changes(i) == \E r : Alike(r, sensor[i]) /\ Writes(i, r)

\* The record of one sensor changes, or is listed.
LEMMA OneKept ==
  ASSUME Inv, NEW i \in Ids, NEW r, OwnerStays(r, sensor[i]), Writes(i, r)
  PROVE  Inv'
<1>1. known \subseteq known' /\ known' \subseteq Ids /\ DOMAIN sensor' = Ids
  BY DEF Inv, Listing, Writes
<1>2. ASSUME NEW j \in Ids
      PROVE  OwnerStays(sensor'[j], sensor[j])
  BY DEF Inv, Listing, Writes, OwnerStays, SameOwner
<1> QED BY <1>1, <1>2, OwnersKept

LEMMA ChangesKeep ==
  ASSUME Inv, NEW i \in Ids, Changes(i)
  PROVE  Inv'
<1>1. PICK r : Alike(r, sensor[i]) /\ Writes(i, r)
  BY DEF Changes
<1> QED BY <1>1, OneKept DEF Alike, SameOwner, OwnerStays

LEMMA StoreWrites ==
  ASSUME Listing, NEW i \in Ids, NEW r, Store(i, r)
  PROVE  Writes(i, r)
BY DEF Listing, Store, Writes

LEMMA StoreChanges ==
  ASSUME Listing, NEW i \in Ids, NEW r, Alike(r, sensor[i]), Store(i, r)
  PROVE  Changes(i)
BY StoreWrites DEF Changes

LEMMA RecordOf ==
  ASSUME Listing, NEW i \in Ids
  PROVE  Record(sensor[i])
BY DEF Listing

\* A reading of a sensor: its number is counted, the rest leaves counters and
\* owner alone.
TheNumber(x) == IF x.seq = Corrupt THEN Unset ELSE x.seq
LEMMA TelemetryWrites ==
  ASSUME Listing, NEW i \in Ids, NEW x, Telemetry(i, x)
  PROVE  \E r : Alike(r, Counted(sensor[i], i, TheNumber(x))) /\ Writes(i, r)
<1> DEFINE a == Counted(sensor[i], i, TheNumber(x))
           b == Transitions(a, i, x)
           c == Read(b, i, x)
           d == Faults(c, x)
<1>0. Store(i, d)
  BY DEF Telemetry, TheNumber
<1>2. Record(a)
  BY RecordOf, CountedKeepsOwner DEF SameOwner
<1> HIDE DEF a
<1>3. Alike(b, a)
  BY <1>2, TransitionsAreAlike
<1>4. Record(b)
  BY <1>3 DEF Alike, SameOwner, SameCounts
<1> HIDE DEF b
<1>5. Alike(c, b)
  BY <1>4, ReadIsAlike
<1>6. Record(c)
  BY <1>5 DEF Alike, SameOwner, SameCounts
<1> HIDE DEF c
<1>7. Alike(d, c)
  BY <1>6, FaultsAreAlike
<1> HIDE DEF d
<1>8. Alike(d, a)
  BY <1>3, <1>5, <1>7, AlikeIsTransitive
<1>9. Writes(i, d)
  BY <1>0, StoreWrites
<1> QED BY <1>8, <1>9 DEF a

LEMMA TelemetryKeeps ==
  ASSUME Inv, NEW i \in Ids, NEW x, Telemetry(i, x)
  PROVE  Inv'
<1>1. Listing
  BY DEF Inv
<1>2. PICK r : Alike(r, Counted(sensor[i], i, TheNumber(x))) /\ Writes(i, r)
  BY <1>1, TelemetryWrites
<1>3. SameOwner(Counted(sensor[i], i, TheNumber(x)), sensor[i])
  BY <1>1, RecordOf, CountedKeepsOwner
<1>4. OwnerStays(r, sensor[i])
  BY <1>2, <1>3 DEF Alike, SameOwner, OwnerStays
<1> QED BY <1>2, <1>4, OneKept

LEMMA WirelessLinkChanges ==
  ASSUME Listing, NEW i \in Ids, NEW l, NEW n, WirelessLink(i, l, n)
  PROVE  Changes(i)
<1> DEFINE t == [Touched(sensor[i]) EXCEPT !.link = l, !.rejected = n]
<1>1. Alike(t, sensor[i])
  <2>1. Alike(Touched(sensor[i]), sensor[i])
    BY RecordOf, TouchedIsAlike
  <2>2. Alike(t, Touched(sensor[i]))
    BY <2>1 DEF Alike, SameOwner, SameCounts, Record
  <2> QED BY <2>1, <2>2, AlikeIsTransitive
<1>2. PICK p, severity : Store(i, NotedIf(n > sensor[i].rejected, NotedIf(p, t, <<"link", l>>, severity), <<"rejected">>, "WARNING"))
  BY DEF WirelessLink
<1> DEFINE s == NotedIf(p, t, <<"link", l>>, severity)
           u == NotedIf(n > sensor[i].rejected, s, <<"rejected">>, "WARNING")
<1>3. Record(t)
  BY <1>1 DEF Alike, SameOwner, SameCounts
<1> HIDE DEF t
<1>4. Alike(s, t)
  BY <1>3, NotedIfIsAlike
<1>5. Record(s)
  BY <1>4 DEF Alike, SameOwner, SameCounts
<1>6. Store(i, u)
  BY <1>2
<1> HIDE DEF s
<1>7. Alike(u, s)
  BY <1>5, NotedIfIsAlike
<1> HIDE DEF u
<1>8. Alike(u, sensor[i])
  BY <1>1, <1>4, <1>7, AlikeIsTransitive
<1> QED BY <1>6, <1>8, StoreChanges

LEMMA WirelessConfigChanges ==
  ASSUME Listing, NEW i \in Ids, NEW q, NEW m, WirelessConfig(i, q, m)
  PROVE  Changes(i)
<1> DEFINE r == [sensor[i] EXCEPT !.applied = IF q = "CURRENT" THEN @ ELSE q]
           s == IF m = "UNKNOWN" THEN r ELSE Touched(InMode(r, m))
           t == NotedIf(q = "REJECTED", s, <<"config">>, "WARNING")
<1>0. Store(i, t)
  BY DEF WirelessConfig
<1>1. Alike(r, sensor[i])
  BY RecordOf DEF Alike, SameOwner, SameCounts, Record
<1>2. Record(r)
  BY <1>1 DEF Alike, SameOwner, SameCounts
<1> HIDE DEF r
<1>3. Alike(InMode(r, m), r) /\ Record(InMode(r, m))
  BY <1>2, InModeIsAlike DEF Alike, SameOwner, SameCounts
<1>4. Alike(Touched(InMode(r, m)), r) /\ Alike(r, r)
  BY <1>2, <1>3, TouchedIsAlike, AlikeIsTransitive DEF Alike, SameOwner, SameCounts
<1>5. Alike(s, r)
  BY <1>4
<1>6. Record(s)
  BY <1>5 DEF Alike, SameOwner, SameCounts
<1> HIDE DEF s
<1>7. Alike(t, s)
  BY <1>6, NotedIfIsAlike
<1> HIDE DEF t
<1>8. Alike(t, sensor[i])
  BY <1>1, <1>5, <1>7, AlikeIsTransitive
<1> QED BY <1>0, <1>8, StoreChanges

LEMMA ConfigurationAppliedChanges ==
  ASSUME Listing, NEW i \in Ids, NEW m, ConfigurationApplied(i, m)
  PROVE  Changes(i)
<1> DEFINE r == [Touched(sensor[i]) EXCEPT !.applied = "APPLIED", !.status = "ONLINE",
                                           !.mode = IF m = "UNKNOWN" THEN @ ELSE m]
<1>1. Alike(Touched(sensor[i]), sensor[i])
  BY RecordOf, TouchedIsAlike
<1>2. Alike(r, Touched(sensor[i]))
  BY <1>1 DEF Alike, SameOwner, SameCounts, Record
<1>3. Store(i, r)
  BY DEF ConfigurationApplied
<1> HIDE DEF r
<1> QED BY <1>1, <1>2, <1>3, AlikeIsTransitive, StoreChanges

LEMMA PanelChanges ==
  ASSUME Listing, NEW i \in Ids, Panel(i)
  PROVE  Changes(i)
BY RecordOf, NotedIsAlike, StoreChanges DEF Panel

LEMMA SpectrumChanges ==
  ASSUME Listing, NEW i \in Ids, Spectrum(i)
  PROVE  Changes(i)
<1> DEFINE r == [Touched(sensor[i]) EXCEPT !.fft = TRUE]
<1>1. Alike(Touched(sensor[i]), sensor[i])
  BY RecordOf, TouchedIsAlike
<1>2. Alike(r, Touched(sensor[i]))
  BY <1>1 DEF Alike, SameOwner, SameCounts, Record
<1>3. Store(i, r)
  BY DEF Spectrum
<1> HIDE DEF r
<1> QED BY <1>1, <1>2, <1>3, AlikeIsTransitive, StoreChanges

LEMMA DtcChanges ==
  ASSUME Listing, NEW i \in Ids, NEW c, Dtc(i, c)
  PROVE  Changes(i)
BY RecordOf, RaisedIsAlike, StoreChanges DEF Dtc

LEMMA DtcClearedChanges ==
  ASSUME Listing, NEW i \in Ids, NEW cs, DtcCleared(i, cs)
  PROVE  Changes(i)
<1> DEFINE t == NotedIf(i \in known /\ Active(sensor[i]) # {}, sensor[i], <<"cleared">>, "INFO")
           r == [t EXCEPT !.dtc = [c \in Codes |-> IF c \in cs THEN 0 ELSE @[c]]]
<1>1. Alike(t, sensor[i])
  BY RecordOf, NotedIfIsAlike
<1>2. Store(i, r)
  BY DEF DtcCleared
<1> HIDE DEF t
<1>3. Alike(r, t)
  BY <1>1 DEF Alike, SameOwner, SameCounts, Record
<1> HIDE DEF r
<1> QED BY <1>1, <1>2, <1>3, AlikeIsTransitive, StoreChanges

\* An event of the data channel lists nothing.
LEMMA LinkEventChanges ==
  ASSUME Listing, NEW i \in Ids, NEW since, LinkEvent(i, since)
  PROVE  Changes(i)
<1> DEFINE r == Reported(sensor[i], since)
<1>1. Alike(r, sensor[i])
  BY RecordOf, ReportedIsAlike
<1>2. Writes(i, r)
  BY DEF LinkEvent, Listing, Writes
<1> HIDE DEF r
<1> QED BY <1>1, <1>2 DEF Changes

LEMMA SetAlarmLimitsChanges ==
  ASSUME Listing, NEW i \in Ids, NEW lim, SetAlarmLimits(i, lim)
  PROVE  Changes(i)
<1> DEFINE r == Evaluated(sensor[i], lim)
<1>1. Alike(r, sensor[i])
  BY RecordOf, EvaluatedIsAlike
<1>2. Alike(sensor[i], sensor[i])
  BY RecordOf DEF Alike, SameOwner, SameCounts
<1>3. Writes(i, r) \/ Writes(i, sensor[i])
  BY DEF SetAlarmLimits, Listing, Writes
<1> HIDE DEF r
<1> QED BY <1>1, <1>2, <1>3 DEF Changes

\* Another identity marks the sensor as renamed.
LEMMA RenamedStays ==
  ASSUME NEW r, Record(r), NEW u
  PROVE  OwnerStays(Renamed(r, u), r) /\ SameCounts(Renamed(r, u), r)
<1>1. Record(Renamed(r, u)) /\ Renamed(r, u).assoc = r.assoc /\ SameCounts(Renamed(r, u), r)
  BY DEF Renamed, Record, SameCounts
<1>2. Renamed(r, u).uuid = u /\ Renamed(r, u).renamed = (r.renamed \/ u # r.uuid)
  BY DEF Renamed, Record
<1>3. CASE u # r.uuid
  BY <1>1, <1>2, <1>3 DEF OwnerStays
<1>4. CASE u = r.uuid /\ r.renamed
  BY <1>1, <1>2, <1>4 DEF OwnerStays
<1>5. CASE u = r.uuid /\ ~r.renamed
  <2>1. (r.renamed \/ u # r.uuid) = r.renamed
    BY <1>5 DEF Record
  <2>2. Renamed(r, u).renamed = r.renamed
    BY <1>2, <2>1
  <2> QED BY <1>1, <1>2, <1>5, <2>2 DEF OwnerStays, SameOwner
<1> QED BY <1>1, <1>3, <1>4, <1>5

LEMMA SensorStatusWrites ==
  ASSUME Listing, NEW i \in Ids, NEW u, NEW s, SensorStatus(i, u, s)
  PROVE  \E r : OwnerStays(r, sensor[i]) /\ SameCounts(r, sensor[i]) /\ Writes(i, r)
<1> DEFINE t == Touched(sensor[i])
           q == Renamed(t, u)
           r == [q EXCEPT !.status = IF s = "" THEN @ ELSE s]
<1>1. Alike(t, sensor[i]) /\ Record(t)
  BY RecordOf, TouchedIsAlike DEF Alike, SameOwner
<1>2. OwnerStays(q, t) /\ SameCounts(q, t)
  BY <1>1, RenamedStays
<1>3. Store(i, r)
  BY DEF SensorStatus
<1> HIDE DEF q, t
<1>4. Alike(r, q)
  BY <1>2 DEF OwnerStays, Alike, SameOwner, SameCounts, Record
<1> HIDE DEF r
<1>5. OwnerStays(r, sensor[i]) /\ SameCounts(r, sensor[i])
  BY <1>1, <1>2, <1>4 DEF OwnerStays, Alike, SameOwner, SameCounts
<1>6. Writes(i, r)
  BY <1>3, StoreWrites
<1> QED BY <1>5, <1>6

LEMMA SensorStatusKeeps ==
  ASSUME Inv, NEW i \in Ids, NEW u, NEW s, SensorStatus(i, u, s)
  PROVE  Inv'
BY SensorStatusWrites, OneKept DEF Inv

LEMMA DirectVersionWrites ==
  ASSUME Listing, Direct \in Ids, NEW u, DirectVersion(u)
  PROVE  \E r : OwnerStays(r, sensor[Direct]) /\ SameCounts(r, sensor[Direct]) /\ Writes(Direct, r)
<1> DEFINE t == Touched(sensor[Direct])
           q == Renamed(t, u)
           r == [q EXCEPT !.profile = "VIBRATION"]
<1>1. Alike(t, sensor[Direct]) /\ Record(t)
  BY RecordOf, TouchedIsAlike DEF Alike, SameOwner
<1>2. OwnerStays(q, t) /\ SameCounts(q, t)
  BY <1>1, RenamedStays
<1>3. sensor' = [sensor EXCEPT ![Direct] = r] /\ known' = known \cup {Direct}
  BY DEF DirectVersion
<1> HIDE DEF q, t
<1>4. Alike(r, q)
  BY <1>2 DEF OwnerStays, Alike, SameOwner, SameCounts, Record
<1> HIDE DEF r
<1>5. OwnerStays(r, sensor[Direct]) /\ SameCounts(r, sensor[Direct])
  BY <1>1, <1>2, <1>4 DEF OwnerStays, Alike, SameOwner, SameCounts
<1>6. Writes(Direct, r)
  BY <1>3 DEF Listing, Writes
<1> QED BY <1>5, <1>6

LEMMA DirectStatusChanges ==
  ASSUME Listing, Direct \in Ids, NEW m, NEW x, DirectStatus(m, x)
  PROVE  Changes(Direct)
<1> DEFINE r == [Touched(sensor[Direct]) EXCEPT !.status = "ONLINE"]
           q == [InMode(r, m) EXCEPT !.mode = m]
           t == Faults(q, x)
<1>1. Alike(Touched(sensor[Direct]), sensor[Direct])
  BY RecordOf, TouchedIsAlike
<1>2. Alike(r, Touched(sensor[Direct])) /\ Record(r)
  BY <1>1 DEF Alike, SameOwner, SameCounts, Record
<1>3. Store(Direct, t)
  BY DEF DirectStatus
<1> HIDE DEF r
<1>4. Alike(InMode(r, m), r)
  BY <1>2, InModeIsAlike
<1>5. Alike(q, InMode(r, m)) /\ Record(q)
  BY <1>4 DEF Alike, SameOwner, SameCounts, Record
<1> HIDE DEF q
<1>6. Alike(t, q)
  BY <1>5, FaultsAreAlike
<1> HIDE DEF t
<1>7. Alike(t, sensor[Direct])
  BY <1>1, <1>2, <1>4, <1>5, <1>6, AlikeIsTransitive
<1> QED BY <1>3, <1>7, StoreChanges

LEMMA RefreshChanges ==
  ASSUME Listing, RefreshFreshness
  PROVE  known' = known /\ DOMAIN sensor' = Ids /\ \A i \in Ids : Alike(sensor'[i], sensor[i])
<1>1. ASSUME NEW i \in Ids
      PROVE  Alike(sensor'[i], sensor[i])
  <2>1. sensor'[i] \in {sensor[i], [sensor[i] EXCEPT !.status = "UNKNOWN"], Refreshed(sensor[i])}
    BY DEF RefreshFreshness
  <2>2. Alike(sensor[i], sensor[i]) /\ Alike([sensor[i] EXCEPT !.status = "UNKNOWN"], sensor[i])
    BY RecordOf DEF Alike, SameOwner, SameCounts, Record
  <2>3. Alike(Refreshed(sensor[i]), sensor[i])
    BY RecordOf, RefreshedIsAlike
  <2> QED BY <2>1, <2>2, <2>3
<1> QED BY <1>1 DEF RefreshFreshness

LEMMA RefreshKeeps ==
  ASSUME Inv, RefreshFreshness
  PROVE  Inv'
<1>1. known' = known /\ DOMAIN sensor' = Ids /\ \A i \in Ids : Alike(sensor'[i], sensor[i])
  BY RefreshChanges DEF Inv
<1>2. known' \subseteq Ids
  BY <1>1 DEF Inv, Listing
<1>3. \A i \in Ids : OwnerStays(sensor'[i], sensor[i])
  BY <1>1 DEF Alike, SameOwner, OwnerStays
<1> QED BY <1>1, <1>2, <1>3, OwnersKept

-----------------------------------------------------------------------------
(* The word of a module *)

LEMMA UnboundKeeps ==
  ASSUME Inv, NEW i \in Ids, Unbound(i)
  PROVE  Inv'
<1> DEFINE gone == known \cap {i}
<1>1. known' = known \ {i} /\ sensor' = Removed(gone)
  BY DEF Unbound
<1>2. DOMAIN sensor' = Ids /\ \A j \in Ids : sensor'[j] = IF j \in gone THEN Blank ELSE sensor[j]
  BY <1>1 DEF Removed
<1>3. Record(Blank) /\ Blank.assoc = "UNBOUND"
  BY DEF Blank, Record
<1>4. \A j \in Ids : Record(sensor'[j])
  BY <1>2, <1>3 DEF Inv, Listing
<1>5. \A j \in Ids : j \notin known' => sensor'[j].assoc = "UNBOUND"
  BY <1>1, <1>2, <1>3 DEF Inv, Listing
<1>6. \A j \in known' : j \in known /\ sensor'[j] = sensor[j]
  BY <1>1, <1>2 DEF Inv, Listing
<1>7. OneOwner'
  BY <1>6 DEF Inv, Listing, OneOwner
<1>8. known' \subseteq Ids
  BY <1>1 DEF Inv, Listing
<1> QED BY <1>2, <1>4, <1>5, <1>7, <1>8 DEF Inv, Listing

\* Who claims a sensor takes it from the other modules, so that of the rest no
\* one of another module has its identity.
LEMMA AssociationKeeps ==
  ASSUME Inv, NEW i \in Ids, NEW u, NEW s, NEW a, Association(i, u, s, a)
  PROVE  Inv'
<1> DEFINE gone == Rivals(i, u, s)
           r == [sensor[i] EXCEPT !.uuid = u, !.renamed = FALSE, !.assoc = s, !.status = StatusOf(s),
                                  !.auto = IF a = "UNKNOWN" THEN @ ELSE a, !.seen = clock,
                                  !.bound = IF s \in {"BOUND", "ONLINE"} /\ @ = 0 THEN clock ELSE @]
<1>1. known' = (known \ gone) \cup {i} /\ sensor' = [Removed(gone) EXCEPT ![i] = r]
  BY DEF Association
<1>2. Record(r) /\ r.uuid = u /\ r.assoc = s
  BY RecordOf DEF Inv, Record
<1> HIDE DEF r
<1>3. i \notin gone /\ gone \subseteq known
  BY DEF Rivals
<1>4. s \in Claims => \A j \in known \ gone : j[1] # i[1] => sensor[j].uuid # u
  BY DEF Rivals
<1> HIDE DEF gone
<1>5. /\ DOMAIN sensor' = Ids /\ sensor'[i] = r
      /\ \A j \in Ids : j # i => sensor'[j] = IF j \in gone THEN Blank ELSE sensor[j]
  BY <1>1 DEF Removed
<1>6. Record(Blank) /\ Blank.assoc = "UNBOUND"
  BY DEF Blank, Record
<1>7. \A j \in Ids : Record(sensor'[j])
  BY <1>2, <1>5, <1>6 DEF Inv, Listing
<1>8. \A j \in Ids : j \notin known' => sensor'[j].assoc = "UNBOUND"
  BY <1>1, <1>5, <1>6 DEF Inv, Listing
<1>9. known' \subseteq Ids
  BY <1>1 DEF Inv, Listing
<1>10. \A j \in known' : j # i => j \in known \ gone /\ sensor'[j] = sensor[j]
  BY <1>1, <1>5 DEF Inv, Listing
<1>11. ASSUME NEW j \in known', NEW k \in known', j[1] # k[1], {sensor'[j].assoc, sensor'[k].assoc} \subseteq Claims,
              ~sensor'[j].renamed, ~sensor'[k].renamed
       PROVE  sensor'[j].uuid # sensor'[k].uuid
  <2>1. CASE j # i /\ k # i
    BY <1>10, <1>11, <2>1 DEF Inv, Listing, OneOwner
  <2>2. CASE j = i
    BY <1>2, <1>4, <1>5, <1>10, <1>11, <2>2
  <2>3. CASE k = i
    BY <1>2, <1>4, <1>5, <1>10, <1>11, <2>3
  <2> QED BY <2>1, <2>2, <2>3
<1> QED BY <1>5, <1>7, <1>8, <1>9, <1>11 DEF Inv, Listing, OneOwner

-----------------------------------------------------------------------------
(* Every step *)

LEMMA OwnershipKeeps ==
  ASSUME Inv, NEW is \in SUBSET Ids, Ownership(is)
  PROVE  Inv'
<1>1. ASSUME NEW i \in is, NEW u \in Uuids, NEW s \in Followed, NEW a \in {"AUTO", "UNKNOWN"}, Association(i, u, s, a)
      PROVE  Inv'
  BY <1>1, AssociationKeeps
<1>2. ASSUME NEW i \in is, NEW u \in Uuids \cup {""}, NEW s \in {"", "ONLINE"}, SensorStatus(i, u, s)
      PROVE  Inv'
  BY <1>2, SensorStatusKeeps
<1>3. ASSUME NEW i \in is, Unbound(i) PROVE Inv'
  BY <1>3, UnboundKeeps
<1>4. ASSUME NEW i \in is, Telemetry(i, Quiet) PROVE Inv'
  BY <1>4, TelemetryKeeps
<1>5. ASSUME NEW n \in Nodes, NEW u \in Uuids, NotBoundHello(n, u, 0) PROVE Inv'
  <2>1. PICK i \in known : LinkEvent(i, 0)
    BY <1>5 DEF NotBoundHello
  <2>2. i \in Ids
    BY DEF Inv, Listing
  <2> QED BY <2>1, <2>2, LinkEventChanges, ChangesKeep DEF Inv
<1>6. ASSUME NEW t, Select(t) PROVE Inv'
  BY <1>6, Same DEF Select
<1> QED BY <1>1, <1>2, <1>3, <1>4, <1>5, <1>6 DEF Ownership

LEMMA ModulesKeep ==
  ASSUME Inv, NEW is \in SUBSET Ids, Modules(is)
  PROVE  Inv'
<1>1. ASSUME NEW i \in is, Panel(i) PROVE Inv'
  BY <1>1, PanelChanges, ChangesKeep DEF Inv
<1>2. ASSUME NEW i \in is, Spectrum(i) PROVE Inv'
  BY <1>2, SpectrumChanges, ChangesKeep DEF Inv
<1>3. ASSUME NEW i \in is, NEW u \in Uuids, NEW s \in Followed, Association(i, u, s, "UNKNOWN") PROVE Inv'
  BY <1>3, AssociationKeeps
<1>4. ASSUME NEW i \in is, NEW l \in Links \ {"NONE"}, NEW k \in 0 .. 1, WirelessLink(i, l, k) PROVE Inv'
  BY <1>4, WirelessLinkChanges, ChangesKeep DEF Inv
<1>5. ASSUME NEW i \in is, NEW t \in 0 .. 2, LinkEvent(i, t) PROVE Inv'
  BY <1>5, LinkEventChanges, ChangesKeep DEF Inv
<1>6. ASSUME NEW i \in is, NEW m \in Modes, NEW q \in {"CURRENT", "APPLIED", "REJECTED"}, WirelessConfig(i, q, m)
      PROVE  Inv'
  BY <1>6, WirelessConfigChanges, ChangesKeep DEF Inv
<1>7. ASSUME NEW i \in is, NEW m \in Modes, ConfigurationApplied(i, m) PROVE Inv'
  BY <1>7, ConfigurationAppliedChanges, ChangesKeep DEF Inv
<1>8. CASE RefreshFreshness
  BY <1>8, RefreshKeeps
<1>9. CASE UNCHANGED <<known, sensor>>
  BY <1>9, Same
<1>10. \/ \E m \in {"GATEWAY_CAN", "SENSOR_DIRECT"} : ModeDetected(m)
       \/ \E n \in Nodes \cup {0}, s \in {"ONLINE", "LOST"} : PhysicalNode(n, s)
       \/ \E n \in Nodes : NodeHeard(n) \/ NodeEvent(n)
       \/ \E n \in Nodes, u \in Uuids : WirelessCandidate(n, u)
       \/ \E u \in Uuids, n, o \in Nodes : n # o /\ WirelessFailover(u, n, o)
       => UNCHANGED <<known, sensor>>
  BY DEF ModeDetected, PhysicalNode, NodeHeard, NodeEvent, WirelessCandidate, WirelessFailover, Sensors
<1>11. (\E off, passive \in BOOLEAN : BusStats(off, passive)) \/ GatewayStatus \/ CrcError \/ CanFrame \/ Tick
       => UNCHANGED <<known, sensor>>
  BY DEF BusStats, GatewayStatus, CrcError, CanFrame, Tick, Sensors
<1> QED BY <1>1, <1>2, <1>3, <1>4, <1>5, <1>6, <1>7, <1>8, <1>9, <1>10, <1>11 DEF Modules

LEMMA NumberingKeeps ==
  ASSUME Inv, NEW is \in SUBSET Ids, NEW xs, Numbering(is, xs)
  PROVE  Inv'
<1>1. CASE ConnectionOpened
  BY <1>1, Same DEF ConnectionOpened
<1>2. ASSUME NEW i \in is, NEW x \in xs, Telemetry(i, x) PROVE Inv'
  BY <1>2, TelemetryKeeps
<1> QED BY <1>1, <1>2 DEF Numbering

LEMMA ReadingsKeep ==
  ASSUME Inv, NEW is \in SUBSET Ids, NEW xs, Readings(is, xs)
  PROVE  Inv'
<1>1. ASSUME NEW i \in is, NEW x \in xs, Telemetry(i, x) PROVE Inv'
  BY <1>1, TelemetryKeeps
<1>2. ASSUME NEW i \in is, NEW lim \in Limits, SetAlarmLimits(i, lim) PROVE Inv'
  BY <1>2, SetAlarmLimitsChanges, ChangesKeep DEF Inv
<1>3. ASSUME NEW i \in is, NEW c \in Codes, Dtc(i, c) PROVE Inv'
  BY <1>3, DtcChanges, ChangesKeep DEF Inv
<1>4. ASSUME NEW i \in is, Unbound(i) PROVE Inv'
  BY <1>4, UnboundKeeps
<1>5. ASSUME NEW i \in is, NEW cs \in {Codes} \cup {{c} : c \in Codes}, DtcCleared(i, cs) PROVE Inv'
  BY <1>5, DtcClearedChanges, ChangesKeep DEF Inv
<1>6. CASE Tick
  BY <1>6, Same DEF Tick
<1> QED BY <1>1, <1>2, <1>3, <1>4, <1>5, <1>6 DEF Readings

LEMMA GatewayKeeps ==
  ASSUME Inv, Gateway
  PROVE  Inv'
<1>1. Ids \in SUBSET Ids
  OBVIOUS
<1> QED BY <1>1, OwnershipKeeps, ModulesKeep, NumberingKeeps, ReadingsKeep DEF Gateway

LEMMA PortKeeps ==
  ASSUME Inv, Direct \in Ids, Port
  PROVE  Inv'
<1>1. ASSUME NEW u \in Uuids, DirectVersion(u) PROVE Inv'
  BY <1>1, DirectVersionWrites, OneKept DEF Inv
<1>2. ASSUME NEW m \in Modes, NEW x, DirectStatus(m, x) PROVE Inv'
  BY <1>2, DirectStatusChanges, ChangesKeep DEF Inv
<1> QED BY <1>1, <1>2 DEF Port

LEMMA InvInit == Init => Inv
<1> SUFFICES ASSUME Init PROVE Inv
  OBVIOUS
<1>1. known = {} /\ DOMAIN sensor = Ids /\ \A i \in Ids : sensor[i] = Blank
  BY DEF Init
<1>2. Record(Blank) /\ Blank.assoc = "UNBOUND"
  BY DEF Blank, Record
<1> QED BY <1>1, <1>2 DEF Inv, Listing, OneOwner

LEMMA InvNext ==
  ASSUME Direct \in Ids, Inv, [Next]_vars
  PROVE  Inv'
<1>1. CASE Gateway
  BY <1>1, GatewayKeeps
<1>2. CASE Port
  BY <1>2, PortKeeps
<1>3. CASE UNCHANGED vars
  BY <1>3, Same DEF vars
<1> QED BY <1>1, <1>2, <1>3 DEF Next

\* Two modules never both own the same sensor for the console, for any modules,
\* sensors and identities and in any order of the events of a gateway or of the
\* USB port, of which any may be lost or late: the last claim takes the sensor
\* from the others, and of all the handlers that write a sensor only the SENSOR
\* line and the version of a sensor on the port can give it another identity
\* (controller.py:266-286, _wireless_association; 517-539, _sensor_status).
THEOREM OneModuleOwnsASensor ==
  ASSUME Direct \in Ids
  PROVE  Spec => []OneOwner
<1>1. Init => Inv
  BY InvInit
<1>2. Inv /\ [Next]_vars => Inv'
  BY InvNext
<1>3. Inv => OneOwner
  BY DEF Inv
<1> QED BY <1>1, <1>2, <1>3, PTL DEF Spec

-----------------------------------------------------------------------------
(* What the events of some sensors list *)

\* The events of modules list no sensor but the one they are of.
LEMMA ModulesList ==
  ASSUME NEW is, Modules(is)
  PROVE  known' \subseteq known \cup is
<1>1. ASSUME NEW i \in is, Panel(i) \/ Spectrum(i) PROVE known' \subseteq known \cup is
  BY <1>1 DEF Panel, Spectrum, Store
<1>2. ASSUME NEW i \in is, NEW u \in Uuids, NEW s \in Followed, Association(i, u, s, "UNKNOWN")
      PROVE  known' \subseteq known \cup is
  BY <1>2 DEF Association
<1>3. ASSUME NEW i \in is, NEW l \in Links \ {"NONE"}, NEW k \in 0 .. 1, WirelessLink(i, l, k)
      PROVE  known' \subseteq known \cup is
  BY <1>3 DEF WirelessLink, Store
<1>4. ASSUME NEW i \in is, NEW t \in 0 .. 2, LinkEvent(i, t) PROVE known' \subseteq known \cup is
  BY <1>4 DEF LinkEvent
<1>5. ASSUME NEW i \in is, NEW m \in Modes, NEW q \in {"CURRENT", "APPLIED", "REJECTED"}, WirelessConfig(i, q, m)
      PROVE  known' \subseteq known \cup is
  BY <1>5 DEF WirelessConfig, Store
<1>6. ASSUME NEW i \in is, NEW m \in Modes, ConfigurationApplied(i, m) PROVE known' \subseteq known \cup is
  BY <1>6 DEF ConfigurationApplied, Store
<1>7. CASE known' = known
  BY <1>7
<1>8. \/ \E m \in {"GATEWAY_CAN", "SENSOR_DIRECT"} : ModeDetected(m)
      \/ \E n \in Nodes \cup {0}, s \in {"ONLINE", "LOST"} : PhysicalNode(n, s)
      \/ \E n \in Nodes : NodeHeard(n) \/ NodeEvent(n)
      \/ \E n \in Nodes, u \in Uuids : WirelessCandidate(n, u)
      \/ \E u \in Uuids, n, o \in Nodes : n # o /\ WirelessFailover(u, n, o)
      => known' = known
  BY DEF ModeDetected, PhysicalNode, NodeHeard, NodeEvent, WirelessCandidate, WirelessFailover, Sensors
<1>9. (\E off, passive \in BOOLEAN : BusStats(off, passive)) \/ GatewayStatus \/ CrcError \/ CanFrame \/ Tick
      \/ RefreshFreshness
      => known' = known
  BY DEF BusStats, GatewayStatus, CrcError, CanFrame, Tick, RefreshFreshness, Sensors
<1> QED BY <1>1, <1>2, <1>3, <1>4, <1>5, <1>6, <1>7, <1>8, <1>9 DEF Modules

LEMMA NumberingLists ==
  ASSUME NEW is, NEW xs, Numbering(is, xs)
  PROVE  known' \subseteq known \cup is
BY DEF Numbering, ConnectionOpened, Telemetry, Store

LEMMA ReadingsList ==
  ASSUME NEW is, NEW xs, Readings(is, xs)
  PROVE  known' \subseteq known \cup is
<1>1. ASSUME NEW i \in is, NEW x \in xs, Telemetry(i, x) PROVE known' \subseteq known \cup is
  BY <1>1 DEF Telemetry, Store
<1>2. ASSUME NEW i \in is, NEW c \in Codes, Dtc(i, c) PROVE known' \subseteq known \cup is
  BY <1>2 DEF Dtc, Store
<1>3. ASSUME NEW i \in is, NEW cs \in {Codes} \cup {{c} : c \in Codes}, DtcCleared(i, cs)
      PROVE  known' \subseteq known \cup is
  BY <1>3 DEF DtcCleared, Store
<1>4. (\E i \in is, lim \in Limits : SetAlarmLimits(i, lim)) \/ (\E i \in is : Unbound(i)) \/ Tick
      => known' \subseteq known
  BY DEF SetAlarmLimits, Unbound, Tick
<1> QED BY <1>1, <1>2, <1>3, <1>4 DEF Readings

LEMMA PortLists ==
  ASSUME Port
  PROVE  known' \subseteq known \cup {Direct}
BY DEF Port, DirectVersion, DirectStatus, Store

-----------------------------------------------------------------------------
(* The numbers of a reading *)

\* What a number is modulo another, and that nothing else is.
LEMMA DivisionOf ==
  ASSUME NEW m \in Nat \ {0}, NEW x \in Int
  PROVE  x % m \in 0 .. m - 1 /\ x \div m \in Int /\ x = m * (x \div m) + (x % m)
BY SMT

\* So many times the modulus and a remainder: the remainder is unique.
Multiple(m, q, r) == m * q + r

LEMMA RemainderIsUnique ==
  ASSUME NEW m \in Nat \ {0}, NEW q \in Int, NEW p \in Int, NEW r \in 0 .. m - 1, NEW s \in 0 .. m - 1,
         Multiple(m, q, r) = Multiple(m, p, s)
  PROVE  r = s
<1>1. ASSUME NEW a \in Int, NEW b \in Int, a > b PROVE m * a - m * b >= m
  <2>1. a - b >= 1 BY <1>1
  <2>2. m * (a - b) >= m BY <2>1, SMT
  <2>3. m * (a - b) = m * a - m * b BY SMT
  <2> QED BY <2>2, <2>3
<1>2. m * q \in Int /\ m * p \in Int /\ m * q + r = m * p + s
  BY DEF Multiple
<1>3. ~(q > p)
  <2>1. SUFFICES ASSUME q > p PROVE FALSE OBVIOUS
  <2>2. m * q - m * p >= m BY <1>1, <2>1
  <2> QED BY <1>2, <2>2
<1>4. ~(p > q)
  <2>1. SUFFICES ASSUME p > q PROVE FALSE OBVIOUS
  <2>2. m * p - m * q >= m BY <1>1, <2>1
  <2> QED BY <1>2, <2>2
<1>5. q = p BY <1>3, <1>4
<1> QED BY <1>2, <1>5

\* A difference of less than the modulus survives it.
Gap(m, a, b) == ((a % m) - (b % m)) % m

LEMMA GapIs ==
  ASSUME NEW m \in Nat \ {0}, NEW a \in Nat, NEW b \in Nat
  PROVE  /\ a - b \in 0 .. m - 1 => Gap(m, a, b) = a - b
         /\ m + a - b \in 0 .. m - 1 => Gap(m, a, b) = m + a - b
<1> DEFINE x == (a % m) - (b % m)
           qa == a \div m
           qb == b \div m
           p == x \div m
           t == x % m
<1>1. a % m \in 0 .. m - 1 /\ qa \in Int /\ a = m * qa + (a % m) BY DivisionOf
<1>2. b % m \in 0 .. m - 1 /\ qb \in Int /\ b = m * qb + (b % m) BY DivisionOf
<1>3. Gap(m, a, b) = t BY DEF Gap
<1> HIDE DEF qa, qb
<1>4. a % m \in Int /\ b % m \in Int /\ m * qa \in Int /\ m * qb \in Int BY <1>1, <1>2
<1>5. x \in Int /\ x = a - b - m * qa + m * qb BY <1>1, <1>2, <1>4
<1>6. p \in Int /\ t \in 0 .. m - 1 /\ x = Multiple(m, p, t) BY <1>5, DivisionOf DEF Multiple
<1> HIDE DEF x, p, t
<1>7. ASSUME a - b \in 0 .. m - 1 PROVE t = a - b
  <2> DEFINE q == qb - qa
             d == a - b
  <2>1. m * q = m * qb - m * qa /\ q \in Int BY <1>1, <1>2, SMT
  <2> HIDE DEF q
  <2>2. x = Multiple(m, q, d)
    <3> DEFINE u == m * q
               v == m * qa
               w == m * qb
    <3>1. u \in Int /\ v \in Int /\ w \in Int BY <1>4, <2>1
    <3>2. x = a - b - v + w BY <1>5
    <3>3. u = w - v BY <2>1
    <3> HIDE DEF u, v, w
    <3>4. x = u + d BY <3>1, <3>2, <3>3
    <3> QED BY <3>4 DEF u, Multiple
  <2>3. d \in 0 .. m - 1 BY <1>7
  <2> HIDE DEF d
  <2>4. t = d BY <1>6, <2>1, <2>2, <2>3, RemainderIsUnique
  <2> QED BY <2>4 DEF d
<1>8. ASSUME m + a - b \in 0 .. m - 1 PROVE t = m + a - b
  <2> DEFINE q == qb - qa - 1
             d == m + a - b
  <2>1. m * q = m * qb - m * qa - m /\ q \in Int BY <1>1, <1>2, SMT
  <2> HIDE DEF q
  <2>2. x = Multiple(m, q, d)
    <3> DEFINE u == m * q
               v == m * qa
               w == m * qb
    <3>1. u \in Int /\ v \in Int /\ w \in Int BY <1>4, <2>1
    <3>2. x = a - b - v + w BY <1>5
    <3>3. u = w - v - m BY <2>1
    <3> HIDE DEF u, v, w
    <3>4. x = u + d BY <3>1, <3>2, <3>3
    <3> QED BY <3>4 DEF u, Multiple
  <2>3. d \in 0 .. m - 1 BY <1>8
  <2> HIDE DEF d
  <2>4. t = d BY <1>6, <2>1, <2>2, <2>3, RemainderIsUnique
  <2> QED BY <2>4 DEF d
<1> QED BY <1>3, <1>7, <1>8

\* What is told of number k after number t, less than half the range away.
LEMMA DeltaOf ==
  ASSUME RegistryAssumption, NEW i \in Ids, NEW k \in Nat, NEW t \in Nat, tracker[i] = t % Modulus,
         k - t < Half, t - k < Half
  PROVE  /\ k = t => Delta(i, k) = 0
         /\ k > t => Delta(i, k) = k - t
         /\ k < t => Delta(i, k) = Modulus + k - t
<1>1. Modulus \in Nat \ {0} /\ Half \in Nat /\ Modulus = Half + Half
  <2>1. Modulus \in Nat /\ Modulus = 2 * Half /\ Half > 0 BY DEF RegistryAssumption
  <2>2. Half \in Int BY <2>1 DEF Half
  <2> QED BY <2>1, <2>2
<1>2. Delta(i, k) = Gap(Modulus, k, t) BY DEF Delta, Gap
<1>3. ASSUME k >= t PROVE Delta(i, k) = k - t
  <2>1. k - t \in 0 .. Modulus - 1 BY <1>1, <1>3
  <2> QED BY <1>1, <1>2, <2>1, GapIs
<1>4. ASSUME k < t PROVE Delta(i, k) = Modulus + k - t
  <2>1. Modulus + k - t \in 0 .. Modulus - 1 BY <1>1, <1>4
  <2> QED BY <1>1, <1>2, <2>1, GapIs
<1> QED BY <1>3, <1>4

-----------------------------------------------------------------------------
(* What is missing from a stream *)

Holes(s) == (s.first .. s.tip) \ s.got
Earlier(s) == {k \in s.got : k < s.first}
Balance(s) == s.owed + Cardinality(Holes(s)) - Cardinality(Earlier(s))

\* A stream has begun with a number and its newest is one of it; the tracker
\* has that one, or nothing; and the counters have the balance of the stream.
Stream(s) ==
  /\ s \in [first : Nat, tip : Nat, got : SUBSET (Nat \ {0}), owed : Int]
  /\ s.got = {} => s.first = 1 /\ s.tip = 0
  /\ s.got # {} => s.first \in s.got /\ s.tip \in s.got /\ \A k \in s.got : k <= s.tip
Tracked(i) == tracker[i] = IF stream[i].got = {} THEN Unset ELSE stream[i].tip % Modulus
Balanced(i) ==
  /\ sensor[i].lost \in Int /\ sensor[i].late \in Int
  /\ sensor[i].lost - sensor[i].late = Balance(stream[i])

Accounts ==
  /\ DOMAIN stream = Ids /\ DOMAIN tracker = Ids
  /\ \A i \in Ids : Stream(stream[i]) /\ Tracked(i) /\ Balanced(i)

LEMMA StreamSets ==
  ASSUME NEW s, Stream(s)
  PROVE  /\ IsFiniteSet(s.got) /\ IsFiniteSet(Holes(s)) /\ IsFiniteSet(Earlier(s))
         /\ Cardinality(Holes(s)) \in Nat /\ Cardinality(Earlier(s)) \in Nat /\ Balance(s) \in Int
<1>1. IsFiniteSet(s.got)
  <2>1. CASE s.got = {} BY <2>1, FS_EmptySet
  <2>2. CASE s.got # {}
    <3>1. s.got \in SUBSET Nat /\ s.tip \in Nat /\ \A k \in s.got : k <= s.tip BY <2>2 DEF Stream
    <3> QED BY <3>1, FS_BoundedSetOfNaturals
  <2> QED BY <2>1, <2>2
<1>2. IsFiniteSet(s.first .. s.tip)
  <2>1. s.first \in Int /\ s.tip \in Int BY DEF Stream
  <2> QED BY <2>1, FS_Interval
<1>3. Holes(s) \in SUBSET (s.first .. s.tip) /\ Earlier(s) \in SUBSET s.got BY DEF Holes, Earlier
<1>4. IsFiniteSet(Holes(s)) /\ IsFiniteSet(Earlier(s)) BY <1>1, <1>2, <1>3, FS_Subset
<1>5. Cardinality(Holes(s)) \in Nat /\ Cardinality(Earlier(s)) \in Nat BY <1>4, FS_CardinalityType
<1> QED BY <1>1, <1>4, <1>5 DEF Stream, Balance

\* A stream with number k.
With(s, k) ==
  [s EXCEPT !.got = @ \cup {k}, !.first = IF s.got = {} THEN k ELSE @, !.tip = IF k > @ THEN k ELSE @]

LEMMA WithIs ==
  ASSUME NEW s, Stream(s), NEW k \in Nat \ {0}
  PROVE  /\ With(s, k).got = s.got \cup {k} /\ With(s, k).owed = s.owed
         /\ With(s, k).first = (IF s.got = {} THEN k ELSE s.first)
         /\ With(s, k).tip = (IF k > s.tip THEN k ELSE s.tip)
         /\ With(s, k) \in [first : Nat, tip : Nat, got : SUBSET (Nat \ {0}), owed : Int]
BY DEF With, Stream

LEMMA WithIsStream ==
  ASSUME NEW s, Stream(s), NEW k \in Nat \ {0}
  PROVE  Stream(With(s, k)) /\ With(s, k).got # {}
<1>1. CASE s.got = {}
  BY <1>1, WithIs DEF Stream
<1>2. CASE s.got # {}
  <2>1. s.tip \in Nat /\ s.first \in s.got /\ s.tip \in s.got /\ s.got \subseteq Nat /\ \A j \in s.got : j <= s.tip
    BY <1>2 DEF Stream
  <2> DEFINE n == With(s, k)
  <2>2. n.got = s.got \cup {k} /\ n.first = s.first /\ n.tip = IF k > s.tip THEN k ELSE s.tip
    BY <1>2, WithIs
  <2>3. n \in [first : Nat, tip : Nat, got : SUBSET (Nat \ {0}), owed : Int]
    BY WithIs
  <2> HIDE DEF n
  <2>4. \A j \in n.got : j <= n.tip
    BY <2>1, <2>2
  <2>5. n.got # {} /\ n.first \in n.got /\ n.tip \in n.got
    BY <2>1, <2>2
  <2> QED BY <2>3, <2>4, <2>5 DEF Stream, n
<1> QED BY <1>1, <1>2

\* The first number of a stream.
LEMMA FirstBalance ==
  ASSUME NEW s, Stream(s), NEW k \in Nat \ {0}, s.got = {}
  PROVE  Balance(With(s, k)) = Balance(s) /\ With(s, k).tip = k
<1> DEFINE n == With(s, k)
<1>1. n.got = {k} /\ n.owed = s.owed /\ n.first = k /\ n.tip = k /\ s.first = 1 /\ s.tip = 0
  BY WithIs DEF Stream
<1> HIDE DEF n
<1>2. Holes(n) = {} /\ Earlier(n) = {}
  BY <1>1 DEF Holes, Earlier
<1>3. Holes(s) = {} /\ Earlier(s) = {}
  BY <1>1 DEF Holes, Earlier
<1> QED BY <1>1, <1>2, <1>3 DEF Balance, n

\* The newest again.
LEMMA SameBalance ==
  ASSUME NEW s, Stream(s), NEW k \in Nat \ {0}, s.got # {}, k = s.tip
  PROVE  Balance(With(s, k)) = Balance(s) /\ With(s, k).tip = s.tip
<1> DEFINE n == With(s, k)
<1>0. k \in s.got /\ s.tip \in Nat
  BY DEF Stream
<1>1. n.got = s.got /\ n.owed = s.owed /\ n.first = s.first
  BY <1>0, WithIs
<1>2. n.tip = s.tip
  BY <1>0, WithIs
<1> HIDE DEF n
<1> QED BY <1>1, <1>2 DEF Balance, Holes, Earlier, n

\* A newer one: what lies between is missing.
LEMMA NewerBalance ==
  ASSUME NEW s, Stream(s), NEW k \in Nat \ {0}, s.got # {}, k > s.tip
  PROVE  Balance(With(s, k)) = Balance(s) + (k - s.tip - 1) /\ With(s, k).tip = k
<1> DEFINE n == With(s, k)
           between == s.tip + 1 .. k - 1
<1>1. n.got = s.got \cup {k} /\ n.owed = s.owed /\ n.first = s.first /\ n.tip = k
  BY WithIs
<1>2. s.first \in Nat /\ s.tip \in Nat /\ s.first \in s.got /\ s.got \subseteq Nat /\ s.owed \in Int
      /\ (\A j \in s.got : j <= s.tip)
  BY DEF Stream
<1>3. s.first <= s.tip
  BY <1>2
<1> HIDE DEF n
<1>4. Holes(n) = Holes(s) \cup between
  BY <1>1, <1>2, <1>3 DEF Holes
<1>5. Holes(s) \cap between = {}
  BY <1>2 DEF Holes
<1>6. IsFiniteSet(between) /\ Cardinality(between) = k - s.tip - 1
  <2>1. s.tip + 1 \in Int /\ k - 1 \in Int
    BY <1>2
  <2>2. IsFiniteSet(between) /\ Cardinality(between) = IF s.tip + 1 > k - 1 THEN 0 ELSE k - 1 - (s.tip + 1) + 1
    BY <2>1, FS_Interval
  <2> QED BY <1>2, <2>2
<1> HIDE DEF between
<1>7. IsFiniteSet(Holes(s)) /\ Cardinality(Holes(s)) \in Nat /\ Cardinality(Earlier(s)) \in Nat
  BY StreamSets
<1>8. Cardinality(Holes(n)) = Cardinality(Holes(s)) + (k - s.tip - 1)
  <2>1. Cardinality(Holes(s) \cup between)
        = Cardinality(Holes(s)) + Cardinality(between) - Cardinality(Holes(s) \cap between)
    BY <1>6, <1>7, FS_Union
  <2>2. Cardinality(Holes(s) \cap between) = 0
    BY <1>5, FS_EmptySet
  <2> QED BY <1>2, <1>4, <1>6, <1>7, <2>1, <2>2
<1>9. Earlier(n) = Earlier(s)
  BY <1>1, <1>2, <1>3 DEF Earlier
<1> QED BY <1>1, <1>2, <1>7, <1>8, <1>9 DEF Balance, n

\* A late one: one that was missing, or from before the first.
LEMMA LateBalance ==
  ASSUME NEW s, Stream(s), NEW k \in Nat \ {0}, s.got # {}, k < s.tip, k \notin s.got
  PROVE  Balance(With(s, k)) = Balance(s) - 1 /\ With(s, k).tip = s.tip
<1> DEFINE n == With(s, k)
<1>2. s.first \in Nat /\ s.tip \in Nat /\ s.first \in s.got /\ s.got \subseteq Nat /\ s.owed \in Int
  BY DEF Stream
<1>1. n.got = s.got \cup {k} /\ n.owed = s.owed /\ n.first = s.first /\ n.tip = s.tip
  BY <1>2, WithIs
<1> HIDE DEF n
<1>3. /\ IsFiniteSet(Holes(s)) /\ IsFiniteSet(Earlier(s))
      /\ Cardinality(Holes(s)) \in Nat /\ Cardinality(Earlier(s)) \in Nat
  BY StreamSets
<1>4. CASE k >= s.first
  <2>1. Holes(n) = Holes(s) \ {k} /\ k \in Holes(s) /\ Earlier(n) = Earlier(s)
    BY <1>1, <1>2, <1>4 DEF Holes, Earlier
  <2>2. Cardinality(Holes(n)) = Cardinality(Holes(s)) - 1
    BY <1>3, <2>1, FS_RemoveElement
  <2> QED BY <1>1, <1>2, <1>3, <2>1, <2>2 DEF Balance, n
<1>5. CASE k < s.first
  <2>1. Earlier(n) = Earlier(s) \cup {k} /\ k \notin Earlier(s)
    BY <1>1, <1>2, <1>5 DEF Earlier
  <2>2. Holes(n) = Holes(s)
    BY <1>1, <1>2, <1>5 DEF Holes
  <2>3. Cardinality(Earlier(n)) = Cardinality(Earlier(s)) + 1
    BY <1>3, <2>1, FS_AddElement
  <2> QED BY <1>1, <1>2, <1>3, <2>2, <2>3 DEF Balance, n
<1> QED BY <1>2, <1>4, <1>5

-----------------------------------------------------------------------------
(* What the events do to the accounts *)

\* What a reading's number does to the counters of its sensor.
LEMMA CountedIs ==
  ASSUME NEW i, NEW k, k # Unset, NEW r, Record(r), r.lost \in Int, r.late \in Int
  PROVE  /\ IsFirst(i) => SameCounts(Counted(r, i, k), r)
         /\ ~IsFirst(i) /\ Delta(i, k) = 0 => SameCounts(Counted(r, i, k), r)
         /\ ~IsFirst(i) /\ Delta(i, k) # 0 /\ IsNewer(i, k)
              => Counted(r, i, k).lost = r.lost + Delta(i, k) - 1 /\ Counted(r, i, k).late = r.late
         /\ ~IsFirst(i) /\ Delta(i, k) # 0 /\ ~IsNewer(i, k)
              => Counted(r, i, k).lost = r.lost /\ Counted(r, i, k).late = r.late + 1
<1> DEFINE d == [r EXCEPT !.dup = @ + 1]
           n == [r EXCEPT !.lost = @ + Delta(i, k) - 1]
           l == [r EXCEPT !.late = @ + 1]
           t == NotedIf(Delta(i, k) > 1, n, <<"lost">>, "WARNING")
<1>1. SameCounts(d, r) /\ SameCounts(r, r)
  BY DEF SameCounts, Record
<1>2. Record(n) /\ n.lost = r.lost + Delta(i, k) - 1 /\ n.late = r.late
  BY DEF Record
<1>3. l.lost = r.lost /\ l.late = r.late + 1
  BY DEF Record
<1> HIDE DEF d, n, l
<1>4. Alike(t, n)
  BY <1>2, NotedIfIsAlike
<1> HIDE DEF t
<1>5. IsFirst(i) => Counted(r, i, k) = r
  BY DEF Counted
<1>6. ~IsFirst(i) /\ Delta(i, k) = 0 => Counted(r, i, k) = d
  BY DEF Counted, d, IsNewer
<1>7. ~IsFirst(i) /\ Delta(i, k) # 0 /\ IsNewer(i, k) => Counted(r, i, k) = t
  BY DEF Counted, t, n
<1>8. ~IsFirst(i) /\ Delta(i, k) # 0 /\ ~IsNewer(i, k) => Counted(r, i, k) = l
  BY DEF Counted, l
<1> QED BY <1>1, <1>2, <1>3, <1>4, <1>5, <1>6, <1>7, <1>8 DEF Alike, SameOwner, SameCounts

\* The accounts of one sensor after a number of its own.
LEMMA NumberAccounted ==
  ASSUME RegistryAssumption, Listing, Accounts, NEW i \in Ids, NEW k \in Nat \ {0}, Sent(i, k)
  PROVE  LET r == Counted(sensor[i], i, k)
             n == With(stream[i], k)
         IN  /\ stream' = [stream EXCEPT ![i] = n] /\ Stream(n) /\ n.got # {}
             /\ Follow(i, k) = n.tip % Modulus
             /\ r.lost \in Int /\ r.late \in Int /\ r.lost - r.late = Balance(n)
<1> DEFINE s == stream[i]
           n == With(s, k)
           old == sensor[i]
           r == Counted(old, i, k)
<1>1. Stream(s) /\ Tracked(i) /\ Balanced(i) /\ Record(old) /\ k # Unset
  BY DEF Accounts, Listing, Unset
<1>2. stream' = [stream EXCEPT ![i] = n] /\ (s.got # {} => k - s.tip < Half /\ s.tip - k < Half /\ (k \in s.got => k = s.tip))
  BY <1>1 DEF Sent, With
<1>3. Stream(n) /\ n.got # {}
  BY <1>1, WithIsStream
<1>4. old.lost \in Int /\ old.late \in Int /\ old.lost - old.late = Balance(s)
  BY <1>1 DEF Balanced
<1>5. CASE s.got = {}
  <2>1. IsFirst(i)
    BY <1>1, <1>5 DEF Tracked, IsFirst
  <2>2. SameCounts(r, old)
    BY <1>1, <1>4, <2>1, CountedIs
  <2>3. Balance(n) = Balance(s) /\ n.tip = k
    BY <1>1, <1>5, FirstBalance
  <2>4. Follow(i, k) = n.tip % Modulus
    BY <2>1, <2>3 DEF Follow
  <2> QED BY <1>2, <1>3, <1>4, <2>2, <2>3, <2>4 DEF SameCounts
<1>6. CASE s.got # {}
  <2>1. s.tip \in Nat /\ tracker[i] = s.tip % Modulus /\ Modulus \in Nat \ {0} /\ Half \in Int
    BY <1>1, <1>6 DEF Stream, Tracked, RegistryAssumption, Half
  <2>2. s.tip % Modulus \in 0 .. Modulus - 1
    <3>1. s.tip \in Int BY <2>1
    <3> QED BY <2>1, <3>1, DivisionOf, Zenon
  <2>3. ~IsFirst(i)
    BY <2>1, <2>2 DEF IsFirst, Unset
  <2>4. /\ k = s.tip => Delta(i, k) = 0
        /\ k > s.tip => Delta(i, k) = k - s.tip
        /\ k < s.tip => Delta(i, k) = Modulus + k - s.tip
    BY <1>2, <1>6, <2>1, DeltaOf
  <2>5. Half \in Nat /\ Modulus = Half + Half
    BY <2>1 DEF RegistryAssumption
  <2>6. CASE k = s.tip
    <3>1. ~IsNewer(i, k)
      BY <2>4, <2>6 DEF IsNewer
    <3>2. SameCounts(r, old)
      BY <1>1, <1>4, <2>3, <2>4, <2>6, CountedIs
    <3>3. Balance(n) = Balance(s) /\ n.tip = s.tip
      BY <1>1, <1>6, <2>6, SameBalance
    <3>4. Follow(i, k) = n.tip % Modulus
      BY <2>1, <2>3, <3>1, <3>3 DEF Follow
    <3> QED BY <1>2, <1>3, <1>4, <3>2, <3>3, <3>4 DEF SameCounts
  <2>7. CASE k > s.tip
    <3>1. IsNewer(i, k) /\ Delta(i, k) # 0
      BY <1>2, <1>6, <2>1, <2>4, <2>5, <2>7 DEF IsNewer
    <3>2. r.lost = old.lost + (k - s.tip) - 1 /\ r.late = old.late
      BY <1>1, <1>4, <2>3, <2>4, <2>7, <3>1, CountedIs
    <3>3. Balance(n) = Balance(s) + (k - s.tip - 1) /\ n.tip = k
      BY <1>1, <1>6, <2>7, NewerBalance
    <3>4. Follow(i, k) = n.tip % Modulus
      BY <3>1, <3>3 DEF Follow
    <3>5. r.lost \in Int /\ r.late \in Int /\ r.lost - r.late = Balance(n)
      BY <1>4, <2>1, <3>2, <3>3
    <3> QED BY <1>2, <1>3, <3>4, <3>5
  <2>8. CASE k < s.tip
    <3>1. ~IsNewer(i, k) /\ Delta(i, k) # 0
      BY <1>2, <1>6, <2>1, <2>4, <2>5, <2>8 DEF IsNewer
    <3>2. r.lost = old.lost /\ r.late = old.late + 1
      BY <1>1, <1>4, <2>3, <3>1, CountedIs
    <3>3. k \notin s.got
      BY <1>2, <1>6, <2>1, <2>8
    <3>4. Balance(n) = Balance(s) - 1 /\ n.tip = s.tip
      BY <1>1, <1>6, <2>8, <3>3, LateBalance
    <3>5. Follow(i, k) = n.tip % Modulus
      BY <2>1, <2>3, <3>1, <3>4 DEF Follow
    <3>6. r.lost \in Int /\ r.late \in Int /\ r.lost - r.late = Balance(n)
      BY <1>4, <3>2, <3>4
    <3> QED BY <1>2, <1>3, <3>5, <3>6
  <2> QED BY <2>1, <2>6, <2>7, <2>8
<1> QED BY <1>5, <1>6

\* A reading: with a number of its stream, or without.
LEMMA TelemetryAccounts ==
  ASSUME RegistryAssumption, Listing, Accounts, NEW i \in Ids, NEW x, x.seq \in (Nat \ {0}) \cup {Unset, Corrupt},
         Telemetry(i, x)
  PROVE  Accounts' /\ Listing'
<1>1. PICK r : Alike(r, Counted(sensor[i], i, TheNumber(x))) /\ Writes(i, r)
  BY TelemetryWrites
<1>2. Listing'
  BY <1>1 DEF Listing, Writes, Alike, SameOwner, SameCounts
<1>3. Sent(i, TheNumber(x)) /\ tracker' = IF TheNumber(x) = Unset THEN tracker ELSE [tracker EXCEPT ![i] = Follow(i, TheNumber(x))]
  BY DEF Telemetry, TheNumber
<1>4. \A j \in Ids : j # i => sensor'[j] = sensor[j]
  BY <1>1 DEF Writes
<1>5. sensor'[i] = r
  BY <1>1 DEF Writes
<1>6. CASE TheNumber(x) = Unset
  <2>1. UNCHANGED <<stream, tracker>>
    BY <1>3, <1>6 DEF Sent
  <2>2. r.lost = sensor[i].lost /\ r.late = sensor[i].late
    BY <1>1, <1>6 DEF Counted, Alike, SameOwner, SameCounts
  <2>3. ASSUME NEW j \in Ids PROVE Stream(stream[j])' /\ Tracked(j)' /\ Balanced(j)'
    BY <1>4, <1>5, <2>1, <2>2 DEF Accounts, Tracked, Balanced
  <2> QED BY <1>2, <2>1, <2>3 DEF Accounts
<1>7. CASE TheNumber(x) # Unset
  <2> DEFINE k == TheNumber(x)
             c == Counted(sensor[i], i, k)
             n == With(stream[i], k)
  <2>1. k \in Nat \ {0}
    BY <1>7 DEF TheNumber, Unset, Corrupt
  <2>2. /\ stream' = [stream EXCEPT ![i] = n] /\ Stream(n) /\ n.got # {}
        /\ Follow(i, k) = n.tip % Modulus
        /\ c.lost \in Int /\ c.late \in Int /\ c.lost - c.late = Balance(n)
    BY <1>3, <2>1, NumberAccounted
  <2>3. tracker' = [tracker EXCEPT ![i] = n.tip % Modulus]
    BY <1>3, <1>7, <2>2
  <2>4. r.lost = c.lost /\ r.late = c.late
    BY <1>1 DEF Alike, SameOwner, SameCounts
  <2> HIDE DEF k, c, n
  <2>5. stream'[i] = n /\ tracker'[i] = n.tip % Modulus /\ DOMAIN stream' = Ids /\ DOMAIN tracker' = Ids
    BY <2>2, <2>3 DEF Accounts
  <2>6. Stream(stream[i])' /\ Tracked(i)' /\ Balanced(i)'
    BY <1>5, <2>2, <2>4, <2>5 DEF Tracked, Balanced
  <2>7. ASSUME NEW j \in Ids, j # i PROVE Stream(stream[j])' /\ Tracked(j)' /\ Balanced(j)'
    <3>1. stream'[j] = stream[j] /\ tracker'[j] = tracker[j] /\ sensor'[j] = sensor[j]
      BY <1>4, <2>2, <2>3, <2>7 DEF Accounts
    <3> QED BY <3>1 DEF Accounts, Tracked, Balanced
  <2> QED BY <1>2, <2>5, <2>6, <2>7 DEF Accounts
<1> QED BY <1>6, <1>7

\* A new connection: every stream starts anew, and owes what was counted.
LEMMA ConnectionAccounts ==
  ASSUME Listing, Accounts, ConnectionOpened
  PROVE  Accounts' /\ Listing'
<1>1. UNCHANGED <<known, sensor>>
  BY DEF ConnectionOpened
<1>2. DOMAIN stream' = Ids /\ DOMAIN tracker' = Ids
  BY DEF ConnectionOpened
<1>3. ASSUME NEW i \in Ids
      PROVE  Stream(stream[i])' /\ Tracked(i)' /\ Balanced(i)'
  <2> DEFINE n == [Silent EXCEPT !.owed = sensor[i].lost - sensor[i].late]
  <2>1. stream'[i] = n /\ tracker'[i] = Unset
    BY DEF ConnectionOpened
  <2>2. sensor[i].lost \in Int /\ sensor[i].late \in Int
    BY DEF Accounts, Balanced
  <2>3. n.got = {} /\ n.first = 1 /\ n.tip = 0 /\ n.owed = sensor[i].lost - sensor[i].late
    BY DEF Silent
  <2>4. Stream(n)
    BY <2>2 DEF Stream, Silent
  <2>5. Holes(n) = {} /\ Earlier(n) = {}
    BY <2>3 DEF Holes, Earlier
  <2> HIDE DEF n
  <2>6. Balance(n) = sensor[i].lost - sensor[i].late
    BY <2>2, <2>3, <2>5, FS_EmptySet DEF Balance
  <2> QED BY <1>1, <2>1, <2>2, <2>3, <2>4, <2>6 DEF Tracked, Balanced
<1> QED BY <1>1, <1>2, <1>3 DEF Accounts, Listing

\* A step that counts nothing, and takes off the list only what it makes blank.
CountsKept ==
  /\ UNCHANGED <<tracker, stream>>
  /\ \A j \in Ids : SameCounts(sensor'[j], sensor[j]) \/ (j \in known \ known' /\ sensor'[j] = Blank)
  /\ Listing'
\* No sensor that has sent a number is taken off the list.
NumberedStay == \A i \in known \ known' : stream[i] = Silent

LEMMA AccountsKept ==
  ASSUME Accounts, CountsKept, NumberedStay
  PROVE  Accounts' /\ Listing'
<1>1. ASSUME NEW i \in Ids
      PROVE  Stream(stream[i])' /\ Tracked(i)' /\ Balanced(i)'
  <2>1. Stream(stream[i]) /\ Tracked(i) /\ Balanced(i)
    BY DEF Accounts
  <2>2. stream'[i] = stream[i] /\ tracker'[i] = tracker[i]
    BY DEF CountsKept
  <2>3. CASE SameCounts(sensor'[i], sensor[i])
    BY <2>1, <2>2, <2>3 DEF Tracked, Balanced, SameCounts
  <2>4. CASE i \in known \ known' /\ sensor'[i] = Blank
    <3>1. stream[i] = Silent
      BY <2>4 DEF NumberedStay
    <3>2. Holes(Silent) = {} /\ Earlier(Silent) = {} /\ Silent.owed = 0
      BY DEF Holes, Earlier, Silent
    <3>3. Balance(Silent) = 0
      BY <3>2, FS_EmptySet DEF Balance
    <3>4. Blank.lost = 0 /\ Blank.late = 0
      BY DEF Blank
    <3> QED BY <2>1, <2>2, <2>4, <3>1, <3>3, <3>4 DEF Tracked, Balanced
  <2> QED BY <2>3, <2>4 DEF CountsKept
<1> QED BY <1>1 DEF Accounts, CountsKept

LEMMA ChangesKeepCounts ==
  ASSUME Listing, NEW i \in Ids, Changes(i), UNCHANGED <<tracker, stream>>
  PROVE  CountsKept
BY DEF Changes, Writes, Listing, Alike, SameOwner, SameCounts, CountsKept

LEMMA SameKeepsCounts ==
  ASSUME Listing, UNCHANGED <<known, sensor, tracker, stream>>
  PROVE  CountsKept
BY DEF Listing, CountsKept, SameCounts

LEMMA SensorStatusKeepsCounts ==
  ASSUME Listing, NEW i \in Ids, NEW u, NEW s, SensorStatus(i, u, s)
  PROVE  CountsKept
<1>1. PICK r : Record(r) /\ SameCounts(r, sensor[i]) /\ Writes(i, r)
  BY SensorStatusWrites DEF OwnerStays
<1>2. UNCHANGED <<tracker, stream>>
  BY DEF SensorStatus, Event, Memory
<1> QED BY <1>1, <1>2 DEF Writes, Listing, CountsKept, SameCounts

LEMMA UnboundKeepsCounts ==
  ASSUME Listing, NEW i \in Ids, Unbound(i)
  PROVE  CountsKept
<1>1. known' = known \ {i} /\ sensor' = Removed(known \cap {i}) /\ UNCHANGED <<tracker, stream>>
  BY DEF Unbound, Event, Memory
<1>2. DOMAIN sensor' = Ids /\ \A j \in Ids : sensor'[j] = IF j \in known \cap {i} THEN Blank ELSE sensor[j]
  BY <1>1 DEF Removed
<1>3. Record(Blank)
  BY DEF Blank, Record
<1> QED BY <1>1, <1>2, <1>3 DEF Listing, CountsKept, SameCounts

LEMMA AssociationKeepsCounts ==
  ASSUME Listing, NEW i \in Ids, NEW u, NEW s, NEW a, Association(i, u, s, a)
  PROVE  CountsKept
<1> DEFINE gone == Rivals(i, u, s)
           r == [sensor[i] EXCEPT !.uuid = u, !.renamed = FALSE, !.assoc = s, !.status = StatusOf(s),
                                  !.auto = IF a = "UNKNOWN" THEN @ ELSE a, !.seen = clock,
                                  !.bound = IF s \in {"BOUND", "ONLINE"} /\ @ = 0 THEN clock ELSE @]
<1>1. known' = (known \ gone) \cup {i} /\ sensor' = [Removed(gone) EXCEPT ![i] = r] /\ UNCHANGED <<tracker, stream>>
  BY DEF Association, Event, Memory
<1>2. Record(r) /\ SameCounts(r, sensor[i])
  BY RecordOf DEF Record, SameCounts
<1> HIDE DEF r
<1>3. i \notin gone /\ gone \subseteq known
  BY DEF Rivals
<1> HIDE DEF gone
<1>4. /\ DOMAIN sensor' = Ids /\ sensor'[i] = r
      /\ \A j \in Ids : j # i => sensor'[j] = IF j \in gone THEN Blank ELSE sensor[j]
  BY <1>1 DEF Removed
<1>5. Record(Blank)
  BY DEF Blank, Record
<1>6. \A j \in Ids : SameCounts(sensor'[j], sensor[j]) \/ (j \in known \ known' /\ sensor'[j] = Blank)
  BY <1>1, <1>2, <1>3, <1>4 DEF SameCounts
<1>7. Listing'
  BY <1>1, <1>2, <1>4, <1>5 DEF Listing
<1> QED BY <1>1, <1>6, <1>7 DEF CountsKept

\* What is kept by an event of the modules and their sensors.
LEMMA ModulesKeepCounts ==
  ASSUME Listing, NEW is \in SUBSET Ids, Modules(is)
  PROVE  CountsKept
<1>1. ASSUME NEW i \in is, Panel(i) \/ Spectrum(i) PROVE CountsKept
  <2>1. UNCHANGED <<tracker, stream>> BY <1>1 DEF Panel, Spectrum, Event, Memory
  <2> QED BY <1>1, <2>1, PanelChanges, SpectrumChanges, ChangesKeepCounts
<1>2. ASSUME NEW i \in is, NEW u \in Uuids, NEW s \in Followed, Association(i, u, s, "UNKNOWN") PROVE CountsKept
  BY <1>2, AssociationKeepsCounts
<1>3. ASSUME NEW i \in is, NEW l \in Links \ {"NONE"}, NEW k \in 0 .. 1, WirelessLink(i, l, k) PROVE CountsKept
  <2>1. UNCHANGED <<tracker, stream>> BY <1>3 DEF WirelessLink, Event, Memory
  <2> QED BY <1>3, <2>1, WirelessLinkChanges, ChangesKeepCounts
<1>4. ASSUME NEW i \in is, NEW t \in 0 .. 2, LinkEvent(i, t) PROVE CountsKept
  <2>1. UNCHANGED <<tracker, stream>> BY <1>4 DEF LinkEvent, Event, Memory
  <2> QED BY <1>4, <2>1, LinkEventChanges, ChangesKeepCounts
<1>5. ASSUME NEW i \in is, NEW m \in Modes, NEW q \in {"CURRENT", "APPLIED", "REJECTED"}, WirelessConfig(i, q, m)
      PROVE  CountsKept
  <2>1. UNCHANGED <<tracker, stream>> BY <1>5 DEF WirelessConfig, Event, Memory
  <2> QED BY <1>5, <2>1, WirelessConfigChanges, ChangesKeepCounts
<1>6. ASSUME NEW i \in is, NEW m \in Modes, ConfigurationApplied(i, m) PROVE CountsKept
  <2>1. UNCHANGED <<tracker, stream>> BY <1>6 DEF ConfigurationApplied, Event, Memory
  <2> QED BY <1>6, <2>1, ConfigurationAppliedChanges, ChangesKeepCounts
<1>7. CASE RefreshFreshness
  <2>1. UNCHANGED <<tracker, stream>> BY <1>7 DEF RefreshFreshness
  <2>2. known' = known /\ DOMAIN sensor' = Ids /\ \A i \in Ids : Alike(sensor'[i], sensor[i])
    BY <1>7, RefreshChanges
  <2> QED BY <2>1, <2>2 DEF Alike, SameOwner, SameCounts, Listing, CountsKept
<1>8. \/ \E m \in {"GATEWAY_CAN", "SENSOR_DIRECT"} : ModeDetected(m)
      \/ \E n \in Nodes \cup {0}, s \in {"ONLINE", "LOST"} : PhysicalNode(n, s)
      \/ \E n \in Nodes : NodeHeard(n) \/ NodeEvent(n)
      \/ \E n \in Nodes, u \in Uuids : WirelessCandidate(n, u)
      \/ \E u \in Uuids, n, o \in Nodes : n # o /\ WirelessFailover(u, n, o)
      => UNCHANGED <<known, sensor, tracker, stream>>
  BY DEF ModeDetected, PhysicalNode, NodeHeard, NodeEvent, WirelessCandidate, WirelessFailover, Sensors, Memory, Event
<1>9. (\E off, passive \in BOOLEAN : BusStats(off, passive)) \/ GatewayStatus \/ CrcError \/ CanFrame \/ Tick
      => UNCHANGED <<known, sensor, tracker, stream>>
  BY DEF BusStats, GatewayStatus, CrcError, CanFrame, Tick, Sensors, Memory, Event
<1> QED BY <1>1, <1>2, <1>3, <1>4, <1>5, <1>6, <1>7, <1>8, <1>9, SameKeepsCounts DEF Modules

\* A reading that the sensor itself numbered, or did not number.
Samplings(xs) == \A x \in xs : x.seq \in (Nat \ {0}) \cup {Unset, Corrupt}

LEMMA OwnershipAccounts ==
  ASSUME RegistryAssumption, Listing, Accounts, NumberedStay, NEW is \in SUBSET Ids, Ownership(is)
  PROVE  Accounts' /\ Listing'
<1>1. ASSUME NEW i \in is, NEW u \in Uuids, NEW s \in Followed, NEW a \in {"AUTO", "UNKNOWN"}, Association(i, u, s, a)
      PROVE  CountsKept
  BY <1>1, AssociationKeepsCounts
<1>2. ASSUME NEW i \in is, NEW u \in Uuids \cup {""}, NEW s \in {"", "ONLINE"}, SensorStatus(i, u, s)
      PROVE  CountsKept
  BY <1>2, SensorStatusKeepsCounts
<1>3. ASSUME NEW i \in is, Unbound(i) PROVE CountsKept
  BY <1>3, UnboundKeepsCounts
<1>4. ASSUME NEW i \in is, Telemetry(i, Quiet) PROVE Accounts' /\ Listing'
  <2>1. Quiet.seq = Unset
    BY DEF Quiet
  <2> QED BY <1>4, <2>1, TelemetryAccounts
<1>5. ASSUME NEW n \in Nodes, NEW u \in Uuids, NotBoundHello(n, u, 0) PROVE CountsKept
  <2>1. PICK i \in known : LinkEvent(i, 0)
    BY <1>5 DEF NotBoundHello
  <2>2. i \in Ids
    BY DEF Listing
  <2>3. UNCHANGED <<tracker, stream>>
    BY <2>1 DEF LinkEvent, Event, Memory
  <2> QED BY <2>1, <2>2, <2>3, LinkEventChanges, ChangesKeepCounts
<1>6. ASSUME NEW t, Select(t) PROVE CountsKept
  BY <1>6, SameKeepsCounts DEF Select
<1> QED BY <1>1, <1>2, <1>3, <1>4, <1>5, <1>6, AccountsKept DEF Ownership

LEMMA NumberingAccounts ==
  ASSUME RegistryAssumption, Listing, Accounts, NEW is \in SUBSET Ids, NEW xs, Samplings(xs), Numbering(is, xs)
  PROVE  Accounts' /\ Listing'
<1>1. CASE ConnectionOpened
  BY <1>1, ConnectionAccounts
<1>2. ASSUME NEW i \in is, NEW x \in xs, Telemetry(i, x) PROVE Accounts' /\ Listing'
  BY <1>2, TelemetryAccounts DEF Samplings
<1> QED BY <1>1, <1>2 DEF Numbering

LEMMA ReadingsAccount ==
  ASSUME RegistryAssumption, Listing, Accounts, NumberedStay, NEW is \in SUBSET Ids, NEW xs, Samplings(xs),
         Readings(is, xs)
  PROVE  Accounts' /\ Listing'
<1>1. ASSUME NEW i \in is, NEW x \in xs, Telemetry(i, x) PROVE Accounts' /\ Listing'
  BY <1>1, TelemetryAccounts DEF Samplings
<1>2. ASSUME NEW i \in is, NEW lim \in Limits, SetAlarmLimits(i, lim) PROVE CountsKept
  <2>1. UNCHANGED <<tracker, stream>> BY <1>2 DEF SetAlarmLimits, Event
  <2> QED BY <1>2, <2>1, SetAlarmLimitsChanges, ChangesKeepCounts
<1>3. ASSUME NEW i \in is, NEW c \in Codes, Dtc(i, c) PROVE CountsKept
  <2>1. UNCHANGED <<tracker, stream>> BY <1>3 DEF Dtc, Event, Memory
  <2> QED BY <1>3, <2>1, DtcChanges, ChangesKeepCounts
<1>4. ASSUME NEW i \in is, Unbound(i) PROVE CountsKept
  BY <1>4, UnboundKeepsCounts
<1>5. ASSUME NEW i \in is, NEW cs \in {Codes} \cup {{c} : c \in Codes}, DtcCleared(i, cs) PROVE CountsKept
  <2>1. UNCHANGED <<tracker, stream>> BY <1>5 DEF DtcCleared, Event, Memory
  <2> QED BY <1>5, <2>1, DtcClearedChanges, ChangesKeepCounts
<1>6. ASSUME Tick PROVE CountsKept
  BY <1>6, SameKeepsCounts DEF Tick
<1> QED BY <1>1, <1>2, <1>3, <1>4, <1>5, <1>6, AccountsKept DEF Readings

\* A sensor on the USB port numbers nothing.
LEMMA PortKeepsCounts ==
  ASSUME Listing, Direct \in Ids, Port
  PROVE  CountsKept
<1>1. ASSUME NEW u \in Uuids, DirectVersion(u) PROVE CountsKept
  <2>1. PICK r : OwnerStays(r, sensor[Direct]) /\ SameCounts(r, sensor[Direct]) /\ Writes(Direct, r)
    BY <1>1, DirectVersionWrites
  <2>2. UNCHANGED <<tracker, stream>>
    BY <1>1 DEF DirectVersion, Event, Memory
  <2> QED BY <2>1, <2>2 DEF OwnerStays, Writes, Listing, CountsKept, SameCounts
<1>2. ASSUME NEW m \in Modes, NEW x, DirectStatus(m, x) PROVE CountsKept
  <2>1. UNCHANGED <<tracker, stream>>
    BY <1>2 DEF DirectStatus, Event, Memory
  <2> QED BY <1>2, <2>1, DirectStatusChanges, ChangesKeepCounts
<1> QED BY <1>1, <1>2 DEF Port

-----------------------------------------------------------------------------
(* Losses *)

LEMMA AccountsInit == Init => Accounts /\ Listing
<1> SUFFICES ASSUME Init PROVE Accounts /\ Listing
  OBVIOUS
<1>1. /\ known = {} /\ DOMAIN sensor = Ids /\ DOMAIN stream = Ids /\ DOMAIN tracker = Ids
      /\ \A i \in Ids : sensor[i] = Blank /\ stream[i] = Silent /\ tracker[i] = Unset
  BY DEF Init
<1>2. Record(Blank) /\ Blank.lost = 0 /\ Blank.late = 0
  BY DEF Blank, Record
<1>3. Stream(Silent) /\ Silent.got = {} /\ Silent.owed = 0
  BY DEF Stream, Silent
<1>4. Holes(Silent) = {} /\ Earlier(Silent) = {}
  BY DEF Holes, Earlier, Silent
<1>5. Balance(Silent) = 0
  BY <1>3, <1>4, FS_EmptySet DEF Balance
<1>6. \A i \in Ids : Tracked(i) /\ Balanced(i)
  BY <1>1, <1>2, <1>3, <1>5 DEF Tracked, Balanced
<1> QED BY <1>1, <1>2, <1>3, <1>6 DEF Accounts, Listing

LEMMA AccountsTell == Accounts /\ Listing => LossesAccounted
BY DEF Accounts, Listing, Balanced, Balance, Holes, Earlier, LossesAccounted

LEMMA SamplesAreUnnumbered == \A x \in Samples : x.seq = Unset
<1>1. \A s : SoundReading(s).seq = Unset
  BY DEF SoundReading, Quiet
<1>2. \A v, c, k : FaultReading(v, c, k).seq = Unset
  BY DEF FaultReading, Quiet
<1>3. \A p, q : SignalReading(p, q).seq = Unset
  BY DEF SignalReading, Quiet
<1> QED BY <1>1, <1>2, <1>3 DEF Samples

LEMMA SamplesAreSamplings == ASSUME RegistryAssumption PROVE Samplings(Samples) /\ Samplings(Numbered)
<1>1. MaxInputs * Half \in Int
  BY DEF RegistryAssumption, Half
<1>2. ASSUME NEW x \in Numbered PROVE x.seq \in (Nat \ {0}) \cup {Corrupt}
  BY <1>1 DEF Numbered, Quiet
<1> QED BY <1>2, SamplesAreUnnumbered DEF Samplings

\* A stream only changes when a number is sent, or a new connection starts it
\* anew; and then no sensor leaves the list.
LEMMA UnnumberedKeepsStream ==
  ASSUME NEW i, NEW x, x.seq = Unset, Telemetry(i, x)
  PROVE  UNCHANGED stream
BY DEF Telemetry, Sent, Unset, Corrupt

LEMMA OwnershipKeepsStreams ==
  ASSUME NEW is, Ownership(is)
  PROVE  UNCHANGED stream
<1>1. Quiet.seq = Unset
  BY DEF Quiet
<1>2. ASSUME NEW i \in is, NEW u, NEW s, NEW a, Association(i, u, s, a) PROVE UNCHANGED stream
  BY <1>2 DEF Association, Event
<1>3. ASSUME NEW i \in is, NEW u, NEW s, SensorStatus(i, u, s) PROVE UNCHANGED stream
  BY <1>3 DEF SensorStatus, Event
<1>4. ASSUME NEW i \in is, Unbound(i) PROVE UNCHANGED stream
  BY <1>4 DEF Unbound, Event
<1>5. ASSUME NEW n, NEW u, NotBoundHello(n, u, 0) PROVE UNCHANGED stream
  BY <1>5 DEF NotBoundHello, LinkEvent, Event
<1>6. ASSUME NEW t, Select(t) PROVE UNCHANGED stream
  BY <1>6 DEF Select
<1> QED BY <1>1, <1>2, <1>3, <1>4, <1>5, <1>6, UnnumberedKeepsStream DEF Ownership

LEMMA ReadingsKeepStreams ==
  ASSUME NEW is, NEW xs, \A x \in xs : x.seq = Unset, Readings(is, xs)
  PROVE  UNCHANGED stream
<1>1. ASSUME NEW i \in is, NEW lim, SetAlarmLimits(i, lim) PROVE UNCHANGED stream
  BY <1>1 DEF SetAlarmLimits, Event
<1>2. ASSUME NEW i \in is, NEW c, Dtc(i, c) \/ DtcCleared(i, c) PROVE UNCHANGED stream
  BY <1>2 DEF Dtc, DtcCleared, Event
<1>3. ASSUME NEW i \in is, Unbound(i) PROVE UNCHANGED stream
  BY <1>3 DEF Unbound, Event
<1>4. ASSUME Tick PROVE UNCHANGED stream
  BY <1>4 DEF Tick
<1> QED BY <1>1, <1>2, <1>3, <1>4, UnnumberedKeepsStream DEF Readings

LEMMA NumberingKeepsListed ==
  ASSUME NEW is, NEW xs, Numbering(is, xs)
  PROVE  known \subseteq known'
BY DEF Numbering, ConnectionOpened, Telemetry, Store

CountingSpec == Init /\ [][Next /\ NumberedStay]_vars

LEMMA AccountsNext ==
  ASSUME RegistryAssumption, Direct \in Ids, Listing, Accounts, [Next /\ NumberedStay]_vars
  PROVE  Accounts' /\ Listing'
<1>1. Ids \in SUBSET Ids /\ Samplings(Samples) /\ Samplings(Numbered)
  BY SamplesAreSamplings
<1>2. CASE Ownership(Ids) /\ NumberedStay
  BY <1>1, <1>2, OwnershipAccounts
<1>3. CASE Modules(Ids) /\ NumberedStay
  BY <1>1, <1>3, ModulesKeepCounts, AccountsKept
<1>4. CASE Numbering(Ids, Numbered)
  BY <1>1, <1>4, NumberingAccounts
<1>5. CASE Readings(Ids, Samples) /\ NumberedStay
  BY <1>1, <1>5, ReadingsAccount
<1>6. CASE Port /\ NumberedStay
  BY <1>6, PortKeepsCounts, AccountsKept
<1>7. CASE UNCHANGED vars
  <2>1. CountsKept /\ NumberedStay
    BY <1>7, SameKeepsCounts DEF vars, NumberedStay
  <2> QED BY <2>1, AccountsKept
<1> QED BY <1>2, <1>3, <1>4, <1>5, <1>6, <1>7 DEF Next, Gateway

\* The readings that are missing from a stream are those counted as lost less
\* those that came late, for any modulus of the number, whatever is lost, late
\* or repeated within half the range, across the wrap, a new connection and
\* every other event, for the sensors that stay listed once they have sent a
\* number (protocol/sequence.py, state_store.py record_sequence): a sensor that
\* is taken off the list takes its counters with it.
THEOREM LossesAreAccounted ==
  ASSUME RegistryAssumption, Direct \in Ids
  PROVE  CountingSpec => []LossesAccounted
<1>1. Init => Accounts /\ Listing
  BY AccountsInit
<1>2. (Accounts /\ Listing) /\ [Next /\ NumberedStay]_vars => (Accounts /\ Listing)'
  BY AccountsNext
<1>3. Accounts /\ Listing => LossesAccounted
  BY AccountsTell
<1> QED BY <1>1, <1>2, <1>3, PTL DEF CountingSpec
=============================================================================
