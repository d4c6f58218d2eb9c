-------------------------- MODULE StudyDays_proofs --------------------------
(***************************************************************************)
(* Theorems about the daily counters, for every set of devices, decks and  *)
(* fields, any number of days, any counts and any number of failures.      *)
(***************************************************************************)
EXTENDS StudyDays, WellFoundedInduction, TLAPS

(* A non-empty set of days has a latest one.                                *)
LEMMA LatestDay ==
  ASSUME NEW S \in SUBSET Days, S # {}
  PROVE  Latest(S) \in S /\ \A e \in S : e <= Latest(S)
<1>. DEFINE T == {n \in Nat : MaxDay - n \in S}
<1>1. T # {}
  <2>1. PICK d \in S : TRUE
    OBVIOUS
  <2>2. MaxDay - d \in Nat /\ MaxDay - (MaxDay - d) = d
    BY <2>1, StudyDaysConstants DEF Days
  <2>. QED  BY <2>2
<1>2. PICK n \in T : \A m \in T : ~(<<m, n>> \in OpToRel(<, Nat))
  BY <1>1, NatLessThanWellFounded, WFMin
<1>3. MaxDay - n \in S
  BY <1>2
<1>4. ASSUME NEW e \in S PROVE e <= MaxDay - n
  <2>1. MaxDay - e \in Nat /\ MaxDay - (MaxDay - e) = e /\ e \in Nat
    BY StudyDaysConstants DEF Days
  <2>2. MaxDay - e \in T
    BY <2>1
  <2>3. ~(MaxDay - e < n)
    BY <1>2, <2>1, <2>2 DEF OpToRel
  <2>. QED  BY <2>1, <2>3, StudyDaysConstants
<1>. QED  BY <1>3, <1>4 DEF Latest
(* Merging keeps the type and lowers no counter.                            *)
LEMMA MergeFacts ==
  ASSUME NEW x \in Counts, NEW y \in Counts
  PROVE  /\ Merge(x, y) \in Counts
         /\ \A f \in Fields : x[f] <= Merge(x, y)[f] /\ y[f] <= Merge(x, y)[f]
         /\ \A f \in Fields : Merge(x, y)[f] = x[f] \/ Merge(x, y)[f] = y[f]
BY DEF Merge, Greatest, Counts

LEMMA ZeroTypes == NoCounts \in Counts /\ NoRows \in Table /\ NoRecords \in [Decks -> DayRecord]
BY StudyDaysConstants DEF NoCounts, NoRows, NoRecords, Counts, Table, DayRecord, Days

(* local_study_days: the day is that of some field, the latest; the counts   *)
(* are the device's for that day.                                          *)
LEMMA LocalFacts ==
  ASSUME TypeOK, NEW c \in Clients, NEW k \in Decks
  PROVE  /\ LocalStudyDays(c)[k].day \in Days
         /\ LocalStudyDays(c)[k].count \in Counts
         /\ LocalStudyDays(c)[k] \in DayRecord
         /\ \A f \in Fields :
              /\ counter[c][k][f].day <= LocalStudyDays(c)[k].day
              /\ counter[c][k][f].day = LocalStudyDays(c)[k].day
                   => LocalStudyDays(c)[k].count[f] = counter[c][k][f].count
              /\ counter[c][k][f].day # LocalStudyDays(c)[k].day => LocalStudyDays(c)[k].count[f] = 0
<1>. DEFINE S == {counter[c][k][f].day : f \in Fields}
            day == LocalDay(c, k)
            count == [f \in Fields |-> IF counter[c][k][f].day = LocalDay(c, k) THEN counter[c][k][f].count ELSE 0]
<1>1. S \in SUBSET Days /\ S # {}
  BY StudyDaysConstants DEF TypeOK
<1>2. day \in Days /\ \A f \in Fields : counter[c][k][f].day <= day
  <2>1. Latest(S) \in S /\ \A e \in S : e <= Latest(S)
    BY <1>1, LatestDay
  <2>. QED  BY <1>1, <2>1 DEF LocalDay
<1>3. count \in Counts
  BY DEF Counts, TypeOK
<1>4. LocalStudyDays(c)[k] = [day |-> day, count |-> count]
  BY DEF LocalStudyDays
<1>5. \A f \in Fields : count[f] = IF counter[c][k][f].day = day THEN counter[c][k][f].count ELSE 0
  OBVIOUS
<1>. HIDE DEF day, count
<1>6. LocalStudyDays(c)[k].day = day /\ LocalStudyDays(c)[k].count = count
  BY <1>4
<1>7. LocalStudyDays(c)[k] \in DayRecord
  BY <1>2, <1>3, <1>4 DEF DayRecord
<1>. QED  BY <1>2, <1>3, <1>5, <1>6, <1>7

(* The record written back is of the latest known day.                      *)
LEMMA MergedFacts ==
  ASSUME TypeOK, NEW c \in Clients, NEW k \in Decks
  PROVE  /\ LatestMerged(c, k).day \in Days
         /\ LatestMerged(c, k).count \in Counts
         /\ mine[c][k].day <= LatestMerged(c, k).day
         /\ \A f \in Fields :
              /\ LatestMerged(c, k).day = mine[c][k].day => mine[c][k].count[f] <= LatestMerged(c, k).count[f]
              /\ \/ LatestMerged(c, k).count[f] = manifest[c][LatestMerged(c, k).day][k][f]
                 \/ /\ LatestMerged(c, k).day = mine[c][k].day
                    /\ LatestMerged(c, k).count[f] = mine[c][k].count[f]
<1>. DEFINE day == Latest(KnownDays(c, k))
<1>1. mine[c][k].day \in Days /\ mine[c][k].count \in Counts
  BY DEF TypeOK, DayRecord
<1>2. day \in Days /\ mine[c][k].day <= day
  <2>1. KnownDays(c, k) \in SUBSET Days /\ KnownDays(c, k) # {} /\ mine[c][k].day \in KnownDays(c, k)
    BY <1>1 DEF KnownDays
  <2>. QED  BY <2>1, LatestDay
<1>3. manifest[c][day][k] \in Counts
  BY <1>2 DEF TypeOK, Table
<1>4. LatestMerged(c, k).day = day
  BY DEF LatestMerged
<1>5. LatestMerged(c, k).count = IF day = mine[c][k].day THEN Merge(manifest[c][day][k], mine[c][k].count)
                                 ELSE manifest[c][day][k]
  BY DEF LatestMerged
<1>. HIDE DEF day
<1>6. Merge(manifest[c][day][k], mine[c][k].count) \in Counts
  BY <1>1, <1>3, MergeFacts
<1>7. LatestMerged(c, k).count \in Counts
  BY <1>3, <1>5, <1>6
<1>8. ASSUME NEW f \in Fields
      PROVE  /\ day = mine[c][k].day => mine[c][k].count[f] <= LatestMerged(c, k).count[f]
             /\ \/ LatestMerged(c, k).count[f] = manifest[c][day][k][f]
                \/ day = mine[c][k].day /\ LatestMerged(c, k).count[f] = mine[c][k].count[f]
  BY <1>1, <1>3, <1>5, MergeFacts
<1>. QED  BY <1>2, <1>4, <1>7, <1>8

(* Storing one row keeps the table's type.                                  *)
LEMMA UpsertFacts ==
  ASSUME TypeOK, NEW row \in Row, upsertStudyDay(row)
  PROVE  /\ server' \in Table
         /\ AtMost(server, server')
         /\ \A f \in Fields : row.count[f] <= server'[row.day][row.deck][f]
         /\ \A d \in Days, k \in Decks, f \in Fields :
              \/ server'[d][k][f] = server[d][k][f]
              \/ d = row.day /\ k = row.deck /\ server'[d][k][f] = row.count[f]
<1>1. row.day \in Days /\ row.deck \in Decks /\ row.count \in Counts
  BY DEF Row
<1>2. server[row.day][row.deck] \in Counts
  BY <1>1 DEF TypeOK, Table
<1>. DEFINE merged == Merge(server[row.day][row.deck], row.count)
<1>3. merged \in Counts
  BY <1>1, <1>2, MergeFacts
<1>4. server' = [server EXCEPT ![row.day][row.deck] = merged]
  BY DEF upsertStudyDay
<1>5. /\ \A f \in Fields : server[row.day][row.deck][f] <= merged[f] /\ row.count[f] <= merged[f]
      /\ \A f \in Fields : merged[f] = server[row.day][row.deck][f] \/ merged[f] = row.count[f]
  BY <1>1, <1>2, MergeFacts
<1>. HIDE DEF merged
<1>6. server' \in Table
  BY <1>1, <1>3, <1>4 DEF TypeOK, Table
<1>7. \A d \in Days, k \in Decks :
        server'[d][k] = IF d = row.day /\ k = row.deck THEN merged ELSE server[d][k]
  BY <1>1, <1>4 DEF TypeOK, Table
<1>8. \A d \in Days, k \in Decks, f \in Fields : server[d][k][f] \in Nat
  BY DEF TypeOK, Table, Counts
<1>9. AtMost(server, server')
  BY <1>5, <1>7, <1>8 DEF AtMost
<1>. QED  BY <1>1, <1>5, <1>6, <1>7, <1>9

LEMMA RowOfType ==
  ASSUME TypeOK, NEW c \in Clients, NEW k \in Decks
  PROVE  RowOf(c, k) \in Row
BY DEF RowOf, Row, TypeOK, DayRecord

(* The end of a pass resets its variables.                                  *)
LEMMA EndPassTypes ==
  ASSUME TypeOK, NEW c \in Clients, EndPass(c)
  PROVE  /\ pc' \in [Clients -> {"idle", "publish", "upsert", "apply"}]
         /\ manifest' \in [Clients -> Table]
         /\ mine' \in [Clients -> [Decks -> DayRecord]]
         /\ toUpsert' \in [Clients -> SUBSET Decks]
BY ZeroTypes DEF EndPass, TypeOK

-----------------------------------------------------------------------------
LEMMA TypeStep == TypeOK /\ [Next]_vars => TypeOK'
<1> SUFFICES ASSUME TypeOK, [Next]_vars PROVE TypeOK'
  OBVIOUS
<1>1. CASE UNCHANGED vars
  BY <1>1 DEF vars, passVars, TypeOK
<1>2. ASSUME NEW c \in Clients, NEW k \in Decks, NEW f \in Fields, Study(c, k, f) PROVE TypeOK'
  <2>. DEFINE n == Studied(c, k, f) + 1
  <2>1. n \in Nat /\ today[c] \in Days
    BY DEF Studied, TypeOK
  <2>2. /\ counter' = [counter EXCEPT ![c][k][f] = [day |-> today[c], count |-> n]]
        /\ reached' = [reached EXCEPT ![today[c]][k][f] = Greatest(@, n)]
        /\ UNCHANGED <<server, today, pc, manifest, mine, toUpsert, late, failures, acked>>
    BY <1>2 DEF Study, passVars
  <2>. HIDE DEF n
  <2>3. counter' \in [Clients -> [Decks -> [Fields -> [day : Days, count : Nat]]]]
    BY <2>1, <2>2 DEF TypeOK
  <2>4. Greatest(reached[today[c]][k][f], n) \in Nat
    BY <2>1 DEF Greatest, TypeOK, Table, Counts
  <2>5. reached' \in Table
    BY <2>1, <2>2, <2>4 DEF TypeOK, Table, Counts
  <2>. QED  BY <2>2, <2>3, <2>5 DEF TypeOK
<1>3. ASSUME NEW c \in Clients, NextDay(c) PROVE TypeOK'
  <2>1. today[c] + 1 \in Days
    BY <1>3, StudyDaysConstants DEF NextDay, TypeOK, Days
  <2>. QED  BY <1>3, <2>1 DEF NextDay, passVars, TypeOK
<1>4. ASSUME NEW c \in Clients, GetManifest(c) PROVE TypeOK'
  BY <1>4 DEF GetManifest, TypeOK
<1>5. ASSUME NEW c \in Clients, Publish(c) PROVE TypeOK'
  <2>1. LocalStudyDays(c) \in [Decks -> DayRecord]
    BY LocalFacts DEF LocalStudyDays
  <2>. QED  BY <1>5, <2>1 DEF Publish, TypeOK
<1>6. ASSUME NEW c \in Clients, Upsert(c) PROVE TypeOK'
  <2>1. PICK k \in toUpsert[c] : upsertStudyDay(RowOf(c, k)) /\ toUpsert' = [toUpsert EXCEPT ![c] = @ \ {k}]
    BY <1>6 DEF Upsert
  <2>2. k \in Decks
    BY <2>1 DEF TypeOK
  <2>3. server' \in Table
    BY <2>1, <2>2, RowOfType, UpsertFacts
  <2>. QED  BY <1>6, <2>1, <2>3 DEF Upsert, TypeOK
<1>7. ASSUME NEW c \in Clients, Accepted(c) PROVE TypeOK'
  <2>1. \A d \in Days, k \in Decks : Merge(acked[d][k], mine[c][k].count) \in Counts /\ acked[d][k] \in Counts
    BY MergeFacts DEF TypeOK, Table, DayRecord
  <2>2. acked' \in Table
    BY <1>7, <2>1 DEF Accepted, Table
  <2>. QED  BY <1>7, <2>2 DEF Accepted, TypeOK
<1>8. ASSUME NEW c \in Clients, Apply(c) PROVE TypeOK'
  <2>1. ASSUME NEW k \in Decks, NEW f \in Fields
        PROVE  [day |-> LatestMerged(c, k).day, count |-> LatestMerged(c, k).count[f]] \in [day : Days, count : Nat]
    BY MergedFacts DEF Counts
  <2>2. counter' \in [Clients -> [Decks -> [Fields -> [day : Days, count : Nat]]]]
    BY <1>8, <2>1 DEF Apply, TypeOK
  <2>. QED  BY <1>8, <2>2, EndPassTypes DEF Apply, TypeOK
<1>9. ASSUME NEW c \in Clients, Fail(c) PROVE TypeOK'
  <2>1. late' \subseteq Row
    BY <1>9, RowOfType DEF Fail, TypeOK
  <2>2. failures' \in 0..MaxFailures
    BY <1>9, StudyDaysConstants DEF Fail, TypeOK
  <2>. QED  BY <1>9, <2>1, <2>2, EndPassTypes DEF Fail, TypeOK
<1>10. ASSUME NEW row \in late, LateUpsert(row) \/ Lose(row) PROVE TypeOK'
  <2>1. server' \in Table
    BY <1>10, UpsertFacts DEF LateUpsert, Lose, TypeOK
  <2>. QED  BY <1>10, <2>1 DEF LateUpsert, Lose, passVars, TypeOK
<1>. QED  BY <1>1, <1>2, <1>3, <1>4, <1>5, <1>6, <1>7, <1>8, <1>9, <1>10 DEF Next, Pass

(* Every variable keeps its type (review_sync.py, reviews.go).              *)
THEOREM TypeCorrect == Spec => []TypeOK
<1>1. Init => TypeOK
  BY StudyDaysConstants, ZeroTypes DEF Init, TypeOK, Days
<1>. QED  BY <1>1, TypeStep, PTL DEF Spec
-----------------------------------------------------------------------------
(* A statement of the server only raises counters.                          *)
LEMMA ServerGrows ==
  ASSUME TypeOK, [Next]_vars
  PROVE  AtMost(server, server')
<1>1. CASE server' = server
  BY <1>1 DEF AtMost, TypeOK, Table, Counts
<1>2. ASSUME NEW c \in Clients, NEW k \in toUpsert[c], upsertStudyDay(RowOf(c, k))
      PROVE  AtMost(server, server')
  BY <1>2, RowOfType, UpsertFacts DEF TypeOK
<1>3. ASSUME NEW row \in late, upsertStudyDay(row) PROVE AtMost(server, server')
  BY <1>3, UpsertFacts DEF TypeOK
<1>4. ASSUME NEW c \in Clients, Pass(c) \/ NextDay(c) \/ Fail(c) \/ \E k \in Decks, f \in Fields : Study(c, k, f)
      PROVE  AtMost(server, server')
  BY <1>1, <1>2, <1>4 DEF Pass, GetManifest, Publish, Upsert, Accepted, Apply, NextDay, Fail, Study
<1>5. ASSUME NEW row \in late, LateUpsert(row) \/ Lose(row) PROVE AtMost(server, server')
  BY <1>1, <1>3, <1>5 DEF LateUpsert, Lose
<1>. QED  BY <1>1, <1>4, <1>5 DEF Next, vars

LEMMA NumbersInTables ==
  ASSUME NEW T \in Table, NEW d \in Days, NEW k \in Decks, NEW f \in Fields
  PROVE  T[d][k][f] \in Nat
BY DEF Table, Counts

LEMMA NumbersInRecords ==
  ASSUME TypeOK, NEW c \in Clients, NEW k \in Decks
  PROVE  mine[c][k].day \in Days /\ \A f \in Fields : mine[c][k].count[f] \in Nat
BY DEF TypeOK, DayRecord, Counts

(* What a pass knows: the counters it read are still the device's, and the   *)
(* rows of its request that are not waiting any more are stored.           *)
PassInv(c) ==
  \A k \in Decks, f \in Fields :
    /\ (pc[c] = "upsert" /\ k \notin toUpsert[c])
         => mine[c][k].count[f] <= server[mine[c][k].day][k][f]
    /\ pc[c] \in {"upsert", "apply"} =>
         /\ counter[c][k][f].day <= mine[c][k].day
         /\ counter[c][k][f].day = mine[c][k].day => mine[c][k].count[f] = counter[c][k][f].count

ofClient(c) == <<counter[c], pc[c], manifest[c], mine[c], toUpsert[c]>>

LEMMA PassUntouched ==
  ASSUME TypeOK, [Next]_vars, NEW c \in Clients, PassInv(c), UNCHANGED ofClient(c)
  PROVE  PassInv(c)'
<1>1. ASSUME NEW k \in Decks, NEW f \in Fields
      PROVE  /\ mine[c][k].count[f] \in Nat
             /\ server[mine[c][k].day][k][f] \in Nat /\ server'[mine[c][k].day][k][f] \in Nat
             /\ server[mine[c][k].day][k][f] <= server'[mine[c][k].day][k][f]
  <2>1. mine[c][k].day \in Days /\ mine[c][k].count[f] \in Nat
    BY NumbersInRecords
  <2>2. server \in Table /\ server' \in Table
    BY TypeStep DEF TypeOK
  <2>3. AtMost(server, server')
    BY ServerGrows
  <2>. QED  BY <2>1, <2>2, <2>3, NumbersInTables DEF AtMost
<1>2. counter'[c] = counter[c] /\ pc'[c] = pc[c] /\ mine'[c] = mine[c] /\ toUpsert'[c] = toUpsert[c]
  BY DEF ofClient
<1>3. ASSUME NEW k \in Decks, NEW f \in Fields, pc[c] = "upsert", k \notin toUpsert[c]
      PROVE  mine[c][k].count[f] <= server'[mine[c][k].day][k][f]
  <2>1. mine[c][k].count[f] <= server[mine[c][k].day][k][f]
    BY <1>3 DEF PassInv
  <2>2. /\ mine[c][k].count[f] \in Nat /\ server[mine[c][k].day][k][f] \in Nat /\ server'[mine[c][k].day][k][f] \in Nat
        /\ server[mine[c][k].day][k][f] <= server'[mine[c][k].day][k][f]
    BY <1>1
  <2>3. \A i, j, l \in Nat : i <= j /\ j <= l => i <= l
    OBVIOUS
  <2>. QED  BY <2>1, <2>2, <2>3
<1>4. ASSUME NEW k \in Decks, NEW f \in Fields
      PROVE  pc'[c] = "upsert" /\ k \notin toUpsert'[c] => mine'[c][k].count[f] <= server'[mine'[c][k].day][k][f]
  BY <1>2, <1>3
<1>5. ASSUME NEW k \in Decks, NEW f \in Fields, pc'[c] \in {"upsert", "apply"}
      PROVE  /\ counter'[c][k][f].day <= mine'[c][k].day
             /\ counter'[c][k][f].day = mine'[c][k].day => mine'[c][k].count[f] = counter'[c][k][f].count
  <2>1. /\ counter[c][k][f].day <= mine[c][k].day
        /\ counter[c][k][f].day = mine[c][k].day => mine[c][k].count[f] = counter[c][k][f].count
    BY <1>2, <1>5 DEF PassInv
  <2>. QED  BY <1>2, <2>1
<1>. QED  BY <1>4, <1>5 DEF PassInv

LEMMA OthersUntouched ==
  ASSUME TypeOK, NEW c \in Clients, NEW d \in Clients, d # c,
         Pass(d) \/ NextDay(d) \/ Fail(d) \/ \E k \in Decks, f \in Fields : Study(d, k, f)
  PROVE  UNCHANGED ofClient(c)
<1>1. CASE GetManifest(d) \/ Publish(d) \/ Upsert(d) \/ Accepted(d)
  BY <1>1 DEF GetManifest, Publish, Upsert, Accepted, ofClient, TypeOK
<1>2. CASE Apply(d) \/ Fail(d)
  BY <1>2 DEF Apply, Fail, EndPass, ofClient, TypeOK
<1>3. CASE NextDay(d) \/ \E k \in Decks, f \in Fields : Study(d, k, f)
  BY <1>3 DEF NextDay, Study, passVars, ofClient, TypeOK
<1>. QED  BY <1>1, <1>2, <1>3 DEF Pass

LEMMA PassInvStep ==
  ASSUME TypeOK, [Next]_vars, NEW c \in Clients, PassInv(c)
  PROVE  PassInv(c)'
<1>1. CASE UNCHANGED vars
  BY <1>1, PassUntouched DEF vars, passVars, ofClient
<1>2. CASE \E d \in Clients : /\ d # c
                              /\ Pass(d) \/ NextDay(d) \/ Fail(d) \/ \E k \in Decks, f \in Fields : Study(d, k, f)
  BY <1>2, PassUntouched, OthersUntouched
<1>3. CASE \E row \in late : LateUpsert(row) \/ Lose(row)
  BY <1>3, PassUntouched DEF LateUpsert, Lose, passVars, ofClient
<1>4. CASE NextDay(c)
  BY <1>4, PassUntouched DEF NextDay, passVars, ofClient
<1>5. CASE \E k \in Decks, f \in Fields : Study(c, k, f)
  BY <1>5 DEF Study, passVars, PassInv
<1>6. CASE GetManifest(c)
  BY <1>6 DEF GetManifest, PassInv, TypeOK
<1>7. CASE Publish(c)
  <2>1. /\ mine'[c] = LocalStudyDays(c)
        /\ toUpsert'[c] = {k \in Decks : Meaningful(LocalStudyDays(c)[k].count)}
        /\ counter' = counter /\ server' = server
    BY <1>7 DEF Publish, TypeOK
  <2>2. ASSUME NEW k \in Decks, NEW f \in Fields, k \notin toUpsert'[c]
        PROVE  LocalStudyDays(c)[k].count[f] <= server[LocalStudyDays(c)[k].day][k][f]
    <3>1. LocalStudyDays(c)[k].count[f] = 0
      BY <2>1, <2>2 DEF Meaningful
    <3>2. server[LocalStudyDays(c)[k].day][k][f] \in Nat
      BY LocalFacts DEF TypeOK, Table, Counts
    <3>. QED  BY <3>1, <3>2
  <2>. QED  BY <2>1, <2>2, LocalFacts DEF PassInv
<1>8. CASE Upsert(c)
  <2>1. PICK k \in toUpsert[c] : upsertStudyDay(RowOf(c, k)) /\ toUpsert' = [toUpsert EXCEPT ![c] = @ \ {k}]
    BY <1>8 DEF Upsert
  <2>2. UNCHANGED <<counter, pc, mine>> /\ k \in Decks
    BY <1>8, <2>1 DEF Upsert, TypeOK
  <2>3. \A f \in Fields : mine[c][k].count[f] <= server'[mine[c][k].day][k][f]
    BY <2>1, <2>2, RowOfType, UpsertFacts DEF RowOf
  <2>4. ASSUME NEW j \in Decks, NEW f \in Fields, pc[c] = "upsert", j \notin toUpsert'[c]
        PROVE  mine[c][j].count[f] <= server'[mine[c][j].day][j][f]
    <3>1. CASE j = k
      BY <2>3, <3>1
    <3>2. CASE j # k
      <4>1. j \notin toUpsert[c]
        BY <2>1, <2>4, <3>2 DEF TypeOK
      <4>2. mine[c][j].count[f] <= server[mine[c][j].day][j][f]
        BY <2>4, <4>1 DEF PassInv
      <4>3. server[mine[c][j].day][j][f] <= server'[mine[c][j].day][j][f]
        <5>1. mine[c][j].day \in Days
          BY DEF TypeOK, DayRecord
        <5>2. AtMost(server, server')
          BY ServerGrows
        <5>. QED  BY <5>1, <5>2 DEF AtMost
      <4>4. /\ mine[c][j].count[f] \in Nat /\ server[mine[c][j].day][j][f] \in Nat
            /\ server'[mine[c][j].day][j][f] \in Nat
        <5>1. server \in Table /\ server' \in Table
          BY TypeStep DEF TypeOK
        <5>. QED  BY <5>1, NumbersInRecords, NumbersInTables
      <4>. QED  BY <4>2, <4>3, <4>4
    <3>. QED  BY <3>1, <3>2
  <2>. QED  BY <2>2, <2>4 DEF PassInv
<1>9. CASE Accepted(c)
  <2>1. UNCHANGED <<counter, mine>> /\ pc[c] = "upsert" /\ pc'[c] = "apply"
    BY <1>9 DEF Accepted, TypeOK
  <2>. QED  BY <2>1 DEF PassInv
<1>10. CASE Apply(c) \/ Fail(c)
  <2>1. pc'[c] = "idle"
    BY <1>10 DEF Apply, Fail, EndPass, TypeOK
  <2>. QED  BY <2>1 DEF PassInv
<1>. QED  BY <1>1, <1>2, <1>3, <1>4, <1>5, <1>6, <1>7, <1>8, <1>9, <1>10 DEF Next, Pass

LEMMA PassInvariant == Spec => []\A c \in Clients : PassInv(c)
<1>1. Init => \A c \in Clients : PassInv(c)
  BY DEF Init, PassInv
<1>2. TypeOK /\ (\A c \in Clients : PassInv(c)) /\ [Next]_vars => (\A c \in Clients : PassInv(c))'
  BY PassInvStep
<1>. QED  BY <1>1, <1>2, TypeCorrect, PTL DEF Spec

-----------------------------------------------------------------------------
LEMMA AckedStep ==
  ASSUME TypeOK, [Next]_vars, \A c \in Clients : PassInv(c), AckedIsStored
  PROVE  AckedIsStored'
<1>. DEFINE Num == \A d \in Days, k \in Decks, f \in Fields :
                     acked[d][k][f] \in Nat /\ server[d][k][f] \in Nat /\ server'[d][k][f] \in Nat
<1>1. Num
  BY TypeStep DEF TypeOK, Table, Counts
<1>2. CASE acked' = acked
  BY <1>1, <1>2, ServerGrows DEF AckedIsStored, AtMost
<1>3. ASSUME NEW c \in Clients, Accepted(c) PROVE AckedIsStored'
  <2>1. ASSUME NEW d \in Days, NEW k \in Decks, NEW f \in Fields
        PROVE  acked'[d][k][f] <= server[d][k][f]
    <3>1. acked[d][k] \in Counts /\ mine[c][k].count \in Counts
      BY DEF TypeOK, Table, DayRecord
    <3>2. acked[d][k][f] <= server[d][k][f]
      BY DEF AckedIsStored, AtMost
    <3>3. CASE d = mine[c][k].day
      <4>1. mine[c][k].count[f] <= server[d][k][f]
        BY <1>3, <3>3 DEF Accepted, PassInv
      <4>2. acked'[d][k] = Merge(acked[d][k], mine[c][k].count)
        BY <1>3, <3>3 DEF Accepted
      <4>. QED  BY <3>1, <3>2, <4>1, <4>2, MergeFacts
    <3>4. CASE d # mine[c][k].day
      BY <1>3, <3>2, <3>4 DEF Accepted
    <3>. QED  BY <3>3, <3>4
  <2>. QED  BY <1>3, <2>1 DEF Accepted, AckedIsStored, AtMost
<1>4. ASSUME NEW c \in Clients,
             \/ GetManifest(c) \/ Publish(c) \/ Upsert(c) \/ Apply(c) \/ NextDay(c) \/ Fail(c)
             \/ \E k \in Decks, f \in Fields : Study(c, k, f)
      PROVE  acked' = acked
  BY <1>4 DEF GetManifest, Publish, Upsert, Apply, NextDay, Fail, Study
<1>5. ASSUME NEW row \in late, LateUpsert(row) \/ Lose(row) PROVE acked' = acked
  BY <1>5 DEF LateUpsert, Lose
<1>. QED  BY <1>2, <1>3, <1>4, <1>5 DEF Next, Pass, vars

(* An acknowledged count is never forgotten by the server (reviews.go         *)
(* upsertStudyDay).                                                        *)
THEOREM AckedIsStoredHolds == Spec => []AckedIsStored
<1>1. Init => AckedIsStored
  BY DEF Init, AckedIsStored, AtMost, NoRows, NoCounts
<1>2. TypeOK /\ (\A c \in Clients : PassInv(c)) /\ AckedIsStored /\ [Next]_vars => AckedIsStored'
  BY AckedStep
<1>. QED  BY <1>1, <1>2, TypeCorrect, PassInvariant, PTL DEF Spec

(* A pass never lowers a counter of the same day on the device               *)
(* (review_sync.py _merge_study_day, _apply_study_day).                    *)
THEOREM SameDayKeptHolds == Spec => SameDayKept
<1>. DEFINE Kept(c, k, f) ==
       \/ counter'[c][k][f].day > counter[c][k][f].day
       \/ counter'[c][k][f].day = counter[c][k][f].day /\ counter'[c][k][f].count >= counter[c][k][f].count
       \/ pc[c] = "idle"
<1>1. ASSUME TypeOK, \A c \in Clients : PassInv(c), [Next]_vars, NEW c \in Clients, NEW k \in Decks, NEW f \in Fields
      PROVE  Kept(c, k, f)
  <2>1. CASE counter'[c] = counter[c]
    <3>1. counter[c][k][f].day \in Int /\ counter[c][k][f].count \in Nat
      BY <1>1 DEF TypeOK, Days
    <3>. QED  BY <2>1, <3>1
  <2>2. CASE Apply(c)
    <3>1. /\ counter'[c][k][f].day = LatestMerged(c, k).day
          /\ counter'[c][k][f].count = LatestMerged(c, k).count[f]
      BY <1>1, <2>2 DEF Apply, TypeOK
    <3>2. /\ counter[c][k][f].day <= mine[c][k].day
          /\ counter[c][k][f].day = mine[c][k].day => mine[c][k].count[f] = counter[c][k][f].count
      BY <1>1, <2>2 DEF Apply, PassInv
    <3>3. /\ mine[c][k].day <= LatestMerged(c, k).day
          /\ LatestMerged(c, k).day = mine[c][k].day => mine[c][k].count[f] <= LatestMerged(c, k).count[f]
          /\ LatestMerged(c, k).day \in Int /\ LatestMerged(c, k).count[f] \in Nat
      BY <1>1, MergedFacts DEF Counts, Days
    <3>4. /\ counter[c][k][f].day \in Int /\ counter[c][k][f].count \in Nat
          /\ mine[c][k].day \in Int /\ mine[c][k].count[f] \in Nat
      BY <1>1 DEF TypeOK, DayRecord, Counts, Days
    <3>. QED  BY <3>1, <3>2, <3>3, <3>4
  <2>3. CASE \E j \in Decks, g \in Fields : Study(c, j, g)
    BY <2>3 DEF Study
  <2>4. CASE GetManifest(c) \/ Publish(c) \/ Upsert(c) \/ Accepted(c) \/ NextDay(c) \/ Fail(c)
    BY <2>1, <2>4 DEF GetManifest, Publish, Upsert, Accepted, NextDay, Fail
  <2>5. CASE \E d \in Clients : /\ d # c
                                /\ Pass(d) \/ NextDay(d) \/ Fail(d) \/ \E j \in Decks, g \in Fields : Study(d, j, g)
    BY <1>1, <2>1, <2>5, OthersUntouched DEF ofClient
  <2>6. CASE (\E row \in late : LateUpsert(row) \/ Lose(row)) \/ UNCHANGED vars
    BY <2>1, <2>6 DEF LateUpsert, Lose, vars
  <2>. QED  BY <1>1, <2>2, <2>3, <2>4, <2>5, <2>6 DEF Next, Pass
<1>2. TypeOK /\ (\A c \in Clients : PassInv(c)) /\ [Next]_vars
        => [\A c \in Clients, k \in Decks, f \in Fields : Kept(c, k, f)]_counter
  BY <1>1
<1>. QED  BY <1>2, TypeCorrect, PassInvariant, PTL DEF Spec, SameDayKept
-----------------------------------------------------------------------------
(* Every copy of a counter, in tables, on devices and in requests, is at      *)
(* most what some device reached by studying.                              *)
BoundedBy(limit, day, k, count) == \A f \in Fields : count[f] <= limit[day][k][f]

InflationInv ==
  /\ NoInflation
  /\ \A c \in Clients : AtMost(manifest[c], reached)
  /\ \A c \in Clients, k \in Decks : BoundedBy(reached, mine[c][k].day, k, mine[c][k].count)
  /\ \A row \in late : BoundedBy(reached, row.day, row.deck, row.count)

(* A statement stores counters within the limit.                            *)
LEMMA UpsertBounded ==
  ASSUME TypeOK, NEW row \in Row, AtMost(server, reached), BoundedBy(reached, row.day, row.deck, row.count),
         upsertStudyDay(row)
  PROVE  AtMost(server', reached)
BY UpsertFacts DEF AtMost, BoundedBy

LEMMA ResetBounded ==
  ASSUME TypeOK, InflationInv, NEW c \in Clients, EndPass(c), reached' = reached
  PROVE  /\ \A d \in Clients : AtMost(manifest'[d], reached')
         /\ \A d \in Clients, k \in Decks : BoundedBy(reached', mine'[d][k].day, k, mine'[d][k].count)
<1>1. 0 \in Days /\ \A d \in Days, k \in Decks, f \in Fields : 0 <= reached[d][k][f]
  BY NumbersInTables, StudyDaysConstants DEF TypeOK, Days
<1>2. ASSUME NEW d \in Clients PROVE AtMost(manifest'[d], reached)
  <2>1. manifest'[d] = NoRows \/ manifest'[d] = manifest[d]
    BY DEF EndPass, TypeOK
  <2>. QED  BY <1>1, <2>1 DEF InflationInv, AtMost, NoRows, NoCounts
<1>3. ASSUME NEW d \in Clients, NEW k \in Decks PROVE BoundedBy(reached, mine'[d][k].day, k, mine'[d][k].count)
  <2>1. mine'[d] = NoRecords \/ mine'[d] = mine[d]
    BY DEF EndPass, TypeOK
  <2>. QED  BY <1>1, <2>1 DEF InflationInv, BoundedBy, NoRecords, NoCounts
<1>. QED  BY <1>2, <1>3

LEMMA StudyBounded ==
  ASSUME TypeOK, InflationInv, NEW c \in Clients, NEW k \in Decks, NEW f \in Fields, Study(c, k, f)
  PROVE  InflationInv'
<1>. DEFINE n == Studied(c, k, f) + 1
<1>1. n \in Nat /\ today[c] \in Days
  BY DEF Studied, TypeOK
<1>2. /\ counter' = [counter EXCEPT ![c][k][f] = [day |-> today[c], count |-> n]]
      /\ reached' = [reached EXCEPT ![today[c]][k][f] = Greatest(@, n)]
      /\ UNCHANGED <<server, manifest, mine, late>>
  BY DEF Study, passVars
<1>. HIDE DEF n
<1>3. ASSUME NEW d \in Days, NEW j \in Decks, NEW g \in Fields
      PROVE  reached'[d][j][g] = IF d = today[c] /\ j = k /\ g = f THEN Greatest(reached[d][j][g], n) ELSE reached[d][j][g]
  BY <1>1, <1>2 DEF TypeOK, Table, Counts
<1>4. ASSUME NEW d \in Days, NEW j \in Decks, NEW g \in Fields
      PROVE  reached[d][j][g] \in Nat /\ reached'[d][j][g] \in Nat /\ reached[d][j][g] <= reached'[d][j][g]
  <2>1. reached[d][j][g] \in Nat
    BY NumbersInTables DEF TypeOK
  <2>2. Greatest(reached[d][j][g], n) \in Nat /\ reached[d][j][g] <= Greatest(reached[d][j][g], n)
    BY <1>1, <2>1 DEF Greatest
  <2>3. reached[d][j][g] <= reached[d][j][g]
    BY <2>1
  <2>. HIDE DEF Greatest
  <2>. QED  BY <1>3, <2>1, <2>2, <2>3
<1>5. ASSUME NEW T \in Table, AtMost(T, reached) PROVE AtMost(T, reached')
  <2>1. ASSUME NEW d \in Days, NEW j \in Decks, NEW g \in Fields PROVE T[d][j][g] <= reached'[d][j][g]
    <3>1. T[d][j][g] <= reached[d][j][g] /\ T[d][j][g] \in Nat
      BY <1>5, NumbersInTables DEF AtMost
    <3>. QED  BY <1>4, <3>1
  <2>. QED  BY <2>1 DEF AtMost
<1>6. ASSUME NEW d \in Days, NEW j \in Decks, NEW count \in Counts, BoundedBy(reached, d, j, count)
      PROVE  BoundedBy(reached', d, j, count)
  <2>1. ASSUME NEW g \in Fields PROVE count[g] <= reached'[d][j][g]
    <3>1. count[g] \in Nat /\ count[g] <= reached[d][j][g]
      BY <1>6 DEF Counts, BoundedBy
    <3>. QED  BY <1>4, <3>1
  <2>. QED  BY <2>1 DEF BoundedBy
<1>7. ASSUME NEW d \in Clients, NEW j \in Decks, NEW g \in Fields
      PROVE  counter'[d][j][g].count <= reached'[counter'[d][j][g].day][j][g]
  <2>1. CASE d = c /\ j = k /\ g = f
    <3>1. counter'[d][j][g] = [day |-> today[c], count |-> n]
      BY <1>2, <2>1 DEF TypeOK
    <3>2. n <= reached'[today[c]][j][g]
      <4>1. reached[today[c]][j][g] \in Nat
        BY <1>1, NumbersInTables DEF TypeOK
      <4>2. reached'[today[c]][j][g] = Greatest(reached[today[c]][j][g], n)
        BY <1>1, <1>3, <2>1
      <4>. QED  BY <1>1, <4>1, <4>2 DEF Greatest
    <3>. QED  BY <3>1, <3>2
  <2>2. CASE ~(d = c /\ j = k /\ g = f)
    <3>1. counter'[d][j][g] = counter[d][j][g]
      BY <1>2, <2>2 DEF TypeOK
    <3>2. counter[d][j][g].day \in Days /\ counter[d][j][g].count \in Nat
      BY DEF TypeOK
    <3>3. counter[d][j][g].count <= reached[counter[d][j][g].day][j][g]
      BY DEF InflationInv, NoInflation
    <3>. QED  BY <1>4, <3>1, <3>2, <3>3
  <2>. QED  BY <2>1, <2>2
<1>8. AtMost(server', reached') /\ \A d \in Clients : AtMost(manifest'[d], reached')
  BY <1>2, <1>5 DEF InflationInv, NoInflation, TypeOK
<1>9. \A d \in Clients, j \in Decks : BoundedBy(reached', mine'[d][j].day, j, mine'[d][j].count)
  BY <1>2, <1>6 DEF InflationInv, TypeOK, DayRecord
<1>10. \A row \in late' : BoundedBy(reached', row.day, row.deck, row.count)
  BY <1>2, <1>6 DEF InflationInv, TypeOK, Row
<1>. QED  BY <1>7, <1>8, <1>9, <1>10 DEF InflationInv, NoInflation

LEMMA InflationStep ==
  ASSUME TypeOK, [Next]_vars, InflationInv
  PROVE  InflationInv'
<1>1. CASE UNCHANGED <<server, counter, manifest, mine, late, reached>>
  BY <1>1 DEF InflationInv, NoInflation, AtMost, BoundedBy
<1>2. ASSUME NEW c \in Clients, GetManifest(c) PROVE InflationInv'
  <2>1. \A d \in Clients : manifest'[d] = manifest[d] \/ manifest'[d] = server
    BY <1>2 DEF GetManifest, TypeOK
  <2>2. UNCHANGED <<server, counter, mine, late, reached>>
    BY <1>2 DEF GetManifest
  <2>3. \A d \in Clients : AtMost(manifest'[d], reached)
    BY <2>1 DEF InflationInv, NoInflation
  <2>. QED  BY <2>2, <2>3 DEF InflationInv, NoInflation, AtMost, BoundedBy
<1>3. ASSUME NEW c \in Clients, Publish(c) PROVE InflationInv'
  <2>1. UNCHANGED <<server, counter, manifest, late, reached>>
    BY <1>3 DEF Publish
  <2>2. ASSUME NEW d \in Clients, NEW k \in Decks PROVE BoundedBy(reached, mine'[d][k].day, k, mine'[d][k].count)
    <3>1. CASE d = c
      <4>1. mine'[d][k] = LocalStudyDays(c)[k]
        BY <1>3, <3>1 DEF Publish, TypeOK
      <4>2. ASSUME NEW f \in Fields
            PROVE  LocalStudyDays(c)[k].count[f] <= reached[LocalStudyDays(c)[k].day][k][f]
        <5>1. counter[c][k][f].count <= reached[counter[c][k][f].day][k][f]
          BY DEF InflationInv, NoInflation
        <5>2. 0 <= reached[LocalStudyDays(c)[k].day][k][f]
          BY LocalFacts, NumbersInTables DEF TypeOK
        <5>. QED  BY <5>1, <5>2, LocalFacts
      <4>. QED  BY <4>1, <4>2 DEF BoundedBy
    <3>2. CASE d # c
      BY <1>3, <3>2 DEF Publish, TypeOK, InflationInv
    <3>. QED  BY <3>1, <3>2
  <2>. QED  BY <2>1, <2>2 DEF InflationInv, NoInflation, AtMost, BoundedBy
<1>4. ASSUME NEW c \in Clients, Upsert(c) PROVE InflationInv'
  <2>1. PICK k \in toUpsert[c] : upsertStudyDay(RowOf(c, k))
    BY <1>4 DEF Upsert
  <2>2. k \in Decks /\ BoundedBy(reached, mine[c][k].day, k, mine[c][k].count)
    BY <2>1 DEF TypeOK, InflationInv
  <2>3. AtMost(server', reached)
    BY <2>1, <2>2, RowOfType, UpsertBounded DEF RowOf, InflationInv, NoInflation
  <2>4. UNCHANGED <<counter, manifest, mine, late, reached>>
    BY <1>4 DEF Upsert
  <2>. QED  BY <2>3, <2>4 DEF InflationInv, NoInflation, AtMost, BoundedBy
<1>5. ASSUME NEW c \in Clients, Apply(c) PROVE InflationInv'
  <2>1. EndPass(c) /\ UNCHANGED <<server, late, reached>>
    BY <1>5 DEF Apply
  <2>2. ASSUME NEW d \in Clients, NEW k \in Decks, NEW f \in Fields
        PROVE  counter'[d][k][f].count <= reached[counter'[d][k][f].day][k][f]
    <3>1. CASE d = c
      <4>1. /\ counter'[d][k][f].day = LatestMerged(c, k).day
            /\ counter'[d][k][f].count = LatestMerged(c, k).count[f]
        BY <1>5, <3>1 DEF Apply, TypeOK
      <4>2. AtMost(manifest[c], reached) /\ BoundedBy(reached, mine[c][k].day, k, mine[c][k].count)
        BY DEF InflationInv
      <4>3. LatestMerged(c, k).count[f] <= reached[LatestMerged(c, k).day][k][f]
        <5>. DEFINE r == LatestMerged(c, k)
        <5>1. r.day \in Days
          BY MergedFacts
        <5>. HIDE DEF r
        <5>2. manifest[c][r.day][k][f] <= reached[r.day][k][f] /\ mine[c][k].count[f] <= reached[mine[c][k].day][k][f]
          BY <4>2, <5>1 DEF AtMost, BoundedBy
        <5>3. \/ r.count[f] = manifest[c][r.day][k][f]
              \/ r.day = mine[c][k].day /\ r.count[f] = mine[c][k].count[f]
          BY MergedFacts DEF r
        <5>4. r.count[f] <= reached[r.day][k][f]
          BY <5>2, <5>3
        <5>. QED  BY <5>4 DEF r
      <4>. QED  BY <4>1, <4>3
    <3>2. CASE d # c
      BY <1>5, <3>2 DEF Apply, TypeOK, InflationInv, NoInflation
    <3>. QED  BY <3>1, <3>2
  <2>. QED  BY <2>1, <2>2, ResetBounded DEF InflationInv, NoInflation, AtMost, BoundedBy
<1>6. ASSUME NEW c \in Clients, Fail(c) PROVE InflationInv'
  <2>1. EndPass(c) /\ UNCHANGED <<server, counter, reached>>
    BY <1>6 DEF Fail
  <2>2. ASSUME NEW row \in late' PROVE BoundedBy(reached, row.day, row.deck, row.count)
    <3>1. row \in late \/ \E k \in Decks : row = RowOf(c, k)
      BY <1>6, <2>2 DEF Fail, TypeOK
    <3>. QED  BY <3>1 DEF InflationInv, RowOf
  <2>. QED  BY <2>1, <2>2, ResetBounded DEF InflationInv, NoInflation, AtMost, BoundedBy
<1>7. ASSUME NEW row \in late, LateUpsert(row) \/ Lose(row) PROVE InflationInv'
  <2>1. AtMost(server', reached)
    BY <1>7, UpsertBounded DEF LateUpsert, Lose, InflationInv, NoInflation, TypeOK
  <2>2. UNCHANGED <<counter, manifest, mine, reached>> /\ late' \subseteq late
    BY <1>7 DEF LateUpsert, Lose, passVars
  <2>. QED  BY <2>1, <2>2 DEF InflationInv, NoInflation, AtMost, BoundedBy
<1>8. ASSUME NEW c \in Clients, Accepted(c) \/ NextDay(c) PROVE InflationInv'
  BY <1>1, <1>8 DEF Accepted, NextDay, passVars
<1>9. CASE UNCHANGED vars
  BY <1>1, <1>9 DEF vars, passVars
<1>. QED  BY <1>2, <1>3, <1>4, <1>5, <1>6, <1>7, <1>8, <1>9, StudyBounded DEF Next, Pass

(* Syncing never invents study (review_sync.py, reviews.go upsertStudyDay).   *)
THEOREM NoInflationHolds == Spec => []NoInflation
<1>1. Init => InflationInv
  BY ZeroTypes, StudyDaysConstants
     DEF Init, InflationInv, NoInflation, AtMost, BoundedBy, NoRows, NoCounts, NoRecords, Days
<1>2. TypeOK /\ InflationInv /\ [Next]_vars => InflationInv'
  BY InflationStep
<1>3. InflationInv => NoInflation
  BY DEF InflationInv
<1>. QED  BY <1>1, <1>2, <1>3, TypeCorrect, PTL DEF Spec
=============================================================================
