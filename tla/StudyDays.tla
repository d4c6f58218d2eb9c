------------------------------ MODULE StudyDays ------------------------------
(***************************************************************************)
(* Daily study counters, the second half of sync_reviews_once              *)
(* (review_sync.py) and upsertStudyDay (reviews.go).  Anki keeps, for each *)
(* deck, how many cards of each kind were studied on the last day of       *)
(* study; the daily limits are computed from these counters.  Devices      *)
(* publish them under a portable epoch day, the server keeps the greatest  *)
(* value of each counter, and a device then writes back, for each deck,    *)
(* the merged record of the latest day it knows of.                        *)
(*                                                                         *)
(* Devices need not agree on the day: their clocks, time zones and         *)
(* creation stamps (col.crt) differ.                                       *)
(*                                                                         *)
(* Abstracted: a row all of whose counters are zero is no row (clients      *)
(* never publish one); every deck exists on every device; deck mod/usn     *)
(* bookkeeping; all rows go in one request (1000 per request in the code). *)
(***************************************************************************)
EXTENDS Integers

CONSTANTS
  Decks,
  Fields,       \* new, review, learning, milliseconds (_DAILY_FIELDS)
  Clients,
  MaxDay,       \* bound on the days of a behaviour
  MaxCount,     \* bound on a counter
  MaxFailures   \* bound on the failures of a behaviour

ASSUME StudyDaysConstants ==
  /\ Fields # {}
  /\ MaxDay \in Nat
  /\ MaxCount \in Nat
  /\ MaxFailures \in Nat

VARIABLES
  server,    \* the study_days table: counters of each day and deck
  today,     \* per client, its current epoch day
  counter,   \* per client, the deck's [day, count] pair of each field
  pc,        \* where the client is in sync_reviews_once
  manifest,  \* per client, the study_days of the manifest it was given
  mine,      \* per client, its local_study_days of this pass
  toUpsert,  \* per client, the rows of its request not stored yet
  late,      \* rows of requests whose client is gone
  failures,  \* number of failures so far
  acked,     \* history: the highest counters acknowledged to a client
  reached    \* history: the highest counters a device reached by studying

passVars == <<pc, manifest, mine, toUpsert>>
vars == <<server, today, counter, passVars, late, failures, acked, reached>>

Days == 0..MaxDay
Counts == [Fields -> Nat]
Table == [Days -> [Decks -> Counts]]
DayRecord == [day : Days, count : Counts]
Row == [deck : Decks, day : Days, count : Counts]

NoCounts == [f \in Fields |-> 0]
NoRows == [d \in Days |-> [k \in Decks |-> NoCounts]]
NoRecords == [k \in Decks |-> [day |-> 0, count |-> NoCounts]]

Greatest(a, b) == IF a >= b THEN a ELSE b
Merge(x, y) == [f \in Fields |-> Greatest(x[f], y[f])]
Meaningful(count) == \E f \in Fields : count[f] # 0

(* The latest of some days.                                                 *)
Latest(days) == CHOOSE d \in days : \A e \in days : e <= d

Init ==
  /\ server = NoRows
  /\ today \in [Clients -> Days]
  /\ counter = [c \in Clients |-> [k \in Decks |-> [f \in Fields |-> [day |-> 0, count |-> 0]]]]
  /\ pc = [c \in Clients |-> "idle"]
  /\ manifest = [c \in Clients |-> NoRows]
  /\ mine = [c \in Clients |-> NoRecords]
  /\ toUpsert = [c \in Clients |-> {}]
  /\ late = {}
  /\ failures = 0
  /\ acked = NoRows
  /\ reached = NoRows

-----------------------------------------------------------------------------
(* What Anki counts against today's limit: a pair of another day is void.    *)
Studied(c, k, f) ==
  IF counter[c][k][f].day = today[c] THEN counter[c][k][f].count ELSE 0

(* The user studies a card: Anki counts it, from zero on a new day.          *)
Study(c, k, f) ==
  LET count == Studied(c, k, f) + 1
  IN  /\ pc[c] = "idle"
      /\ count <= MaxCount
      /\ counter' = [counter EXCEPT ![c][k][f] = [day |-> today[c], count |-> count]]
      /\ reached' = [reached EXCEPT ![today[c]][k][f] = Greatest(@, count)]
      /\ UNCHANGED <<server, today, passVars, late, failures, acked>>

NextDay(c) ==
  /\ pc[c] = "idle"
  /\ today[c] < MaxDay
  /\ today' = [today EXCEPT ![c] = @ + 1]
  /\ UNCHANGED <<server, counter, passVars, late, failures, acked, reached>>

-----------------------------------------------------------------------------
GetManifest(c) ==
  /\ pc[c] = "idle"
  /\ manifest' = [manifest EXCEPT ![c] = server]
  /\ pc' = [pc EXCEPT ![c] = "publish"]
  /\ UNCHANGED <<server, today, counter, mine, toUpsert, late, failures, acked, reached>>

(* local_study_days: the counters of the latest day any field was counted    *)
(* on; a field last counted on an earlier day is zero on that day.         *)
LocalDay(c, k) == Latest({counter[c][k][f].day : f \in Fields})

(* Mutant: the portable day is off by one.                                  *)
ShiftedDays(c) ==
  [k \in Decks |->
     [day |-> LocalDay(c, k) + 1,
      count |-> [f \in Fields |-> IF counter[c][k][f].day = LocalDay(c, k) THEN counter[c][k][f].count ELSE 0]]]

LocalStudyDays(c) ==
  [k \in Decks |->
     [day |-> LocalDay(c, k),
      count |-> [f \in Fields |-> IF counter[c][k][f].day = LocalDay(c, k) THEN counter[c][k][f].count ELSE 0]]]

Publish(c) ==
  /\ pc[c] = "publish"
  /\ mine' = [mine EXCEPT ![c] = LocalStudyDays(c)]
  /\ toUpsert' = [toUpsert EXCEPT ![c] = {k \in Decks : Meaningful(LocalStudyDays(c)[k].count)}]
  /\ pc' = [pc EXCEPT ![c] = "upsert"]
  /\ UNCHANGED <<server, today, counter, manifest, late, failures, acked, reached>>

(* Mutant: ON CONFLICT DO UPDATE SET count = EXCLUDED.count.                *)
UpsertLatest(row) == server' = [server EXCEPT ![row.day][row.deck] = row.count]

(* Mutant: counters are added up.                                           *)
UpsertSum(row) ==
  server' = [server EXCEPT ![row.day][row.deck] = [f \in Fields |-> @[f] + row.count[f]]]

(* INSERT ... ON CONFLICT DO UPDATE SET count = GREATEST(...).              *)
upsertStudyDay(row) ==
  server' = [server EXCEPT ![row.day][row.deck] = Merge(@, row.count)]

RowOf(c, k) == [deck |-> k, day |-> mine[c][k].day, count |-> mine[c][k].count]

(* The loop of BatchPush: one statement per row.                            *)
Upsert(c) ==
  /\ pc[c] = "upsert"
  /\ \E k \in toUpsert[c] :
       /\ upsertStudyDay(RowOf(c, k))
       /\ toUpsert' = [toUpsert EXCEPT ![c] = @ \ {k}]
  /\ UNCHANGED <<today, counter, pc, manifest, mine, late, failures, acked, reached>>

(* The response: every row of the request is stored.                        *)
Accepted(c) ==
  /\ pc[c] = "upsert"
  /\ toUpsert[c] = {}
  /\ acked' = [d \in Days |-> [k \in Decks |->
                 IF d = mine[c][k].day THEN Merge(acked[d][k], mine[c][k].count) ELSE acked[d][k]]]
  /\ pc' = [pc EXCEPT ![c] = "apply"]
  /\ UNCHANGED <<server, today, counter, manifest, mine, toUpsert, late, failures, reached>>

(* The days of deck k in the manifest or on the device.                      *)
KnownDays(c, k) == {d \in Days : Meaningful(manifest[c][d][k])} \cup {mine[c][k].day}

(* Mutant: only days of the manifest are merged.                            *)
ServerOnly(c, k) ==
  LET day == Latest(KnownDays(c, k)) IN [day |-> day, count |-> manifest[c][day][k]]

(* Mutant: the local record is written back as it was.                      *)
LocalOnly(c, k) == mine[c][k]

(* _merge_study_day over both: same-day counters by maximum, else the later  *)
(* day wins.                                                               *)
LatestMerged(c, k) ==
  LET day == Latest(KnownDays(c, k))
  IN  [day |-> day,
       count |-> IF day = mine[c][k].day THEN Merge(manifest[c][day][k], mine[c][k].count)
                 ELSE manifest[c][day][k]]

EndPass(c) ==
  /\ pc' = [pc EXCEPT ![c] = "idle"]
  /\ manifest' = [manifest EXCEPT ![c] = NoRows]
  /\ mine' = [mine EXCEPT ![c] = NoRecords]
  /\ toUpsert' = [toUpsert EXCEPT ![c] = {}]

(* _apply_study_day for every deck: all fields get the record's day.         *)
Apply(c) ==
  /\ pc[c] = "apply"
  /\ counter' = [counter EXCEPT ![c] =
       [k \in Decks |-> [f \in Fields |->
          [day |-> LatestMerged(c, k).day, count |-> LatestMerged(c, k).count[f]]]]]
  /\ EndPass(c)
  /\ UNCHANGED <<server, today, late, failures, acked, reached>>

(* The request fails or times out, or the client stops: rows not yet stored  *)
(* may still be.                                                           *)
Fail(c) ==
  /\ failures < MaxFailures
  /\ failures' = failures + 1
  /\ pc[c] # "idle"
  /\ late' = late \cup {RowOf(c, k) : k \in toUpsert[c]}
  /\ EndPass(c)
  /\ UNCHANGED <<server, today, counter, acked, reached>>

LateUpsert(row) ==
  /\ upsertStudyDay(row)
  /\ late' = late \ {row}
  /\ UNCHANGED <<today, counter, passVars, failures, acked, reached>>

Lose(row) ==
  /\ late' = late \ {row}
  /\ UNCHANGED <<server, today, counter, passVars, failures, acked, reached>>

-----------------------------------------------------------------------------
Pass(c) == GetManifest(c) \/ Publish(c) \/ Upsert(c) \/ Accepted(c) \/ Apply(c)

Next ==
  \/ \E c \in Clients :
       \/ \E k \in Decks, f \in Fields : Study(c, k, f)
       \/ NextDay(c) \/ Pass(c) \/ Fail(c)
  \/ \E row \in late : LateUpsert(row) \/ Lose(row)

Spec == Init /\ [][Next]_vars

(* Every client keeps syncing and a started pass proceeds.                  *)
FairSpec == Spec /\ \A c \in Clients : WF_vars(Pass(c))

-----------------------------------------------------------------------------
(* The variables have their types.                                          *)
TypeOK ==
  /\ server \in Table
  /\ today \in [Clients -> Days]
  /\ counter \in [Clients -> [Decks -> [Fields -> [day : Days, count : Nat]]]]
  /\ pc \in [Clients -> {"idle", "publish", "upsert", "apply"}]
  /\ manifest \in [Clients -> Table]
  /\ mine \in [Clients -> [Decks -> DayRecord]]
  /\ toUpsert \in [Clients -> SUBSET Decks]
  /\ late \subseteq Row
  /\ failures \in 0..MaxFailures
  /\ acked \in Table
  /\ reached \in Table

AtMost(x, y) == \A d \in Days, k \in Decks, f \in Fields : x[d][k][f] <= y[d][k][f]

(* "Same-day snapshots merge monotonically": a count the server has           *)
(* acknowledged is never forgotten, also when an older request of a client *)
(* that gave up is executed after a newer one (reviews.go upsertStudyDay). *)
AckedIsStored == AtMost(acked, server)

(* Syncing never invents study: no counter, on the server or on a device,    *)
(* is higher than some device reached on that day by studying, however     *)
(* often a request is repeated.                                            *)
NoInflation ==
  /\ AtMost(server, reached)
  /\ \A c \in Clients, k \in Decks, f \in Fields :
       counter[c][k][f].count <= reached[counter[c][k][f].day][k][f]

(* A pass never lowers a device's counter of a day unless it replaces it by  *)
(* a later day's (review_sync.py _merge_study_day, _apply_study_day).      *)
SameDayKept ==
  [][\A c \in Clients, k \in Decks, f \in Fields :
       \/ counter'[c][k][f].day > counter[c][k][f].day
       \/ counter'[c][k][f].day = counter[c][k][f].day /\ counter'[c][k][f].count >= counter[c][k][f].count
       \/ pc[c] = "idle"]_counter

(* When studying ends, every device shows, for each deck, the server's        *)
(* counters of the latest day anybody studied it on.                       *)
Agreed ==
  \A c \in Clients, k \in Decks :
    LET day == Latest({0} \cup {d \in Days : Meaningful(server[d][k])})
    IN  \A f \in Fields : counter[c][k][f] = [day |-> day, count |-> server[day][k][f]]

SomeStudy == \E c \in Clients, k \in Decks, f \in Fields : Study(c, k, f)

EventuallyAgreed == []<><<SomeStudy>>_vars \/ <>[]Agreed
=============================================================================
