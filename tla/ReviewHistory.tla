---------------------------- MODULE ReviewHistory ----------------------------
(***************************************************************************)
(* Review-history sync: the server's append-only reviews table and the     *)
(* clients' union of it with their local revlog (review_sync.py,           *)
(* reviews.go).  A client compares its revlog with a manifest, pulls the   *)
(* rows it lacks, and pushes the rows the manifest lacks, in chunks.  The  *)
(* server stores a chunk with one INSERT ... ON CONFLICT DO NOTHING and    *)
(* then reads the stored checksums back to report collisions.              *)
(*                                                                         *)
(* A request the client has given up on (30 s timeout, lost response) may   *)
(* still execute at any later time; a client may stop at any step.         *)
(*                                                                         *)
(* Abstracted: the fields of a review are one fact.  The portable checksum *)
(* also covers the note guid, which a local row has only while its card    *)
(* exists; so a version is a fact and whether the guid is missing.         *)
(* Daily counters, the second half of sync_reviews_once, are StudyDays.    *)
(***************************************************************************)
EXTENDS Naturals, FiniteSets

CONSTANTS
  ReviewIds,    \* millisecond review ids
  Facts,        \* the immutable fields of a review
  FactsOf,      \* the facts devices may record under each id; more than one
                \* when two devices review at the same millisecond
  NoReview,
  Clients,
  ChunkSize,    \* rows per request (3000 in the code)
  ClearPending, \* the client clears the rows' pending flag (Kelma-only client)
  Deleters,     \* the clients whose users delete cards (which orphans their reviews)
  MaxFailures   \* bound on the failures of a behaviour

Version == [fact : Facts, orphan : BOOLEAN]

ASSUME ReviewConstants ==
  /\ NoReview \notin Version
  /\ NoReview \notin Facts
  /\ FactsOf \in [ReviewIds -> SUBSET Facts]
  /\ ChunkSize \in Nat \ {0}
  /\ ClearPending \in BOOLEAN
  /\ Deleters \subseteq Clients
  /\ MaxFailures \in Nat

VARIABLES
  server,       \* the reviews table: version of each id
  local,        \* per client, the revlog: fact of each id
  carded,       \* per client, the rows whose card exists, so that it knows the guid
  pending,      \* per client, the rows with usn = -1
  unsaved,      \* per client, rows inserted since the last col.save()
  pc,           \* where the client is in sync_reviews_once
  manifest,     \* the server_manifest it was given
  mine,         \* the local records it compared
  todo,         \* ids still to pull, then still to push
  sent,         \* the rows of the push request in flight
  accepted,     \* the ids the server accepted in this pass
  late,         \* requests whose client is gone, still to be executed
  failures,     \* number of failures so far
  raised        \* history: <<id, server row, client row>> of each conflict raised

netVars == <<server, late>>
clientVars == <<local, carded, pending, unsaved>>
passVars == <<pc, manifest, mine, todo, sent, accepted>>
vars == <<netVars, clientVars, passVars, failures, raised>>

Rows == [ReviewIds -> Version \cup {NoReview}]
NoRows == [id \in ReviewIds |-> NoReview]
Stored(rows) == {id \in ReviewIds : rows[id] # NoReview}

Init ==
  /\ server = NoRows
  /\ local = [c \in Clients |-> NoRows]
  /\ carded = [c \in Clients |-> {}]
  /\ pending = [c \in Clients |-> {}]
  /\ unsaved = [c \in Clients |-> {}]
  /\ pc = [c \in Clients |-> "idle"]
  /\ manifest = [c \in Clients |-> NoRows]
  /\ mine = [c \in Clients |-> NoRows]
  /\ todo = [c \in Clients |-> {}]
  /\ sent = [c \in Clients |-> NoRows]
  /\ accepted = [c \in Clients |-> {}]
  /\ late = {}
  /\ failures = 0
  /\ raised = {}

-----------------------------------------------------------------------------
Goto(c, step) == pc' = [pc EXCEPT ![c] = step]

(* The pass is over, normally or by an exception.                           *)
EndPass(c) ==
  /\ Goto(c, "idle")
  /\ manifest' = [manifest EXCEPT ![c] = NoRows]
  /\ mine' = [mine EXCEPT ![c] = NoRows]
  /\ todo' = [todo EXCEPT ![c] = {}]
  /\ sent' = [sent EXCEPT ![c] = NoRows]
  /\ accepted' = [accepted EXCEPT ![c] = {}]

(* The user answers a card, or a row arrives through AnkiWeb.               *)
Study(c, id, fact) ==
  /\ pc[c] = "idle"
  /\ local[c][id] = NoReview
  /\ fact \in FactsOf[id]
  /\ local' = [local EXCEPT ![c][id] = fact]
  /\ carded' = [carded EXCEPT ![c] = @ \cup {id}]
  /\ pending' = [pending EXCEPT ![c] = @ \cup {id}]
  /\ UNCHANGED <<netVars, unsaved, passVars, failures, raised>>

(* The user deletes the reviewed card; Anki keeps the revlog row.           *)
DeleteCard(c, id) ==
  /\ c \in Deleters
  /\ pc[c] = "idle"
  /\ id \in carded[c]
  /\ carded' = [carded EXCEPT ![c] = @ \ {id}]
  /\ UNCHANGED <<netVars, local, pending, unsaved, passVars, failures, raised>>

GetManifest(c) ==
  /\ pc[c] = "idle"
  /\ manifest' = [manifest EXCEPT ![c] = server]
  /\ Goto(c, "compare")
  /\ UNCHANGED <<netVars, clientVars, mine, todo, sent, accepted, failures, raised>>

(* The local rows, with the checksum each has here and now.                 *)
LocalRecords(c) ==
  [id \in ReviewIds |->
     IF local[c][id] = NoReview THEN NoReview
     ELSE [fact |-> local[c][id], orphan |-> id \notin carded[c]]]

(* Mutant: a shared row that was never acknowledged is taken for another's.   *)
UnacknowledgedDiffer(c, records) ==
  {id \in Stored(records) \cap Stored(manifest[c]) : ~records[id].orphan /\ id \in pending[c]}

(* Rows both sides have with different checksums; a local orphan cannot      *)
(* reproduce the portable checksum and is skipped.                         *)
Conflicts(c, records) ==
  {id \in Stored(records) \cap Stored(manifest[c]) :
     ~records[id].orphan /\ records[id] # manifest[c][id]}

Raise(ids, rows) == raised' = raised \cup {<<id, server[id], rows[id]>> : id \in ids}

Compare(c) ==
  /\ pc[c] = "compare"
  /\ LET records == LocalRecords(c)
     IN  IF Conflicts(c, records) = {}
         THEN /\ mine' = [mine EXCEPT ![c] = records]
              /\ todo' = [todo EXCEPT ![c] = Stored(manifest[c]) \ Stored(records)]
              /\ Goto(c, "pull")
              /\ UNCHANGED <<manifest, sent, accepted, raised>>
         ELSE EndPass(c) /\ Raise(Conflicts(c, records), records)
  /\ UNCHANGED <<netVars, clientVars, failures>>

Chunk(c) == {S \in SUBSET todo[c] : S # {} /\ Cardinality(S) <= ChunkSize}

(* batch_pull a chunk and INSERT OR IGNORE each row.  A row without guid, or *)
(* whose card is not in this collection, stays an orphan here.             *)
PullChunk(c) ==
  /\ pc[c] = "pull"
  /\ \E S \in Chunk(c) :
       LET new == {id \in S : server[id] # NoReview /\ local[c][id] = NoReview}
       IN  /\ local' = [local EXCEPT ![c] = [id \in ReviewIds |-> IF id \in new THEN server[id].fact ELSE @[id]]]
           /\ \E known \in SUBSET {id \in new : ~server[id].orphan} :
                /\ c \in Deleters \/ known = {id \in new : ~server[id].orphan}
                /\ carded' = [carded EXCEPT ![c] = @ \cup known]
           /\ pending' = IF ClearPending THEN pending ELSE [pending EXCEPT ![c] = @ \cup new]
           /\ unsaved' = [unsaved EXCEPT ![c] = @ \cup new]
           /\ todo' = [todo EXCEPT ![c] = @ \ S]
  /\ UNCHANGED <<netVars, pc, manifest, mine, sent, accepted, failures, raised>>

(* Mutant: history is only uploaded to a server that has none.              *)
FirstUploadOnly(c) == IF Stored(manifest[c]) = {} THEN Stored(mine[c]) ELSE {}

PushIds(c) == Stored(mine[c]) \ Stored(manifest[c])

(* Mutant: rows stay marked as not yet durable.                             *)
LeaveUnsaved(c) ==
  /\ pc[c] = "pull"
  /\ todo[c] = {}
  /\ todo' = [todo EXCEPT ![c] = PushIds(c)]
  /\ Goto(c, "push")
  /\ UNCHANGED <<netVars, clientVars, manifest, mine, sent, accepted, failures, raised>>

(* col.save(): downloaded history is durable before the upload.             *)
Save(c) ==
  /\ pc[c] = "pull"
  /\ todo[c] = {}
  /\ unsaved' = [unsaved EXCEPT ![c] = {}]
  /\ todo' = [todo EXCEPT ![c] = PushIds(c)]
  /\ Goto(c, "push")
  /\ UNCHANGED <<netVars, local, carded, pending, manifest, mine, sent, accepted, failures, raised>>

SendChunk(c) ==
  /\ pc[c] = "push"
  /\ \E S \in Chunk(c) : sent' = [sent EXCEPT ![c] = [id \in ReviewIds |-> IF id \in S THEN mine[c][id] ELSE NoReview]]
  /\ Goto(c, "insert")
  /\ UNCHANGED <<netVars, clientVars, manifest, mine, todo, accepted, failures, raised>>

(* INSERT ... ON CONFLICT (user_id, review_id) DO NOTHING, one statement.   *)
InsertRows(rows) ==
  server' = [id \in ReviewIds |-> IF server[id] = NoReview THEN rows[id] ELSE server[id]]

insertReviews(c) ==
  /\ pc[c] = "insert"
  /\ InsertRows(sent[c])
  /\ Goto(c, "select")
  /\ UNCHANGED <<late, clientVars, manifest, mine, todo, sent, accepted, failures, raised>>

(* Mutant: the response reports every row of the chunk as accepted.         *)
NoCollisions(c) == {}

(* The second statement of insertReviews: whatever differs by now.          *)
Collisions(c) == {id \in Stored(sent[c]) : server[id] # sent[c][id]}

(* The response: all accepted, or a conflict that ends the pass.            *)
Respond(c) ==
  /\ pc[c] = "select"
  /\ IF Collisions(c) = {}
     THEN /\ accepted' = [accepted EXCEPT ![c] = @ \cup Stored(sent[c])]
          /\ todo' = [todo EXCEPT ![c] = @ \ Stored(sent[c])]
          /\ sent' = [sent EXCEPT ![c] = NoRows]
          /\ Goto(c, "push")
          /\ UNCHANGED <<manifest, mine, raised>>
     ELSE EndPass(c) /\ Raise(Collisions(c), sent[c])
  /\ UNCHANGED <<netVars, clientVars, failures>>

(* Shared and accepted rows are no longer pending.                          *)
Finish(c) ==
  /\ pc[c] = "push"
  /\ todo[c] = {}
  /\ pending' = IF ~ClearPending THEN pending
                ELSE [pending EXCEPT ![c] = @ \ (accepted[c] \cup (Stored(mine[c]) \cap Stored(manifest[c])))]
  /\ EndPass(c)
  /\ UNCHANGED <<netVars, local, carded, unsaved, failures, raised>>

(* A request fails or times out, or the client stops.  Rows not yet saved    *)
(* may be lost; a push the server has not executed yet may still be.       *)
Fail(c) ==
  /\ failures < MaxFailures
  /\ failures' = failures + 1
  /\ pc[c] # "idle"
  /\ \E lost \in {{}, unsaved[c]} :
       /\ local' = [local EXCEPT ![c] = [id \in ReviewIds |-> IF id \in lost THEN NoReview ELSE @[id]]]
       /\ carded' = [carded EXCEPT ![c] = @ \ lost]
       /\ pending' = [pending EXCEPT ![c] = @ \ lost]
  /\ unsaved' = [unsaved EXCEPT ![c] = {}]
  /\ late' = IF pc[c] = "insert" THEN late \cup {sent[c]} ELSE late
  /\ EndPass(c)
  /\ UNCHANGED <<server, raised>>

(* The server executes a request whose client is gone, or drops it.         *)
Late(rows) ==
  /\ late' = late \ {rows}
  /\ InsertRows(rows)
  /\ UNCHANGED <<clientVars, passVars, failures, raised>>

Lose(rows) ==
  /\ late' = late \ {rows}
  /\ UNCHANGED <<server, clientVars, passVars, failures, raised>>

-----------------------------------------------------------------------------
User(c) ==
  \/ \E id \in ReviewIds, fact \in Facts : Study(c, id, fact)
  \/ \E id \in ReviewIds : DeleteCard(c, id)

Pass(c) ==
  \/ GetManifest(c) \/ Compare(c) \/ PullChunk(c) \/ Save(c)
  \/ SendChunk(c) \/ insertReviews(c) \/ Respond(c) \/ Finish(c)

Next ==
  \/ \E c \in Clients : User(c) \/ Pass(c) \/ Fail(c)
  \/ \E rows \in late : Late(rows) \/ Lose(rows)

Spec == Init /\ [][Next]_vars

(* Every client keeps syncing; a started pass proceeds.  Users need not      *)
(* study, and late requests need not execute.                              *)
Fairness == \A c \in Clients : WF_vars(Pass(c))

FairSpec == Spec /\ Fairness

-----------------------------------------------------------------------------
(* The variables have their types, and only rows of an unfinished download   *)
(* are unsaved.                                                            *)
TypeOK ==
  /\ server \in Rows
  /\ local \in [Clients -> [ReviewIds -> Facts \cup {NoReview}]]
  /\ carded \in [Clients -> SUBSET ReviewIds]
  /\ pending \in [Clients -> SUBSET ReviewIds]
  /\ unsaved \in [Clients -> SUBSET ReviewIds]
  /\ pc \in [Clients -> {"idle", "compare", "pull", "push", "insert", "select"}]
  /\ manifest \in [Clients -> Rows]
  /\ mine \in [Clients -> Rows]
  /\ todo \in [Clients -> SUBSET ReviewIds]
  /\ sent \in [Clients -> Rows]
  /\ accepted \in [Clients -> SUBSET ReviewIds]
  /\ late \subseteq Rows
  /\ failures \in 0..MaxFailures
  /\ raised \subseteq ReviewIds \X (Version \cup {NoReview}) \X (Version \cup {NoReview})
  /\ \A c \in Clients : carded[c] \subseteq Stored(local[c]) /\ (unsaved[c] # {} => pc[c] = "pull")

(* A row whose pending flag a Kelma-only client has cleared is on the        *)
(* server, with the same fact while its card exists: a lost response, a    *)
(* collision or a stale manifest never makes the client forget to upload   *)
(* (review_sync.py accepted_ids, _clear_review_usns).                      *)
ClearedIsStored ==
  ClearPending =>
    \A c \in Clients, id \in ReviewIds :
      (local[c][id] # NoReview /\ id \notin pending[c])
        => /\ server[id] # NoReview
           /\ id \in carded[c] => server[id].fact = local[c][id]

(* Two devices may have reviewed at the same millisecond.                   *)
UsedTwice(id) == \E x, y \in FactsOf[id] : x # y

(* A conflict is only raised for an id two devices used for different        *)
(* reviews, or of which one of the two copies has lost its guid because     *)
(* the card was deleted before the upload (review_sync.py).                *)
ConflictMeansReuseOrOrphan ==
  \A r \in raised : UsedTwice(r[1]) \/ r[2].orphan \/ r[3].orphan

(* Unless a conflict is raised: once failures have ended, every review any   *)
(* device has recorded reaches the server and every device (review_sync.py *)
(* sync_reviews_once: the union of the logs), with the same fact but for an *)
(* id used twice of which a copy has lost its guid.                        *)
Converged ==
  \A c \in Clients :
    /\ Stored(local[c]) = Stored(server)
    /\ \A id \in Stored(server) :
         server[id].fact = local[c][id] \/ (UsedTwice(id) /\ (server[id].orphan \/ id \notin carded[c]))

EventuallyConverged == [](raised = {}) => <>[]Converged
=============================================================================
