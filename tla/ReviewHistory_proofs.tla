------------------------ MODULE ReviewHistory_proofs ------------------------
(***************************************************************************)
(* Theorems about review history, for every set of ids, facts and clients, *)
(* every chunk size and any number of failures.                            *)
(***************************************************************************)
EXTENDS ReviewHistory, TLAPS

USE DEF Rows, NoRows, Stored

(* A version is not the absence of a review.                                *)
LEMMA VersionIsARow == \A v \in Version : v # NoReview /\ v.fact \in Facts /\ v.fact # NoReview /\ v.orphan \in BOOLEAN
BY ReviewConstants DEF Version

(* EndPass resets the variables of the pass.                                *)
LEMMA EndPassControl ==
  ASSUME TypeOK, NEW c \in Clients, EndPass(c)
  PROVE  /\ pc' = [pc EXCEPT ![c] = "idle"]
         /\ manifest' = [manifest EXCEPT ![c] = NoRows]
         /\ mine' = [mine EXCEPT ![c] = NoRows]
         /\ todo' = [todo EXCEPT ![c] = {}]
         /\ sent' = [sent EXCEPT ![c] = NoRows]
         /\ accepted' = [accepted EXCEPT ![c] = {}]
         /\ pc' \in [Clients -> {"idle", "compare", "pull", "push", "insert", "select"}]
         /\ manifest' \in [Clients -> Rows]
         /\ mine' \in [Clients -> Rows]
         /\ todo' \in [Clients -> SUBSET ReviewIds]
         /\ sent' \in [Clients -> Rows]
         /\ accepted' \in [Clients -> SUBSET ReviewIds]
BY DEF EndPass, Goto, TypeOK

(* A client that moves between steps other than the download, its rows and   *)
(* their cards untouched, still has nothing unsaved.                       *)
LEMMA MoveKeepsRows ==
  ASSUME TypeOK, NEW c \in Clients, NEW step \in {"idle", "compare", "pull", "push", "insert", "select"},
         pc[c] # "pull", pc' = [pc EXCEPT ![c] = step], UNCHANGED <<local, carded, unsaved>>
  PROVE  /\ pc' \in [Clients -> {"idle", "compare", "pull", "push", "insert", "select"}]
         /\ \A d \in Clients : carded'[d] \subseteq Stored(local'[d]) /\ (unsaved'[d] # {} => pc'[d] = "pull")
BY DEF TypeOK

LEMMA LocalRecordsType ==
  ASSUME TypeOK, NEW c \in Clients
  PROVE  /\ LocalRecords(c) \in Rows
         /\ \A id \in ReviewIds : LocalRecords(c)[id] # NoReview <=> local[c][id] # NoReview
<1>1. ASSUME NEW id \in ReviewIds, local[c][id] # NoReview
      PROVE  [fact |-> local[c][id], orphan |-> id \notin carded[c]] \in Version
  BY <1>1 DEF TypeOK, Version
<1>. QED  BY <1>1, VersionIsARow DEF LocalRecords

(* The step of the type invariant, action by action.                        *)
LEMMA TypeStep == TypeOK /\ [Next]_vars => TypeOK'
<1> SUFFICES ASSUME TypeOK, [Next]_vars PROVE TypeOK'
  OBVIOUS
<1>. USE ReviewConstants
<1>1. CASE UNCHANGED vars
  BY <1>1 DEF vars, netVars, clientVars, passVars, TypeOK
<1>2. ASSUME NEW c \in Clients, User(c) PROVE TypeOK'
  <2>1. ASSUME NEW id \in ReviewIds, NEW fact \in Facts, Study(c, id, fact) PROVE TypeOK'
    BY <2>1 DEF Study, netVars, passVars, TypeOK
  <2>2. ASSUME NEW id \in ReviewIds, DeleteCard(c, id) PROVE TypeOK'
    BY <2>2 DEF DeleteCard, netVars, passVars, TypeOK
  <2>. QED  BY <1>2, <2>1, <2>2 DEF User
<1>3. ASSUME NEW c \in Clients, GetManifest(c) PROVE TypeOK'
  BY <1>3 DEF GetManifest, Goto, netVars, clientVars, TypeOK
<1>4. ASSUME NEW c \in Clients, Compare(c) PROVE TypeOK'
  <2>0. UNCHANGED <<server, late, local, carded, pending, unsaved, failures>> /\ pc[c] = "compare"
    BY <1>4 DEF Compare, netVars, clientVars
  <2>1. CASE Conflicts(c, LocalRecords(c)) = {}
    <3>1. /\ mine' = [mine EXCEPT ![c] = LocalRecords(c)]
          /\ todo' = [todo EXCEPT ![c] = Stored(manifest[c]) \ Stored(LocalRecords(c))]
          /\ pc' = [pc EXCEPT ![c] = "pull"]
          /\ UNCHANGED <<manifest, sent, accepted, raised>>
      BY <1>4, <2>1 DEF Compare, Goto
    <3>2. mine' \in [Clients -> Rows]
      BY <3>1, LocalRecordsType DEF TypeOK
    <3>3. todo' \in [Clients -> SUBSET ReviewIds]
      BY <3>1 DEF TypeOK
    <3>. QED  BY <2>0, <3>1, <3>2, <3>3, MoveKeepsRows DEF TypeOK
  <2>2. CASE Conflicts(c, LocalRecords(c)) # {}
    <3>1. raised' \subseteq ReviewIds \X (Version \cup {NoReview}) \X (Version \cup {NoReview})
      BY <1>4, <2>2, LocalRecordsType DEF Compare, Raise, Conflicts, TypeOK
    <3>2. EndPass(c)
      BY <1>4, <2>2 DEF Compare
    <3>. QED
      BY <2>0, <3>1, <3>2, EndPassControl, MoveKeepsRows DEF TypeOK
  <2>. QED  BY <2>1, <2>2
<1>5. ASSUME NEW c \in Clients, PullChunk(c) PROVE TypeOK'
  <2>1. pc[c] = "pull" /\ UNCHANGED <<netVars, pc, manifest, mine, sent, accepted, failures, raised>>
    BY <1>5 DEF PullChunk
  <2>2. PICK S \in Chunk(c) :
       LET new == {id \in S : server[id] # NoReview /\ local[c][id] = NoReview}
       IN  /\ local' = [local EXCEPT ![c] = [id \in ReviewIds |-> IF id \in new THEN server[id].fact ELSE @[id]]]
           /\ \E known \in SUBSET {id \in new : ~server[id].orphan} :
                /\ c \in Deleters \/ known = {id \in new : ~server[id].orphan}
                /\ carded' = [carded EXCEPT ![c] = @ \cup known]
           /\ pending' = IF ClearPending THEN pending ELSE [pending EXCEPT ![c] = @ \cup new]
           /\ unsaved' = [unsaved EXCEPT ![c] = @ \cup new]
           /\ todo' = [todo EXCEPT ![c] = @ \ S]
    BY <1>5 DEF PullChunk
  <2>. DEFINE new == {id \in S : server[id] # NoReview /\ local[c][id] = NoReview}
  <2>3. S \subseteq ReviewIds /\ new \subseteq ReviewIds
    BY DEF Chunk, TypeOK
  <2>4. local' \in [Clients -> [ReviewIds -> Facts \cup {NoReview}]]
    BY <2>2, <2>3, VersionIsARow DEF TypeOK
  <2>5. PICK known \in SUBSET {id \in new : ~server[id].orphan} : carded' = [carded EXCEPT ![c] = @ \cup known]
    BY <2>2
  <2>6. carded'[c] \subseteq Stored(local'[c])
    <3>1. ASSUME NEW id \in new PROVE local'[c][id] # NoReview
      BY <2>2, <2>3, VersionIsARow DEF TypeOK
    <3>2. ASSUME NEW id \in carded[c] PROVE id \in ReviewIds /\ local'[c][id] # NoReview
      BY <2>2, <2>3, <3>1 DEF TypeOK
    <3>. QED  BY <2>3, <2>5, <3>1, <3>2 DEF TypeOK
  <2>7. /\ carded' \in [Clients -> SUBSET ReviewIds]
        /\ pending' \in [Clients -> SUBSET ReviewIds]
        /\ unsaved' \in [Clients -> SUBSET ReviewIds]
        /\ todo' \in [Clients -> SUBSET ReviewIds]
    BY <2>2, <2>3, <2>5 DEF TypeOK
  <2>8. ASSUME NEW d \in Clients
        PROVE  carded'[d] \subseteq Stored(local'[d]) /\ (unsaved'[d] # {} => pc'[d] = "pull")
    <3>1. CASE d = c
      BY <2>1, <2>6, <3>1 DEF TypeOK
    <3>2. CASE d # c
      <4>1. local'[d] = local[d] /\ carded'[d] = carded[d] /\ unsaved'[d] = unsaved[d] /\ pc'[d] = pc[d]
        BY <2>1, <2>2, <2>5, <3>2 DEF TypeOK
      <4>. QED  BY <4>1 DEF TypeOK
    <3>. QED  BY <3>1, <3>2
  <2>. QED
    BY <2>1, <2>4, <2>7, <2>8 DEF netVars, TypeOK
<1>6. ASSUME NEW c \in Clients, Save(c) PROVE TypeOK'
  BY <1>6 DEF Save, PushIds, Goto, netVars, TypeOK
<1>7. ASSUME NEW c \in Clients, SendChunk(c) PROVE TypeOK'
  <2>1. PICK S \in Chunk(c) : sent' = [sent EXCEPT ![c] = [id \in ReviewIds |-> IF id \in S THEN mine[c][id] ELSE NoReview]]
    BY <1>7 DEF SendChunk
  <2>2. sent' \in [Clients -> Rows]
    BY <2>1 DEF TypeOK
  <2>. QED  BY <1>7, <2>2, MoveKeepsRows DEF SendChunk, Goto, netVars, clientVars, TypeOK
<1>8. ASSUME NEW c \in Clients, insertReviews(c) PROVE TypeOK'
  BY <1>8 DEF insertReviews, InsertRows, Goto, clientVars, TypeOK
<1>9. ASSUME NEW c \in Clients, Respond(c) PROVE TypeOK'
  <2>0. UNCHANGED <<server, late, local, carded, pending, unsaved, failures>> /\ pc[c] = "select"
    BY <1>9 DEF Respond, netVars, clientVars
  <2>1. CASE Collisions(c) = {}
    <3>1. /\ accepted' = [accepted EXCEPT ![c] = @ \cup Stored(sent[c])]
          /\ todo' = [todo EXCEPT ![c] = @ \ Stored(sent[c])]
          /\ sent' = [sent EXCEPT ![c] = NoRows]
          /\ pc' = [pc EXCEPT ![c] = "push"]
          /\ UNCHANGED <<manifest, mine, raised>>
      BY <1>9, <2>1 DEF Respond, Goto
    <3>2. sent' \in [Clients -> Rows]
      BY <3>1 DEF TypeOK
    <3>3. todo' \in [Clients -> SUBSET ReviewIds] /\ accepted' \in [Clients -> SUBSET ReviewIds]
      BY <3>1 DEF TypeOK
    <3>. QED  BY <2>0, <3>1, <3>2, <3>3, MoveKeepsRows DEF TypeOK
  <2>2. CASE Collisions(c) # {}
    <3>1. raised' \subseteq ReviewIds \X (Version \cup {NoReview}) \X (Version \cup {NoReview})
      BY <1>9, <2>2 DEF Respond, Raise, Collisions, TypeOK
    <3>2. EndPass(c)
      BY <1>9, <2>2 DEF Respond
    <3>. QED
      BY <2>0, <3>1, <3>2, EndPassControl, MoveKeepsRows DEF TypeOK
  <2>. QED  BY <2>1, <2>2
<1>10. ASSUME NEW c \in Clients, Finish(c) PROVE TypeOK'
  <2>1. pending' \in [Clients -> SUBSET ReviewIds]
    BY <1>10 DEF Finish, TypeOK
  <2>. QED
    BY <1>10, <2>1, EndPassControl, MoveKeepsRows DEF Finish, netVars, TypeOK
<1>11. ASSUME NEW c \in Clients, Fail(c) PROVE TypeOK'
  <2>1. PICK lost \in {{}, unsaved[c]} :
       /\ local' = [local EXCEPT ![c] = [id \in ReviewIds |-> IF id \in lost THEN NoReview ELSE @[id]]]
       /\ carded' = [carded EXCEPT ![c] = @ \ lost]
       /\ pending' = [pending EXCEPT ![c] = @ \ lost]
    BY <1>11 DEF Fail
  <2>2. /\ failures' \in 0..MaxFailures
        /\ late' \subseteq Rows
        /\ unsaved' = [unsaved EXCEPT ![c] = {}]
        /\ EndPass(c) /\ server' = server /\ raised' = raised
    BY <1>11 DEF Fail, TypeOK
  <2>3. /\ local' \in [Clients -> [ReviewIds -> Facts \cup {NoReview}]]
        /\ carded' \in [Clients -> SUBSET ReviewIds]
        /\ pending' \in [Clients -> SUBSET ReviewIds]
        /\ unsaved' \in [Clients -> SUBSET ReviewIds]
    BY <2>1, <2>2 DEF TypeOK
  <2>4. \A d \in Clients : carded'[d] \subseteq Stored(local'[d]) /\ (unsaved'[d] # {} => pc'[d] = "pull")
    BY <2>1, <2>2, EndPassControl DEF TypeOK
  <2>. QED
    BY <2>2, <2>3, <2>4, EndPassControl DEF TypeOK
<1>12. ASSUME NEW rows \in late, Late(rows) \/ Lose(rows) PROVE TypeOK'
  BY <1>12 DEF Late, Lose, InsertRows, clientVars, passVars, TypeOK
<1>. QED
  BY <1>1, <1>2, <1>3, <1>4, <1>5, <1>6, <1>7, <1>8, <1>9, <1>10, <1>11, <1>12 DEF Next, Pass

(* Every variable keeps its type, and rows are unsaved only during the        *)
(* download (review_sync.py sync_reviews_once).                            *)
THEOREM TypeCorrect == Spec => []TypeOK
<1>1. Init => TypeOK
  BY ReviewConstants DEF Init, TypeOK
<1>. QED  BY <1>1, TypeStep, PTL DEF Spec

-----------------------------------------------------------------------------
(* The only statement that writes the table is InsertRows.                  *)
LEMMA ServerStep ==
  ASSUME TypeOK, [Next]_vars
  PROVE  server' = server \/ \E rows \in Rows : InsertRows(rows)
<1>1. CASE UNCHANGED vars
  BY <1>1 DEF vars, netVars
<1>2. ASSUME NEW c \in Clients, User(c) \/ Pass(c) \/ Fail(c)
      PROVE  server' = server \/ \E rows \in Rows : InsertRows(rows)
  <2>1. CASE insertReviews(c)
    BY <2>1 DEF insertReviews, TypeOK
  <2>2. CASE User(c) \/ GetManifest(c) \/ Compare(c) \/ PullChunk(c) \/ Save(c) \/ SendChunk(c)
               \/ Respond(c) \/ Finish(c) \/ Fail(c)
    BY <2>2 DEF User, Study, DeleteCard, GetManifest, Compare, PullChunk, Save, SendChunk, Respond,
                Finish, Fail, netVars
  <2>. QED  BY <1>2, <2>1, <2>2 DEF Pass
<1>3. ASSUME NEW rows \in late, Late(rows) \/ Lose(rows)
      PROVE  server' = server \/ \E r \in Rows : InsertRows(r)
  BY <1>3 DEF Late, Lose, TypeOK
<1>. QED  BY <1>1, <1>2, <1>3 DEF Next

(* A stored row keeps its version.                                          *)
LEMMA RowsStay ==
  ASSUME TypeOK, [Next]_vars, NEW id \in ReviewIds, server[id] # NoReview
  PROVE  server'[id] = server[id]
BY ServerStep DEF InsertRows, TypeOK

-----------------------------------------------------------------------------
(* What a pass knows.  The rows it compared are still the local ones, the    *)
(* manifest rows and the accepted rows are still on the server (it is an   *)
(* append-only log), and it went on past the comparison only because the   *)
(* rows known to both sides agree.                                         *)
PassInv(d) ==
  \A id \in ReviewIds :
    /\ mine[d][id] # NoReview =>
         /\ pc[d] \in {"pull", "push", "insert", "select"}
         /\ local[d][id] = mine[d][id].fact
         /\ id \notin unsaved[d]
         /\ id \in carded[d] => ~mine[d][id].orphan
    /\ manifest[d][id] # NoReview => pc[d] # "idle" /\ server[id] = manifest[d][id]
    /\ (mine[d][id] # NoReview /\ manifest[d][id] # NoReview /\ ~mine[d][id].orphan)
         => mine[d][id] = manifest[d][id]
    /\ id \in accepted[d] => mine[d][id] # NoReview /\ server[id] = mine[d][id]
    /\ sent[d][id] # NoReview =>
         /\ pc[d] \in {"insert", "select"}
         /\ sent[d][id] = mine[d][id]
         /\ pc[d] = "select" => server[id] # NoReview

(* The variables of client d.                                               *)
ofClient(d) == <<local[d], carded[d], pending[d], unsaved[d], pc[d], manifest[d], mine[d], todo[d], sent[d], accepted[d]>>

(* A client's step leaves the variables of the others alone.                *)
LEMMA OthersUntouched ==
  ASSUME TypeOK, NEW c \in Clients, NEW d \in Clients, d # c, User(c) \/ Pass(c) \/ Fail(c)
  PROVE  UNCHANGED ofClient(d)
<1>1. CASE User(c)
  BY <1>1 DEF User, Study, DeleteCard, ofClient, passVars, TypeOK
<1>2. CASE GetManifest(c) \/ SendChunk(c) \/ Save(c) \/ insertReviews(c)
  BY <1>2 DEF GetManifest, SendChunk, Save, insertReviews, Goto, ofClient, clientVars, TypeOK
<1>3. CASE Compare(c) \/ Respond(c)
  BY <1>3 DEF Compare, Respond, EndPass, Goto, ofClient, clientVars, TypeOK
<1>4. CASE PullChunk(c)
  BY <1>4 DEF PullChunk, ofClient, TypeOK
<1>5. CASE Finish(c) \/ Fail(c)
  BY <1>5 DEF Finish, Fail, EndPass, Goto, ofClient, TypeOK
<1>. QED  BY <1>1, <1>2, <1>3, <1>4, <1>5 DEF Pass

LEMMA IdlePass ==
  ASSUME TypeOK, NEW d \in Clients, EndPass(d)
  PROVE  PassInv(d)'
BY EndPassControl DEF PassInv, TypeOK

LEMMA PassUntouched ==
  ASSUME TypeOK, [Next]_vars, NEW d \in Clients, PassInv(d), UNCHANGED ofClient(d)
  PROVE  PassInv(d)'
BY RowsStay DEF PassInv, ofClient, TypeOK

LEMMA PassInvStep ==
  ASSUME TypeOK, [Next]_vars, NEW d \in Clients, PassInv(d)
  PROVE  PassInv(d)'
<1>. USE ReviewConstants
<1>1. CASE UNCHANGED vars
  BY <1>1, PassUntouched DEF vars, clientVars, passVars, ofClient
<1>2. CASE \E rows \in late : Late(rows) \/ Lose(rows)
  BY <1>2, PassUntouched DEF Late, Lose, clientVars, passVars, ofClient
<1>3. CASE \E c \in Clients : c # d /\ (User(c) \/ Pass(c) \/ Fail(c))
  BY <1>3, PassUntouched, OthersUntouched
<1>4. CASE User(d)
  BY <1>4 DEF User, Study, DeleteCard, netVars, passVars, PassInv, TypeOK
<1>5. CASE GetManifest(d)
  BY <1>5 DEF GetManifest, Goto, netVars, clientVars, PassInv, TypeOK
<1>6. CASE Compare(d)
  <2>1. CASE Conflicts(d, LocalRecords(d)) = {}
    <3>1. /\ mine'[d] = LocalRecords(d) /\ pc[d] = "compare" /\ pc'[d] = "pull"
          /\ UNCHANGED <<manifest, sent, accepted, server, local, carded, unsaved>>
      BY <1>6, <2>1 DEF Compare, Goto, netVars, clientVars, TypeOK
    <3>2. unsaved[d] = {}
      BY <3>1 DEF TypeOK
    <3>3. ASSUME NEW id \in ReviewIds, LocalRecords(d)[id] # NoReview
          PROVE  LocalRecords(d)[id] = [fact |-> local[d][id], orphan |-> id \notin carded[d]]
      BY <3>3 DEF LocalRecords
    <3>4. ASSUME NEW id \in ReviewIds, LocalRecords(d)[id] # NoReview, manifest[d][id] # NoReview,
                 ~LocalRecords(d)[id].orphan
          PROVE  LocalRecords(d)[id] = manifest[d][id]
      BY <2>1, <3>4 DEF Conflicts
    <3>5. ASSUME NEW id \in ReviewIds, LocalRecords(d)[id] # NoReview
          PROVE  /\ LocalRecords(d)[id].fact = local[d][id]
                 /\ id \in carded[d] => ~LocalRecords(d)[id].orphan
      <4>. DEFINE v == [fact |-> local[d][id], orphan |-> id \notin carded[d]]
      <4>1. v.fact = local[d][id] /\ (v.orphan <=> id \notin carded[d])
        OBVIOUS
      <4>2. LocalRecords(d)[id] = v
        BY <3>3, <3>5
      <4>. QED  BY <4>1, <4>2
    <3>6. \A id \in ReviewIds : sent[d][id] = NoReview /\ id \notin accepted[d]
      BY <3>1 DEF PassInv
    <3>. QED  BY <3>1, <3>2, <3>4, <3>5, <3>6 DEF PassInv
  <2>2. CASE Conflicts(d, LocalRecords(d)) # {}
    BY <1>6, <2>2, IdlePass DEF Compare
  <2>. QED  BY <2>1, <2>2
<1>7. CASE PullChunk(d)
  <2>1. PICK S \in Chunk(d), new \in SUBSET {id \in ReviewIds : local[d][id] = NoReview} :
          /\ local' = [local EXCEPT ![d] = [id \in ReviewIds |-> IF id \in new THEN server[id].fact ELSE @[id]]]
          /\ \E known \in SUBSET new : carded' = [carded EXCEPT ![d] = @ \cup known]
          /\ unsaved' = [unsaved EXCEPT ![d] = @ \cup new]
          /\ UNCHANGED <<server, pc, manifest, mine, sent, accepted>>
    <3>1. PICK S \in Chunk(d) :
       LET new == {id \in S : server[id] # NoReview /\ local[d][id] = NoReview}
       IN  /\ local' = [local EXCEPT ![d] = [id \in ReviewIds |-> IF id \in new THEN server[id].fact ELSE @[id]]]
           /\ \E known \in SUBSET {id \in new : ~server[id].orphan} :
                carded' = [carded EXCEPT ![d] = @ \cup known]
           /\ unsaved' = [unsaved EXCEPT ![d] = @ \cup new]
      BY <1>7 DEF PullChunk
    <3>2. UNCHANGED <<server, pc, manifest, mine, sent, accepted>>
      BY <1>7 DEF PullChunk, netVars
    <3>. DEFINE fresh == {id \in S : server[id] # NoReview /\ local[d][id] = NoReview}
    <3>3. fresh \in SUBSET {id \in ReviewIds : local[d][id] = NoReview}
      BY DEF Chunk, TypeOK
    <3>4. \E known \in SUBSET fresh : carded' = [carded EXCEPT ![d] = @ \cup known]
      BY <3>1
    <3>5. local' = [local EXCEPT ![d] = [id \in ReviewIds |-> IF id \in fresh THEN server[id].fact ELSE @[id]]]
          /\ unsaved' = [unsaved EXCEPT ![d] = @ \cup fresh]
      BY <3>1
    <3>. HIDE DEF fresh
    <3>. QED  BY <3>2, <3>3, <3>4, <3>5
  <2>2. PICK known \in SUBSET new : carded' = [carded EXCEPT ![d] = @ \cup known]
    BY <2>1
  <2>3. ASSUME NEW id \in ReviewIds, mine[d][id] # NoReview
        PROVE  /\ id \notin new /\ local'[d][id] = local[d][id]
               /\ id \in unsaved'[d] <=> id \in unsaved[d]
               /\ id \in carded'[d] <=> id \in carded[d]
    <3>1. mine[d][id] \in Version /\ local[d][id] = mine[d][id].fact
      BY <2>3 DEF PassInv, TypeOK
    <3>2. id \notin new
      BY <3>1, VersionIsARow
    <3>3. id \notin known
      BY <3>2
    <3>4. local'[d][id] = local[d][id]
      BY <2>1, <3>2 DEF TypeOK
    <3>5. unsaved'[d] = unsaved[d] \cup new /\ carded'[d] = carded[d] \cup known
      BY <2>1, <2>2 DEF TypeOK
    <3>. QED  BY <3>2, <3>3, <3>4, <3>5
  <2>. QED  BY <2>1, <2>3 DEF PassInv, TypeOK
<1>8. CASE Save(d)
  BY <1>8 DEF Save, Goto, netVars, PassInv, TypeOK
<1>9. CASE SendChunk(d)
  <2>1. PICK S \in Chunk(d) : sent' = [sent EXCEPT ![d] = [id \in ReviewIds |-> IF id \in S THEN mine[d][id] ELSE NoReview]]
    BY <1>9 DEF SendChunk
  <2>. QED  BY <1>9, <2>1 DEF SendChunk, Goto, netVars, clientVars, PassInv, TypeOK
<1>10. CASE insertReviews(d)
  <2>1. /\ pc[d] = "insert" /\ pc'[d] = "select"
        /\ UNCHANGED <<manifest, mine, sent, accepted, local, carded, unsaved>>
    BY <1>10 DEF insertReviews, Goto, clientVars, TypeOK
  <2>2. \A id \in ReviewIds : sent[d][id] # NoReview => server'[id] # NoReview
    BY <1>10 DEF insertReviews, InsertRows
  <2>. QED  BY <2>1, <2>2, RowsStay DEF PassInv
<1>11. CASE Respond(d)
  <2>1. CASE Collisions(d) = {}
    <3>1. /\ pc[d] = "select" /\ pc'[d] = "push"
          /\ accepted'[d] = accepted[d] \cup Stored(sent[d])
          /\ sent'[d] = NoRows
          /\ UNCHANGED <<manifest, mine, server, local, carded, unsaved>>
      BY <1>11, <2>1 DEF Respond, Goto, netVars, clientVars, TypeOK
    <3>2. \A id \in Stored(sent[d]) : server[id] = sent[d][id]
      BY <2>1 DEF Collisions
    <3>. QED  BY <3>1, <3>2 DEF PassInv
  <2>2. CASE Collisions(d) # {}
    BY <1>11, <2>2, IdlePass DEF Respond
  <2>. QED  BY <2>1, <2>2
<1>12. CASE Finish(d) \/ Fail(d)
  BY <1>12, IdlePass DEF Finish, Fail
<1>. QED  BY <1>1, <1>2, <1>3, <1>4, <1>5, <1>6, <1>7, <1>8, <1>9, <1>10, <1>11, <1>12 DEF Next, Pass

(* Every pass of every client knows what PassInv says.                      *)
LEMMA PassInvariant == Spec => []\A d \in Clients : PassInv(d)
<1>1. Init => \A d \in Clients : PassInv(d)
  BY DEF Init, PassInv
<1>2. TypeOK /\ (\A d \in Clients : PassInv(d)) /\ [Next]_vars => (\A d \in Clients : PassInv(d))'
  BY PassInvStep
<1>. QED  BY <1>1, <1>2, TypeCorrect, PTL DEF Spec
-----------------------------------------------------------------------------
(* The row id of client d is pending, or safe on the server.                *)
Safe(d, id) ==
  (ClearPending /\ local[d][id] # NoReview /\ id \notin pending[d])
    => /\ server[id] # NoReview
       /\ id \in carded[d] => server[id].fact = local[d][id]

LEMMA SafeStep ==
  ASSUME TypeOK, TypeOK', [Next]_vars, NEW d \in Clients, NEW id \in ReviewIds, PassInv(d), Safe(d, id)
  PROVE  Safe(d, id)'
<1>. USE ReviewConstants
<1>1. CASE UNCHANGED <<local[d], carded[d], pending[d]>>
  BY <1>1, RowsStay DEF Safe
<1>2. CASE User(d)
  <2>1. ASSUME NEW i \in ReviewIds, NEW fact \in Facts, Study(d, i, fact) PROVE Safe(d, id)'
    BY <2>1 DEF Study, netVars, Safe, TypeOK
  <2>2. ASSUME NEW i \in ReviewIds, DeleteCard(d, i) PROVE Safe(d, id)'
    BY <2>2 DEF DeleteCard, netVars, Safe, TypeOK
  <2>. QED  BY <1>2, <2>1, <2>2 DEF User
<1>3. CASE PullChunk(d)
  <2>1. PICK S \in Chunk(d) :
       LET new == {i \in S : server[i] # NoReview /\ local[d][i] = NoReview}
       IN  /\ local' = [local EXCEPT ![d] = [i \in ReviewIds |-> IF i \in new THEN server[i].fact ELSE @[i]]]
           /\ \E known \in SUBSET {i \in new : ~server[i].orphan} :
                carded' = [carded EXCEPT ![d] = @ \cup known]
           /\ pending' = IF ClearPending THEN pending ELSE [pending EXCEPT ![d] = @ \cup new]
    BY <1>3 DEF PullChunk
  <2>. DEFINE new == {i \in S : server[i] # NoReview /\ local[d][i] = NoReview}
  <2>2. server' = server
    BY <1>3 DEF PullChunk, netVars
  <2>3. CASE id \in new
    <3>1. server[id] # NoReview /\ local'[d][id] = server[id].fact
      BY <2>1, <2>3 DEF TypeOK
    <3>. QED  BY <2>2, <3>1 DEF Safe
  <2>4. CASE id \notin new
    <3>1. local'[d][id] = local[d][id]
      BY <2>1, <2>4 DEF TypeOK
    <3>2. id \in carded'[d] <=> id \in carded[d]
      BY <2>1, <2>4 DEF TypeOK
    <3>3. ClearPending => pending' = pending
      BY <2>1
    <3>. QED  BY <2>2, <3>1, <3>2, <3>3 DEF Safe
  <2>. QED  BY <2>3, <2>4
<1>4. CASE Finish(d)
  <2>1. UNCHANGED <<server, local, carded>>
    BY <1>4 DEF Finish, netVars
  <2>2. ClearPending => pending'[d] = pending[d] \ (accepted[d] \cup (Stored(mine[d]) \cap Stored(manifest[d])))
    BY <1>4 DEF Finish, TypeOK
  <2>3. CASE id \in accepted[d]
    BY <2>1, <2>3 DEF PassInv, Safe
  <2>4. CASE id \in Stored(mine[d]) \cap Stored(manifest[d])
    BY <2>1, <2>4 DEF PassInv, Safe
  <2>5. CASE id \notin accepted[d] /\ id \notin Stored(mine[d]) \cap Stored(manifest[d])
    BY <2>1, <2>2, <2>5 DEF Safe
  <2>. QED  BY <2>3, <2>4, <2>5
<1>5. CASE Fail(d)
  <2>1. PICK lost \in {{}, unsaved[d]} :
       /\ local' = [local EXCEPT ![d] = [i \in ReviewIds |-> IF i \in lost THEN NoReview ELSE @[i]]]
       /\ carded' = [carded EXCEPT ![d] = @ \ lost]
       /\ pending' = [pending EXCEPT ![d] = @ \ lost]
    BY <1>5 DEF Fail
  <2>2. server' = server
    BY <1>5 DEF Fail
  <2>3. id \in lost => local'[d][id] = NoReview
    BY <2>1 DEF TypeOK
  <2>4. id \notin lost => /\ local'[d][id] = local[d][id]
                          /\ id \in carded'[d] <=> id \in carded[d]
                          /\ id \in pending'[d] <=> id \in pending[d]
    BY <2>1 DEF TypeOK
  <2>. QED  BY <2>2, <2>3, <2>4 DEF Safe
<1>6. CASE UNCHANGED vars
  BY <1>1, <1>6 DEF vars, clientVars
<1>7. CASE \E rows \in late : Late(rows) \/ Lose(rows)
  BY <1>1, <1>7 DEF Late, Lose, clientVars
<1>8. CASE \E c \in Clients : c # d /\ (User(c) \/ Pass(c) \/ Fail(c))
  BY <1>1, <1>8, OthersUntouched DEF ofClient
<1>9. CASE GetManifest(d) \/ Compare(d) \/ Save(d) \/ SendChunk(d) \/ insertReviews(d) \/ Respond(d)
  BY <1>1, <1>9 DEF GetManifest, Compare, Save, SendChunk, insertReviews, Respond, clientVars
<1>. QED  BY <1>2, <1>3, <1>4, <1>5, <1>6, <1>7, <1>8, <1>9 DEF Next, Pass

(* No review is forgotten: a row whose pending flag was cleared is on the    *)
(* server, whatever was lost, retried, executed late or answered with a    *)
(* conflict (review_sync.py sync_reviews_once).                            *)
THEOREM ClearedIsStoredHolds == Spec => []ClearedIsStored
<1>1. Init => \A d \in Clients, id \in ReviewIds : Safe(d, id)
  BY DEF Init, Safe
<1>2. TypeOK /\ TypeOK' /\ (\A d \in Clients : PassInv(d)) /\ (\A d \in Clients, id \in ReviewIds : Safe(d, id)) /\ [Next]_vars
        => (\A d \in Clients, id \in ReviewIds : Safe(d, id))'
  BY SafeStep
<1>3. (\A d \in Clients, id \in ReviewIds : Safe(d, id)) => ClearedIsStored
  BY DEF Safe, ClearedIsStored
<1>. QED  BY <1>1, <1>2, <1>3, TypeCorrect, PassInvariant, PTL DEF Spec

-----------------------------------------------------------------------------
(* Every copy of a row holds a fact some device recorded under its id.      *)
Genuine(rows) == \A id \in ReviewIds : rows[id] # NoReview => rows[id].fact \in FactsOf[id]

FactsInv ==
  /\ Genuine(server)
  /\ \A rows \in late : Genuine(rows)
  /\ \A d \in Clients, id \in ReviewIds : local[d][id] # NoReview => local[d][id] \in FactsOf[id]

(* Two different rows with genuine facts: the id was used twice, or a guid   *)
(* is missing from one of them.                                            *)
LEMMA DifferentRows ==
  ASSUME NEW id \in ReviewIds, NEW v \in Version, NEW w \in Version,
         v # w, v.fact \in FactsOf[id], w.fact \in FactsOf[id]
  PROVE  UsedTwice(id) \/ v.orphan \/ w.orphan
BY DEF Version, UsedTwice

LEMMA GenuineInsert ==
  ASSUME TypeOK, NEW rows \in Rows, Genuine(server), Genuine(rows), InsertRows(rows)
  PROVE  Genuine(server)'
BY DEF Genuine, InsertRows, TypeOK

(* The rows in flight are local rows.                                       *)
LEMMA GenuinePass ==
  ASSUME TypeOK, FactsInv, NEW d \in Clients, PassInv(d)
  PROVE  Genuine(sent[d])
<1>1. ASSUME NEW id \in ReviewIds, sent[d][id] # NoReview PROVE sent[d][id].fact \in FactsOf[id]
  <2>1. sent[d][id] = mine[d][id] /\ local[d][id] = mine[d][id].fact
    BY <1>1 DEF PassInv
  <2>2. sent[d][id].fact \in Facts
    BY <1>1, VersionIsARow DEF TypeOK
  <2>. QED  BY <2>1, <2>2, ReviewConstants DEF FactsInv
<1>. QED  BY <1>1 DEF Genuine

LEMMA FactsStep ==
  ASSUME TypeOK, [Next]_vars, \A d \in Clients : PassInv(d), FactsInv
  PROVE  FactsInv'
<1>. USE ReviewConstants
<1>1. CASE UNCHANGED vars
  BY <1>1 DEF vars, netVars, clientVars, FactsInv, Genuine
<1>2. ASSUME NEW c \in Clients, User(c) PROVE FactsInv'
  <2>1. server' = server /\ late' = late
    BY <1>2 DEF User, Study, DeleteCard, netVars
  <2>2. ASSUME NEW id \in ReviewIds, NEW fact \in Facts, Study(c, id, fact) PROVE FactsInv'
    <3>1. local' = [local EXCEPT ![c][id] = fact] /\ fact \in FactsOf[id]
      BY <2>2 DEF Study
    <3>. QED  BY <2>1, <3>1 DEF FactsInv, Genuine, TypeOK
  <2>3. ASSUME NEW id \in ReviewIds, DeleteCard(c, id) PROVE FactsInv'
    BY <2>1, <2>3 DEF DeleteCard, FactsInv, Genuine
  <2>. QED  BY <1>2, <2>2, <2>3 DEF User
<1>3. ASSUME NEW c \in Clients, PullChunk(c) PROVE FactsInv'
  <2>1. PICK S \in Chunk(c) :
       LET new == {i \in S : server[i] # NoReview /\ local[c][i] = NoReview}
       IN  local' = [local EXCEPT ![c] = [i \in ReviewIds |-> IF i \in new THEN server[i].fact ELSE @[i]]]
    BY <1>3 DEF PullChunk
  <2>2. server' = server /\ late' = late
    BY <1>3 DEF PullChunk, netVars
  <2>3. ASSUME NEW d \in Clients, NEW id \in ReviewIds, local'[d][id] # NoReview
        PROVE  local'[d][id] \in FactsOf[id]
    <3>1. local'[d][id] = local[d][id] \/ (server[id] # NoReview /\ local'[d][id] = server[id].fact)
      BY <2>1 DEF TypeOK
    <3>. QED  BY <2>3, <3>1 DEF FactsInv, Genuine
  <2>. QED  BY <2>2, <2>3 DEF FactsInv, Genuine
<1>4. ASSUME NEW c \in Clients, insertReviews(c) PROVE FactsInv'
  <2>1. Genuine(server)'
    BY <1>4, GenuinePass, GenuineInsert DEF insertReviews, FactsInv, TypeOK
  <2>. QED  BY <1>4, <2>1 DEF insertReviews, clientVars, FactsInv, Genuine
<1>5. ASSUME NEW c \in Clients, Fail(c) PROVE FactsInv'
  <2>1. \A rows \in late' : Genuine(rows)
    BY <1>5, GenuinePass DEF Fail, FactsInv
  <2>2. \A d \in Clients, id \in ReviewIds : local'[d][id] = local[d][id] \/ local'[d][id] = NoReview
    BY <1>5 DEF Fail, TypeOK
  <2>3. server' = server
    BY <1>5 DEF Fail
  <2>. QED  BY <2>1, <2>2, <2>3 DEF FactsInv, Genuine
<1>6. ASSUME NEW rows \in late, Late(rows) \/ Lose(rows) PROVE FactsInv'
  <2>1. Genuine(server)'
    BY <1>6, GenuineInsert DEF Late, Lose, FactsInv, Genuine, TypeOK
  <2>2. late' \subseteq late /\ local' = local
    BY <1>6 DEF Late, Lose, clientVars
  <2>. QED  BY <2>1, <2>2 DEF FactsInv, Genuine
<1>7. ASSUME NEW c \in Clients, GetManifest(c) \/ Compare(c) \/ Save(c) \/ SendChunk(c) \/ Respond(c) \/ Finish(c)
      PROVE  FactsInv'
  BY <1>7 DEF GetManifest, Compare, Save, SendChunk, Respond, Finish, netVars, clientVars, FactsInv, Genuine
<1>. QED  BY <1>1, <1>2, <1>3, <1>4, <1>5, <1>6, <1>7 DEF Next, Pass

LEMMA ConflictStep ==
  ASSUME TypeOK, [Next]_vars, \A d \in Clients : PassInv(d), FactsInv, ConflictMeansReuseOrOrphan
  PROVE  ConflictMeansReuseOrOrphan'
<1>. USE ReviewConstants
<1>1. CASE raised' = raised
  BY <1>1 DEF ConflictMeansReuseOrOrphan, UsedTwice
<1>2. ASSUME NEW c \in Clients, Compare(c), Raise(Conflicts(c, LocalRecords(c)), LocalRecords(c))
      PROVE  ConflictMeansReuseOrOrphan'
  <2>1. ASSUME NEW id \in Conflicts(c, LocalRecords(c))
        PROVE  UsedTwice(id) \/ server[id].orphan \/ LocalRecords(c)[id].orphan
    <3>1. id \in ReviewIds /\ LocalRecords(c)[id] # NoReview /\ manifest[c][id] # NoReview
          /\ LocalRecords(c)[id] # manifest[c][id]
      BY DEF Conflicts
    <3>2. server[id] = manifest[c][id]
      BY <3>1 DEF PassInv
    <3>3. LocalRecords(c)[id] \in Version /\ server[id] \in Version
      BY <3>1, <3>2, LocalRecordsType DEF TypeOK
    <3>4. LocalRecords(c)[id].fact \in FactsOf[id]
      BY <3>1, LocalRecordsType DEF LocalRecords, FactsInv
    <3>5. server[id].fact \in FactsOf[id]
      BY <3>1, <3>2 DEF FactsInv, Genuine
    <3>. QED  BY <3>1, <3>2, <3>3, <3>4, <3>5, DifferentRows
  <2>. QED  BY <1>2, <2>1 DEF Raise, ConflictMeansReuseOrOrphan, UsedTwice
<1>3. ASSUME NEW c \in Clients, Respond(c), Raise(Collisions(c), sent[c])
      PROVE  ConflictMeansReuseOrOrphan'
  <2>1. ASSUME NEW id \in Collisions(c)
        PROVE  UsedTwice(id) \/ server[id].orphan \/ sent[c][id].orphan
    <3>1. id \in ReviewIds /\ sent[c][id] # NoReview /\ server[id] # sent[c][id]
      BY DEF Collisions
    <3>2. server[id] # NoReview
      BY <1>3, <3>1 DEF Respond, PassInv
    <3>3. sent[c][id] \in Version /\ server[id] \in Version
      BY <3>1, <3>2 DEF TypeOK
    <3>4. sent[c][id].fact \in FactsOf[id] /\ server[id].fact \in FactsOf[id]
      BY <3>1, <3>2, GenuinePass DEF FactsInv, Genuine
    <3>. QED  BY <3>1, <3>3, <3>4, DifferentRows
  <2>. QED  BY <1>3, <2>1 DEF Raise, ConflictMeansReuseOrOrphan, UsedTwice
<1>4. ASSUME NEW c \in Clients, User(c) \/ Fail(c) \/ GetManifest(c) \/ PullChunk(c) \/ Save(c)
                 \/ SendChunk(c) \/ insertReviews(c) \/ Finish(c)
      PROVE  raised' = raised
  BY <1>4 DEF User, Study, DeleteCard, Fail, GetManifest, PullChunk, Save, SendChunk, insertReviews, Finish
<1>5. ASSUME NEW c \in Clients, Compare(c) \/ Respond(c)
      PROVE  ConflictMeansReuseOrOrphan'
  BY <1>1, <1>2, <1>3, <1>5 DEF Compare, Respond
<1>6. ASSUME NEW rows \in late, Late(rows) \/ Lose(rows) PROVE raised' = raised
  BY <1>6 DEF Late, Lose
<1>7. CASE UNCHANGED vars
  BY <1>1, <1>7 DEF vars
<1>. QED  BY <1>1, <1>4, <1>5, <1>6, <1>7 DEF Next, Pass

(* A conflict is raised only for an id two devices used, or for a copy that  *)
(* lost its guid with its card: never for two equal rows that only met in  *)
(* an unlucky order (review_sync.py, reviews.go insertReviews).            *)
THEOREM ConflictMeansReuseOrOrphanHolds == Spec => []ConflictMeansReuseOrOrphan
<1>1. Init => FactsInv /\ ConflictMeansReuseOrOrphan
  BY DEF Init, FactsInv, Genuine, ConflictMeansReuseOrOrphan
<1>2. TypeOK /\ (\A d \in Clients : PassInv(d)) /\ FactsInv /\ ConflictMeansReuseOrOrphan /\ [Next]_vars
        => FactsInv' /\ ConflictMeansReuseOrOrphan'
  BY FactsStep, ConflictStep
<1>. QED  BY <1>1, <1>2, TypeCorrect, PassInvariant, PTL DEF Spec
=============================================================================
