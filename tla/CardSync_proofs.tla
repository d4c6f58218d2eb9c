--------------------------- MODULE CardSync_proofs ---------------------------
(***************************************************************************)
(* Theorems about the card pass, for every set of cards, clients and       *)
(* decks, any number of edits, any clocks and any number of failures.      *)
(***************************************************************************)
EXTENDS CardSync, TLAPS

-----------------------------------------------------------------------------
(* Types.                                                                   *)

LEMMA StampFacts == Clients \subseteq Stamps /\ Edits \subseteq Stamps /\ Edits \subseteq Nat /\ Times \subseteq Nat
BY CardConstants DEF Stamps, Edits, Times

LEMMA CardFacts ==
  ASSUME NEW card \in Card
  PROVE  card # NoCard /\ card.id \in Stamps /\ card.version \in Version /\ card.version.time \in Nat
BY CardConstants, StampFacts DEF Card, Version

LEMMA NewTyped ==
  ASSUME NEW c \in Clients, NEW time \in Times, NEW deck \in Decks
  PROVE  New(c, time, deck) \in Card /\ ~New(c, time, deck).version.studied
BY StampFacts DEF New, Card, Version

LEMMA ItemFacts ==
  ASSUME NEW item \in Item
  PROVE  /\ item.client \in Clients \cup {Gone} /\ item.card \in Cards /\ item.id \in Stamps
         /\ item.version \in Version /\ item.loaded \in BOOLEAN /\ item.version.time \in Nat
BY StampFacts DEF Item, Version

LEMMA IdsTyped ==
  ASSUME NEW cards \in [Cards -> Card \cup {NoCard}]
  PROVE  Ids(cards) \subseteq Pair
BY CardFacts DEF Ids, Present, Pair

LEMMA InitTyped == Init => TypeOK
<1>1. NoCards \in [Cards -> Card \cup {NoCard}] /\ Present(NoCards) = {}
  BY DEF NoCards, Present
<1>2. NoSnapshot \in [saved : BOOLEAN, cards : SUBSET Pair]
  BY DEF NoSnapshot
<1>. QED  BY <1>1, <1>2, CardConstants DEF Init, TypeOK, PassSteps

(* What users do keeps the types.                                           *)
LEMMA UserTyped ==
  ASSUME TypeOK, NEW c \in Clients, User(c)
  PROVE  TypeOK'
<1>1. PICK k \in Cards :
        \/ DeleteCard(c, k)
        \/ \E time \in Times, deck \in Decks :
             AddNote(c, k, time, deck) \/ \E studied \in BOOLEAN : Change(c, k, time, deck, studied)
  BY DEF User
<1>2. ASSUME NEW time \in Times, NEW deck \in Decks, AddNote(c, k, time, deck)
      PROVE  TypeOK'
  <2>1. New(c, time, deck) \in Card
    BY NewTyped
  <2>2. local' \in [Clients -> [Cards -> Card \cup {NoCard}]] /\ known' \in [Clients -> SUBSET Cards]
    BY <1>2, <2>1 DEF AddNote, TypeOK
  <2>3. \A d \in Clients : Present(local'[d]) \subseteq known'[d]
    BY <1>2, <2>2 DEF AddNote, TypeOK, Present
  <2>. QED  BY <1>2, <2>2, <2>3 DEF AddNote, UserActs, TypeOK, serverVars, requestVars, passVars
<1>3. ASSUME NEW time \in Times, NEW deck \in Decks, NEW studied \in BOOLEAN, Change(c, k, time, deck, studied)
      PROVE  TypeOK'
  <2>1. edits + 1 \in Edits /\ edits' \in 0..MaxEdits
    BY <1>3, CardConstants DEF Change, NextEdit, TypeOK, Edits
  <2>2. [stamp |-> edits + 1, time |-> time, deck |-> deck, studied |-> studied] \in Version
    BY <2>1, StampFacts DEF Version
  <2>3. local[c][k] \in Card
    BY <1>3 DEF Change, TypeOK
  <2>4. local' \in [Clients -> [Cards -> Card \cup {NoCard}]]
    BY <1>3, <2>2, <2>3 DEF Change, TypeOK, Card
  <2>5. \A d \in Clients : Present(local'[d]) \subseteq known[d]
    BY <1>3, <2>2, <2>3 DEF Change, TypeOK, Present
  <2>. QED  BY <1>3, <2>1, <2>4, <2>5 DEF Change, UserActs, TypeOK, serverVars, requestVars, passVars
<1>4. CASE DeleteCard(c, k)
  <2>1. edits' \in 0..MaxEdits
    BY <1>4, CardConstants DEF DeleteCard, NextEdit, TypeOK
  <2>2. <<k, local[c][k].version.stamp>> \in Pair
    BY <1>4, CardFacts DEF DeleteCard, TypeOK, Pair, Version
  <2>3. local' \in [Clients -> [Cards -> Card \cup {NoCard}]] /\ \A d \in Clients : Present(local'[d]) \subseteq known[d]
    BY <1>4 DEF DeleteCard, TypeOK, Present
  <2>. QED  BY <1>4, <2>1, <2>2, <2>3 DEF DeleteCard, UserActs, TypeOK, serverVars, requestVars, passVars
<1>. QED  BY <1>1, <1>2, <1>3, <1>4

LEMMA DeleteTyped ==
  ASSUME TypeOK, NEW pairs \in SUBSET Pair, DeleteCards(pairs)
  PROVE  row' \in [Cards -> Card \cup {NoCard}] /\ stones' \subseteq Pair
BY DEF TypeOK, DeleteCards

LEMMA EndPassTyped ==
  ASSUME TypeOK, NEW c \in Clients, EndPass(c)
  PROVE  /\ pc' = [pc EXCEPT ![c] = "idle"] /\ pc' \in [Clients -> PassSteps]
         /\ seenNotes' \in [Clients -> SUBSET Cards]
         /\ seen' \in [Clients -> [Cards -> Card \cup {NoCard}]]
         /\ inherit' \in [Clients -> SUBSET Cards]
         /\ deletes' \in [Clients -> SUBSET Pair] /\ deletes' = [deletes EXCEPT ![c] = {}]
         /\ conflicts' \in [Clients -> SUBSET Cards] /\ conflicts' = [conflicts EXCEPT ![c] = {}]
BY DEF TypeOK, EndPass, Goto, PassSteps, NoCards

(* A version pulled replaces the local one; the items sent are typed.       *)
LEMMA PullTyped ==
  ASSUME TypeOK, NEW c \in Clients, NEW skipped \in SUBSET Pulled(c),
         local' = [local EXCEPT ![c] =
            [k \in Cards |-> IF k \in Pulled(c) \ skipped THEN [@[k] EXCEPT !.version = row[k].version] ELSE @[k]]]
  PROVE  /\ local' \in [Clients -> [Cards -> Card \cup {NoCard}]]
         /\ \A d \in Clients : Ids(local'[d]) = Ids(local[d]) /\ Present(local'[d]) = Present(local[d])
<1>1. ASSUME NEW k \in Pulled(c)
      PROVE  /\ local[c][k] \in Card
             /\ [local[c][k] EXCEPT !.version = row[k].version] \in Card
             /\ [local[c][k] EXCEPT !.version = row[k].version].id = local[c][k].id
  <2>1. k \in Cards /\ local[c][k] \in Card /\ row[k] \in Card
    BY DEF Pulled, CardsToPull, Present, Winner, Shared, TypeOK
  <2>2. row[k].version \in Version
    BY <2>1, CardFacts
  <2>. QED  BY <2>1, <2>2 DEF Card
<1>2. local' \in [Clients -> [Cards -> Card \cup {NoCard}]]
  BY <1>1 DEF TypeOK
<1>3. \A d \in Clients, k \in Cards :
        /\ (local'[d][k] = NoCard) <=> (local[d][k] = NoCard)
        /\ local[d][k] # NoCard => local'[d][k].id = local[d][k].id
  BY <1>1, CardFacts DEF TypeOK
<1>. QED  BY <1>2, <1>3 DEF Ids, Present

LEMMA ItemsTyped ==
  ASSUME TypeOK, NEW c \in Clients
  PROVE  ItemsOf(c) \subseteq Item /\ \A item \in ItemsOf(c) : item.client = c /\ ~item.loaded
<1>1. CardsToPush(c) \subseteq Cards /\ \A k \in CardsToPush(c) : local[c][k] \in Card
  BY DEF CardsToPush, Winner, Shared, Present, TypeOK
<1>2. ASSUME NEW k \in CardsToPush(c),
             NEW item, item = [client |-> c, card |-> k, id |-> local[c][k].id, version |-> local[c][k].version, loaded |-> FALSE]
      PROVE  item \in Item /\ item.client = c /\ ~item.loaded
  BY <1>1, <1>2, CardFacts DEF Item
<1>. QED  BY <1>2 DEF ItemsOf

LEMMA KeptTyped ==
  ASSUME TypeOK, NEW c \in Clients
  PROVE  /\ Kept(c) \in [Cards -> Card \cup {NoCard}] /\ Present(Kept(c)) \subseteq known[c]
         /\ Inherited(c) \subseteq Cards /\ compute_local_deletes(c) \subseteq Pair
<1>0. seen[c] \in [Cards -> Card \cup {NoCard}]
  BY DEF TypeOK
<1>1. Ids(seen[c]) \subseteq Pair
  BY <1>0, IdsTyped
<1>. QED  BY <1>1 DEF TypeOK, Kept, Present, Inherited, compute_local_deletes

LEMMA PassTyped ==
  ASSUME TypeOK, NEW c \in Clients, Pass(c)
  PROVE  TypeOK'
<1>1. CASE ReadNotes(c)
  BY <1>1 DEF TypeOK, ReadNotes, Goto, PassSteps, serverVars, requestVars, clientVars, userVars
<1>2. CASE ReadCards(c)
  BY <1>2 DEF TypeOK, ReadCards, Goto, PassSteps, serverVars, requestVars, clientVars, userVars
<1>3. CASE apply_tombstones(c)
  BY <1>3, KeptTyped DEF TypeOK, apply_tombstones, Goto, PassSteps, serverVars, requestVars, userVars
<1>4. CASE PushLocalDeletes(c)
  <2>1. row' \in [Cards -> Card \cup {NoCard}] /\ stones' \subseteq Pair /\ notes' = notes
    BY <1>4, DeleteTyped DEF PushLocalDeletes, TypeOK, DeleteCards
  <2>. QED  BY <1>4, <2>1 DEF TypeOK, PushLocalDeletes, Goto, PassSteps, requestVars, clientVars, userVars
<1>5. CASE sync_notes_once(c)
  <2>1. PICK time \in Times :
          local' = [local EXCEPT ![c] = [k \in Cards |-> IF k \in seenNotes[c] \ known[c] THEN New(c, time, Default) ELSE @[k]]]
    BY <1>5 DEF sync_notes_once
  <2>2. New(c, time, Default) \in Card
    BY NewTyped, CardConstants
  <2>3. known' = [known EXCEPT ![c] = @ \cup (seenNotes[c] \ known[c])]
    BY <1>5 DEF sync_notes_once
  <2>4. local' \in [Clients -> [Cards -> Card \cup {NoCard}]] /\ known' \in [Clients -> SUBSET Cards]
    BY <2>1, <2>2, <2>3 DEF TypeOK
  <2>5. ASSUME NEW d \in Clients PROVE Present(local'[d]) \subseteq known'[d]
    <3>1. Present(local[d]) \subseteq known[d]
      BY DEF TypeOK
    <3>2. CASE d = c
      <4>1. /\ known'[c] = known[c] \cup (seenNotes[c] \ known[c])
            /\ \A k \in Cards : local'[c][k] = IF k \in seenNotes[c] \ known[c] THEN New(c, time, Default) ELSE local[c][k]
        BY <2>1, <2>3 DEF TypeOK
      <4>. QED  BY <3>1, <3>2, <4>1 DEF Present
    <3>3. CASE d # c
      <4>1. known'[d] = known[d] /\ local'[d] = local[d]
        BY <2>1, <2>3, <3>3 DEF TypeOK
      <4>. QED  BY <3>1, <4>1
    <3>. QED  BY <3>2, <3>3
  <2>6. pc' \in [Clients -> PassSteps] /\ notes' \subseteq Cards /\ seenNotes' \in [Clients -> SUBSET Cards]
    BY <1>5 DEF TypeOK, sync_notes_once, Goto, PassSteps
  <2>7. \A d \in Clients : /\ deletes'[d] # {} => pc'[d] = "delete"
                           /\ conflicts'[d] # {} => pc'[d] = "answer"
                           /\ (\E item \in items' : item.client = d) => pc'[d] = "answer"
    BY <1>5 DEF TypeOK, sync_notes_once, Goto, requestVars
  <2>8. UNCHANGED <<row, stones, items, lateDeletes, overlapped, snapshot, seen, inherit, deletes, conflicts, edits, deleted, failures>>
    BY <1>5 DEF sync_notes_once, requestVars, userVars
  <2>9. /\ row' \in [Cards -> Card \cup {NoCard}] /\ stones' \subseteq Pair
        /\ snapshot' \in [Clients -> [saved : BOOLEAN, cards : SUBSET Pair]]
        /\ seen' \in [Clients -> [Cards -> Card \cup {NoCard}]]
        /\ inherit' \in [Clients -> SUBSET Cards] /\ deletes' \in [Clients -> SUBSET Pair]
        /\ conflicts' \in [Clients -> SUBSET Cards] /\ items' \subseteq Item /\ lateDeletes' \subseteq SUBSET Pair
        /\ edits' \in 0..MaxEdits /\ failures' \in 0..MaxFailures /\ deleted' \subseteq Pair /\ overlapped' \subseteq Cards
    BY <2>8 DEF TypeOK
  <2>. QED  BY <2>4, <2>5, <2>6, <2>7, <2>9 DEF TypeOK
<1>6. CASE sync_cards_once(c)
  <2>1. PICK skipped \in SUBSET Pulled(c) :
          /\ failures' = IF skipped = {} THEN failures ELSE failures + 1
          /\ failures' <= MaxFailures
          /\ local' = [local EXCEPT ![c] =
               [k \in Cards |-> IF k \in Pulled(c) \ skipped THEN [@[k] EXCEPT !.version = row[k].version] ELSE @[k]]]
    BY <1>6 DEF sync_cards_once
  <2>2. /\ local' \in [Clients -> [Cards -> Card \cup {NoCard}]]
        /\ \A d \in Clients : Present(local'[d]) \subseteq known[d]
    BY <2>1, PullTyped DEF TypeOK
  <2>3. failures' \in 0..MaxFailures
    BY <2>1, CardConstants DEF TypeOK
  <2>4. MovesInConflict(c) \subseteq Cards
    BY DEF MovesInConflict, Shared, Present
  <2>5. items' \subseteq Item /\ \A d \in Clients : (\E item \in items' : item.client = d) => pc'[d] = "answer"
    BY <1>6, ItemsTyped DEF sync_cards_once, Goto, TypeOK
  <2>6. seen' \in [Clients -> [Cards -> Card \cup {NoCard}]] /\ inherit' \in [Clients -> SUBSET Cards]
    BY <1>6 DEF sync_cards_once, TypeOK, NoCards
  <2>7. /\ pc' \in [Clients -> PassSteps] /\ conflicts' \in [Clients -> SUBSET Cards]
        /\ \A d \in Clients : (deletes'[d] # {} => pc'[d] = "delete") /\ (conflicts'[d] # {} => pc'[d] = "answer")
    BY <1>6, <2>4 DEF sync_cards_once, Goto, PassSteps, TypeOK
  <2>8. UNCHANGED <<notes, row, stones, overlapped, lateDeletes, known, snapshot, seenNotes, deletes, edits, deleted>>
    BY <1>6 DEF sync_cards_once, serverVars, userVars
  <2>. QED  BY <2>2, <2>3, <2>5, <2>6, <2>7, <2>8 DEF TypeOK
<1>7. CASE CardSyncConflict(c)
  BY <1>7, EndPassTyped DEF TypeOK, CardSyncConflict, Answered, serverVars, requestVars, clientVars, userVars
<1>8. CASE save_state(c)
  <2>0. local[c] \in [Cards -> Card \cup {NoCard}]
    BY DEF TypeOK
  <2>1. Ids(local[c]) \subseteq Pair
    BY <2>0, IdsTyped
  <2>2. snapshot' \in [Clients -> [saved : BOOLEAN, cards : SUBSET Pair]]
    <3>1. [saved |-> TRUE, cards |-> Ids(local[c])] \in [saved : BOOLEAN, cards : SUBSET Pair]
      BY <2>1
    <3>. QED  BY <1>8, <3>1 DEF save_state, TypeOK
  <2>3. UNCHANGED <<notes, row, stones, items, lateDeletes, overlapped, known, local, edits, deleted, failures>> /\ EndPass(c)
    BY <1>8 DEF save_state, serverVars, requestVars, userVars
  <2>4. /\ pc' = [pc EXCEPT ![c] = "idle"] /\ pc' \in [Clients -> PassSteps]
        /\ deletes' = [deletes EXCEPT ![c] = {}] /\ conflicts' = [conflicts EXCEPT ![c] = {}]
        /\ \A item \in items : item.client # c
    BY <1>8, EndPassTyped DEF save_state, Answered
  <2>5. \A d \in Clients : /\ deletes'[d] # {} => pc'[d] = "delete"
                           /\ conflicts'[d] # {} => pc'[d] = "answer"
                           /\ (\E item \in items' : item.client = d) => pc'[d] = "answer"
    BY <2>3, <2>4 DEF TypeOK
  <2>. QED  BY <2>2, <2>3, <2>5, EndPassTyped DEF TypeOK
<1>. QED  BY <1>1, <1>2, <1>3, <1>4, <1>5, <1>6, <1>7, <1>8 DEF Pass

LEMMA ServeTyped ==
  ASSUME TypeOK, NEW item \in items, Serve(item)
  PROVE  TypeOK'
<1>0. item \in Item
  BY DEF TypeOK
<1>. DEFINE id == IF row[item.card] = NoCard THEN item.id ELSE row[item.card].id
<1>00. id \in Stamps
  <2>1. row[item.card] \in Card \cup {NoCard}
    BY <1>0, ItemFacts DEF TypeOK
  <2>. QED  BY <1>0, <2>1, ItemFacts, CardFacts
<1>. HIDE DEF id
<1>1. CASE LoadCard(item)
  <2>1. items' = items \ {item} \/ items' = (items \ {item}) \cup {[item EXCEPT !.id = id, !.loaded = TRUE]}
    BY <1>1 DEF LoadCard, id
  <2>2. [item EXCEPT !.id = id, !.loaded = TRUE] \in Item /\ [item EXCEPT !.id = id, !.loaded = TRUE].client = item.client
    BY <1>0, <1>00 DEF Item
  <2>3. items' \subseteq Item /\ \A d \in Clients : (\E other \in items' : other.client = d) => (\E other \in items : other.client = d)
    BY <2>1, <2>2 DEF TypeOK
  <2>4. overlapped' \subseteq Cards
    BY <1>0, <1>1, ItemFacts DEF LoadCard, TypeOK
  <2>. QED  BY <1>1, <2>3, <2>4 DEF TypeOK, LoadCard, serverVars, clientVars, passVars, userVars
<1>2. CASE upsertCard(item)
  <2>1. row' = [row EXCEPT ![item.card] = [id |-> id, version |-> item.version]] /\ stones' = stones \ {<<item.card, id>>}
    BY <1>2 DEF upsertCard, id
  <2>2. [id |-> id, version |-> item.version] \in Card
    BY <1>0, <1>00, ItemFacts DEF Card
  <2>3. row' \in [Cards -> Card \cup {NoCard}] /\ stones' \subseteq Pair
    BY <2>1, <2>2 DEF TypeOK
  <2>4. items' \subseteq items
    BY <1>2 DEF upsertCard
  <2>. QED  BY <1>2, <2>3, <2>4 DEF TypeOK, upsertCard, clientVars, passVars, userVars
<1>. QED  BY <1>1, <1>2 DEF Serve

LEMMA FailureTyped ==
  ASSUME TypeOK, \/ \E c \in Clients : Fail(c) \/ LoseSnapshot(c)
                 \/ \E pairs \in lateDeletes : LateDelete(pairs)
                 \/ Lose
  PROVE  TypeOK'
<1>1. ASSUME NEW c \in Clients, Fail(c) PROVE TypeOK'
  <2>1. ASSUME NEW item \in items
        PROVE  [item EXCEPT !.client = IF @ = c THEN Gone ELSE @] \in Item
    <3>1. item \in Item /\ (IF item.client = c THEN Gone ELSE item.client) \in Clients \cup {Gone}
      BY ItemFacts DEF TypeOK
    <3>. QED  BY <3>1 DEF Item
  <2>2. items' \subseteq Item
    BY <1>1, <2>1 DEF Fail
  <2>3. \A d \in Clients : (\E item \in items' : item.client = d) => d # c /\ \E item \in items : item.client = d
    <3>1. \A item \in items : [item EXCEPT !.client = IF @ = c THEN Gone ELSE @].client = IF item.client = c THEN Gone ELSE item.client
      BY DEF TypeOK, Item
    <3>. QED  BY <1>1, <3>1, CardConstants DEF Fail
  <2>4. failures' \in 0..MaxFailures /\ lateDeletes' \subseteq SUBSET Pair
    BY <1>1, CardConstants DEF Fail, TypeOK
  <2>5. /\ pc' = [pc EXCEPT ![c] = "idle"] /\ pc' \in [Clients -> PassSteps]
        /\ deletes' = [deletes EXCEPT ![c] = {}] /\ conflicts' = [conflicts EXCEPT ![c] = {}]
    BY <1>1, EndPassTyped DEF Fail
  <2>6. \A d \in Clients : /\ deletes'[d] # {} => pc'[d] = "delete"
                           /\ conflicts'[d] # {} => pc'[d] = "answer"
                           /\ (\E item \in items' : item.client = d) => pc'[d] = "answer"
    BY <2>3, <2>5 DEF TypeOK
  <2>. QED  BY <1>1, <2>2, <2>4, <2>6, EndPassTyped DEF TypeOK, Fail, serverVars, clientVars, userVars
<1>2. ASSUME NEW c \in Clients, LoseSnapshot(c) PROVE TypeOK'
  <2>1. failures' \in 0..MaxFailures
    BY <1>2, CardConstants DEF LoseSnapshot, TypeOK
  <2>2. snapshot' \in [Clients -> [saved : BOOLEAN, cards : SUBSET Pair]]
    <3>1. NoSnapshot \in [saved : BOOLEAN, cards : SUBSET Pair]
      BY DEF NoSnapshot
    <3>. QED  BY <1>2, <3>1 DEF LoseSnapshot, TypeOK
  <2>. QED  BY <1>2, <2>1, <2>2 DEF TypeOK, LoseSnapshot, serverVars, requestVars, passVars, userVars
<1>3. ASSUME NEW pairs \in lateDeletes, LateDelete(pairs) PROVE TypeOK'
  <2>1. row' \in [Cards -> Card \cup {NoCard}] /\ stones' \subseteq Pair /\ notes' = notes
    BY <1>3, DeleteTyped DEF LateDelete, TypeOK, DeleteCards
  <2>. QED  BY <1>3, <2>1 DEF TypeOK, LateDelete, clientVars, passVars, userVars
<1>4. CASE Lose
  BY <1>4 DEF TypeOK, Lose, serverVars, clientVars, passVars, userVars
<1>. QED  BY <1>1, <1>2, <1>3, <1>4

LEMMA StepTyped == TypeOK /\ [Next]_vars => TypeOK'
<1>1. TypeOK /\ UNCHANGED vars => TypeOK'
  BY DEF TypeOK, vars, serverVars, requestVars, clientVars, passVars, userVars
<1>. QED  BY <1>1, UserTyped, PassTyped, ServeTyped, FailureTyped DEF Next

(* Every reachable state is well typed; a card is only where its note is,    *)
(* and unfinished items belong to clients that wait for them or are gone.  *)
THEOREM TypeCorrect == Spec => []TypeOK
BY InitTyped, StepTyped, PTL DEF Spec

-----------------------------------------------------------------------------
(* Only users delete.                                                       *)

(* Whatever speaks of a deletion speaks of a card some user has deleted: a   *)
(* tombstone, a planned or late deletion, and an id of a snapshot that is  *)
(* missing in its collection.                                              *)
ByUser(pairs) == \A pair \in pairs : pair[1] \in Deleted

DeletionInv ==
  /\ ByUser(stones)
  /\ \A pairs \in lateDeletes : ByUser(pairs)
  /\ \A c \in Clients : ByUser(deletes[c]) /\ ByUser(snapshot[c].cards \ Ids(local[c]))

(* The step of OnlyUsersDelete.                                             *)
NothingElseGoes ==
  \A k \in Cards \ Deleted' :
    /\ row[k] # NoCard => row'[k] # NoCard
    /\ \A c \in Clients : local[c][k] # NoCard => local'[c][k] # NoCard

(* What is proved of each step.                                             *)
Good == DeletionInv' /\ NothingElseGoes

LEMMA InitDeletions == Init => DeletionInv
BY DEF Init, DeletionInv, ByUser, NoSnapshot

(* Steps that delete nothing, and keep every id a collection has.           *)
LEMMA NothingDeleted ==
  ASSUME TypeOK, DeletionInv, deleted \subseteq deleted', stones' \subseteq stones, lateDeletes' \subseteq lateDeletes,
         \A k \in Cards : row[k] # NoCard => row'[k] # NoCard,
         \A c \in Clients : /\ deletes'[c] \subseteq deletes[c]
                            /\ Ids(local[c]) \subseteq Ids(local'[c])
                            /\ snapshot'[c].cards \subseteq snapshot[c].cards \cup Ids(local'[c])
                            /\ \A k \in Cards : local[c][k] # NoCard => local'[c][k] # NoCard
  PROVE  Good
<1>1. Deleted \subseteq Deleted'
  BY DEF Deleted
<1>. QED  BY <1>1 DEF Good, DeletionInv, NothingElseGoes, ByUser

LEMMA UserDeletes ==
  ASSUME TypeOK, DeletionInv, NEW c \in Clients, User(c)
  PROVE  Good
<1>1. PICK k \in Cards :
        \/ DeleteCard(c, k)
        \/ \E time \in Times, deck \in Decks :
             AddNote(c, k, time, deck) \/ \E studied \in BOOLEAN : Change(c, k, time, deck, studied)
  BY DEF User
<1>2. ASSUME NEW time \in Times, NEW deck \in Decks, AddNote(c, k, time, deck)
      PROVE  Good
  <2>1. local[c][k] = NoCard
    BY <1>2 DEF AddNote, TypeOK, Present
  <2>2. \A d \in Clients, j \in Cards : local[d][j] # NoCard => local'[d][j] = local[d][j]
    BY <1>2, <2>1 DEF AddNote, TypeOK
  <2>3. \A d \in Clients : Ids(local[d]) \subseteq Ids(local'[d])
    BY <2>2 DEF Ids, Present
  <2>. QED  BY <1>2, <2>2, <2>3, NothingDeleted DEF AddNote, UserActs, serverVars, requestVars, passVars
<1>3. ASSUME NEW time \in Times, NEW deck \in Decks, NEW studied \in BOOLEAN, Change(c, k, time, deck, studied)
      PROVE  Good
  <2>. DEFINE version == [stamp |-> edits + 1, time |-> time, deck |-> deck, studied |-> studied]
  <2>1. local[c][k] \in Card /\ version \in Version
    <3>1. edits + 1 \in Edits
      BY <1>3, CardConstants DEF Change, NextEdit, TypeOK, Edits
    <3>. QED  BY <1>3, <3>1, StampFacts DEF Change, TypeOK, Version
  <2>2. local' = [local EXCEPT ![c][k].version = version]
    BY <1>3 DEF Change
  <2>3. /\ [local[c][k] EXCEPT !.version = version] \in Card
        /\ [local[c][k] EXCEPT !.version = version].id = local[c][k].id
    BY <2>1 DEF Card
  <2>. HIDE DEF version
  <2>4. \A d \in Clients, j \in Cards : local[d][j] # NoCard => local'[d][j] # NoCard /\ local'[d][j].id = local[d][j].id
    BY <2>2, <2>3, CardFacts DEF TypeOK
  <2>5. \A d \in Clients : Ids(local[d]) \subseteq Ids(local'[d])
    BY <2>4 DEF Ids, Present
  <2>. QED  BY <1>3, <2>4, <2>5, NothingDeleted DEF Change, UserActs, serverVars, requestVars, passVars
<1>4. CASE DeleteCard(c, k)
  <2>1. Deleted \cup {k} \subseteq Deleted'
    <3>1. deleted' = deleted \cup {<<k, local[c][k].version.stamp>>}
      BY <1>4 DEF DeleteCard
    <3>2. local[c][k].version.stamp \in Stamps
      BY <1>4, CardFacts DEF DeleteCard, TypeOK, Version
    <3>. QED  BY <3>1, <3>2 DEF Deleted
  <2>2. \A d \in Clients, j \in Cards : j # k => local'[d][j] = local[d][j]
    BY <1>4 DEF DeleteCard, TypeOK
  <2>3. \A d \in Clients : \A pair \in Ids(local[d]) : pair[1] # k => pair \in Ids(local'[d])
    BY <2>2 DEF Ids, Present
  <2>. QED  BY <1>4, <2>1, <2>2, <2>3 DEF DeleteCard, UserActs, Good, DeletionInv, NothingElseGoes, ByUser, serverVars, requestVars, passVars
<1>. QED  BY <1>1, <1>2, <1>3, <1>4

LEMMA DeleteKeeps ==
  ASSUME TypeOK, DeletionInv, NEW pairs, ByUser(pairs), DeleteCards(pairs)
  PROVE  ByUser(stones') /\ \A k \in Cards \ Deleted : row[k] # NoCard => row'[k] # NoCard
BY DEF DeleteCards, DeletionInv, ByUser

LEMMA PassDeletes ==
  ASSUME TypeOK, DeletionInv, NEW c \in Clients, Pass(c)
  PROVE  Good
<1>1. CASE ReadNotes(c) \/ ReadCards(c)
  BY <1>1, NothingDeleted DEF ReadNotes, ReadCards, serverVars, requestVars, clientVars, userVars
<1>2. CASE apply_tombstones(c)
  <2>1. Deleted' = Deleted
    BY <1>2 DEF apply_tombstones, userVars, Deleted
  <2>2. ByUser(compute_local_deletes(c))
    BY DEF compute_local_deletes, DeletionInv, ByUser
  <2>3. \A d \in Clients, k \in Cards \ Deleted : local'[d][k] = local[d][k]
    BY <1>2 DEF apply_tombstones, Kept, DeletionInv, ByUser, TypeOK
  <2>4. \A d \in Clients : \A pair \in Ids(local[d]) : pair[1] \notin Deleted => pair \in Ids(local'[d])
    BY <2>3 DEF Ids, Present
  <2>5. \A d \in Clients : ByUser(deletes'[d])
    BY <1>2, <2>2 DEF apply_tombstones, DeletionInv, TypeOK
  <2>6. snapshot' = snapshot /\ stones' = stones /\ lateDeletes' = lateDeletes /\ row' = row
    BY <1>2 DEF apply_tombstones, serverVars, requestVars
  <2>. QED  BY <2>1, <2>3, <2>4, <2>5, <2>6 DEF Good, DeletionInv, NothingElseGoes, ByUser
<1>3. CASE PushLocalDeletes(c)
  <2>1. Deleted' = Deleted
    BY <1>3 DEF PushLocalDeletes, userVars, Deleted
  <2>2. ByUser(stones') /\ \A k \in Cards \ Deleted : row[k] # NoCard => row'[k] # NoCard
    BY <1>3, DeleteKeeps DEF PushLocalDeletes, DeletionInv
  <2>3. deletes' = [deletes EXCEPT ![c] = {}] /\ snapshot' = snapshot /\ local' = local /\ lateDeletes' = lateDeletes
    BY <1>3 DEF PushLocalDeletes, requestVars, clientVars
  <2>. QED  BY <2>1, <2>2, <2>3 DEF Good, DeletionInv, NothingElseGoes, ByUser, TypeOK
<1>4. CASE sync_notes_once(c)
  <2>1. PICK time \in Times :
          local' = [local EXCEPT ![c] = [k \in Cards |-> IF k \in seenNotes[c] \ known[c] THEN New(c, time, Default) ELSE @[k]]]
    BY <1>4 DEF sync_notes_once
  <2>2. \A d \in Clients, k \in Cards : local[d][k] # NoCard => local'[d][k] = local[d][k]
    BY <2>1 DEF TypeOK, Present
  <2>3. \A d \in Clients : Ids(local[d]) \subseteq Ids(local'[d])
    BY <2>2 DEF Ids, Present
  <2>. QED  BY <1>4, <2>2, <2>3, NothingDeleted DEF sync_notes_once, requestVars, userVars
<1>5. CASE sync_cards_once(c)
  <2>1. PICK skipped \in SUBSET Pulled(c) :
          local' = [local EXCEPT ![c] =
            [k \in Cards |-> IF k \in Pulled(c) \ skipped THEN [@[k] EXCEPT !.version = row[k].version] ELSE @[k]]]
    BY <1>5 DEF sync_cards_once
  <2>2. \A d \in Clients : Ids(local'[d]) = Ids(local[d]) /\ Present(local'[d]) = Present(local[d])
    BY <2>1, PullTyped
  <2>. QED  BY <1>5, <2>2, NothingDeleted DEF sync_cards_once, Present, serverVars, userVars
<1>6. CASE CardSyncConflict(c)
  <2>1. \A d \in Clients : deletes'[d] \subseteq deletes[d]
    <3>1. deletes' = [deletes EXCEPT ![c] = {}]
      BY <1>6 DEF CardSyncConflict, EndPass
    <3>. QED  BY <3>1 DEF TypeOK
  <2>. QED  BY <1>6, <2>1, NothingDeleted DEF CardSyncConflict, serverVars, requestVars, clientVars, userVars
<1>7. CASE save_state(c)
  <2>1. \A d \in Clients : snapshot'[d].cards \subseteq snapshot[d].cards \cup Ids(local'[d])
    BY <1>7 DEF save_state, TypeOK
  <2>. QED  BY <1>7, <2>1, EndPassTyped, NothingDeleted DEF save_state, TypeOK, serverVars, requestVars, userVars
<1>. QED  BY <1>1, <1>2, <1>3, <1>4, <1>5, <1>6, <1>7 DEF Pass

LEMMA ServeDeletes ==
  ASSUME TypeOK, DeletionInv, NEW item \in items, Serve(item)
  PROVE  Good
<1>0. item \in Item
  BY DEF TypeOK
<1>1. CASE LoadCard(item)
  BY <1>1, NothingDeleted DEF LoadCard, serverVars, clientVars, passVars, userVars
<1>2. CASE upsertCard(item)
  <2>1. PICK id : /\ row' = [row EXCEPT ![item.card] = [id |-> id, version |-> item.version]]
                  /\ id \in Stamps /\ stones' \subseteq stones
    <3>1. row[item.card] \in Card \cup {NoCard}
      BY <1>0, ItemFacts DEF TypeOK
    <3>. QED  BY <1>0, <1>2, <3>1, ItemFacts, CardFacts DEF upsertCard
  <2>2. [id |-> id, version |-> item.version] # NoCard
    BY <1>0, <2>1, ItemFacts, CardConstants DEF Card
  <2>3. \A k \in Cards : row[k] # NoCard => row'[k] # NoCard
    BY <2>1, <2>2 DEF TypeOK
  <2>. QED  BY <1>2, <2>1, <2>3, NothingDeleted DEF upsertCard, clientVars, passVars, userVars
<1>. QED  BY <1>1, <1>2 DEF Serve

LEMMA FailureDeletes ==
  ASSUME TypeOK, DeletionInv,
         \/ \E c \in Clients : Fail(c) \/ LoseSnapshot(c)
         \/ \E pairs \in lateDeletes : LateDelete(pairs)
         \/ Lose
  PROVE  Good
<1>1. ASSUME NEW c \in Clients, Fail(c) PROVE Good
  <2>1. Deleted' = Deleted /\ \A pairs \in lateDeletes' : ByUser(pairs)
    BY <1>1 DEF Fail, userVars, Deleted, DeletionInv
  <2>2. deletes' = [deletes EXCEPT ![c] = {}]
    BY <1>1, EndPassTyped DEF Fail
  <2>. QED  BY <1>1, <2>1, <2>2 DEF Fail, Good, DeletionInv, NothingElseGoes, ByUser, TypeOK, serverVars, clientVars
<1>2. ASSUME NEW c \in Clients, LoseSnapshot(c) PROVE Good
  <2>1. \A d \in Clients : snapshot'[d].cards \subseteq snapshot[d].cards
    BY <1>2 DEF LoseSnapshot, NoSnapshot, TypeOK
  <2>. QED  BY <1>2, <2>1, NothingDeleted DEF LoseSnapshot, serverVars, requestVars, passVars, userVars
<1>3. ASSUME NEW pairs \in lateDeletes, LateDelete(pairs) PROVE Good
  <2>1. Deleted' = Deleted
    BY <1>3 DEF LateDelete, userVars, Deleted
  <2>2. ByUser(stones') /\ \A k \in Cards \ Deleted : row[k] # NoCard => row'[k] # NoCard
    BY <1>3, DeleteKeeps DEF LateDelete, DeletionInv
  <2>. QED  BY <1>3, <2>1, <2>2 DEF LateDelete, Good, DeletionInv, NothingElseGoes, ByUser, clientVars, passVars
<1>4. CASE Lose
  BY <1>4, NothingDeleted DEF Lose, serverVars, clientVars, passVars, userVars
<1>. QED  BY <1>1, <1>2, <1>3, <1>4

LEMMA StepDeletes == TypeOK /\ DeletionInv /\ [Next]_vars => Good
<1>1. TypeOK /\ DeletionInv /\ UNCHANGED vars => Good
  BY NothingDeleted DEF vars, serverVars, requestVars, clientVars, passVars, userVars
<1>. QED  BY <1>1, UserDeletes, PassDeletes, ServeDeletes, FailureDeletes DEF Next

(* A card no user has deleted never disappears from the server or from a     *)
(* collection, whichever ids its copies have and whatever fails.           *)
THEOREM OnlyUsersDeleteHolds == Spec => OnlyUsersDelete
<1>1. Init => TypeOK /\ DeletionInv
  BY InitTyped, InitDeletions
<1>2. TypeOK /\ DeletionInv /\ [Next]_vars => (TypeOK /\ DeletionInv)' /\ NothingElseGoes
  BY StepTyped, StepDeletes DEF Good
<1>. QED  BY <1>1, <1>2, PTL DEF Spec, OnlyUsersDelete, NothingElseGoes

-----------------------------------------------------------------------------
(* Only later versions replace.                                             *)

(* The cards of which OnlyLaterReplaces speaks.                             *)
Calm == Cards \ (Deleted \cup overlapped)

(* The item that passed the comparison and is not written yet is the only    *)
(* one, and still at least as new as the row.                              *)
ServedInv ==
  \A k \in Calm : \A item \in items :
    (item.loaded /\ item.card = k)
      => /\ row[k] # NoCard => row[k].version.time <= item.version.time
         /\ \A other \in items : other.loaded /\ other.card = k => other = item

(* A row is never older than what a manifest said.                          *)
SeenInv ==
  \A c \in Clients : \A k \in Calm :
    seen[c][k] # NoCard => row[k] # NoCard /\ seen[c][k].version.time <= row[k].version.time

(* Where the server is authoritative there is nothing a user has studied.   *)
BeforePull == {"delete", "refresh", "cardsAgain", "notes", "plan"}

InheritInv ==
  \A c \in Clients : \A k \in inherit[c] :
    pc[c] \in BeforePull /\ local[c][k] # NoCard => ~local[c][k].version.studied

LaterInv == ServedInv /\ SeenInv /\ InheritInv

(* The step of OnlyLaterReplaces, for the server and for the collections.   *)
RowLater ==
  \A k \in Calm' : row[k] # NoCard => row'[k] # NoCard /\ row[k].version.time <= row'[k].version.time

LocalLater ==
  \A k \in Calm' : \A c \in Clients :
    (local[c][k] # NoCard /\ local'[c][k] # local[c][k] /\ local[c][k].version.studied /\ edits' = edits)
      => /\ local'[c][k] # NoCard
         /\ local[c][k].version.time < local'[c][k].version.time

LEMMA RowFacts ==
  ASSUME TypeOK, NEW k \in Cards
  PROVE  /\ row[k] # NoCard => row[k] \in Card /\ row[k].version.time \in Nat
         /\ \A c \in Clients : /\ seen[c][k] # NoCard => seen[c][k] \in Card /\ seen[c][k].version.time \in Nat
                               /\ local[c][k] # NoCard => local[c][k] \in Card /\ local[c][k].version.time \in Nat
<1>1. row[k] \in Card \cup {NoCard} /\ \A c \in Clients : seen[c][k] \in Card \cup {NoCard} /\ local[c][k] \in Card \cup {NoCard}
  BY DEF TypeOK
<1>. QED  BY <1>1, CardFacts

LEMMA CalmShrinks ==
  ASSUME deleted \subseteq deleted', overlapped \subseteq overlapped'
  PROVE  Calm' \subseteq Calm
BY DEF Calm, Deleted

LEMMA InitLater == Init => LaterInv
<1>1. Init => ServedInv
  BY DEF Init, ServedInv
<1>2. Init => SeenInv
  BY DEF Init, SeenInv, NoCards, Calm
<1>3. Init => InheritInv
  BY DEF Init, InheritInv
<1>. QED  BY <1>1, <1>2, <1>3 DEF LaterInv

(* The server's part of a step.                                             *)
ServerGood == Calm' \subseteq Calm /\ RowLater /\ ServedInv'

(* Steps that write no row, and send or drop items that were not served.    *)
LEMMA RowsKept ==
  ASSUME TypeOK, ServedInv, deleted \subseteq deleted', overlapped \subseteq overlapped', row' = row,
         \A item \in items' : item.loaded => item \in items
  PROVE  ServerGood
<1>1. Calm' \subseteq Calm
  BY CalmShrinks
<1>2. RowLater
  BY <1>1, RowFacts DEF RowLater, Calm
<1>. QED  BY <1>1, <1>2 DEF ServerGood, ServedInv

LEMMA RowsDeleted ==
  ASSUME TypeOK, ServedInv, NEW pairs, ByUser(pairs), DeleteCards(pairs), items' = items,
         deleted' = deleted, overlapped' = overlapped
  PROVE  ServerGood
<1>1. Calm' = Calm /\ \A k \in Calm : k \notin Deleted
  BY DEF Calm, Deleted
<1>2. \A k \in Calm : row'[k] = row[k]
  BY <1>1 DEF DeleteCards, ByUser, Calm
<1>3. RowLater
  BY <1>1, <1>2, RowFacts DEF RowLater, Calm
<1>. QED  BY <1>1, <1>2, <1>3 DEF ServerGood, ServedInv

LEMMA RowServed ==
  ASSUME TypeOK, ServedInv, NEW item \in items, Serve(item)
  PROVE  ServerGood
<1>0. item \in Item
  BY DEF TypeOK
<1>1. CASE LoadCard(item)
  <2>1. Calm' \subseteq Calm /\ row' = row
    BY <1>1, CalmShrinks DEF LoadCard, serverVars, userVars
  <2>2. RowLater
    BY <2>1, RowFacts DEF RowLater, Calm
  <2>3. CASE items' = items \ {item}
    BY <2>1, <2>2, <2>3 DEF ServerGood, ServedInv
  <2>4. ASSUME Newer(item), NEW id \in Stamps, items' = (items \ {item}) \cup {[item EXCEPT !.id = id, !.loaded = TRUE]}
        PROVE  ServedInv'
    <3>. DEFINE served == [item EXCEPT !.id = id, !.loaded = TRUE]
    <3>1. served.loaded /\ served.card = item.card /\ served.version = item.version
      BY <1>0 DEF Item
    <3>2. item.card \in Cards /\ item.version.time \in Nat
      BY <1>0, ItemFacts
    <3>3. row[item.card] # NoCard => row[item.card].version.time <= served.version.time
      BY <2>4, <3>1 DEF Newer
    <3>4. item.card \in Calm' => \A other \in items : ~(other.loaded /\ other.card = item.card)
      BY <1>1 DEF LoadCard, Calm
    <3>. HIDE DEF served
    <3>5. \A other \in items' : other = served \/ other \in items
      BY <2>4 DEF served
    <3>. QED  BY <2>1, <3>1, <3>3, <3>4, <3>5 DEF ServedInv
  <2>5. items' = items \ {item} \/ (Newer(item) /\ \E id \in Stamps : items' = (items \ {item}) \cup {[item EXCEPT !.id = id, !.loaded = TRUE]})
    <3>1. row[item.card] \in Card \cup {NoCard} /\ item.id \in Stamps
      BY <1>0, ItemFacts DEF TypeOK
    <3>. QED  BY <1>1, <3>1, CardFacts DEF LoadCard
  <2>. QED  BY <2>1, <2>2, <2>3, <2>4, <2>5 DEF ServerGood
<1>2. CASE upsertCard(item)
  <2>0. item.loaded /\ item.card \in Cards /\ item.version.time \in Nat
    BY <1>0, <1>2, ItemFacts DEF upsertCard
  <2>1. PICK id : id \in Stamps /\ row' = [row EXCEPT ![item.card] = [id |-> id, version |-> item.version]]
    <3>1. row[item.card] \in Card \cup {NoCard}
      BY <1>0, ItemFacts DEF TypeOK
    <3>. QED  BY <1>0, <1>2, <3>1, ItemFacts, CardFacts DEF upsertCard
  <2>2. Calm' = Calm /\ items' = items \ {item}
    BY <1>2 DEF upsertCard, userVars, Calm, Deleted
  <2>3. row'[item.card] # NoCard /\ row'[item.card].version.time = item.version.time
    <3>1. [id |-> id, version |-> item.version] # NoCard
      BY <1>0, <2>1, ItemFacts, CardConstants DEF Card
    <3>. QED  BY <2>0, <2>1, <3>1 DEF TypeOK
  <2>4. \A k \in Cards : k # item.card => row'[k] = row[k]
    BY <2>1 DEF TypeOK
  <2>5. RowLater
    BY <2>0, <2>2, <2>3, <2>4, RowFacts DEF RowLater, ServedInv, Calm
  <2>6. \A k \in Calm : \A other \in items' : other.loaded /\ other.card = k => k # item.card /\ k \in Cards
    BY <2>0, <2>2 DEF ServedInv, Calm
  <2>7. ServedInv'
    BY <2>2, <2>4, <2>6 DEF ServedInv
  <2>. QED  BY <2>2, <2>5, <2>7 DEF ServerGood
<1>. QED  BY <1>1, <1>2 DEF Serve

LEMMA ServerLater == TypeOK /\ DeletionInv /\ ServedInv /\ [Next]_vars => ServerGood
<1>. SUFFICES ASSUME TypeOK, DeletionInv, ServedInv, [Next]_vars PROVE ServerGood
  OBVIOUS
<1>1. CASE UNCHANGED vars
  BY <1>1, RowsKept DEF vars, serverVars, requestVars, userVars
<1>2. ASSUME NEW c \in Clients, User(c) PROVE ServerGood
  <2>1. deleted \subseteq deleted' /\ row' = row /\ items' = items /\ overlapped' = overlapped
    BY <1>2 DEF User, AddNote, Change, DeleteCard, UserActs, serverVars, requestVars
  <2>. QED  BY <2>1, RowsKept
<1>3. ASSUME NEW c \in Clients, Pass(c) PROVE ServerGood
  <2>1. CASE PushLocalDeletes(c)
    BY <2>1, RowsDeleted DEF PushLocalDeletes, DeletionInv, requestVars, userVars
  <2>2. CASE sync_cards_once(c)
    <3>1. \A item \in items' : item.loaded => item \in items
      BY <2>2, ItemsTyped DEF sync_cards_once
    <3>. QED  BY <2>2, <3>1, RowsKept DEF sync_cards_once, serverVars, userVars
  <2>3. CASE ReadNotes(c) \/ ReadCards(c) \/ apply_tombstones(c) \/ sync_notes_once(c) \/ CardSyncConflict(c) \/ save_state(c)
    BY <2>3, RowsKept DEF ReadNotes, ReadCards, apply_tombstones, sync_notes_once, CardSyncConflict, save_state, serverVars,
                          requestVars, userVars
  <2>. QED  BY <1>3, <2>1, <2>2, <2>3 DEF Pass
<1>4. ASSUME NEW c \in Clients, Fail(c) PROVE ServerGood
  <2>1. row' = row /\ deleted' = deleted /\ overlapped' = overlapped
    BY <1>4 DEF Fail, serverVars, userVars
  <2>2. Calm' = Calm /\ RowLater
    BY <2>1, RowFacts DEF RowLater, Calm, Deleted
  <2>3. \A item \in items : /\ [item EXCEPT !.client = IF @ = c THEN Gone ELSE @].loaded = item.loaded
                            /\ [item EXCEPT !.client = IF @ = c THEN Gone ELSE @].card = item.card
                            /\ [item EXCEPT !.client = IF @ = c THEN Gone ELSE @].version = item.version
    <3>1. ASSUME NEW item \in items
          PROVE  /\ [item EXCEPT !.client = IF @ = c THEN Gone ELSE @].loaded = item.loaded
                 /\ [item EXCEPT !.client = IF @ = c THEN Gone ELSE @].card = item.card
                 /\ [item EXCEPT !.client = IF @ = c THEN Gone ELSE @].version = item.version
      <4>1. item \in Item
        BY DEF TypeOK
      <4>. QED  BY <4>1 DEF Item
    <3>. QED  BY <3>1
  <2>4. ServedInv'
    <3>1. ASSUME NEW item \in items'
          PROVE  \E was \in items : /\ item = [was EXCEPT !.client = IF @ = c THEN Gone ELSE @]
                                    /\ item.loaded = was.loaded /\ item.card = was.card /\ item.version = was.version
      <4>1. PICK was \in items : item = [was EXCEPT !.client = IF @ = c THEN Gone ELSE @]
        BY <1>4 DEF Fail
      <4>2. item.loaded = was.loaded /\ item.card = was.card /\ item.version = was.version
        BY <2>3, <4>1
      <4>. QED  BY <4>1, <4>2
    <3>2. SUFFICES ASSUME NEW k \in Calm', NEW item \in items', item.loaded, item.card = k
                   PROVE  /\ row'[k] # NoCard => row'[k].version.time <= item.version.time
                          /\ \A other \in items' : other.loaded /\ other.card = k => other = item
      BY DEF ServedInv
    <3>3. PICK was \in items : /\ item = [was EXCEPT !.client = IF @ = c THEN Gone ELSE @]
                               /\ item.loaded = was.loaded /\ item.card = was.card /\ item.version = was.version
      BY <3>1
    <3>4. /\ row[k] # NoCard => row[k].version.time <= was.version.time
          /\ \A other \in items : other.loaded /\ other.card = k => other = was
      BY <2>2, <3>2, <3>3 DEF ServedInv
    <3>. QED  BY <2>1, <3>1, <3>3, <3>4
  <2>. QED  BY <2>2, <2>4 DEF ServerGood
<1>5. ASSUME NEW c \in Clients, LoseSnapshot(c) PROVE ServerGood
  BY <1>5, RowsKept DEF LoseSnapshot, serverVars, requestVars, userVars
<1>6. ASSUME NEW pairs \in lateDeletes, LateDelete(pairs) PROVE ServerGood
  BY <1>6, RowsDeleted DEF LateDelete, DeletionInv, userVars
<1>7. CASE Lose
  BY <1>7, RowsKept DEF Lose, serverVars, userVars
<1>. QED  BY <1>1, <1>2, <1>3, <1>4, <1>5, <1>6, <1>7, RowServed DEF Next

(* What a client goes by.                                                   *)
LEMMA SeenLater == TypeOK /\ SeenInv /\ ServerGood /\ TypeOK' /\ [Next]_vars => SeenInv'
<1>. SUFFICES ASSUME TypeOK, SeenInv, ServerGood, TypeOK', [Next]_vars PROVE SeenInv'
  OBVIOUS
<1>1. seen' = seen \/ \E c \in Clients : seen' = [seen EXCEPT ![c] = NoCards] \/ seen' = [seen EXCEPT ![c] = row]
  <2>1. ASSUME NEW c \in Clients, Pass(c) PROVE seen' = seen \/ seen' = [seen EXCEPT ![c] = NoCards] \/ seen' = [seen EXCEPT ![c] = row]
    BY <2>1 DEF Pass, ReadNotes, ReadCards, apply_tombstones, PushLocalDeletes, sync_notes_once, sync_cards_once, CardSyncConflict,
                save_state, EndPass
  <2>2. ASSUME NEW c \in Clients, User(c) \/ LoseSnapshot(c) PROVE seen' = seen
    BY <2>2 DEF User, AddNote, Change, DeleteCard, UserActs, LoseSnapshot, passVars
  <2>3. ASSUME NEW c \in Clients, Fail(c) PROVE seen' = [seen EXCEPT ![c] = NoCards]
    BY <2>3 DEF Fail, EndPass
  <2>4. ASSUME NEW item \in items, Serve(item) PROVE seen' = seen
    BY <2>4 DEF Serve, LoadCard, upsertCard, passVars
  <2>5. ASSUME (\E pairs \in lateDeletes : LateDelete(pairs)) \/ Lose \/ UNCHANGED vars PROVE seen' = seen
    BY <2>5 DEF LateDelete, Lose, vars, passVars
  <2>. QED  BY <2>1, <2>2, <2>3, <2>4, <2>5 DEF Next
<1>2. \A c \in Clients, k \in Cards : seen'[c][k] = seen[c][k] \/ seen'[c][k] = NoCard \/ seen'[c][k] = row[k]
  <2>1. seen \in [Clients -> [Cards -> Card \cup {NoCard}]] /\ \A k \in Cards : NoCards[k] = NoCard
    BY DEF TypeOK, NoCards
  <2>. QED  BY <1>1, <2>1
<1>3. ASSUME NEW c \in Clients, NEW k \in Calm', seen'[c][k] # NoCard
      PROVE  row'[k] # NoCard /\ seen'[c][k].version.time <= row'[k].version.time
  <2>1. k \in Calm /\ k \in Cards
    BY DEF ServerGood, Calm
  <2>2. row[k] # NoCard /\ seen'[c][k].version.time <= row[k].version.time
    BY <1>2, <1>3, <2>1, RowFacts DEF SeenInv
  <2>3. row'[k] # NoCard /\ row[k].version.time <= row'[k].version.time
    BY <2>2 DEF ServerGood, RowLater
  <2>4. row[k].version.time \in Nat /\ row'[k].version.time \in Nat /\ seen'[c][k].version.time \in Nat
    <3>1. row[k] \in Card /\ row'[k] \in Card /\ seen'[c][k] \in Card
      BY <1>3, <2>1, <2>2, <2>3 DEF TypeOK
    <3>. QED  BY <3>1, CardFacts
  <2>. QED  BY <2>2, <2>3, <2>4
<1>. QED  BY <1>3 DEF SeenInv

(* A collection's part of a step.                                           *)
LocalGood == InheritInv' /\ LocalLater

LEMMA UserLater ==
  ASSUME TypeOK, InheritInv, NEW c \in Clients, User(c)
  PROVE  LocalGood
<1>1. PICK k \in Cards :
        \/ DeleteCard(c, k)
        \/ \E time \in Times, deck \in Decks :
             AddNote(c, k, time, deck) \/ \E studied \in BOOLEAN : Change(c, k, time, deck, studied)
  BY DEF User
<1>2. pc[c] = "idle" /\ pc' = pc /\ inherit' = inherit
  BY <1>1 DEF AddNote, Change, DeleteCard, UserActs, passVars
<1>3. \A d \in Clients \ {c} : local'[d] = local[d]
  BY <1>1 DEF AddNote, Change, DeleteCard, TypeOK
<1>4. InheritInv'
  BY <1>2, <1>3 DEF InheritInv, BeforePull
<1>5. ASSUME edits' = edits PROVE \A j \in Cards : local[c][j] # NoCard => local'[c][j] = local[c][j]
  <2>1. ~DeleteCard(c, k) /\ \A time \in Times, deck \in Decks, studied \in BOOLEAN : ~Change(c, k, time, deck, studied)
    BY <1>5, CardConstants DEF DeleteCard, Change, NextEdit, TypeOK
  <2>2. PICK time \in Times, deck \in Decks : AddNote(c, k, time, deck)
    BY <1>1, <2>1
  <2>3. local[c][k] = NoCard
    BY <2>2 DEF AddNote, TypeOK, Present
  <2>. QED  BY <2>2, <2>3 DEF AddNote, TypeOK
<1>6. LocalLater
  BY <1>3, <1>5 DEF LocalLater, Calm
<1>. QED  BY <1>4, <1>6 DEF LocalGood

LEMMA TombstonesLater ==
  ASSUME TypeOK, DeletionInv, InheritInv, NEW c \in Clients, apply_tombstones(c)
  PROVE  LocalGood
<1>1. /\ local' = [local EXCEPT ![c] = Kept(c)] /\ inherit' = [inherit EXCEPT ![c] = Inherited(c)]
      /\ \A d \in Clients \ {c} : pc'[d] = pc[d]
  BY DEF apply_tombstones, Goto, TypeOK
<1>2. \A k \in Inherited(c) : Kept(c)[k] # NoCard => ~Kept(c)[k].version.studied
  BY KeptTyped DEF Inherited, FreshRestore, Present
<1>3. InheritInv'
  BY <1>1, <1>2 DEF InheritInv, TypeOK
<1>4. Deleted' = Deleted
  BY DEF apply_tombstones, userVars, Deleted
<1>5. \A d \in Clients, k \in Cards \ Deleted : local'[d][k] = local[d][k]
  BY <1>1 DEF Kept, DeletionInv, ByUser, TypeOK
<1>6. LocalLater
  BY <1>4, <1>5 DEF LocalLater, Calm
<1>. QED  BY <1>3, <1>6 DEF LocalGood

LEMMA NotesLater ==
  ASSUME TypeOK, InheritInv, NEW c \in Clients, sync_notes_once(c)
  PROVE  LocalGood
<1>1. PICK time \in Times :
        local' = [local EXCEPT ![c] = [k \in Cards |-> IF k \in seenNotes[c] \ known[c] THEN New(c, time, Default) ELSE @[k]]]
  BY DEF sync_notes_once
<1>2. ~New(c, time, Default).version.studied
  BY NewTyped, CardConstants
<1>3. \A d \in Clients, k \in Cards :
        \/ local'[d][k] = local[d][k]
        \/ local[d][k] = NoCard /\ ~local'[d][k].version.studied
  BY <1>1, <1>2 DEF TypeOK, Present
<1>4. inherit' = inherit /\ pc[c] \in BeforePull /\ \A d \in Clients : d # c => pc'[d] = pc[d]
  BY DEF sync_notes_once, Goto, BeforePull, TypeOK
<1>5. InheritInv'
  <2>1. SUFFICES ASSUME NEW d \in Clients, NEW k \in inherit[d], pc'[d] \in BeforePull, local'[d][k] # NoCard
                 PROVE  ~local'[d][k].version.studied
    BY <1>4 DEF InheritInv
  <2>2. k \in Cards /\ pc[d] \in BeforePull
    BY <1>4, <2>1 DEF TypeOK
  <2>. QED  BY <1>3, <2>1, <2>2 DEF InheritInv
<1>6. LocalLater
  BY <1>3 DEF LocalLater, Calm
<1>. QED  BY <1>5, <1>6 DEF LocalGood

LEMMA NewUnstudied == \A stamp, time, deck : ~New(stamp, time, deck).version.studied
BY DEF New

(* A pull replaces a studied card by a later row only: the row is not older  *)
(* than the manifest, by which the server's version was the later one.     *)
LEMMA CardsLater ==
  ASSUME TypeOK, InheritInv, SeenInv, Calm' \subseteq Calm, NEW c \in Clients, sync_cards_once(c)
  PROVE  LocalGood
<1>1. PICK skipped \in SUBSET Pulled(c) :
        local' = [local EXCEPT ![c] =
          [k \in Cards |-> IF k \in Pulled(c) \ skipped THEN [@[k] EXCEPT !.version = row[k].version] ELSE @[k]]]
  BY DEF sync_cards_once
<1>2. pc[c] = "plan" /\ pc' = [pc EXCEPT ![c] = "answer"] /\ inherit' = [inherit EXCEPT ![c] = {}]
  BY DEF sync_cards_once, Goto
<1>3. \A d \in Clients \ {c} : local'[d] = local[d]
  BY <1>1 DEF TypeOK
<1>4. InheritInv'
  BY <1>2, <1>3 DEF InheritInv, BeforePull, TypeOK
<1>5. ASSUME NEW k \in Calm', local[c][k] # NoCard, local'[c][k] # local[c][k], local[c][k].version.studied
      PROVE  local'[c][k] # NoCard /\ local[c][k].version.time < local'[c][k].version.time
  <2>1. k \in Cards /\ k \in Calm
    BY DEF Calm
  <2>2. k \in Pulled(c) \ skipped /\ local'[c][k] = [local[c][k] EXCEPT !.version = row[k].version]
    BY <1>1, <1>5, <2>1 DEF TypeOK
  <2>3. local'[c][k] \in Card /\ local'[c][k].version = row[k].version
    <3>1. local[c][k] \in Card /\ row[k] \in Card
      BY <1>5, <2>1, <2>2 DEF TypeOK, Pulled
    <3>. QED  BY <2>2, <3>1, CardFacts DEF Card
  <2>4. k \notin inherit[c]
    BY <1>2, <1>5 DEF InheritInv, BeforePull
  <2>5. ~LooksInterrupted(c, k)
    BY <1>5, NewUnstudied DEF LooksInterrupted
  <2>6. k \in Present(seen[c]) /\ k \in Shared(c)
    BY <1>5, <2>1, <2>2, <2>4 DEF Pulled, CardsToPull, Winner, Shared, Present
  <2>7. k \in Winner(c, "server")
    BY <2>2, <2>5, <2>6 DEF Pulled, CardsToPull
  <2>8. local[c][k].version.time < seen[c][k].version.time
    BY <2>7 DEF Winner, newest_side
  <2>9. row[k] # NoCard /\ seen[c][k].version.time <= row[k].version.time
    BY <2>1, <2>6 DEF SeenInv, Present
  <2>10. local[c][k].version.time \in Nat /\ seen[c][k].version.time \in Nat /\ row[k].version.time \in Nat
    <3>1. local[c][k] \in Card /\ seen[c][k] \in Card /\ row[k] \in Card
      BY <1>5, <2>1, <2>6, <2>9 DEF Present, TypeOK
    <3>. QED  BY <3>1, CardFacts
  <2>. QED  BY <2>3, <2>8, <2>9, <2>10, CardFacts
<1>6. LocalLater
  BY <1>3, <1>5 DEF LocalLater
<1>. QED  BY <1>4, <1>6 DEF LocalGood

LEMMA LocalStep == TypeOK /\ DeletionInv /\ InheritInv /\ SeenInv /\ Calm' \subseteq Calm /\ [Next]_vars => LocalGood
<1>. SUFFICES ASSUME TypeOK, DeletionInv, InheritInv, SeenInv, Calm' \subseteq Calm, [Next]_vars PROVE LocalGood
  OBVIOUS
<1>0. ASSUME local' = local, inherit' = inherit, pc' = pc PROVE LocalGood
  BY <1>0 DEF LocalGood, InheritInv, LocalLater
<1>1. ASSUME NEW c \in Clients, EndPass(c), local' = local PROVE LocalGood
  <2>1. pc' = [pc EXCEPT ![c] = "idle"] /\ inherit' = [inherit EXCEPT ![c] = {}]
    BY <1>1 DEF EndPass, Goto
  <2>. QED  BY <1>1, <2>1 DEF LocalGood, InheritInv, LocalLater, TypeOK
<1>2. ASSUME NEW c \in Clients, NEW step, Goto(c, step), step \in BeforePull => pc[c] \in BeforePull, local' = local, inherit' = inherit
      PROVE  LocalGood
  BY <1>2 DEF Goto, LocalGood, InheritInv, LocalLater, TypeOK
<1>3. ASSUME NEW c \in Clients, Pass(c) PROVE LocalGood
  <2>1. CASE ReadNotes(c)
    <3>. DEFINE step == IF pc[c] = "idle" THEN "cards" ELSE "cardsAgain"
    <3>1. Goto(c, step) /\ local' = local /\ inherit' = inherit /\ (step \in BeforePull => pc[c] \in BeforePull)
      BY <2>1 DEF ReadNotes, clientVars, BeforePull
    <3>. QED  BY <1>2, <3>1
  <2>2. CASE ReadCards(c)
    <3>. DEFINE step == IF pc[c] = "cards" THEN "stones" ELSE "notes"
    <3>1. Goto(c, step) /\ local' = local /\ inherit' = inherit /\ (step \in BeforePull => pc[c] \in BeforePull)
      BY <2>2 DEF ReadCards, clientVars, BeforePull
    <3>. QED  BY <1>2, <3>1
  <2>3. CASE PushLocalDeletes(c)
    <3>1. Goto(c, "refresh") /\ local' = local /\ inherit' = inherit /\ pc[c] \in BeforePull
      BY <2>3 DEF PushLocalDeletes, clientVars, BeforePull
    <3>. QED  BY <1>2, <3>1
  <2>4. CASE CardSyncConflict(c) \/ save_state(c)
    BY <1>1, <2>4 DEF CardSyncConflict, save_state, clientVars
  <2>. QED  BY <1>3, <2>1, <2>2, <2>3, <2>4, TombstonesLater, NotesLater, CardsLater DEF Pass
<1>4. ASSUME NEW c \in Clients, Fail(c) PROVE LocalGood
  BY <1>1, <1>4 DEF Fail, clientVars
<1>5. ASSUME NEW c \in Clients, LoseSnapshot(c) PROVE LocalGood
  BY <1>0, <1>5 DEF LoseSnapshot, passVars
<1>6. ASSUME NEW item \in items, Serve(item) PROVE LocalGood
  BY <1>0, <1>6 DEF Serve, LoadCard, upsertCard, clientVars, passVars
<1>7. CASE (\E pairs \in lateDeletes : LateDelete(pairs)) \/ Lose \/ UNCHANGED vars
  BY <1>0, <1>7 DEF LateDelete, Lose, vars, clientVars, passVars
<1>. QED  BY <1>3, <1>4, <1>5, <1>6, <1>7, UserLater DEF Next

LEMMA StepLater == TypeOK /\ DeletionInv /\ LaterInv /\ TypeOK' /\ [Next]_vars => LaterInv' /\ RowLater /\ LocalLater
BY ServerLater, SeenLater, LocalStep DEF LaterInv, ServerGood, LocalGood

(* What a user studied is only replaced by a later version, and a row never  *)
(* goes back in time, for a card nobody deleted and of which no two items  *)
(* were served at once.                                                    *)
THEOREM OnlyLaterReplacesHolds == Spec => OnlyLaterReplaces
<1>1. Init => TypeOK /\ DeletionInv /\ LaterInv
  BY InitTyped, InitDeletions, InitLater
<1>2. TypeOK /\ DeletionInv /\ LaterInv /\ [Next]_vars => (TypeOK /\ DeletionInv /\ LaterInv)' /\ RowLater /\ LocalLater
  BY StepTyped, StepDeletes, StepLater DEF Good
<1>3. OnlyLaterReplaces <=> [][\A k \in Cards \ (Deleted' \cup overlapped') :
       /\ row[k] # NoCard /\ row'[k] # NoCard => row[k].version.time <= row'[k].version.time
       /\ \A c \in Clients :
            (local[c][k] # NoCard /\ local'[c][k] # local[c][k] /\ local[c][k].version.studied /\ edits' = edits)
              => /\ local'[c][k] # NoCard
                 /\ local[c][k].version.time < local'[c][k].version.time]_vars
  BY DEF OnlyLaterReplaces
<1>4. RowLater /\ LocalLater => \A k \in Cards \ (Deleted' \cup overlapped') :
       /\ row[k] # NoCard /\ row'[k] # NoCard => row[k].version.time <= row'[k].version.time
       /\ \A c \in Clients :
            (local[c][k] # NoCard /\ local'[c][k] # local[c][k] /\ local[c][k].version.studied /\ edits' = edits)
              => /\ local'[c][k] # NoCard
                 /\ local[c][k].version.time < local'[c][k].version.time
  BY DEF RowLater, LocalLater, Calm
<1>. QED  BY <1>1, <1>2, <1>3, <1>4, PTL DEF Spec
=============================================================================
