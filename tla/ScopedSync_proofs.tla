------------------------- MODULE ScopedSync_proofs -------------------------
(***************************************************************************)
(* Theorems about scoped passes and publications, for every set of notes,  *)
(* clients, decks and routes, any number of edits and of failures.         *)
(***************************************************************************)
EXTENDS ScopedSync, TLAPS

Cards == [Notes -> Version \cup {NoCard}]

-----------------------------------------------------------------------------
(* Types.                                                                   *)

LEMMA VersionFacts ==
  ASSUME NEW version \in Version
  PROVE  version # NoCard /\ version.deck \in Decks /\ version.time \in Times /\ version.time \in Nat
         /\ version.fresh \in BOOLEAN
BY ScopeConstants DEF Version, Times

LEMMA NewTyped ==
  ASSUME NEW deck \in Decks, NEW time \in Times
  PROVE  New(deck, time) \in Version /\ New(deck, time).fresh
BY DEF New, Version

LEMMA Settled ==
  ASSUME NEW version \in Version
  PROVE  [version EXCEPT !.fresh = FALSE] \in Version
BY DEF Version

LEMMA InitTyped == Init => TypeOK
<1>. SUFFICES ASSUME Init PROVE TypeOK
  OBVIOUS
<1>1. NoCards \in Cards /\ NoSnapshot \in [route : Routes \cup {{}}, keys : SUBSET Notes]
  BY DEF NoCards, NoSnapshot, Cards
<1>. QED  BY <1>1, ScopeConstants DEF Init, TypeOK, PassSteps, Cards

LEMMA ScopeFacts ==
  ASSUME TypeOK, NEW c \in Clients
  PROVE  /\ Routed(c) \subseteq Notes /\ \A n \in Routed(c) : local[c][n] \in Version
         /\ ScopedCards(c) \subseteq Notes /\ \A n \in ScopedCards(c) : row[n] \in Version
         /\ ScopedNotes(c) \subseteq ScopedCards(c)
         /\ [n \in Notes |-> IF n \in ScopedCards(c) THEN row[n] ELSE NoCard] \in Cards
<1>1. local[c] \in Cards /\ row \in Cards
  BY DEF TypeOK, Cards
<1>. QED  BY <1>1 DEF Routed, InScope, Present, ScopedCards, ScopedNotes, Cards

LEMMA KeptTyped ==
  ASSUME TypeOK, NEW c \in Clients
  PROVE  /\ Kept(c) \in Cards /\ LocalDeletes(c) \subseteq Resource
         /\ ScopedCards(c) \ InScope(Kept(c), route[c]) \subseteq Notes
<1>1. Kept(c) \in Cards
  BY DEF TypeOK, Kept, Cards
<1>2. Baseline(c) \subseteq Notes
  BY DEF TypeOK, Baseline
<1>. QED  BY <1>1, <1>2, ScopeFacts DEF LocalDeletes, Resource

(* A new collection of client c keeps the types of local and left.          *)
LEMMA SetLocalTyped ==
  ASSUME TypeOK, NEW c \in Clients, NEW cards \in Cards, SetLocal(c, cards)
  PROVE  local' \in [Clients -> [Notes -> Version \cup {NoCard}]] /\ left' \subseteq Notes
BY DEF TypeOK, SetLocal, Leaving, InScope, Present, Cards

LEMMA EndPassTyped ==
  ASSUME TypeOK, NEW c \in Clients, EndPass(c)
  PROVE  /\ pc' = [pc EXCEPT ![c] = "idle"] /\ pc' \in [Clients -> PassSteps]
         /\ seenNotes' \in [Clients -> SUBSET Notes]
         /\ seen' \in [Clients -> [Notes -> Version \cup {NoCard}]]
         /\ inherit' \in [Clients -> SUBSET Notes]
         /\ deletes' \in [Clients -> SUBSET Resource] /\ deletes' = [deletes EXCEPT ![c] = {}]
<1>1. NoCards \in [Notes -> Version \cup {NoCard}] /\ "idle" \in PassSteps
  BY DEF NoCards, PassSteps
<1>. QED  BY <1>1 DEF TypeOK, EndPass, Goto

LEMMA GetManifestTyped ==
  ASSUME TypeOK, NEW c \in Clients, GetManifest(c)
  PROVE  seenNotes' \in [Clients -> SUBSET Notes] /\ seen' \in [Clients -> [Notes -> Version \cup {NoCard}]]
<1>1. ScopedNotes(c) \subseteq Notes /\ [n \in Notes |-> IF n \in ScopedCards(c) THEN row[n] ELSE NoCard] \in Cards
  BY ScopeFacts
<1>. QED  BY <1>1 DEF TypeOK, GetManifest, Cards

LEMMA DeleteTyped ==
  ASSUME TypeOK, NEW resources \in SUBSET Resource, Delete(resources)
  PROVE  noteRow' \subseteq Notes /\ row' \in [Notes -> Version \cup {NoCard}] /\ stones' \subseteq Resource
BY DEF TypeOK, Delete

LEMMA UpsertNotesTyped ==
  ASSUME TypeOK, NEW notes \in SUBSET Notes, UpsertNotes(notes)
  PROVE  noteRow' \subseteq Notes /\ row' \in [Notes -> Version \cup {NoCard}] /\ stones' \subseteq Resource
BY DEF TypeOK, UpsertNotes

LEMMA UpsertCardsTyped ==
  ASSUME TypeOK, NEW c \in Clients, NEW keys, UpsertCards(local[c], keys)
  PROVE  noteRow' \subseteq Notes /\ row' \in [Notes -> Version \cup {NoCard}] /\ stones' \subseteq Resource
<1>1. local[c] \in Cards
  BY DEF TypeOK, Cards
<1>. QED  BY <1>1 DEF TypeOK, UpsertCards, Cards

LEMMA DisturbTyped ==
  ASSUME TypeOK, NEW c \in Clients, Disturb(c)
  PROVE  disturbed' \subseteq Clients
BY DEF TypeOK, Disturb

LEMMA RequestTyped ==
  ASSUME TypeOK, NEW c \in Clients
  PROVE  Request(c) \subseteq deletes[c] /\ NextDelete(c) \subseteq deletes[c] /\ deletes[c] \subseteq Resource
BY DEF TypeOK, Request, NextDelete

(* Outside sending, a client that moves on has no deletions.                *)
LEMMA GotoTyped ==
  ASSUME TypeOK, NEW c \in Clients, NEW step \in PassSteps, Goto(c, step), deletes' = deletes,
         pc[c] \in {"delete", "withdraw"} => deletes[c] = {}
  PROVE  pc' \in [Clients -> PassSteps] /\ \A d \in Clients : deletes'[d] # {} => pc'[d] \in {"delete", "withdraw"}
BY DEF TypeOK, Goto

LEMMA UserTyped ==
  ASSUME TypeOK, NEW c \in Clients, User(c)
  PROVE  TypeOK'
<1>. USE DEF UserActs, serverVars, passVars, clientVars
<1>1. ASSUME edits < MaxEdits, edits' = edits + 1 PROVE edits' \in 0..MaxEdits
  BY <1>1, ScopeConstants DEF TypeOK
<1>2. ASSUME NEW n \in Notes, DeleteNote(c, n) PROVE TypeOK'
  <2>1. [local[c] EXCEPT ![n] = NoCard] \in Cards
    BY DEF TypeOK, Cards
  <2>. QED  BY <1>1, <1>2, <2>1, SetLocalTyped DEF DeleteNote, TypeOK
<1>3. ASSUME NEW n \in Notes, NEW deck \in Decks, NEW time \in Times, AddNote(c, n, deck, time) PROVE TypeOK'
  <2>1. [local[c] EXCEPT ![n] = New(deck, time)] \in Cards
    BY NewTyped DEF TypeOK, Cards
  <2>. QED  BY <1>1, <1>3, <2>1, SetLocalTyped DEF AddNote, TypeOK
<1>4. ASSUME NEW n \in Notes, NEW deck \in Decks, NEW time \in Times, Change(c, n, deck, time) PROVE TypeOK'
  <2>1. [local[c] EXCEPT ![n] = [deck |-> deck, time |-> time, fresh |-> FALSE]] \in Cards
    BY DEF TypeOK, Cards, Version
  <2>. QED  BY <1>1, <1>4, <2>1, SetLocalTyped DEF Change, TypeOK
<1>5. ASSUME NEW decks \in Routes, Reroute(c, decks) PROVE TypeOK'
  BY <1>1, <1>5 DEF Reroute, TypeOK
<1>6. CASE Publish(c)
  <2>. DEFINE gone(keys) == keys \ Routed(c)
  <2>1. /\ deletes' = [deletes EXCEPT ![c] = ({"card"} \X gone(ScopedCards(c))) \cup ({"note"} \X gone(ScopedNotes(c)))]
        /\ deleted' = deleted \cup gone(ScopedCards(c)) /\ pc' = [pc EXCEPT ![c] = "withdraw"]
    BY <1>6 DEF Publish, Goto
  <2>2. gone(ScopedCards(c)) \subseteq Notes /\ gone(ScopedNotes(c)) \subseteq Notes
    BY ScopeFacts
  <2>3. deletes' \in [Clients -> SUBSET Resource] /\ deleted' \subseteq Notes
    BY <2>1, <2>2 DEF TypeOK, Resource
  <2>4. pc' \in [Clients -> PassSteps] /\ \A d \in Clients : deletes'[d] # {} => pc'[d] \in {"delete", "withdraw"}
    BY <2>1 DEF TypeOK, PassSteps, Publishing
  <2>. QED  BY <1>1, <1>6, <2>3, <2>4, GetManifestTyped DEF Publish, TypeOK
<1>. QED  BY <1>2, <1>3, <1>4, <1>5, <1>6 DEF User

LEMMA StartTyped ==
  ASSUME TypeOK, NEW c \in Clients, Start(c)
  PROVE  TypeOK'
<1>. DEFINE step == IF LocalDeletes(c) = {} THEN "notes" ELSE "delete"
<1>1. /\ pc' = [pc EXCEPT ![c] = step] /\ deletes' = [deletes EXCEPT ![c] = LocalDeletes(c)]
      /\ inherit' = [inherit EXCEPT ![c] = ScopedCards(c) \ InScope(Kept(c), route[c])]
  BY DEF Start, Goto
<1>2. pc' \in [Clients -> PassSteps] /\ \A d \in Clients : deletes'[d] # {} => pc'[d] \in {"delete", "withdraw"}
  BY <1>1 DEF TypeOK, PassSteps
<1>3. deletes' \in [Clients -> SUBSET Resource] /\ inherit' \in [Clients -> SUBSET Notes]
  BY <1>1, KeptTyped DEF TypeOK
<1>4. local' \in [Clients -> [Notes -> Version \cup {NoCard}]] /\ left' \subseteq Notes
  BY KeptTyped, SetLocalTyped DEF Start
<1>. QED  BY <1>2, <1>3, <1>4, GetManifestTyped DEF Start, TypeOK, serverVars, userVars

LEMMA NotesTyped ==
  ASSUME TypeOK, NEW c \in Clients, sync_notes_once(c)
  PROVE  TypeOK'
<1>1. PICK time \in Times :
        SetLocal(c, [n \in Notes |-> IF n \in (seenNotes[c] \cap noteRow) \ Present(local[c])
                                     THEN New(Default, time) ELSE local[c][n]])
  BY DEF sync_notes_once
<1>2. [n \in Notes |-> IF n \in (seenNotes[c] \cap noteRow) \ Present(local[c])
                       THEN New(Default, time) ELSE local[c][n]] \in Cards
  BY NewTyped, ScopeConstants DEF TypeOK, Cards
<1>3. local' \in [Clients -> [Notes -> Version \cup {NoCard}]] /\ left' \subseteq Notes
  BY <1>1, <1>2, SetLocalTyped
<1>4. Routed(c) \ seenNotes[c] \in SUBSET Notes
  BY ScopeFacts
<1>5. noteRow' \subseteq Notes /\ row' \in [Notes -> Version \cup {NoCard}] /\ stones' \subseteq Resource
  BY <1>4, UpsertNotesTyped DEF sync_notes_once
<1>6. pc' \in [Clients -> PassSteps] /\ \A d \in Clients : deletes'[d] # {} => pc'[d] \in {"delete", "withdraw"}
  <2>1. Goto(c, "cards") /\ deletes' = deletes /\ pc[c] = "notes" /\ "cards" \in PassSteps
    BY DEF sync_notes_once, PassSteps
  <2>2. deletes[c] = {}
    BY <2>1 DEF TypeOK
  <2>. QED  BY <2>1, <2>2, GotoTyped
<1>. QED  BY <1>3, <1>5, <1>6, DisturbTyped DEF sync_notes_once, TypeOK, userVars

LEMMA CardsTyped ==
  ASSUME TypeOK, NEW c \in Clients, sync_cards_once(c)
  PROVE  TypeOK'
<1>. DEFINE pulled == [n \in Notes |-> IF n \in CardsToPull(c) /\ row[n] # NoCard /\ local[c][n] # NoCard
                                       THEN [row[n] EXCEPT !.fresh = FALSE] ELSE local[c][n]]
            step == IF Conflicts(c) = {} THEN "save" ELSE "conflict"
<1>1. \A n \in Notes : row[n] # NoCard => [row[n] EXCEPT !.fresh = FALSE] \in Version
  <2>1. \A n \in Notes : row[n] # NoCard => row[n] \in Version
    BY DEF TypeOK
  <2>. QED  BY <2>1, Settled
<1>2. pulled \in Cards
  BY <1>1 DEF TypeOK, Cards
<1>3. local' \in [Clients -> [Notes -> Version \cup {NoCard}]] /\ left' \subseteq Notes
  BY <1>2, SetLocalTyped DEF sync_cards_once
<1>4. noteRow' \subseteq Notes /\ row' \in [Notes -> Version \cup {NoCard}] /\ stones' \subseteq Resource
  BY UpsertCardsTyped DEF sync_cards_once
<1>5. step \in PassSteps /\ Goto(c, step) /\ deletes' = deletes /\ pc[c] = "cards"
  BY DEF sync_cards_once, PassSteps
<1>6. pc' \in [Clients -> PassSteps] /\ \A d \in Clients : deletes'[d] # {} => pc'[d] \in {"delete", "withdraw"}
  BY <1>5, GotoTyped
<1>. QED  BY <1>3, <1>4, <1>6, DisturbTyped DEF sync_cards_once, TypeOK, userVars

LEMMA WithdrawTyped ==
  ASSUME TypeOK, NEW c \in Clients, Withdraw(c)
  PROVE  TypeOK'
<1>1. CASE deletes[c] = {}
  <2>1. Goto(c, "publishNotes") /\ deletes' = deletes /\ "publishNotes" \in PassSteps
    BY <1>1 DEF Withdraw, PassSteps, Publishing
  <2>2. pc' \in [Clients -> PassSteps] /\ \A d \in Clients : deletes'[d] # {} => pc'[d] \in {"delete", "withdraw"}
    BY <1>1, <2>1, GotoTyped
  <2>. QED  BY <1>1, <2>2 DEF Withdraw, TypeOK, serverVars, clientVars, userVars
<1>2. CASE deletes[c] # {}
  <2>1. PICK resource \in NextDelete(c) : Delete({resource}) /\ deletes' = [deletes EXCEPT ![c] = @ \ {resource}]
    BY <1>2 DEF Withdraw
  <2>2. noteRow' \subseteq Notes /\ row' \in [Notes -> Version \cup {NoCard}] /\ stones' \subseteq Resource
    BY <2>1, RequestTyped, DeleteTyped
  <2>3. deletes' \in [Clients -> SUBSET Resource] /\ \A d \in Clients : deletes'[d] # {} => pc[d] \in {"delete", "withdraw"}
    BY <2>1 DEF TypeOK, Withdraw
  <2>. QED  BY <1>2, <2>2, <2>3, DisturbTyped DEF Withdraw, TypeOK, clientVars, userVars
<1>. QED  BY <1>1, <1>2

LEMMA DeletesTyped ==
  ASSUME TypeOK, NEW c \in Clients, PushLocalDeletes(c)
  PROVE  TypeOK'
<1>. DEFINE step == IF deletes[c] = Request(c) THEN "refresh" ELSE "delete"
<1>1. deletes' = [deletes EXCEPT ![c] = @ \ Request(c)] /\ pc' = [pc EXCEPT ![c] = step]
  BY DEF PushLocalDeletes, Goto
<1>2. deletes' \in [Clients -> SUBSET Resource] /\ pc' \in [Clients -> PassSteps]
      /\ \A d \in Clients : deletes'[d] # {} => pc'[d] \in {"delete", "withdraw"}
  BY <1>1 DEF TypeOK, PassSteps
<1>3. noteRow' \subseteq Notes /\ row' \in [Notes -> Version \cup {NoCard}] /\ stones' \subseteq Resource
  BY RequestTyped, DeleteTyped DEF PushLocalDeletes
<1>. QED  BY <1>2, <1>3, DisturbTyped DEF PushLocalDeletes, TypeOK, clientVars, userVars

LEMMA StepTyped == TypeOK /\ [Next]_vars => TypeOK'
<1>. SUFFICES ASSUME TypeOK, [Next]_vars PROVE TypeOK'
  OBVIOUS
<1>1. ASSUME NEW c \in Clients, Pass(c) PROVE TypeOK'
  <2>1. CASE Refresh(c)
    <3>1. pc' \in [Clients -> PassSteps] /\ \A d \in Clients : deletes'[d] # {} => pc'[d] \in {"delete", "withdraw"}
      BY <2>1, GotoTyped DEF Refresh, PassSteps
    <3>. QED  BY <2>1, <3>1, GetManifestTyped DEF Refresh, TypeOK, serverVars, clientVars, userVars
  <2>2. CASE CardSyncConflict(c)
    BY <2>2, EndPassTyped DEF CardSyncConflict, TypeOK, serverVars, clientVars, userVars
  <2>3. CASE save_state(c)
    <3>1. [route |-> route[c], keys |-> Routed(c)] \in [route : Routes \cup {{}}, keys : SUBSET Notes]
      <4>1. route[c] \in Routes /\ Routed(c) \in SUBSET Notes
        BY ScopeFacts DEF TypeOK
      <4>. QED  BY <4>1
    <3>2. /\ EndPass(c) /\ snapshot' = [snapshot EXCEPT ![c] = [route |-> route[c], keys |-> Routed(c)]]
          /\ UNCHANGED <<noteRow, row, stones, local, route, late, edits, deleted, failures, left, disturbed>>
      BY <2>3 DEF save_state, serverVars, userVars
    <3>3. snapshot' \in [Clients -> [route : Routes \cup {{}}, keys : SUBSET Notes]]
      BY <3>1, <3>2 DEF TypeOK
    <3>4. \A d \in Clients : deletes'[d] # {} => pc'[d] \in {"delete", "withdraw"}
      BY <3>2, EndPassTyped DEF TypeOK
    <3>. QED  BY <3>2, <3>3, <3>4, EndPassTyped DEF TypeOK
  <2>4. CASE PublishNotes(c)
    <3>1. noteRow' \subseteq Notes /\ row' \in [Notes -> Version \cup {NoCard}] /\ stones' \subseteq Resource
      BY <2>4, ScopeFacts, UpsertNotesTyped DEF PublishNotes
    <3>2. pc' \in [Clients -> PassSteps] /\ \A d \in Clients : deletes'[d] # {} => pc'[d] \in {"delete", "withdraw"}
      BY <2>4, GotoTyped DEF PublishNotes, PassSteps, Publishing
    <3>. QED  BY <2>4, <3>1, <3>2, DisturbTyped DEF PublishNotes, TypeOK, clientVars, userVars
  <2>5. CASE PublishCards(c)
    <3>1. noteRow' \subseteq Notes /\ row' \in [Notes -> Version \cup {NoCard}] /\ stones' \subseteq Resource
      BY <2>5, UpsertCardsTyped DEF PublishCards
    <3>. QED  BY <2>5, <3>1, EndPassTyped, DisturbTyped DEF PublishCards, TypeOK, clientVars, userVars
  <2>. QED  BY <1>1, <2>1, <2>2, <2>3, <2>4, <2>5, StartTyped, DeletesTyped, NotesTyped, CardsTyped, WithdrawTyped DEF Pass
<1>2. ASSUME NEW c \in Clients, Fail(c) PROVE TypeOK'
  <2>1. late' \subseteq SUBSET Resource
    <3>1. CASE late' = late
      BY <3>1 DEF TypeOK
    <3>2. CASE late' = late \cup {Request(c)}
      BY <3>2, RequestTyped DEF TypeOK
    <3>3. ASSUME NEW resource \in NextDelete(c), late' = late \cup {{resource}} PROVE late' \subseteq SUBSET Resource
      <4>1. {resource} \in SUBSET Resource
        BY RequestTyped
      <4>. QED  BY <3>3, <4>1 DEF TypeOK
    <3>4. \/ late' = late \/ late' = late \cup {Request(c)}
          \/ \E resource \in NextDelete(c) : late' = late \cup {{resource}}
      BY <1>2 DEF Fail
    <3>. QED  BY <3>1, <3>2, <3>3, <3>4
  <2>2. failures' \in 0..MaxFailures
    BY <1>2, ScopeConstants DEF Fail, TypeOK
  <2>3. EndPass(c) /\ UNCHANGED <<serverVars, clientVars, userVars, left, disturbed>>
    BY <1>2 DEF Fail
  <2>4. /\ pc' = [pc EXCEPT ![c] = "idle"] /\ pc' \in [Clients -> PassSteps]
        /\ seenNotes' \in [Clients -> SUBSET Notes]
        /\ seen' \in [Clients -> [Notes -> Version \cup {NoCard}]]
        /\ inherit' \in [Clients -> SUBSET Notes]
        /\ deletes' \in [Clients -> SUBSET Resource] /\ deletes' = [deletes EXCEPT ![c] = {}]
    BY <2>3, EndPassTyped
  <2>5. \A k \in Clients : deletes'[k] # {} => pc'[k] \in {"delete", "withdraw"}
    BY <2>4 DEF TypeOK
  <2>. QED  BY <2>1, <2>2, <2>3, <2>4, <2>5 DEF TypeOK, serverVars, clientVars, userVars
<1>3. CASE LateDelete
  <2>1. PICK request \in late : Delete(request) /\ late' = late \ {request}
    BY <1>3 DEF LateDelete
  <2>2. noteRow' \subseteq Notes /\ row' \in [Notes -> Version \cup {NoCard}] /\ stones' \subseteq Resource
    BY <2>1, DeleteTyped DEF TypeOK
  <2>. QED  BY <1>3, <2>1, <2>2 DEF LateDelete, TypeOK, clientVars, passVars, userVars
<1>4. CASE UNCHANGED vars
  BY <1>4 DEF TypeOK, vars, serverVars, clientVars, passVars, userVars
<1>. QED  BY <1>1, <1>2, <1>3, <1>4, UserTyped DEF Next

(* Every reachable state is well typed, and only a client that is sending    *)
(* deletions has any.                                                       *)
THEOREM TypeCorrect == Spec => []TypeOK
BY InitTyped, StepTyped, PTL DEF Spec

-----------------------------------------------------------------------------
(* Who removes: every tombstone, pending or late deletion and every key of a  *)
(* snapshot that is missing in its scope is of a note that a user deleted,  *)
(* published a scope without, or took out of a scope.                      *)

Excused == deleted \cup left
Of(resources) == {resource[2] : resource \in resources}

Missing(c) == snapshot[c].keys \ InScope(local[c], snapshot[c].route)

RemovalInv ==
  /\ Of(stones) \subseteq Excused
  /\ \A c \in Clients : Of(deletes[c]) \subseteq Excused
  /\ \A request \in late : Of(request) \subseteq Excused
  /\ \A c \in Clients : Missing(c) \subseteq Excused

(* A step that keeps what it should.                                        *)
Keeps(n) ==
  /\ n \in noteRow => n \in noteRow'
  /\ row[n] # NoCard => row'[n] # NoCard
  /\ \A c \in Clients : local[c][n] # NoCard => local'[c][n] # NoCard

KeepsServer == \A n \in Notes \ Removable : (n \in noteRow => n \in noteRow') /\ (row[n] # NoCard => row'[n] # NoCard)
KeepsLocal == \A n \in Notes \ Removable, c \in Clients : local[c][n] # NoCard => local'[c][n] # NoCard

(* The parts of RemovalInv after a step.                                     *)
StonesInv == Of(stones') \subseteq Removable
DeletesInv == \A c \in Clients : Of(deletes'[c]) \subseteq Removable
LateInv == \A request \in late' : Of(request) \subseteq Removable
SnapshotInv == \A c \in Clients : snapshot'[c].keys \ InScope(local'[c], snapshot'[c].route) \subseteq Removable

LEMMA InitRemoval == Init => RemovalInv
BY DEF Init, RemovalInv, Of, Missing, NoSnapshot

LEMMA OfUnion ==
  ASSUME NEW a, NEW b
  PROVE  Of(a \cup b) = Of(a) \cup Of(b)
BY DEF Of

LEMMA OfSubset ==
  ASSUME NEW a, NEW b, a \subseteq b
  PROVE  Of(a) \subseteq Of(b)
BY DEF Of

LEMMA StoneOf ==
  ASSUME RemovalInv, NEW c \in Clients, NEW type
  PROVE  Buried(c, type) \subseteq Excused
BY DEF RemovalInv, Buried, Of

LEMMA DeleteKeeps ==
  ASSUME TypeOK, RemovalInv, NEW resources \in SUBSET Resource, Of(resources) \subseteq Excused,
         Delete(resources), Excused \subseteq Removable
  PROVE  StonesInv /\ KeepsServer
<1>1. \A n \in Notes \ Removable : <<"note", n>> \notin resources /\ <<"card", n>> \notin resources
  BY DEF Of
<1>2. Of(stones') = Of(stones) \cup Of(resources)
  BY OfUnion DEF Delete
<1>3. StonesInv
  BY <1>2 DEF StonesInv, RemovalInv
<1>. QED  BY <1>1, <1>3 DEF Delete, KeepsServer, TypeOK

LEMMA UpsertKeeps ==
  ASSUME TypeOK, RemovalInv, Excused \subseteq Removable,
         \/ \E notes \in SUBSET Notes : UpsertNotes(notes)
         \/ \E c \in Clients, keys \in SUBSET Notes : UpsertCards(local[c], keys) /\ \A n \in keys : local[c][n] # NoCard
         \/ UNCHANGED serverVars
  PROVE  StonesInv /\ KeepsServer
<1>0. ASSUME stones' \subseteq stones PROVE StonesInv
  BY <1>0, OfSubset DEF RemovalInv, StonesInv
<1>1. ASSUME NEW notes \in SUBSET Notes, UpsertNotes(notes) PROVE StonesInv /\ KeepsServer
  BY <1>0, <1>1 DEF UpsertNotes, KeepsServer
<1>2. ASSUME NEW c \in Clients, NEW keys \in SUBSET Notes, UpsertCards(local[c], keys), \A n \in keys : local[c][n] # NoCard
      PROVE  StonesInv /\ KeepsServer
  <2>1. \A n \in Notes : row'[n] = IF n \in Accepted(local[c], keys) THEN local[c][n] ELSE row[n]
    BY <1>2 DEF UpsertCards
  <2>2. stones' \subseteq stones /\ noteRow' = noteRow
    BY <1>2 DEF UpsertCards
  <2>. QED  BY <1>0, <1>2, <2>1, <2>2 DEF Accepted, KeepsServer
<1>3. CASE UNCHANGED serverVars
  BY <1>3 DEF serverVars, RemovalInv, StonesInv, KeepsServer
<1>. QED  BY <1>1, <1>2, <1>3

(* A new collection in which only what is excused is missing: what lay in    *)
(* the scope of the snapshot still does, or has left it.                    *)
LEMMA LocalKeeps ==
  ASSUME TypeOK, RemovalInv, NEW c \in Clients, NEW cards \in Cards, SetLocal(c, cards), snapshot' = snapshot,
         Excused \subseteq deleted' \cup left', \A n \in Notes \ Removable : local[c][n] # NoCard => cards[n] # NoCard
  PROVE  KeepsLocal /\ SnapshotInv
<1>1. local' = [local EXCEPT ![c] = cards] /\ left' = left \cup Leaving(c, cards)
  BY DEF SetLocal
<1>2. KeepsLocal
  BY <1>1 DEF KeepsLocal, TypeOK
<1>3. ASSUME NEW d \in Clients, NEW n \in snapshot[d].keys, n \notin Removable
      PROVE  n \in InScope(local'[d], snapshot[d].route)
  <2>1. n \in Notes /\ n \in InScope(local[d], snapshot[d].route)
    BY <1>3 DEF RemovalInv, Missing, TypeOK, Removable
  <2>2. CASE d # c
    BY <1>1, <2>1, <2>2 DEF TypeOK
  <2>3. CASE d = c
    <3>1. n \notin Leaving(c, cards)
      BY <1>1, <1>3 DEF Removable
    <3>. QED  BY <1>1, <1>3, <2>1, <2>3, <3>1 DEF Leaving, InScope, Present, TypeOK
  <2>. QED  BY <2>2, <2>3
<1>. QED  BY <1>2, <1>3 DEF SnapshotInv

LEMMA SameLocal ==
  ASSUME RemovalInv, local' = local, snapshot' = snapshot, Excused \subseteq Removable
  PROVE  KeepsLocal /\ SnapshotInv
BY DEF RemovalInv, Missing, KeepsLocal, SnapshotInv

(* Deletions that end, or that are only sent.                               *)
LEMMA SameDeletes ==
  ASSUME TypeOK, RemovalInv, Excused \subseteq Removable, NEW c \in Clients, NEW rest, rest \subseteq deletes[c],
         deletes' = [deletes EXCEPT ![c] = rest] \/ deletes' = deletes
  PROVE  DeletesInv
<1>1. Of(rest) \subseteq Of(deletes[c])
  BY DEF Of
<1>. QED  BY <1>1 DEF RemovalInv, DeletesInv, TypeOK

LEMMA NoDeletes ==
  ASSUME TypeOK, RemovalInv, Excused \subseteq Removable, NEW c \in Clients, EndPass(c)
  PROVE  DeletesInv
<1>1. \A d \in Clients : deletes'[d] \subseteq deletes[d]
  BY DEF EndPass, TypeOK
<1>. QED  BY <1>1, OfSubset DEF RemovalInv, DeletesInv

LEMMA SameLate ==
  ASSUME RemovalInv, Excused \subseteq Removable, late' \subseteq late
  PROVE  LateInv
BY DEF RemovalInv, LateInv

Good == KeepsServer /\ KeepsLocal /\ StonesInv /\ DeletesInv /\ LateInv /\ SnapshotInv

LEMMA UserRemoval ==
  ASSUME TypeOK, RemovalInv, NEW c \in Clients, User(c)
  PROVE  Good
<1>. USE DEF UserActs, serverVars, passVars, clientVars
<1>1. ASSUME NEW cards \in Cards, SetLocal(c, cards), UserActs(c), deleted \subseteq deleted',
             \A n \in Notes \ deleted' : local[c][n] # NoCard => cards[n] # NoCard
      PROVE  Good
  <2>1. Excused \subseteq Removable
    BY <1>1 DEF Excused, Removable, SetLocal
  <2>2. KeepsLocal /\ SnapshotInv
    BY <1>1, <2>1, LocalKeeps DEF Removable
  <2>. QED  BY <1>1, <2>1, <2>2, UpsertKeeps, SameDeletes, SameLate DEF Good
<1>2. ASSUME NEW n \in Notes, DeleteNote(c, n) PROVE Good
  <2>1. [local[c] EXCEPT ![n] = NoCard] \in Cards
    BY DEF TypeOK, Cards
  <2>. QED  BY <1>1, <1>2, <2>1 DEF DeleteNote, TypeOK
<1>3. ASSUME NEW n \in Notes, NEW deck \in Decks, NEW time \in Times, AddNote(c, n, deck, time) PROVE Good
  <2>1. [local[c] EXCEPT ![n] = New(deck, time)] \in Cards
    BY NewTyped DEF TypeOK, Cards
  <2>. QED  BY <1>1, <1>3, <2>1, NewTyped, VersionFacts DEF AddNote, TypeOK
<1>4. ASSUME NEW n \in Notes, NEW deck \in Decks, NEW time \in Times, Change(c, n, deck, time) PROVE Good
  <2>1. [deck |-> deck, time |-> time, fresh |-> FALSE] \in Version
    BY DEF Version
  <2>2. [local[c] EXCEPT ![n] = [deck |-> deck, time |-> time, fresh |-> FALSE]] \in Cards
    BY <2>1 DEF TypeOK, Cards
  <2>. QED  BY <1>1, <1>4, <2>1, <2>2, VersionFacts DEF Change, TypeOK
<1>5. ASSUME NEW decks \in Routes, Reroute(c, decks) PROVE Good
  <2>1. Excused \subseteq Removable
    BY <1>5 DEF Reroute, Excused, Removable
  <2>. QED  BY <1>5, <2>1, SameLocal, UpsertKeeps, SameDeletes, SameLate DEF Good, Reroute
<1>6. CASE Publish(c)
  <2>. DEFINE gone(keys) == keys \ Routed(c)
              sent == ({"card"} \X gone(ScopedCards(c))) \cup ({"note"} \X gone(ScopedNotes(c)))
  <2>1. deletes' = [deletes EXCEPT ![c] = sent] /\ deleted' = deleted \cup gone(ScopedCards(c)) /\ left' = left
    BY <1>6 DEF Publish
  <2>2. Excused \subseteq Removable
    BY <2>1 DEF Excused, Removable
  <2>3. Of(sent) \subseteq Removable
    <3>1. gone(ScopedNotes(c)) \subseteq gone(ScopedCards(c))
      BY ScopeFacts
    <3>. QED  BY <2>1, <3>1 DEF Of, Removable
  <2>4. DeletesInv
    BY <2>1, <2>2, <2>3 DEF DeletesInv, RemovalInv, TypeOK
  <2>. QED  BY <1>6, <2>2, <2>4, SameLocal, UpsertKeeps, SameLate DEF Good, Publish
<1>. QED  BY <1>2, <1>3, <1>4, <1>5, <1>6 DEF User

LEMMA StartRemoval ==
  ASSUME TypeOK, RemovalInv, NEW c \in Clients, Start(c)
  PROVE  Good
<1>1. Kept(c) \in Cards /\ SetLocal(c, Kept(c)) /\ deleted' = deleted
  BY KeptTyped DEF Start, userVars
<1>2. Excused \subseteq Removable
  BY <1>1 DEF SetLocal, Excused, Removable
<1>3. \A n \in Notes \ Excused : Kept(c)[n] = local[c][n]
  BY StoneOf DEF Kept
<1>4. KeepsLocal /\ SnapshotInv
  BY <1>1, <1>2, <1>3, LocalKeeps DEF Start, Removable, clientVars
<1>5. Of(LocalDeletes(c)) \subseteq Excused
  <2>. DEFINE missing == Baseline(c) \ InScope(Kept(c), route[c])
  <2>1. missing \subseteq Excused
    <3>. SUFFICES ASSUME NEW n \in Baseline(c), n \notin Excused PROVE n \in InScope(Kept(c), route[c])
      OBVIOUS
    <3>1. snapshot[c].route = route[c] /\ n \in snapshot[c].keys
      BY DEF Baseline
    <3>2. n \in Notes /\ n \in InScope(local[c], route[c])
      BY <3>1 DEF RemovalInv, Missing, TypeOK
    <3>. QED  BY <1>3, <3>2 DEF InScope, Present
  <2>. QED  BY <2>1 DEF LocalDeletes, Of
<1>6. deletes' = [deletes EXCEPT ![c] = LocalDeletes(c)]
  BY DEF Start
<1>7. DeletesInv
  BY <1>2, <1>5, <1>6 DEF DeletesInv, RemovalInv, TypeOK
<1>. QED  BY <1>2, <1>4, <1>7, UpsertKeeps, SameLate DEF Good, Start, serverVars

LEMMA DeletionsRemoval ==
  ASSUME TypeOK, RemovalInv, NEW c \in Clients, PushLocalDeletes(c) \/ Withdraw(c)
  PROVE  Good
<1>1. Excused \subseteq Removable /\ late' = late /\ local' = local /\ snapshot' = snapshot
  BY DEF PushLocalDeletes, Withdraw, Excused, Removable, clientVars, userVars
<1>2. \A resources : resources \subseteq deletes[c] => resources \in SUBSET Resource /\ Of(resources) \subseteq Excused
  BY RequestTyped DEF RemovalInv, Of
<1>3. StonesInv /\ KeepsServer
  <2>1. CASE PushLocalDeletes(c)
    BY <1>1, <1>2, <2>1, RequestTyped, DeleteKeeps DEF PushLocalDeletes
  <2>2. ASSUME NEW resource \in NextDelete(c), Delete({resource}) PROVE StonesInv /\ KeepsServer
    <3>1. {resource} \subseteq deletes[c]
      BY RequestTyped
    <3>. QED  BY <1>1, <1>2, <2>2, <3>1, DeleteKeeps
  <2>3. CASE UNCHANGED serverVars
    BY <1>1, <2>3, UpsertKeeps
  <2>. QED  BY <2>1, <2>2, <2>3 DEF Withdraw
<1>4. DeletesInv
  <2>1. \E rest : rest \subseteq deletes[c] /\ (deletes' = [deletes EXCEPT ![c] = rest] \/ deletes' = deletes)
    BY DEF PushLocalDeletes, Withdraw
  <2>. QED  BY <1>1, <2>1, SameDeletes
<1>. QED  BY <1>1, <1>3, <1>4, SameLocal, SameLate DEF Good

LEMMA NotesRemoval ==
  ASSUME TypeOK, RemovalInv, NEW c \in Clients, sync_notes_once(c)
  PROVE  Good
<1>1. PICK time \in Times :
        SetLocal(c, [n \in Notes |-> IF n \in (seenNotes[c] \cap noteRow) \ Present(local[c])
                                     THEN New(Default, time) ELSE local[c][n]])
  BY DEF sync_notes_once
<1>. DEFINE cards == [n \in Notes |-> IF n \in (seenNotes[c] \cap noteRow) \ Present(local[c])
                                      THEN New(Default, time) ELSE local[c][n]]
<1>2. cards \in Cards /\ \A n \in Notes : local[c][n] # NoCard => cards[n] # NoCard
  BY NewTyped, ScopeConstants, VersionFacts DEF TypeOK, Cards
<1>3. Excused \subseteq Removable /\ deletes' = deletes /\ late' = late /\ snapshot' = snapshot
  BY <1>1 DEF sync_notes_once, Excused, Removable, SetLocal, userVars
<1>4. KeepsLocal /\ SnapshotInv
  BY <1>1, <1>2, <1>3, LocalKeeps DEF Removable
<1>5. StonesInv /\ KeepsServer
  BY <1>3, ScopeFacts, UpsertKeeps DEF sync_notes_once
<1>. QED  BY <1>3, <1>4, <1>5, SameDeletes, SameLate DEF Good

LEMMA PushFacts ==
  ASSUME TypeOK, NEW c \in Clients
  PROVE  CardsToPush(c) \subseteq Routed(c) /\ CardsToPush(c) \in SUBSET Notes /\ \A n \in Routed(c) : local[c][n] # NoCard
<1>1. Routed(c) \subseteq Notes /\ \A n \in Routed(c) : local[c][n] \in Version
  BY ScopeFacts
<1>2. CardsToPush(c) \subseteq Routed(c)
  BY DEF CardsToPush, Winner, Shared
<1>. QED  BY <1>1, <1>2, VersionFacts

LEMMA CardsRemoval ==
  ASSUME TypeOK, RemovalInv, NEW c \in Clients, sync_cards_once(c)
  PROVE  Good
<1>. DEFINE cards == [n \in Notes |-> IF n \in CardsToPull(c) /\ row[n] # NoCard /\ local[c][n] # NoCard
                                      THEN [row[n] EXCEPT !.fresh = FALSE] ELSE local[c][n]]
<1>1. \A n \in Notes : row[n] # NoCard => [row[n] EXCEPT !.fresh = FALSE] \in Version
  <2>1. \A n \in Notes : row[n] # NoCard => row[n] \in Version
    BY DEF TypeOK
  <2>. QED  BY <2>1, Settled
<1>2. cards \in Cards /\ \A n \in Notes : local[c][n] # NoCard => cards[n] # NoCard
  BY <1>1, VersionFacts DEF TypeOK, Cards
<1>3. Excused \subseteq Removable /\ deletes' = deletes /\ late' = late /\ snapshot' = snapshot /\ SetLocal(c, cards)
  BY DEF sync_cards_once, Excused, Removable, SetLocal, userVars
<1>4. KeepsLocal /\ SnapshotInv
  BY <1>2, <1>3, LocalKeeps DEF Removable
<1>5. StonesInv /\ KeepsServer
  BY <1>3, PushFacts, UpsertKeeps DEF sync_cards_once
<1>. QED  BY <1>3, <1>4, <1>5, SameDeletes, SameLate DEF Good

LEMMA StepRemoval == TypeOK /\ RemovalInv /\ [Next]_vars => Good
<1>. SUFFICES ASSUME TypeOK, RemovalInv, [Next]_vars PROVE Good
  OBVIOUS
<1>1. ASSUME NEW c \in Clients, Pass(c) PROVE Good
  <2>1. CASE Refresh(c)
    <3>1. Excused \subseteq Removable
      BY <2>1 DEF Refresh, Excused, Removable, userVars
    <3>. QED  BY <2>1, <3>1, SameLocal, UpsertKeeps, SameDeletes, SameLate DEF Good, Refresh, clientVars
  <2>2. CASE CardSyncConflict(c)
    <3>1. Excused \subseteq Removable
      BY <2>2 DEF CardSyncConflict, Excused, Removable, userVars
    <3>. QED  BY <2>2, <3>1, SameLocal, UpsertKeeps, NoDeletes, SameLate DEF Good, CardSyncConflict, clientVars
  <2>3. CASE save_state(c)
    <3>1. Excused \subseteq Removable
      BY <2>3 DEF save_state, Excused, Removable, userVars
    <3>2. SnapshotInv
      BY <2>3, <3>1 DEF save_state, SnapshotInv, RemovalInv, Missing, Routed, TypeOK
    <3>3. KeepsLocal
      BY <2>3 DEF save_state, KeepsLocal
    <3>. QED  BY <2>3, <3>1, <3>2, <3>3, UpsertKeeps, NoDeletes, SameLate DEF Good, save_state
  <2>4. CASE PublishNotes(c)
    <3>1. Excused \subseteq Removable
      BY <2>4 DEF PublishNotes, Excused, Removable, userVars
    <3>. QED  BY <2>4, <3>1, ScopeFacts, SameLocal, UpsertKeeps, SameDeletes, SameLate DEF Good, PublishNotes, clientVars
  <2>5. CASE PublishCards(c)
    <3>1. Excused \subseteq Removable
      BY <2>5 DEF PublishCards, Excused, Removable, userVars
    <3>2. StonesInv /\ KeepsServer
      BY <2>5, <3>1, ScopeFacts, PushFacts, UpsertKeeps DEF PublishCards
    <3>. QED  BY <2>5, <3>1, <3>2, SameLocal, NoDeletes, SameLate DEF Good, PublishCards, clientVars
  <2>. QED  BY <1>1, <2>1, <2>2, <2>3, <2>4, <2>5, StartRemoval, DeletionsRemoval, NotesRemoval, CardsRemoval DEF Pass
<1>2. ASSUME NEW c \in Clients, Fail(c) PROVE Good
  <2>1. Excused \subseteq Removable
    BY <1>2 DEF Fail, Excused, Removable, userVars
  <2>2. LateInv
    <3>1. ASSUME NEW resources, resources \subseteq deletes[c], late' = late \cup {resources} PROVE LateInv
      <4>1. Of(resources) \subseteq Removable
        BY <2>1, <3>1, OfUnion DEF RemovalInv
      <4>. QED  BY <2>1, <3>1, <4>1 DEF RemovalInv, LateInv
    <3>2. \A resource \in NextDelete(c) : {resource} \subseteq deletes[c]
      BY RequestTyped
    <3>3. CASE late' = late
      BY <2>1, <3>3, SameLate
    <3>. QED  BY <1>2, <3>1, <3>2, <3>3, RequestTyped DEF Fail
  <2>. QED  BY <1>2, <2>1, <2>2, SameLocal, UpsertKeeps, NoDeletes DEF Good, Fail, clientVars
<1>3. CASE LateDelete
  <2>1. PICK request \in late : Delete(request) /\ late' = late \ {request}
    BY <1>3 DEF LateDelete
  <2>2. Excused \subseteq Removable
    BY <1>3 DEF LateDelete, Excused, Removable, userVars
  <2>3. request \in SUBSET Resource /\ Of(request) \subseteq Excused
    BY DEF RemovalInv, TypeOK
  <2>4. DeletesInv
    BY <1>3, <2>2 DEF LateDelete, passVars, RemovalInv, DeletesInv
  <2>. QED  BY <1>3, <2>1, <2>2, <2>3, <2>4, DeleteKeeps, SameLocal, SameLate DEF Good, LateDelete, clientVars
<1>4. CASE UNCHANGED vars
  BY <1>4 DEF Good, vars, serverVars, clientVars, passVars, userVars, RemovalInv, Missing, Excused, Removable,
     KeepsServer, KeepsLocal, StonesInv, DeletesInv, LateInv, SnapshotInv
<1>. QED  BY <1>1, <1>2, <1>3, <1>4, UserRemoval DEF Next

LEMMA GoodKeepsInv == Good => RemovalInv'
BY DEF Good, RemovalInv, Missing, Excused, Removable, StonesInv, DeletesInv, LateInv, SnapshotInv

(* Whatever clients route and whenever a pass or a publication stops, a note  *)
(* that no user deleted, published a scope without or took out of a synced  *)
(* scope never disappears, neither from the server nor from a collection.   *)
THEOREM OnlyUsersRemoveHolds == Spec => OnlyUsersRemove
<1>1. TypeOK /\ RemovalInv /\ [Next]_vars => (TypeOK /\ RemovalInv)' /\ \A n \in Notes \ Removable : Keeps(n)
  BY StepTyped, StepRemoval, GoodKeepsInv DEF Good, Keeps, KeepsServer, KeepsLocal
<1>2. OnlyUsersRemove <=> [][\A n \in Notes \ Removable : Keeps(n)]_vars
  BY DEF OnlyUsersRemove, Keeps
<1>. QED  BY <1>1, <1>2, InitTyped, InitRemoval, PTL DEF Spec

-----------------------------------------------------------------------------
(* What replaces: of a note nobody removed, the row is never older than what *)
(* a client has seen of it; and of the cards for which a pass lets the      *)
(* server decide, those in the scope here were generated by the pass.       *)

BeforePull == {"delete", "refresh", "notes", "cards"}

LaterInv ==
  /\ \A c \in Clients, n \in Notes \ Excused :
       seen[c][n] # NoCard => row[n] # NoCard /\ seen[c][n].time <= row[n].time
  /\ \A c \in Clients : pc[c] \in BeforePull => \A n \in inherit[c] \cap Routed(c) : local[c][n].fresh

RowLater == \A n \in Notes : row[n] # NoCard /\ row'[n] # NoCard => row[n].time <= row'[n].time

Replaced(c, n) == n \in Routed(c) \ Removable /\ ~local[c][n].fresh /\ edits' = edits /\ local'[c][n] # local[c][n]

LocalLater ==
  \A c \in Clients, n \in Notes :
    Replaced(c, n) => local'[c][n] # NoCard /\ local[c][n].time < local'[c][n].time

InheritLater ==
  \A c \in Clients : pc'[c] \in BeforePull => \A n \in inherit'[c] \cap InScope(local'[c], route'[c]) : local'[c][n].fresh

SeenLater ==
  \A c \in Clients, n \in Notes :
    seen'[c][n] # NoCard => seen'[c][n] = seen[c][n] \/ (row' = row /\ seen'[c][n] = row[n])

LEMMA InitLater == Init => LaterInv
BY DEF Init, LaterInv, NoCards, BeforePull

LEMMA UpsertLater ==
  ASSUME TypeOK, \/ \E resources : Delete(resources)
                 \/ \E notes : UpsertNotes(notes)
                 \/ \E c \in Clients : \E keys : UpsertCards(local[c], keys)
                 \/ row' = row
  PROVE  RowLater
<1>1. \A n \in Notes : row[n] # NoCard => row[n].time <= row[n].time
  BY VersionFacts DEF TypeOK
<1>2. ASSUME NEW resources, Delete(resources) PROVE RowLater
  BY <1>1, <1>2 DEF Delete, RowLater, TypeOK
<1>3. ASSUME NEW c \in Clients, NEW keys, UpsertCards(local[c], keys) PROVE RowLater
  BY <1>1, <1>3 DEF UpsertCards, Accepted, RowLater, TypeOK
<1>. QED  BY <1>1, <1>2, <1>3 DEF UpsertNotes, RowLater

LEMMA StepRow == TypeOK /\ [Next]_vars => RowLater
<1>. SUFFICES ASSUME TypeOK, [Next]_vars PROVE RowLater
  OBVIOUS
<1>1. ASSUME NEW c \in Clients, User(c) \/ Fail(c) PROVE row' = row
  BY <1>1 DEF User, Fail, AddNote, Change, DeleteNote, Reroute, Publish, UserActs, serverVars
<1>2. ASSUME NEW c \in Clients, Pass(c)
      PROVE  \/ \E resources : Delete(resources)
             \/ \E notes : UpsertNotes(notes)
             \/ \E keys : UpsertCards(local[c], keys)
             \/ row' = row
  BY <1>2 DEF Pass, Start, PushLocalDeletes, Refresh, sync_notes_once, sync_cards_once, CardSyncConflict, save_state,
     Withdraw, PublishNotes, PublishCards, serverVars
<1>3. CASE LateDelete
  BY <1>3, UpsertLater DEF LateDelete
<1>4. CASE UNCHANGED vars
  BY <1>4, UpsertLater DEF vars, serverVars
<1>. QED  BY <1>1, <1>2, <1>3, <1>4, UpsertLater DEF Next

(* What a client has seen is what it had seen, or the rows of now.          *)
LEMMA StepSeen == TypeOK /\ [Next]_vars => SeenLater
<1>. SUFFICES ASSUME TypeOK, [Next]_vars PROVE SeenLater
  OBVIOUS
<1>1. ASSUME NEW c \in Clients, GetManifest(c), row' = row PROVE SeenLater
  <2>1. \A d \in Clients : seen'[d] = IF d = c THEN [n \in Notes |-> IF n \in ScopedCards(c) THEN row[n] ELSE NoCard] ELSE seen[d]
    BY <1>1 DEF GetManifest, TypeOK
  <2>. QED  BY <1>1, <2>1 DEF SeenLater
<1>2. ASSUME NEW c \in Clients, EndPass(c) PROVE SeenLater
  <2>1. \A d \in Clients : seen'[d] = IF d = c THEN NoCards ELSE seen[d]
    BY <1>2 DEF EndPass, TypeOK
  <2>. QED  BY <2>1 DEF SeenLater, NoCards
<1>3. ASSUME seen' = seen PROVE SeenLater
  BY <1>3 DEF SeenLater
<1>4. ASSUME NEW c \in Clients, User(c) PROVE SeenLater
  BY <1>1, <1>3, <1>4 DEF User, AddNote, Change, DeleteNote, Reroute, Publish, UserActs, serverVars, passVars
<1>5. ASSUME NEW c \in Clients, Pass(c) PROVE SeenLater
  BY <1>1, <1>2, <1>3, <1>5 DEF Pass, Start, PushLocalDeletes, Refresh, sync_notes_once, sync_cards_once, CardSyncConflict,
     save_state, Withdraw, PublishNotes, PublishCards, serverVars
<1>. QED  BY <1>2, <1>3, <1>4, <1>5 DEF Next, Fail, LateDelete, passVars, vars

(* Outside the pull, and the user's acts, a present card stays what it is.   *)
LEMMA SameLater ==
  ASSUME LaterInv, NEW c \in Clients, local' = local, route' = route, pc' = [pc EXCEPT ![c] = pc'[c]], pc \in [Clients -> PassSteps],
         inherit' = [inherit EXCEPT ![c] = inherit'[c]], inherit \in [Clients -> SUBSET Notes],
         pc'[c] \in BeforePull => pc[c] \in BeforePull /\ inherit'[c] = inherit[c]
  PROVE  LocalLater /\ InheritLater
BY DEF LaterInv, LocalLater, Replaced, InheritLater, Routed

LEMMA UserLater ==
  ASSUME TypeOK, LaterInv, NEW c \in Clients, User(c)
  PROVE  LocalLater /\ InheritLater
<1>0. edits \in Nat
  BY ScopeConstants DEF TypeOK
<1>1. edits' = edits + 1
  BY DEF User, AddNote, Change, DeleteNote, Reroute, Publish, UserActs
<1>2. LocalLater
  BY <1>0, <1>1 DEF LocalLater, Replaced
<1>3. inherit' = inherit /\ pc[c] = "idle" /\ pc'[c] \in {"idle", "withdraw"} /\ pc' = [pc EXCEPT ![c] = pc'[c]]
  BY DEF TypeOK, User, AddNote, Change, DeleteNote, Reroute, Publish, UserActs, passVars, Goto
<1>4. \A d \in Clients \ {c} : local'[d] = local[d] /\ route'[d] = route[d]
  BY DEF TypeOK, User, AddNote, Change, DeleteNote, Reroute, Publish, UserActs, SetLocal, clientVars
<1>5. InheritLater
  <2>. SUFFICES ASSUME NEW d \in Clients, pc'[d] \in BeforePull
                PROVE  \A n \in inherit'[d] \cap InScope(local'[d], route'[d]) : local'[d][n].fresh
    BY DEF InheritLater
  <2>1. d # c
    BY <1>3 DEF BeforePull
  <2>2. pc[d] \in BeforePull
    BY <1>3, <2>1 DEF TypeOK
  <2>. QED  BY <1>3, <1>4, <2>1, <2>2 DEF LaterInv, Routed
<1>. QED  BY <1>2, <1>5

LEMMA StartLater ==
  ASSUME TypeOK, RemovalInv, LaterInv, NEW c \in Clients, Start(c)
  PROVE  LocalLater /\ InheritLater
<1>1. /\ local' = [local EXCEPT ![c] = Kept(c)] /\ route' = route
      /\ inherit' = [inherit EXCEPT ![c] = ScopedCards(c) \ InScope(Kept(c), route[c])]
      /\ \A d \in Clients \ {c} : pc'[d] = pc[d]
  BY DEF Start, SetLocal, Goto, TypeOK
<1>2. Excused \subseteq Removable
  BY DEF Start, SetLocal, userVars, Excused, Removable
<1>3. \A n \in Notes \ Removable : Kept(c)[n] = local[c][n]
  BY <1>2, StoneOf DEF Kept
<1>4. LocalLater
  BY <1>1, <1>3 DEF LocalLater, Replaced, TypeOK
<1>5. InheritLater
  BY <1>1 DEF InheritLater, LaterInv, Routed, TypeOK
<1>. QED  BY <1>4, <1>5

LEMMA NotesLater ==
  ASSUME TypeOK, LaterInv, NEW c \in Clients, sync_notes_once(c)
  PROVE  LocalLater /\ InheritLater
<1>1. PICK time \in Times :
        SetLocal(c, [n \in Notes |-> IF n \in (seenNotes[c] \cap noteRow) \ Present(local[c])
                                     THEN New(Default, time) ELSE local[c][n]])
  BY DEF sync_notes_once
<1>2. /\ \A n \in Notes : local[c][n] # NoCard => local'[c][n] = local[c][n]
      /\ \A n \in Notes : local[c][n] = NoCard => local'[c][n] \in {New(Default, time), NoCard}
      /\ \A d \in Clients \ {c} : local'[d] = local[d]
  BY <1>1 DEF SetLocal, Present, TypeOK
<1>3. route' = route /\ inherit' = inherit /\ pc[c] \in BeforePull /\ \A d \in Clients \ {c} : pc'[d] = pc[d]
  BY DEF sync_notes_once, BeforePull, Goto, TypeOK
<1>4. LocalLater
  BY <1>2 DEF LocalLater, Replaced, Routed, InScope, Present
<1>5. New(Default, time).fresh
  BY DEF New
<1>6. ASSUME NEW d \in Clients, pc'[d] \in BeforePull, NEW n \in inherit[d] \cap InScope(local'[d], route[d])
      PROVE  local'[d][n].fresh
  <2>1. pc[d] \in BeforePull /\ n \in Notes
    BY <1>3, <1>6 DEF InScope, Present
  <2>2. CASE local[d][n] # NoCard
    <3>1. local'[d][n] = local[d][n]
      BY <1>2, <2>1, <2>2
    <3>. QED  BY <1>6, <2>1, <3>1 DEF LaterInv, Routed, InScope, Present
  <2>3. CASE local[d][n] = NoCard
    BY <1>2, <1>5, <1>6, <2>1, <2>3 DEF InScope, Present
  <2>. QED  BY <2>2, <2>3
<1>. QED  BY <1>3, <1>4, <1>6 DEF InheritLater

LEMMA CardsLater ==
  ASSUME TypeOK, RemovalInv, LaterInv, NEW c \in Clients, sync_cards_once(c)
  PROVE  LocalLater /\ InheritLater
<1>. DEFINE cards == [n \in Notes |-> IF n \in CardsToPull(c) /\ row[n] # NoCard /\ local[c][n] # NoCard
                                      THEN [row[n] EXCEPT !.fresh = FALSE] ELSE local[c][n]]
<1>1. local' = [local EXCEPT ![c] = cards] /\ Excused \subseteq Removable /\ route' = route /\ inherit' = inherit
  BY DEF sync_cards_once, SetLocal, userVars, Excused, Removable
<1>2. pc[c] = "cards" /\ pc'[c] \notin BeforePull /\ \A d \in Clients \ {c} : pc'[d] = pc[d]
  BY DEF sync_cards_once, BeforePull, Goto, TypeOK
<1>3. InheritLater
  BY <1>1, <1>2 DEF InheritLater, LaterInv, Routed, TypeOK
<1>4. ASSUME NEW n \in Notes, Replaced(c, n)
      PROVE  local'[c][n] # NoCard /\ local[c][n].time < local'[c][n].time
  <2>1. n \in Routed(c) /\ n \notin Excused /\ ~local[c][n].fresh /\ local'[c][n] # local[c][n]
    BY <1>1, <1>4 DEF Replaced
  <2>2. n \in CardsToPull(c) /\ row[n] # NoCard /\ local'[c][n] = [row[n] EXCEPT !.fresh = FALSE]
    BY <1>1, <2>1 DEF TypeOK
  <2>3. n \notin inherit[c]
    BY <1>2, <2>1 DEF LaterInv, BeforePull
  <2>4. n \in Winner(c, "server")
    BY <2>1, <2>2, <2>3 DEF CardsToPull, Shared, LooksInterrupted
  <2>5. seen[c][n] # NoCard /\ newest_side(local[c][n], seen[c][n]) = "server"
    BY <2>4 DEF Winner, Shared, Present
  <2>6. local[c][n] \in Version /\ row[n] \in Version /\ seen[c][n] \in Version
    <3>1. local[c][n] \in Version
      BY <2>1, ScopeFacts
    <3>. QED  BY <2>2, <2>5, <3>1 DEF TypeOK
  <2>7. local[c][n].time < seen[c][n].time
    BY <2>5, <2>6, VersionFacts DEF newest_side
  <2>8. seen[c][n].time <= row[n].time
    BY <2>1, <2>5 DEF LaterInv
  <2>9. local'[c][n].time = row[n].time /\ local'[c][n] \in Version
    BY <2>2, <2>6 DEF Version
  <2>. QED  BY <2>6, <2>7, <2>8, <2>9, VersionFacts
<1>5. \A d \in Clients \ {c}, n \in Notes : ~Replaced(d, n)
  BY <1>1 DEF Replaced, TypeOK
<1>. QED  BY <1>3, <1>4, <1>5 DEF LocalLater

LEMMA StepLocal == TypeOK /\ RemovalInv /\ LaterInv /\ [Next]_vars => LocalLater /\ InheritLater
<1>. SUFFICES ASSUME TypeOK, RemovalInv, LaterInv, [Next]_vars PROVE LocalLater /\ InheritLater
  OBVIOUS
<1>0. pc \in [Clients -> PassSteps] /\ inherit \in [Clients -> SUBSET Notes]
  BY DEF TypeOK
<1>1. ASSUME NEW c \in Clients, EndPass(c), local' = local, route' = route PROVE LocalLater /\ InheritLater
  <2>1. pc' = [pc EXCEPT ![c] = pc'[c]] /\ inherit' = [inherit EXCEPT ![c] = inherit'[c]] /\ pc'[c] \notin BeforePull
    BY <1>0, <1>1 DEF EndPass, Goto, BeforePull
  <2>. QED  BY <1>0, <1>1, <2>1, SameLater
<1>2. ASSUME NEW c \in Clients, NEW step, Goto(c, step), inherit' = inherit, local' = local, route' = route,
             step \in BeforePull => pc[c] \in BeforePull
      PROVE  LocalLater /\ InheritLater
  <2>1. pc' = [pc EXCEPT ![c] = pc'[c]] /\ inherit' = [inherit EXCEPT ![c] = inherit'[c]] /\ pc'[c] = step
    BY <1>0, <1>2 DEF Goto
  <2>. QED  BY <1>0, <1>2, <2>1, SameLater
<1>3. ASSUME inherit' = inherit, local' = local, route' = route, pc' = pc PROVE LocalLater /\ InheritLater
  BY <1>3 DEF LaterInv, LocalLater, Replaced, InheritLater, Routed
<1>4. ASSUME NEW c \in Clients, Pass(c) PROVE LocalLater /\ InheritLater
  <2>1. CASE PushLocalDeletes(c)
    <3>. DEFINE step == IF deletes[c] = Request(c) THEN "refresh" ELSE "delete"
    <3>1. Goto(c, step) /\ pc[c] \in BeforePull /\ inherit' = inherit /\ local' = local /\ route' = route
      BY <2>1 DEF PushLocalDeletes, clientVars, BeforePull
    <3>. QED  BY <1>2, <3>1
  <2>2. CASE Refresh(c)
    BY <1>2, <2>2 DEF Refresh, clientVars, BeforePull
  <2>3. CASE CardSyncConflict(c) \/ save_state(c) \/ PublishCards(c)
    BY <1>1, <2>3 DEF CardSyncConflict, save_state, PublishCards, clientVars
  <2>4. CASE Withdraw(c) \/ PublishNotes(c)
    BY <1>2, <1>3, <2>4 DEF Withdraw, PublishNotes, clientVars, BeforePull
  <2>. QED  BY <1>4, <2>1, <2>2, <2>3, <2>4, StartLater, NotesLater, CardsLater DEF Pass
<1>5. CASE LateDelete \/ UNCHANGED vars
  BY <1>3, <1>5 DEF LateDelete, vars, clientVars, passVars
<1>. QED  BY <1>1, <1>4, <1>5, UserLater DEF Next, Fail, clientVars

LEMMA StepLater ==
  TypeOK /\ RemovalInv /\ LaterInv /\ TypeOK' /\ [Next]_vars => LaterInv' /\ RowLater /\ LocalLater
<1>. SUFFICES ASSUME TypeOK, RemovalInv, LaterInv, TypeOK', [Next]_vars PROVE LaterInv' /\ RowLater /\ LocalLater
  OBVIOUS
<1>1. RowLater /\ SeenLater /\ LocalLater /\ InheritLater /\ Good
  BY StepRow, StepSeen, StepLocal, StepRemoval
<1>2. deleted \subseteq deleted' /\ left \subseteq left'
  <2>1. ASSUME NEW c \in Clients, User(c) PROVE deleted \subseteq deleted' /\ left \subseteq left'
    BY <2>1 DEF User, AddNote, Change, DeleteNote, Reroute, Publish, SetLocal
  <2>2. ASSUME NEW c \in Clients, Pass(c) PROVE deleted' = deleted /\ left \subseteq left'
    BY <2>2 DEF Pass, Start, PushLocalDeletes, Refresh, sync_notes_once, sync_cards_once, CardSyncConflict, save_state,
       Withdraw, PublishNotes, PublishCards, SetLocal, userVars
  <2>3. CASE LateDelete \/ UNCHANGED vars \/ \E c \in Clients : Fail(c)
    BY <2>3 DEF LateDelete, Fail, vars, userVars
  <2>. QED  BY <2>1, <2>2, <2>3 DEF Next
<1>3. ASSUME NEW c \in Clients, NEW n \in Notes, n \notin Excused', seen'[c][n] # NoCard
      PROVE  row'[n] # NoCard /\ seen'[c][n].time <= row'[n].time
  <2>0. Excused \subseteq Excused'
    BY <1>2 DEF Excused
  <2>1. row'[n] \in Version \cup {NoCard} /\ row[n] \in Version \cup {NoCard} /\ seen'[c][n] \in Version
    BY <1>3 DEF TypeOK
  <2>2. row[n] # NoCard => row'[n] # NoCard /\ row[n].time <= row'[n].time
    BY <1>1, <1>3 DEF Good, KeepsServer, RowLater, Excused, Removable
  <2>3. CASE seen'[c][n] = seen[c][n]
    <3>1. row[n] # NoCard /\ seen[c][n].time <= row[n].time
      BY <2>0, <1>3, <2>3 DEF LaterInv
    <3>. QED  BY <2>1, <2>2, <2>3, <3>1, VersionFacts
  <2>4. CASE row' = row /\ seen'[c][n] = row[n]
    BY <1>3, <2>1, <2>4, VersionFacts
  <2>. QED  BY <1>1, <1>3, <2>3, <2>4 DEF SeenLater
<1>. QED  BY <1>1, <1>3 DEF LaterInv, InheritLater, Routed

(* What a user did in a client's scope is only replaced by a later version    *)
(* while nobody removes the note.                                          *)
THEOREM ChangesGiveWayToLaterHolds == Spec => ChangesGiveWayToLater
<1>1. TypeOK /\ RemovalInv /\ LaterInv /\ [Next]_vars => (TypeOK /\ RemovalInv /\ LaterInv)' /\ LocalLater
  BY StepTyped, StepRemoval, GoodKeepsInv, StepLater
<1>2. LocalLater => \A c \in Clients, n \in Notes :
        (n \in Routed(c) \ Removable /\ ~local[c][n].fresh /\ edits' = edits /\ local'[c][n] # local[c][n])
          => local'[c][n] # NoCard /\ local[c][n].time < local'[c][n].time
  BY DEF LocalLater, Replaced
<1>. QED  BY <1>1, <1>2, InitTyped, InitRemoval, InitLater, PTL DEF Spec, ChangesGiveWayToLater

-----------------------------------------------------------------------------
(* What a publication has done so far, if nobody has disturbed it: what is    *)
(* still to be deleted is all that the server's scope has and ours has not; *)
(* then nothing is, and the notes are there.                               *)

Done(c) ==
  /\ pc[c] = "withdraw" => \A n \in InScope(row, route[c]) \ Routed(c) : <<"card", n>> \in deletes[c]
  /\ pc[c] \in {"publishNotes", "publishCards"} => InScope(row, route[c]) \subseteq Routed(c)
  /\ pc[c] = "publishCards" => Routed(c) \subseteq noteRow

PublicationInv == \A c \in Clients \ disturbed : Done(c)

LEMMA InitPublication == Init => PublicationInv
BY DEF Init, PublicationInv, Done

LEMMA DoneStays ==
  ASSUME NEW c \in Clients, Done(c), UNCHANGED <<noteRow, row>>,
         UNCHANGED <<local[c], route[c], pc[c], deletes[c]>>
  PROVE  Done(c)'
BY DEF Done, InScope, Present, Routed

(* What others do to a client's publication.                                *)
LEMMA OthersDisturb ==
  ASSUME TypeOK, NEW c \in Clients, NEW d \in Clients, d # c, User(d) \/ Pass(d) \/ Fail(d)
  PROVE  /\ UNCHANGED <<local[c], route[c], pc[c], deletes[c]>>
         /\ \/ UNCHANGED <<noteRow, row>> /\ (c \in disturbed => c \in disturbed')
            \/ Disturb(d)
<1>1. CASE User(d)
  <2>1. UNCHANGED <<local[c], route[c]>>
    BY <1>1 DEF User, AddNote, Change, DeleteNote, Reroute, Publish, UserActs, SetLocal, clientVars, TypeOK
  <2>2. UNCHANGED <<pc[c], deletes[c]>>
    BY <1>1 DEF User, AddNote, Change, DeleteNote, Reroute, Publish, UserActs, Goto, passVars, TypeOK
  <2>3. UNCHANGED <<noteRow, row>> /\ (c \in disturbed => c \in disturbed')
    BY <1>1 DEF User, AddNote, Change, DeleteNote, Reroute, Publish, UserActs, serverVars
  <2>. QED  BY <2>1, <2>2, <2>3
<1>2. CASE Pass(d)
  <2>1. UNCHANGED <<local[c], route[c]>>
    BY <1>2 DEF Pass, Start, PushLocalDeletes, Refresh, sync_notes_once, sync_cards_once, CardSyncConflict, save_state,
       Withdraw, PublishNotes, PublishCards, SetLocal, clientVars, TypeOK
  <2>2. UNCHANGED <<pc[c], deletes[c]>>
    BY <1>2 DEF Pass, Start, PushLocalDeletes, Refresh, sync_notes_once, sync_cards_once, CardSyncConflict, save_state,
       Withdraw, PublishNotes, PublishCards, Goto, EndPass, TypeOK
  <2>3. UNCHANGED <<noteRow, row, disturbed>> \/ Disturb(d)
    BY <1>2 DEF Pass, Start, PushLocalDeletes, Refresh, sync_notes_once, sync_cards_once, CardSyncConflict, save_state,
       Withdraw, PublishNotes, PublishCards, serverVars
  <2>. QED  BY <2>1, <2>2, <2>3
<1>3. CASE Fail(d)
  BY <1>3 DEF Fail, EndPass, Goto, serverVars, clientVars, TypeOK
<1>. QED  BY <1>1, <1>2, <1>3

LEMMA OwnDone ==
  ASSUME TypeOK, NEW c \in Clients, c \in disturbed \/ Done(c), c \notin disturbed', User(c) \/ Pass(c) \/ Fail(c)
  PROVE  Done(c)'
<1>1. CASE Publish(c)
  <2>1. pc'[c] = "withdraw" /\ UNCHANGED <<row, local, route>>
    BY <1>1 DEF Publish, Goto, serverVars, clientVars, TypeOK
  <2>2. \A n \in ScopedCards(c) \ Routed(c) : <<"card", n>> \in deletes'[c]
    BY <1>1 DEF Publish, TypeOK
  <2>. QED  BY <2>1, <2>2 DEF Done, ScopedCards, InScope, Present, Routed
<1>2. CASE User(c) /\ ~Publish(c)
  BY <1>2 DEF User, AddNote, Change, DeleteNote, Reroute, UserActs, passVars, Done
<1>3. ASSUME pc[c] \notin Publishing, Pass(c) PROVE pc'[c] \notin Publishing
  BY <1>3 DEF Pass, Start, PushLocalDeletes, Refresh, sync_notes_once, sync_cards_once, CardSyncConflict, save_state,
     Withdraw, PublishNotes, PublishCards, Publishing, Goto, EndPass, TypeOK
<1>4. CASE Fail(c) \/ PublishCards(c)
  BY <1>4 DEF Fail, PublishCards, EndPass, Goto, Done, TypeOK
<1>5. CASE Withdraw(c) /\ deletes[c] = {}
  <2>1. pc[c] = "withdraw" /\ pc'[c] = "publishNotes" /\ UNCHANGED <<row, local, route, disturbed>>
    BY <1>5 DEF Withdraw, Goto, serverVars, clientVars, TypeOK
  <2>. QED  BY <1>5, <2>1 DEF Done, InScope, Present, Routed
<1>6. CASE Withdraw(c) /\ deletes[c] # {}
  <2>1. PICK resource \in NextDelete(c) : Delete({resource}) /\ deletes' = [deletes EXCEPT ![c] = @ \ {resource}]
    BY <1>6 DEF Withdraw
  <2>2. pc[c] = "withdraw" /\ pc'[c] = "withdraw" /\ UNCHANGED <<local, route>> /\ c \notin disturbed
    BY <1>6 DEF Withdraw, Disturb, clientVars
  <2>3. deletes'[c] = deletes[c] \ {resource}
    BY <2>1 DEF TypeOK
  <2>4. \A n \in Notes : row'[n] = IF <<"card", n>> = resource THEN NoCard ELSE row[n]
    BY <2>1 DEF Delete
  <2>. QED  BY <2>2, <2>3, <2>4 DEF Done, InScope, Present, Routed
<1>7. CASE PublishNotes(c)
  <2>1. pc[c] = "publishNotes" /\ pc'[c] = "publishCards" /\ UNCHANGED <<row, local, route>> /\ c \notin disturbed
    BY <1>7 DEF PublishNotes, UpsertNotes, Disturb, Goto, clientVars, TypeOK
  <2>2. Routed(c) \subseteq noteRow'
    BY <1>7 DEF PublishNotes, UpsertNotes
  <2>. QED  BY <2>1, <2>2 DEF Done, InScope, Present, Routed
<1>8. pc[c] \in Publishing /\ Pass(c) => Withdraw(c) \/ PublishNotes(c) \/ PublishCards(c)
  BY DEF Publishing, Pass, Start, PushLocalDeletes, Refresh, sync_notes_once, sync_cards_once, CardSyncConflict, save_state
<1>9. CASE Pass(c) /\ pc[c] \notin Publishing
  BY <1>3, <1>9 DEF Done, Publishing
<1>. QED  BY <1>1, <1>2, <1>4, <1>5, <1>6, <1>7, <1>8, <1>9

LEMMA StepPublication == TypeOK /\ PublicationInv /\ [Next]_vars => PublicationInv'
<1>. SUFFICES ASSUME TypeOK, PublicationInv, [Next]_vars, NEW c \in Clients, c \notin disturbed' PROVE Done(c)'
  BY DEF PublicationInv
<1>1. c \in disturbed \/ Done(c)
  BY DEF PublicationInv
<1>2. CASE User(c) \/ Pass(c) \/ Fail(c)
  BY <1>1, <1>2, OwnDone
<1>3. ASSUME UNCHANGED pc[c], pc[c] \notin Publishing PROVE Done(c)'
  BY <1>3 DEF Done, Publishing
<1>4. ASSUME NEW d \in Clients, d # c, User(d) \/ Pass(d) \/ Fail(d) PROVE Done(c)'
  <2>1. UNCHANGED <<local[c], route[c], pc[c], deletes[c]>>
    BY <1>4, OthersDisturb
  <2>2. CASE UNCHANGED <<noteRow, row>> /\ (c \in disturbed => c \in disturbed')
    BY <1>1, <2>1, <2>2, DoneStays
  <2>3. CASE Disturb(d)
    BY <1>3, <1>4, <2>1, <2>3 DEF Disturb
  <2>. QED  BY <1>4, <2>2, <2>3, OthersDisturb
<1>5. CASE LateDelete
  BY <1>3, <1>5 DEF LateDelete, passVars
<1>6. CASE UNCHANGED vars
  BY <1>1, <1>6, DoneStays DEF vars, serverVars, clientVars, passVars
<1>. QED  BY <1>2, <1>4, <1>5, <1>6 DEF Next

Ends(c) ==
  /\ \A n \in Routed(c) : n \in noteRow' /\ (row'[n] = local[c][n] \/ Later(n, local[c][n]))
  /\ InScope(row', route[c]) \subseteq Routed(c)

LEMMA FinishEnds ==
  ASSUME TypeOK, NEW c \in Clients, Done(c), Finishes(c), [Next]_vars
  PROVE  Ends(c)
<1>1. pc[c] = "publishCards" /\ pc'[c] = "idle" /\ failures' = failures
  BY DEF Finishes
<1>2. PublishCards(c)
  <2>1. ASSUME NEW d \in Clients, d # c, User(d) \/ Pass(d) \/ Fail(d) PROVE FALSE
    BY <1>1, <2>1, OthersDisturb
  <2>2. ~User(c)
    BY <1>1 DEF User, AddNote, Change, DeleteNote, Reroute, Publish, UserActs
  <2>3. ~Fail(c)
    BY <1>1 DEF Fail, TypeOK
  <2>4. Pass(c) => PublishCards(c)
    BY <1>1 DEF Pass, Start, PushLocalDeletes, Refresh, sync_notes_once, sync_cards_once, CardSyncConflict, save_state,
       Withdraw, PublishNotes
  <2>5. ~LateDelete /\ ~UNCHANGED vars
    BY <1>1 DEF LateDelete, vars, passVars
  <2>. QED  BY <2>1, <2>2, <2>3, <2>4, <2>5 DEF Next
<1>3. UpsertCards(local[c], Routed(c))
  BY <1>2 DEF PublishCards
<1>4. noteRow' = noteRow /\ \A n \in Notes : row'[n] = IF n \in Accepted(local[c], Routed(c)) THEN local[c][n] ELSE row[n]
  BY <1>3 DEF UpsertCards
<1>5. Routed(c) \subseteq noteRow /\ InScope(row, route[c]) \subseteq Routed(c)
  BY <1>1 DEF Done
<1>6. ASSUME NEW n \in Routed(c), n \notin Accepted(local[c], Routed(c)) PROVE Later(n, local[c][n])
  <2>1. n \in Notes /\ local[c][n] \in Version /\ row[n] \in Version
    BY <1>6 DEF Routed, InScope, Present, Accepted, TypeOK
  <2>. QED  BY <1>4, <1>6, <2>1, VersionFacts DEF Accepted, Later
<1>7. InScope(row', route[c]) \subseteq Routed(c)
  BY <1>4, <1>5 DEF InScope, Present, Accepted
<1>. QED  BY <1>4, <1>5, <1>6, <1>7 DEF Ends, Routed, InScope, Present

(* A publication that no other client's request overlaps leaves the server's *)
(* scope as it is here, but for cards the server has in a later version.    *)
THEOREM PublishedHolds == Spec => Published
<1>1. TypeOK /\ PublicationInv /\ [Next]_vars => (TypeOK /\ PublicationInv)' /\ \A c \in Clients \ disturbed : Finishes(c) => Ends(c)
  BY StepTyped, StepPublication, FinishEnds DEF PublicationInv
<1>2. (\A c \in Clients \ disturbed : Finishes(c) => Ends(c)) <=> (\A c \in Clients \ disturbed : Finishes(c) =>
        /\ \A n \in Routed(c) : n \in noteRow' /\ (row'[n] = local[c][n] \/ Later(n, local[c][n]))
        /\ InScope(row', route[c]) \subseteq Routed(c))
  BY DEF Ends
<1>. QED  BY <1>1, <1>2, InitTyped, InitPublication, PTL DEF Spec, Published
=============================================================================
