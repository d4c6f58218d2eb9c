------------------------------ MODULE CardSync ------------------------------
(***************************************************************************)
(* Cards: the server's newest-wins store (cards.go, batch.go) and the      *)
(* client's card pass inside sync_content_once (card_sync.py).             *)
(*                                                                         *)
(* The same card has two identities.  Everybody agrees on (note, template),*)
(* which is what Cards are here; the card id is the moment a collection    *)
(* generated the card and differs between collections.  The server keeps   *)
(* the first writer's id; its deletions, tombstones and pulls go by id,    *)
(* its pushes by the shared identity.                                      *)
(*                                                                         *)
(* A collection that receives a note generates its card by itself, as new  *)
(* and as of now.  The pass therefore treats cards it did not have before  *)
(* as the server's, whatever their time.                                   *)
(*                                                                         *)
(* The items of a push are compared with the row in one statement and      *)
(* written in another, one item at a time; a client that gave up leaves    *)
(* its items to be executed late.                                          *)
(*                                                                         *)
(* Abstracted: a version of a card is the act that made it (its stamp),    *)
(* the time that act was given by its device's clock, the deck, and        *)
(* whether the card was ever studied.  Notes never change and are not      *)
(* deleted (ContentSync has them); a note has other cards, so that         *)
(* deleting one leaves it in place.  Steps that touch only the collection  *)
(* are part of the step before or after them.                              *)
(***************************************************************************)
EXTENDS Naturals

CONSTANTS
  Cards,        \* logical identities: the only card of its note that is modelled
  Clients,
  Author,       \* the client whose user adds the note of each card
  Decks,
  Default,      \* the deck a generated card is put in
  NoCard,
  Gone,         \* the client of an item that nobody waits for
  NewestWins,   \* the newest_wins option, which also decides moves
  MaxEdits,     \* bound on the users' changes and deletions
  MaxTime,      \* bound on modification times
  MaxFailures   \* bound on the failures of a behaviour

(* The user's later actions are numbered; a client generates a card once,    *)
(* when its note is added or pulled, so its name is the stamp of that.     *)
Edits == 1..MaxEdits
Stamps == Edits \cup Clients

Times == 1..MaxTime
Version == [stamp : Stamps, time : Times, deck : Decks, studied : BOOLEAN]
Card == [id : Stamps, version : Version]
Pair == Cards \X Stamps

ASSUME CardConstants ==
  /\ Author \in [Cards -> Clients]
  /\ Default \in Decks
  /\ Clients \cap Edits = {}
  /\ NoCard \notin Card
  /\ Gone \notin Clients
  /\ NewestWins \in BOOLEAN
  /\ MaxEdits \in Nat
  /\ MaxTime \in Nat \ {0}
  /\ MaxFailures \in Nat

VARIABLES
  notes,       \* the notes the server has, by their card
  row,         \* the server's cards
  stones,      \* its card tombstones: the id each deleted card had
  known,       \* per client, its notes
  local,       \* per client, its cards
  snapshot,    \* per client, the card ids of its last finished pass, if one is saved
  pc,          \* where the client is in sync_content_once
  seenNotes,   \* the notes of the manifest it goes by
  seen,        \* the cards of that manifest
  inherit,     \* the cards for which the server is authoritative in this pass
  deletes,     \* the deletions to push
  conflicts,   \* the cards this pass found in conflict
  items,       \* items of push requests the server has not finished
  lateDeletes, \* delete requests whose client is gone
  edits,       \* number of changes and deletions so far
  failures,    \* number of failures so far
  deleted,     \* history: the cards users deleted, with their stamps
  overlapped   \* history: the cards two items were served for at once

serverVars == <<notes, row, stones>>
requestVars == <<items, lateDeletes, overlapped>>
clientVars == <<known, local, snapshot>>
passVars == <<pc, seenNotes, seen, inherit, deletes, conflicts>>
userVars == <<edits, deleted>>
vars == <<serverVars, requestVars, clientVars, passVars, userVars, failures>>

NoCards == [k \in Cards |-> NoCard]
Present(cards) == {k \in Cards : cards[k] # NoCard}
Ids(cards) == {<<k, cards[k].id>> : k \in Present(cards)}
NoSnapshot == [saved |-> FALSE, cards |-> {}]

(* A card nobody has touched since a collection generated it.               *)
New(stamp, time, deck) ==
  [id |-> stamp, version |-> [stamp |-> stamp, time |-> time, deck |-> deck, studied |-> FALSE]]

Init ==
  /\ notes = {}
  /\ row = NoCards
  /\ stones = {}
  /\ known = [c \in Clients |-> {}]
  /\ local = [c \in Clients |-> NoCards]
  /\ snapshot = [c \in Clients |-> NoSnapshot]
  /\ pc = [c \in Clients |-> "idle"]
  /\ seenNotes = [c \in Clients |-> {}]
  /\ seen = [c \in Clients |-> NoCards]
  /\ inherit = [c \in Clients |-> {}]
  /\ deletes = [c \in Clients |-> {}]
  /\ conflicts = [c \in Clients |-> {}]
  /\ items = {}
  /\ lateDeletes = {}
  /\ edits = 0
  /\ failures = 0
  /\ deleted = {}
  /\ overlapped = {}

-----------------------------------------------------------------------------
(* What the user does between passes.                                       *)

UserActs(c) ==
  /\ pc[c] = "idle"
  /\ UNCHANGED <<serverVars, requestVars, snapshot, passVars, failures>>

(* A note is added: its card goes to the deck the user chose.               *)
AddNote(c, k, time, deck) ==
  /\ Author[k] = c
  /\ k \notin known[c]
  /\ UserActs(c)
  /\ known' = [known EXCEPT ![c] = @ \cup {k}]
  /\ local' = [local EXCEPT ![c][k] = New(c, time, deck)]
  /\ UNCHANGED <<edits, deleted>>

NextEdit == edits < MaxEdits /\ edits' = edits + 1

(* The card is studied, or moved to another deck.                           *)
Change(c, k, time, deck, studied) ==
  /\ local[c][k] # NoCard
  /\ \/ studied /\ deck = local[c][k].version.deck
     \/ deck # local[c][k].version.deck /\ studied = local[c][k].version.studied
  /\ UserActs(c)
  /\ NextEdit
  /\ local' = [local EXCEPT ![c][k].version = [stamp |-> edits + 1, time |-> time, deck |-> deck, studied |-> studied]]
  /\ UNCHANGED <<known, deleted>>

(* The template no longer generates the card (Empty Cards).                 *)
DeleteCard(c, k) ==
  /\ local[c][k] # NoCard
  /\ UserActs(c)
  /\ NextEdit
  /\ local' = [local EXCEPT ![c][k] = NoCard]
  /\ deleted' = deleted \cup {<<k, local[c][k].version.stamp>>}
  /\ UNCHANGED known

-----------------------------------------------------------------------------
(* What the server does with a request.                                     *)

Item == [client : Clients \cup {Gone}, card : Cards, id : Stamps, version : Version, loaded : BOOLEAN]

(* Mutant: an older card may replace a newer one.                           *)
NoComparison(item) == TRUE

(* loadCardLogical: a stored card that is newer is kept.                    *)
Newer(item) == row[item.card] = NoCard \/ row[item.card].version.time <= item.version.time

LoadCard(item) ==
  /\ ~item.loaded
  /\ IF Newer(item)
     THEN LET id == IF row[item.card] = NoCard THEN item.id ELSE row[item.card].id
          IN  items' = (items \ {item}) \cup {[item EXCEPT !.id = id, !.loaded = TRUE]}
     ELSE items' = items \ {item}
  /\ overlapped' = IF \E other \in items : other.loaded /\ other.card = item.card
                   THEN overlapped \cup {item.card}
                   ELSE overlapped
  /\ UNCHANGED <<serverVars, lateDeletes, clientVars, passVars, userVars, failures>>

(* A stored row keeps its id; the tombstone of that id is cleared.          *)
upsertCard(item) ==
  /\ item.loaded
  /\ LET id == IF row[item.card] = NoCard THEN item.id ELSE row[item.card].id
     IN  /\ row' = [row EXCEPT ![item.card] = [id |-> id, version |-> item.version]]
         /\ stones' = stones \ {<<item.card, id>>}
  /\ items' = items \ {item}
  /\ UNCHANGED <<notes, overlapped, lateDeletes, clientVars, passVars, userVars, failures>>

DeleteCards(pairs) ==
  /\ row' = [k \in Cards |-> IF row[k] # NoCard /\ <<k, row[k].id>> \in pairs THEN NoCard ELSE row[k]]
  /\ stones' = stones \cup pairs
  /\ UNCHANGED notes

-----------------------------------------------------------------------------
(* The pass.                                                                *)

Goto(c, step) == pc' = [pc EXCEPT ![c] = step]

(* Mutant: the conflicts of a pass are kept for the next one.                *)
ConflictsKept(c) ==
  /\ Goto(c, "idle")
  /\ seenNotes' = [seenNotes EXCEPT ![c] = {}]
  /\ seen' = [seen EXCEPT ![c] = NoCards]
  /\ inherit' = [inherit EXCEPT ![c] = {}]
  /\ deletes' = [deletes EXCEPT ![c] = {}]
  /\ UNCHANGED conflicts

EndPass(c) ==
  /\ Goto(c, "idle")
  /\ seenNotes' = [seenNotes EXCEPT ![c] = {}]
  /\ seen' = [seen EXCEPT ![c] = NoCards]
  /\ inherit' = [inherit EXCEPT ![c] = {}]
  /\ deletes' = [deletes EXCEPT ![c] = {}]
  /\ conflicts' = [conflicts EXCEPT ![c] = {}]

(* The manifest's notes, cards and tombstones are read one after the other;  *)
(* after deletions it is fetched again, without a use for its tombstones.  *)
ReadNotes(c) ==
  /\ pc[c] \in {"idle", "refresh"}
  /\ seenNotes' = [seenNotes EXCEPT ![c] = notes]
  /\ Goto(c, IF pc[c] = "idle" THEN "cards" ELSE "cardsAgain")
  /\ UNCHANGED <<serverVars, requestVars, clientVars, seen, inherit, deletes, conflicts, userVars, failures>>

ReadCards(c) ==
  /\ pc[c] \in {"cards", "cardsAgain"}
  /\ seen' = [seen EXCEPT ![c] = row]
  /\ Goto(c, IF pc[c] = "cards" THEN "stones" ELSE "notes")
  /\ UNCHANGED <<serverVars, requestVars, clientVars, seenNotes, inherit, deletes, conflicts, userVars, failures>>

(* The collection after the tombstones of ids this client had at its last    *)
(* finished pass.                                                          *)
Kept(c) ==
  [k \in Cards |->
     IF local[c][k] # NoCard /\ <<k, local[c][k].id>> \in stones \cap snapshot[c].cards
     THEN NoCard
     ELSE local[c][k]]

(* Mutant: what was not here at the last finished pass is missing too.       *)
NotHere(c) == Ids(seen[c]) \ Ids(local[c])

(* Ids of the snapshot that are missing here, that no tombstone has just     *)
(* removed, and that the server still has.                                 *)
compute_local_deletes(c) == (snapshot[c].cards \ Ids(local[c])) \cap Ids(seen[c])

(* No finished pass is on record (one that finished has recorded at least the *)
(* default deck), and everything here came from the server and was never    *)
(* studied: the server is restored.                                        *)
FreshRestore(c, cards) ==
  /\ snapshot[c] = NoSnapshot
  /\ seenNotes[c] # {} \/ Present(seen[c]) # {}
  /\ known[c] \subseteq seenNotes[c]
  /\ \A k \in Present(cards) : k \in Present(seen[c]) /\ ~cards[k].version.studied

(* Cards for which the server is authoritative: those that are not here      *)
(* before notes are pulled, or all of them.                                *)
Inherited(c) == IF FreshRestore(c, Kept(c)) THEN Cards ELSE Present(seen[c]) \ Present(Kept(c))

apply_tombstones(c) ==
  /\ pc[c] = "stones"
  /\ local' = [local EXCEPT ![c] = Kept(c)]
  /\ inherit' = [inherit EXCEPT ![c] = Inherited(c)]
  /\ deletes' = [deletes EXCEPT ![c] = compute_local_deletes(c)]
  /\ Goto(c, IF compute_local_deletes(c) = {} THEN "notes" ELSE "delete")
  /\ UNCHANGED <<serverVars, requestVars, known, snapshot, seenNotes, seen, conflicts, userVars, failures>>

PushLocalDeletes(c) ==
  /\ pc[c] = "delete"
  /\ DeleteCards(deletes[c])
  /\ deletes' = [deletes EXCEPT ![c] = {}]
  /\ Goto(c, "refresh")
  /\ UNCHANGED <<requestVars, clientVars, seenNotes, seen, inherit, conflicts, userVars, failures>>

(* Notes are pulled, which generates their cards, and the server gets those  *)
(* it lacks; nothing about the cards depends on the order.                 *)
sync_notes_once(c) ==
  /\ pc[c] = "notes"
  /\ LET new == seenNotes[c] \ known[c]
     IN  /\ known' = [known EXCEPT ![c] = @ \cup new]
         /\ \E time \in Times :
              local' = [local EXCEPT ![c] = [k \in Cards |-> IF k \in new THEN New(c, time, Default) ELSE @[k]]]
  /\ notes' = notes \cup known[c]
  /\ seenNotes' = [seenNotes EXCEPT ![c] = {}]
  /\ Goto(c, "plan")
  /\ UNCHANGED <<row, stones, requestVars, snapshot, seen, inherit, deletes, conflicts, userVars, failures>>

-----------------------------------------------------------------------------
newest_side(mine, theirs) ==
  CASE mine.time > theirs.time -> "local"
    [] mine.time < theirs.time -> "server"
    [] OTHER -> "none"

SameDeck(c, k) == local[c][k].version.deck = seen[c][k].version.deck

(* _looks_like_interrupted_server_pull: an untouched card in the default     *)
(* deck, which the server has elsewhere.                                   *)
LooksInterrupted(c, k) ==
  /\ NewestWins
  /\ ~SameDeck(c, k)
  /\ local[c][k] = New(local[c][k].id, local[c][k].version.time, Default)

Decides(c, k) == NewestWins \/ SameDeck(c, k)

Shared(c) == (Present(local[c]) \cap Present(seen[c])) \ inherit[c]

Winner(c, side) ==
  {k \in Shared(c) : ~LooksInterrupted(c, k) /\ Decides(c, k)
                       /\ newest_side(local[c][k].version, seen[c][k].version) = side}

CardsToPull(c) ==
  (Present(seen[c]) \ Shared(c)) \cup Winner(c, "server") \cup {k \in Shared(c) : LooksInterrupted(c, k)}

(* Mutant: a card the server has is never pushed.                           *)
OnlyLocal(c) == Present(local[c]) \ (Present(seen[c]) \cup inherit[c])

CardsToPush(c) == (Present(local[c]) \ (Present(seen[c]) \cup inherit[c])) \cup Winner(c, "local")

(* Moves no time decides.                                                   *)
MovesInConflict(c) ==
  {k \in Shared(c) : ~SameDeck(c, k) /\ ~LooksInterrupted(c, k)
                       /\ k \notin Winner(c, "local") \cup Winner(c, "server")}

(* batch_pull finds a card by the id of the manifest.                       *)
Pulled(c) ==
  {k \in CardsToPull(c) : row[k] # NoCard /\ row[k].id = seen[c][k].id /\ local[c][k] # NoCard}

ItemsOf(c) ==
  {[client |-> c, card |-> k, id |-> local[c][k].id, version |-> local[c][k].version, loaded |-> FALSE] :
     k \in CardsToPush(c)}

(* apply_card updates each pulled card, or an exception skips it; then the   *)
(* push is sent.  Nothing goes by the manifest any more.                   *)
sync_cards_once(c) ==
  /\ pc[c] = "plan"
  /\ \E skipped \in SUBSET Pulled(c) :
       /\ failures' = IF skipped = {} THEN failures ELSE failures + 1
       /\ failures' <= MaxFailures
       /\ local' = [local EXCEPT ![c] =
            [k \in Cards |-> IF k \in Pulled(c) \ skipped THEN [@[k] EXCEPT !.version = row[k].version] ELSE @[k]]]
  /\ items' = items \cup ItemsOf(c)
  /\ conflicts' = [conflicts EXCEPT ![c] = MovesInConflict(c)]
  /\ seen' = [seen EXCEPT ![c] = NoCards]
  /\ inherit' = [inherit EXCEPT ![c] = {}]
  /\ Goto(c, "answer")
  /\ UNCHANGED <<serverVars, overlapped, lateDeletes, known, snapshot, seenNotes, deletes, userVars>>

Answered(c) == pc[c] = "answer" /\ \A item \in items : item.client # c

CardSyncConflict(c) ==
  /\ Answered(c)
  /\ conflicts[c] # {}
  /\ EndPass(c)
  /\ UNCHANGED <<serverVars, requestVars, clientVars, userVars, failures>>

(* Reviews and media are done: the snapshot is saved.                       *)
save_state(c) ==
  /\ Answered(c)
  /\ conflicts[c] = {}
  /\ snapshot' = [snapshot EXCEPT ![c] = [saved |-> TRUE, cards |-> Ids(local[c])]]
  /\ EndPass(c)
  /\ UNCHANGED <<serverVars, requestVars, known, local, userVars, failures>>

-----------------------------------------------------------------------------
(* Failures.                                                                *)

(* The pass stops: another phase raises, a request times out, or the program *)
(* ends.  What was sent may still be executed.                             *)
Fail(c) ==
  /\ failures < MaxFailures
  /\ failures' = failures + 1
  /\ pc[c] # "idle"
  /\ lateDeletes' = IF pc[c] = "delete" THEN lateDeletes \cup {deletes[c]} ELSE lateDeletes
  /\ items' = {[item EXCEPT !.client = IF @ = c THEN Gone ELSE @] : item \in items}
  /\ EndPass(c)
  /\ UNCHANGED <<serverVars, overlapped, clientVars, userVars>>

LoseSnapshot(c) ==
  /\ failures < MaxFailures
  /\ failures' = failures + 1
  /\ pc[c] = "idle"
  /\ snapshot[c] # NoSnapshot
  /\ snapshot' = [snapshot EXCEPT ![c] = NoSnapshot]
  /\ UNCHANGED <<serverVars, requestVars, known, local, passVars, userVars>>

LateDelete(pairs) ==
  /\ lateDeletes' = lateDeletes \ {pairs}
  /\ DeleteCards(pairs)
  /\ UNCHANGED <<items, overlapped, clientVars, passVars, userVars, failures>>

(* A request nobody waits for never arrives, or ends before its items do.   *)
Lose ==
  /\ \/ \E item \in items : item.client = Gone /\ items' = items \ {item} /\ UNCHANGED lateDeletes
     \/ \E pairs \in lateDeletes : lateDeletes' = lateDeletes \ {pairs} /\ UNCHANGED items
  /\ UNCHANGED <<serverVars, overlapped, clientVars, passVars, userVars, failures>>

-----------------------------------------------------------------------------
User(c) ==
  \E k \in Cards :
    \/ DeleteCard(c, k)
    \/ \E time \in Times, deck \in Decks :
         AddNote(c, k, time, deck) \/ \E studied \in BOOLEAN : Change(c, k, time, deck, studied)

Pass(c) ==
  \/ ReadNotes(c) \/ ReadCards(c) \/ apply_tombstones(c) \/ PushLocalDeletes(c)
  \/ sync_notes_once(c) \/ sync_cards_once(c) \/ CardSyncConflict(c) \/ save_state(c)

Serve(item) == LoadCard(item) \/ upsertCard(item)

Next ==
  \/ \E c \in Clients : User(c) \/ Pass(c) \/ Fail(c) \/ LoseSnapshot(c)
  \/ \E item \in items : Serve(item)
  \/ \E pairs \in lateDeletes : LateDelete(pairs)
  \/ Lose

Spec == Init /\ [][Next]_vars

(* Every client keeps syncing: a pass takes its next step or, where it waits *)
(* for an answer, the server executes what it waits for.                   *)
ServeFor(c) == \E item \in items : item.client = c /\ Serve(item)
Fairness == \A c \in Clients : WF_vars(Pass(c) \/ ServeFor(c))

FairSpec == Spec /\ Fairness

-----------------------------------------------------------------------------
PassSteps == {"idle", "cards", "stones", "delete", "refresh", "cardsAgain", "notes", "plan", "answer"}

(* The variables have their types; a card is only where its note is; a       *)
(* client has deletions and conflicts only while it acts on them, and      *)
(* unfinished items only while it waits (card_sync.py sync_cards_once).    *)
TypeOK ==
  /\ notes \subseteq Cards
  /\ row \in [Cards -> Card \cup {NoCard}]
  /\ stones \subseteq Pair
  /\ known \in [Clients -> SUBSET Cards]
  /\ local \in [Clients -> [Cards -> Card \cup {NoCard}]]
  /\ snapshot \in [Clients -> [saved : BOOLEAN, cards : SUBSET Pair]]
  /\ pc \in [Clients -> PassSteps]
  /\ seenNotes \in [Clients -> SUBSET Cards]
  /\ seen \in [Clients -> [Cards -> Card \cup {NoCard}]]
  /\ inherit \in [Clients -> SUBSET Cards]
  /\ deletes \in [Clients -> SUBSET Pair]
  /\ conflicts \in [Clients -> SUBSET Cards]
  /\ items \subseteq Item
  /\ lateDeletes \subseteq SUBSET Pair
  /\ edits \in 0..MaxEdits
  /\ failures \in 0..MaxFailures
  /\ deleted \subseteq Pair
  /\ overlapped \subseteq Cards
  /\ \A c \in Clients :
       /\ Present(local[c]) \subseteq known[c]
       /\ deletes[c] # {} => pc[c] = "delete"
       /\ conflicts[c] # {} => pc[c] = "answer"
       /\ (\E item \in items : item.client = c) => pc[c] = "answer"

Deleted == {k \in Cards : \E stamp \in Stamps : <<k, stamp>> \in deleted}

(* A card no user has deleted stays on the server and in every collection    *)
(* that has it, whichever ids its copies have (content_sync.py, batch.go). *)
OnlyUsersDelete ==
  [][\A k \in Cards \ Deleted' :
       /\ row[k] # NoCard => row'[k] # NoCard
       /\ \A c \in Clients : local[c][k] # NoCard => local'[c][k] # NoCard]_vars

(* What a user studied is only replaced by synchronisation by a later        *)
(* version, and the server's row never goes back in time, although cards   *)
(* are generated with the current time, plans are made from a stale        *)
(* manifest and items are served late; a card that was deleted, or for     *)
(* which two items were served at once, aside (card_sync.py, cards.go).    *)
OnlyLaterReplaces ==
  [][\A k \in Cards \ (Deleted' \cup overlapped') :
       /\ row[k] # NoCard /\ row'[k] # NoCard => row[k].version.time <= row'[k].version.time
       /\ \A c \in Clients :
            (local[c][k] # NoCard /\ local'[c][k] # local[c][k] /\ local[c][k].version.studied /\ edits' = edits)
              => /\ local'[c][k] # NoCard
                 /\ local[c][k].version.time < local'[c][k].version.time]_vars

(* When failures have ended and users stop, every copy of a card is the      *)
(* server's, but for equal times and undecided moves (DESIGN.md: "silent   *)
(* newest-wins").                                                          *)
Agrees(c, k) == local[c][k] # NoCard => row[k] # NoCard /\ row[k].version = local[c][k].version
Undecided(c, k) ==
  /\ local[c][k] # NoCard
  /\ row[k] # NoCard
  /\ \/ local[c][k].version.time = row[k].version.time /\ local[c][k].version # row[k].version
     \/ ~NewestWins /\ local[c][k].version.deck # row[k].version.deck

EventuallyAgreed ==
  <>[](\/ \A c \in Clients, k \in Cards : Agrees(c, k)
       \/ \E c \in Clients, k \in Cards : Undecided(c, k))

-----------------------------------------------------------------------------
(* DESIGN.md: "Newly generated cards from an upstream note pull inherit the  *)
(* upstream card instead of treating generation time as an edit": the card *)
(* a pulled note generated never replaces one that was studied.            *)
Generated(k, version) == version.stamp \in Clients \ {Author[k]}

GeneratedInherits ==
  [][\A k \in Cards :
       (row[k] # NoCard /\ row'[k] # NoCard /\ row[k].version.studied) => ~Generated(k, row'[k].version)]_vars
=============================================================================
