------------------------------ MODULE DeckSync ------------------------------
(***************************************************************************)
(* Decks and the cards that lie in them.  A pass (sync_content_once)       *)
(* applies the tombstones of decks, deduces which decks the user deleted,  *)
(* and reconciles decks before cards.  A deck that has another path here   *)
(* than on the server and the same cards in both is offered to the user as *)
(* one difference (namespace_compare), and publishing it moves the server's*)
(* deck (push_selected_client_state): a deck, then its cards, then the     *)
(* deletion of the old path.                                               *)
(*                                                                         *)
(* Abstracted: a note has one card and is deleted with it (ScopedSync has  *)
(* them apart); a pulled card is created in its deck (CardSync has what a  *)
(* stop in between does); the configurations of decks, which are reconciled*)
(* as the contents of notes are (ContentSync); all decks are synced; cards *)
(* that were only generated (CardSync), so that no collection with a card  *)
(* is restored; a deck called Default, which is not pushed while empty; a  *)
(* path has at most two parts; the pulls and pushes of the card phase are  *)
(* one step, and no request a client gives up on is executed later         *)
(* (CardSync has both).  newest_wins is on.                                *)
(***************************************************************************)
EXTENDS Naturals

CONSTANTS
  Cards, Clients, Decks,
  Parent,       \* the deck above a deck
  Top, NoCard,
  Publishers,   \* bound: the clients whose users create empty decks, rename decks and publish
  MaxTime,      \* bound on modification times
  MaxEvents     \* bound on what users do and on the failures of a behaviour

Times == 1..MaxTime
Version == [deck : Decks, time : Times]

ASSUME DeckConstants ==
  /\ Top \notin Decks
  /\ Parent \in [Decks -> Decks \cup {Top}]
  /\ \A d \in Decks : Parent[d] \in Decks => Parent[Parent[d]] = Top
  /\ NoCard \notin Version
  /\ Publishers \subseteq Clients
  /\ MaxTime \in Nat \ {0}
  /\ MaxEvents \in Nat

VARIABLES
  deckRow,     \* the decks the server has
  row,         \* its cards
  deckStones, cardStones,  \* its tombstones
  decks,       \* per client, its decks
  cards,       \* per client, its cards
  snapshot,    \* per client, the decks and cards of its last finished pass
  pc,          \* where the client is in a pass or a publication
  seen,        \* the cards of the manifest it goes by
  deckTodo,    \* decks it has yet to delete, or to reconcile
  cardTodo,    \* cards it has yet to delete
  moving,      \* the old and new path of the deck it publishes
  events,      \* number of users' acts and failures so far
  deleted,     \* history: cards a user deleted
  removed,     \* history: decks a user deleted, renamed or published under another path
  swept,       \* history: cards Anki removed with the parent of their deck
  disturbed    \* history: publications during which another client wrote

serverVars == <<deckRow, row, deckStones, cardStones>>
clientVars == <<decks, cards, snapshot>>
passVars == <<pc, seen, deckTodo, cardTodo, moving>>
userVars == <<events, deleted, removed>>
vars == <<serverVars, clientVars, passVars, userVars, swept, disturbed>>

NoCards == [k \in Cards |-> NoCard]
NoSnapshot == [saved |-> FALSE, decks |-> {}, cards |-> {}]
NoMove == [old |-> Top, new |-> Top]
Present(versions) == {k \in Cards : versions[k] # NoCard}
Members(versions, ds) == {k \in Present(versions) : versions[k].deck \in ds}

(* Mutant: a deck is created without the decks above it.                    *)
DeckOnly(d) == {d}

(* Anki creates a deck with its parent, and removes it with its children.   *)
Path(d) == {d} \cup ({Parent[d]} \ {Top})
Tree(d) == {d} \cup {e \in Decks : Parent[e] = d}

Without(versions, gone) == [k \in Cards |-> IF k \in gone THEN NoCard ELSE versions[k]]

Init ==
  /\ deckRow = {}
  /\ row = NoCards
  /\ deckStones = {} /\ cardStones = {}
  /\ decks = [c \in Clients |-> {}]
  /\ cards = [c \in Clients |-> NoCards]
  /\ snapshot = [c \in Clients |-> NoSnapshot]
  /\ pc = [c \in Clients |-> "idle"]
  /\ seen = [c \in Clients |-> NoCards]
  /\ deckTodo = [c \in Clients |-> {}]
  /\ cardTodo = [c \in Clients |-> {}]
  /\ moving = [c \in Clients |-> NoMove]
  /\ events = 0
  /\ deleted = {} /\ removed = {} /\ swept = {}
  /\ disturbed = {}

-----------------------------------------------------------------------------
(* What the user does between passes.                                       *)

Act(c) ==
  /\ pc[c] = "idle"
  /\ events < MaxEvents
  /\ events' = events + 1

Local(c) == Act(c) /\ UNCHANGED <<serverVars, snapshot, passVars, swept, disturbed>>

AddDeck(c, d) ==
  /\ d \notin decks[c]
  /\ Local(c)
  /\ decks' = [decks EXCEPT ![c] = @ \cup Path(d)]
  /\ UNCHANGED <<cards, deleted, removed>>

(* A new card, or one that is moved or studied.                             *)
PutCardIn(c, k, d, time) ==
  /\ cards[c][k] = NoCard => row[k] = NoCard /\ \A e \in Clients : cards[e][k] = NoCard
  /\ Local(c)
  /\ cards' = [cards EXCEPT ![c][k] = [deck |-> d, time |-> time]]
  /\ decks' = [decks EXCEPT ![c] = @ \cup Path(d)]
  /\ UNCHANGED <<deleted, removed>>

(* A deck is renamed; its cards keep their times.                           *)
RenameDeck(c, old, new) ==
  /\ Tree(old) \cap decks[c] = {old}
  /\ new \notin decks[c] \cup Tree(old)
  /\ Local(c)
  /\ decks' = [decks EXCEPT ![c] = (@ \ {old}) \cup Path(new)]
  /\ cards' = [cards EXCEPT ![c] =
       [k \in Cards |-> IF k \in Members(@, {old}) THEN [@[k] EXCEPT !.deck = new] ELSE @[k]]]
  /\ removed' = removed \cup {old}
  /\ UNCHANGED deleted

DeleteDeck(c, d) ==
  /\ d \in decks[c]
  /\ Local(c)
  /\ decks' = [decks EXCEPT ![c] = @ \ Tree(d)]
  /\ cards' = [cards EXCEPT ![c] = Without(@, Members(@, Tree(d)))]
  /\ removed' = removed \cup Tree(d)
  /\ deleted' = deleted \cup Members(cards[c], Tree(d))

-----------------------------------------------------------------------------
(* What the server does with requests.                                      *)

Publishing == {"pushDeck", "pushCards", "deleteOld"}
Disturb(c) == disturbed' = disturbed \cup {d \in Clients \ {c} : pc[d] \in Publishing}

UpsertDeck(d) ==
  /\ deckRow' = deckRow \cup {d}
  /\ deckStones' = deckStones \ {d}
  /\ UNCHANGED <<row, cardStones>>

DeleteDecks(ds) ==
  /\ deckRow' = deckRow \ ds
  /\ deckStones' = deckStones \cup ds
  /\ UNCHANGED <<row, cardStones>>

DeleteCards(keys) ==
  /\ row' = Without(row, keys)
  /\ cardStones' = cardStones \cup keys
  /\ UNCHANGED <<deckRow, deckStones>>

(* Mutant: a card of the same time is refused.                              *)
OnlyNewer(versions, keys) == {k \in keys : row[k] = NoCard \/ row[k].time < versions[k].time}

(* Newest-wins, whether the push is forced or not.                          *)
Accepted(versions, keys) == {k \in keys : row[k] = NoCard \/ row[k].time <= versions[k].time}

UpsertCards(versions, keys) ==
  LET accepted == Accepted(versions, keys)
  IN  /\ row' = [k \in Cards |-> IF k \in accepted THEN versions[k] ELSE row[k]]
      /\ cardStones' = cardStones \ accepted
      /\ UNCHANGED <<deckRow, deckStones>>

-----------------------------------------------------------------------------
(* The pass.                                                                *)

Goto(c, step) == pc' = [pc EXCEPT ![c] = step]

EndPass(c) ==
  /\ Goto(c, "idle")
  /\ seen' = [seen EXCEPT ![c] = NoCards]
  /\ deckTodo' = [deckTodo EXCEPT ![c] = {}]
  /\ cardTodo' = [cardTodo EXCEPT ![c] = {}]
  /\ moving' = [moving EXCEPT ![c] = NoMove]

GetManifest(c) == seen' = [seen EXCEPT ![c] = row]

(* Mutant: decks the server does not have are not pushed.                   *)
ServerDecks(mine) == deckRow \ mine

(* The decks that only one side has.                                        *)
DecksToSync(mine) == (mine \ deckRow) \cup (deckRow \ mine)

(* A collection without cards that no finished pass is on record for is       *)
(* restored: its own decks are not pushed (prefer_server).                  *)
FreshRestore(c) ==
  /\ snapshot[c] = NoSnapshot
  /\ cards[c] = NoCards /\ row # NoCards

PlannedDecks(c, mine) == IF FreshRestore(c) THEN deckRow \ mine ELSE DecksToSync(mine)

(* apply_tombstones: cards first, then the decks that have no cards of their *)
(* own left.  Removing a deck that is not here counts as applied.          *)
BuriedCards(c) == cardStones \cap snapshot[c].cards \cap Present(cards[c])

(* Mutant: a deck is removed with the cards it still has.                   *)
RemoveAnyway(c) == deckStones \cap snapshot[c].decks

BuriedDecks(c) ==
  {d \in deckStones \cap snapshot[c].decks : Members(cards[c], {d}) \subseteq BuriedCards(c)}

RemovedDecks(c) == UNION {Tree(d) : d \in BuriedDecks(c)}

(* The cards Anki removes with decks below those.                           *)
Sweep(c) == Members(cards[c], RemovedDecks(c) \ BuriedDecks(c)) \ BuriedCards(c)

KeptDecks(c) == decks[c] \ RemovedDecks(c)
KeptCards(c) == Without(cards[c], BuriedCards(c) \cup Members(cards[c], RemovedDecks(c)))

(* compute_local_deletes, but for what a tombstone has just removed, limited *)
(* to what the server has.                                                 *)
MissingCards(c) == ((snapshot[c].cards \ Present(KeptCards(c))) \ BuriedCards(c)) \cap Present(row)
MissingDecks(c) == ((snapshot[c].decks \ KeptDecks(c)) \ BuriedDecks(c)) \cap deckRow

(* The deletion of a deck needs the user's approval; without it the pass     *)
(* raises DeletionSafetyError.                                             *)
Start(c, approved) ==
  /\ pc[c] = "idle"
  /\ decks' = [decks EXCEPT ![c] = KeptDecks(c)]
  /\ cards' = [cards EXCEPT ![c] = KeptCards(c)]
  /\ swept' = swept \cup Sweep(c)
  /\ IF MissingCards(c) \cup MissingDecks(c) = {}
     THEN /\ GetManifest(c)
          /\ deckTodo' = [deckTodo EXCEPT ![c] = PlannedDecks(c, KeptDecks(c))]
          /\ Goto(c, "decks")
          /\ UNCHANGED cardTodo
     ELSE /\ approved \/ MissingDecks(c) # {}
          /\ IF approved
             THEN /\ cardTodo' = [cardTodo EXCEPT ![c] = MissingCards(c)]
                  /\ deckTodo' = [deckTodo EXCEPT ![c] = MissingDecks(c)]
                  /\ Goto(c, "delete")
             ELSE UNCHANGED <<pc, cardTodo, deckTodo>>
          /\ UNCHANGED seen
  /\ UNCHANGED <<serverVars, snapshot, moving, userVars, disturbed>>

(* A request for the cards, then one for the decks.                         *)
PushLocalDeletes(c) ==
  /\ pc[c] = "delete"
  /\ IF cardTodo[c] # {}
     THEN /\ DeleteCards(cardTodo[c])
          /\ cardTodo' = [cardTodo EXCEPT ![c] = {}]
          /\ Goto(c, IF deckTodo[c] = {} THEN "refresh" ELSE "delete")
          /\ UNCHANGED deckTodo
     ELSE /\ DeleteDecks(deckTodo[c])
          /\ deckTodo' = [deckTodo EXCEPT ![c] = {}]
          /\ Goto(c, "refresh")
          /\ UNCHANGED cardTodo
  /\ Disturb(c)
  /\ UNCHANGED <<clientVars, seen, moving, userVars, swept>>

Refresh(c) ==
  /\ pc[c] = "refresh"
  /\ GetManifest(c)
  /\ deckTodo' = [deckTodo EXCEPT ![c] = DecksToSync(decks[c])]
  /\ Goto(c, "decks")
  /\ UNCHANGED <<serverVars, clientVars, cardTodo, moving, userVars, swept, disturbed>>

(* Deck by deck.  Fetching one that is gone by now ends the pass.           *)
PushDeck(c, d) ==
  /\ d \in decks[c]
  /\ UpsertDeck(d)
  /\ Disturb(c)
  /\ deckTodo' = [deckTodo EXCEPT ![c] = @ \ {d}]
  /\ UNCHANGED <<decks, pc, seen, cardTodo, moving>>

PullDeck(c, d) ==
  /\ d \notin decks[c] /\ d \in deckRow
  /\ decks' = [decks EXCEPT ![c] = @ \cup Path(d)]
  /\ deckTodo' = [deckTodo EXCEPT ![c] = @ \ {d}]
  /\ UNCHANGED <<serverVars, pc, seen, cardTodo, moving, disturbed>>

MissDeck(c, d) ==
  /\ d \notin decks[c] \cup deckRow
  /\ EndPass(c)
  /\ UNCHANGED <<serverVars, decks, disturbed>>

sync_decks_once(c) ==
  /\ pc[c] = "decks"
  /\ \E d \in deckTodo[c] : PushDeck(c, d) \/ PullDeck(c, d) \/ MissDeck(c, d)
  /\ UNCHANGED <<cards, snapshot, userVars, swept>>

(* The cards of both sides that lie in different decks or have other times,  *)
(* by the newer side, which may be neither.                                *)
Both(c) == Present(cards[c]) \cap Present(seen[c])
Conflicts(c) == {k \in Both(c) : cards[c][k].deck # seen[c][k].deck /\ cards[c][k].time = seen[c][k].time}
CardsToPull(c) == (Present(seen[c]) \ Present(cards[c])) \cup {k \in Both(c) : cards[c][k].time < seen[c][k].time}
CardsToPush(c) == (Present(cards[c]) \ Present(seen[c])) \cup {k \in Both(c) : cards[c][k].time > seen[c][k].time}

(* A card is put in its deck, which is created if it is not here.           *)
Pulled(c) == CardsToPull(c) \cap Present(row)

sync_cards_once(c) ==
  /\ pc[c] = "decks" /\ deckTodo[c] = {}
  /\ cards' = [cards EXCEPT ![c] = [k \in Cards |-> IF k \in Pulled(c) THEN row[k] ELSE @[k]]]
  /\ decks' = [decks EXCEPT ![c] = @ \cup UNION {Path(row[k].deck) : k \in Pulled(c)}]
  /\ UpsertCards(cards[c], CardsToPush(c))
  /\ Disturb(c)
  /\ Goto(c, IF Conflicts(c) = {} THEN "save" ELSE "conflict")
  /\ UNCHANGED <<snapshot, seen, deckTodo, cardTodo, moving, userVars, swept>>

CardSyncConflict(c) ==
  /\ pc[c] = "conflict"
  /\ EndPass(c)
  /\ UNCHANGED <<serverVars, clientVars, userVars, swept, disturbed>>

save_state(c) ==
  /\ pc[c] = "save"
  /\ snapshot' = [snapshot EXCEPT ![c] = [saved |-> TRUE, decks |-> decks[c], cards |-> Present(cards[c])]]
  /\ EndPass(c)
  /\ UNCHANGED <<serverVars, decks, cards, userVars, swept, disturbed>>

-----------------------------------------------------------------------------
(* prepare_deck_namespace_comparison: a deck with the same cards here and on *)
(* the server, under two paths that both have a row.                       *)
SameCards(c, old, new) ==
  /\ old # new
  /\ old \in deckRow /\ new \in decks[c]
  /\ Members(row, {old}) = Members(cards[c], {new})
  /\ Members(row, {old}) # {}

(* push_selected_client_state, for such a difference: the path here is made  *)
(* the server's.                                                           *)
PublishNamespace(c, old, new) ==
  /\ SameCards(c, old, new)
  /\ Act(c)
  /\ Goto(c, "pushDeck")
  /\ moving' = [moving EXCEPT ![c] = [old |-> old, new |-> new]]
  /\ removed' = removed \cup {old}
  /\ disturbed' = disturbed \ {c}
  /\ UNCHANGED <<serverVars, clientVars, seen, deckTodo, cardTodo, deleted, swept>>

ForceDeck(c) ==
  /\ pc[c] = "pushDeck"
  /\ UpsertDeck(moving[c].new)
  /\ Disturb(c)
  /\ Goto(c, "pushCards")
  /\ UNCHANGED <<clientVars, seen, deckTodo, cardTodo, moving, userVars, swept>>

ForceCards(c) ==
  /\ pc[c] = "pushCards"
  /\ UpsertCards(cards[c], Members(cards[c], {moving[c].new}))
  /\ Disturb(c)
  /\ Goto(c, "deleteOld")
  /\ UNCHANGED <<clientVars, seen, deckTodo, cardTodo, moving, userVars, swept>>

DeleteOldPath(c) ==
  /\ pc[c] = "deleteOld"
  /\ DeleteDecks({moving[c].old})
  /\ Disturb(c)
  /\ EndPass(c)
  /\ UNCHANGED <<clientVars, userVars, swept>>

(* ... and for one deck or card that differs, of which the user chose what is *)
(* here (the decision and its request are one step).                       *)
PublishDeck(c, d) ==
  /\ (d \in decks[c]) # (d \in deckRow)
  /\ Act(c)
  /\ IF d \in decks[c] THEN UpsertDeck(d) ELSE DeleteDecks({d})
  /\ removed' = IF d \in decks[c] THEN removed ELSE removed \cup {d}
  /\ Disturb(c)
  /\ UNCHANGED <<clientVars, passVars, deleted, swept>>

PublishCard(c, k) ==
  /\ cards[c][k] # row[k]
  /\ Act(c)
  /\ IF cards[c][k] # NoCard THEN UpsertCards(cards[c], {k}) ELSE DeleteCards({k})
  /\ deleted' = IF cards[c][k] # NoCard THEN deleted ELSE deleted \cup {k}
  /\ Disturb(c)
  /\ UNCHANGED <<clientVars, passVars, removed, swept>>

-----------------------------------------------------------------------------
(* A request fails before the server has it, the user stops the client, or it *)
(* crashes.                                                                *)
Fail(c) ==
  /\ pc[c] # "idle"
  /\ events < MaxEvents
  /\ events' = events + 1
  /\ EndPass(c)
  /\ UNCHANGED <<serverVars, clientVars, deleted, removed, swept, disturbed>>

User(c) ==
  \/ \E d \in Decks :
       \/ DeleteDeck(c, d)
       \/ \E k \in Cards, time \in Times : PutCardIn(c, k, d, time)
  \/ /\ c \in Publishers
     /\ \/ \E d \in Decks : AddDeck(c, d) \/ PublishDeck(c, d)
        \/ \E d, e \in Decks : RenameDeck(c, d, e) \/ PublishNamespace(c, d, e)
        \/ \E k \in Cards : PublishCard(c, k)

Pass(c) ==
  \/ \E approved \in BOOLEAN : Start(c, approved)
  \/ PushLocalDeletes(c) \/ Refresh(c) \/ sync_decks_once(c) \/ sync_cards_once(c)
  \/ CardSyncConflict(c) \/ save_state(c) \/ ForceDeck(c) \/ ForceCards(c) \/ DeleteOldPath(c)

Next == \E c \in Clients : User(c) \/ Pass(c) \/ Fail(c)

Spec == Init /\ [][Next]_vars

(* Every client keeps syncing, and its user approves deletions in the end.   *)
FairSpec == Spec /\ \A c \in Clients : WF_vars(Pass(c))

-----------------------------------------------------------------------------
PassSteps == {"idle", "delete", "refresh", "decks", "conflict", "save"} \cup Publishing

(* The variables have their types, a collection has the decks its cards lie  *)
(* in and the decks above its decks (anki_apply.py).                       *)
TypeOK ==
  /\ deckRow \subseteq Decks /\ deckStones \subseteq Decks
  /\ row \in [Cards -> Version \cup {NoCard}] /\ cardStones \subseteq Cards
  /\ decks \in [Clients -> SUBSET Decks]
  /\ cards \in [Clients -> [Cards -> Version \cup {NoCard}]]
  /\ snapshot \in [Clients -> [saved : BOOLEAN, decks : SUBSET Decks, cards : SUBSET Cards]]
  /\ pc \in [Clients -> PassSteps]
  /\ seen \in [Clients -> [Cards -> Version \cup {NoCard}]]
  /\ deckTodo \in [Clients -> SUBSET Decks]
  /\ cardTodo \in [Clients -> SUBSET Cards]
  /\ moving \in [Clients -> [old : Decks, new : Decks] \cup {NoMove}]
  /\ \A c \in Clients : pc[c] \in Publishing => moving[c] # NoMove
  /\ events \in 0..MaxEvents
  /\ deleted \subseteq Cards /\ swept \subseteq Cards /\ removed \subseteq Decks
  /\ disturbed \subseteq Clients
  /\ \A c \in Clients : \A d \in decks[c] : Parent[d] \in decks[c] \cup {Top}
  /\ \A c \in Clients : \A k \in Present(cards[c]) : cards[c][k].deck \in decks[c]

(* A card disappears from the server or a collection only if a user deleted  *)
(* it, or Anki removed it with the parent of its deck; a deck only if a user *)
(* removed it, or a deck above it (sync_state.py compute_local_deletes).    *)
Below(ds) == UNION {Tree(d) : d \in ds}

OnlyUsersRemove ==
  [][/\ \A k \in Cards \ (deleted' \cup swept') :
          /\ row[k] # NoCard => row'[k] # NoCard
          /\ \A c \in Clients : cards[c][k] # NoCard => cards'[c][k] # NoCard
     /\ \A d \in Decks \ Below(removed') :
          /\ d \in deckRow => d \in deckRow'
          /\ \A c \in Clients : d \in decks[c] => d \in decks'[c]]_vars

(* A publication of a path that no other client's request overlaps leaves    *)
(* the server with the new path only, and the cards in it, but for those it *)
(* has in a later version (canonical_sync.py push_selected_client_state).   *)
Finishes(c) == pc[c] = "deleteOld" /\ pc'[c] = "idle" /\ events' = events

NamespaceMoved ==
  [][\A c \in Clients \ disturbed : Finishes(c) =>
       /\ moving[c].new \in deckRow' /\ moving[c].old \notin deckRow'
       /\ \A k \in Members(cards[c], {moving[c].new}) :
            row'[k] # NoCard /\ (row'[k].deck = moving[c].new \/ row'[k].time > cards[c][k].time)]_vars

(* When users stop and failures end, every card of the server lies in a deck *)
(* the server has, and all collections have its decks and cards, unless a   *)
(* card lies in different decks at the same time (DESIGN.md: "keeping       *)
(* independent items consistent across devices").                          *)
Housed == \A k \in Present(row) : row[k].deck \in deckRow

Undecided ==
  \E c \in Clients, k \in Cards :
    /\ cards[c][k] # NoCard /\ row[k] # NoCard
    /\ cards[c][k].deck # row[k].deck /\ cards[c][k].time = row[k].time

EventuallyAgreed ==
  <>[](Undecided \/ (Housed /\ \A c \in Clients : decks[c] = deckRow /\ cards[c] = row))

-----------------------------------------------------------------------------
(* anki_apply.py: delete_deck is to "refuse to delete decks that still       *)
(* contain cards".                                                         *)
RefusesDecksWithCards == swept = {}
=============================================================================
