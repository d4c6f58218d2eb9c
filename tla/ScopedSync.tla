----------------------------- MODULE ScopedSync -----------------------------
(***************************************************************************)
(* Synchronising some decks only.  A client routes a set of decks through  *)
(* KelmaSync (deck_names); a pass (sync_content_once) and a publication    *)
(* (push_client_state) compare the cards that lie in those decks here with *)
(* the cards that lie in them on the server, and a note belongs to the     *)
(* decks its cards lie in.  So a note enters and leaves the scope of a     *)
(* client when its card is moved, here or by somebody else, and when the   *)
(* user routes other decks, while deletions are deduced from keys that are *)
(* missing in the scope.                                                   *)
(*                                                                         *)
(* Abstracted: a note has one card, with the same id everywhere; contents  *)
(* (ContentSync) and scheduling do not matter, a card is a deck and a      *)
(* time.  The queries of a manifest, and the pulls and pushes of a phase,  *)
(* are one step (ContentSync, CardSync), a single deletion is too          *)
(* (ContentStore); of the requests a client gives up on, deletions may be  *)
(* executed later and pushes are not (ContentSync and CardSync have those  *)
(* too).  newest_wins is on.                                               *)
(***************************************************************************)
EXTENDS Naturals

CONSTANTS
  Notes, Clients, Decks,
  Default,      \* the deck a generated card is put in
  NoCard,
  Routes,       \* the sets of decks a client may route
  FirstRoute,   \* the route each client starts with
  MaxEdits,     \* bound on what users do
  MaxTime,      \* bound on modification times
  MaxFailures   \* bound on the failures of a behaviour

Times == 1..MaxTime
Version == [deck : Decks, time : Times, fresh : BOOLEAN]
Resource == {"note", "card"} \X Notes

ASSUME ScopeConstants ==
  /\ Default \in Decks
  /\ NoCard \notin Version
  /\ Routes \subseteq SUBSET Decks
  /\ {} \notin Routes
  /\ FirstRoute \in [Clients -> Routes]
  /\ MaxEdits \in Nat
  /\ MaxTime \in Nat \ {0}
  /\ MaxFailures \in Nat

VARIABLES
  noteRow,    \* the notes the server has
  row,        \* its cards
  stones,     \* its tombstones
  local,      \* per client, its cards, each with its note
  route,      \* per client, the decks it routes
  snapshot,   \* per client, route and keys of the last finished pass
  pc,         \* where the client is in a pass or a publication
  seenNotes,  \* the notes of the manifest it goes by, in its scope
  seen,       \* the cards of that manifest, in its scope
  inherit,    \* the cards for which the server is authoritative in this pass
  deletes,    \* the deletions it has yet to send
  late,       \* delete requests whose client has given up
  edits,      \* number of users' acts so far
  failures,   \* number of failures so far
  deleted,    \* history: notes a user deleted, or published a scope without
  left,       \* history: notes that left the scope of a client's snapshot
  disturbed   \* history: publications during which another client wrote

serverVars == <<noteRow, row, stones>>
clientVars == <<local, route, snapshot>>
passVars == <<pc, seenNotes, seen, inherit, deletes>>
userVars == <<edits, deleted>>
vars == <<serverVars, clientVars, passVars, late, userVars, failures, left, disturbed>>

NoCards == [n \in Notes |-> NoCard]
Present(cards) == {n \in Notes : cards[n] # NoCard}

(* _in_scope, _deck_ids_for_names: the cards that lie in these decks.       *)
InScope(cards, decks) == {n \in Present(cards) : cards[n].deck \in decks}
Routed(c) == InScope(local[c], route[c])

New(deck, time) == [deck |-> deck, time |-> time, fresh |-> TRUE]
NoSnapshot == [route |-> {}, keys |-> {}]

Init ==
  /\ noteRow = {}
  /\ row = NoCards
  /\ stones = {}
  /\ local = [c \in Clients |-> NoCards]
  /\ route = FirstRoute
  /\ snapshot = [c \in Clients |-> NoSnapshot]
  /\ pc = [c \in Clients |-> "idle"]
  /\ seenNotes = [c \in Clients |-> {}]
  /\ seen = [c \in Clients |-> NoCards]
  /\ inherit = [c \in Clients |-> {}]
  /\ deletes = [c \in Clients |-> {}]
  /\ late = {}
  /\ edits = 0
  /\ failures = 0
  /\ deleted = {}
  /\ left = {}
  /\ disturbed = {}

(* The cards of client c become cards: what was in the scope of its last      *)
(* snapshot and now lies elsewhere has left it.                             *)
Leaving(c, cards) ==
  {n \in InScope(local[c], snapshot[c].route) : cards[n] # NoCard /\ cards[n].deck \notin snapshot[c].route}

SetLocal(c, cards) ==
  /\ local' = [local EXCEPT ![c] = cards]
  /\ left' = left \cup Leaving(c, cards)

-----------------------------------------------------------------------------
(* What the user does between passes.                                       *)

UserActs(c) ==
  /\ pc[c] = "idle"
  /\ edits < MaxEdits
  /\ edits' = edits + 1
  /\ UNCHANGED <<serverVars, snapshot, passVars, late, failures, disturbed>>

AddNote(c, n, deck, time) ==
  /\ n \notin noteRow /\ row[n] = NoCard
  /\ \A d \in Clients : local[d][n] = NoCard
  /\ UserActs(c)
  /\ SetLocal(c, [local[c] EXCEPT ![n] = New(deck, time)])
  /\ UNCHANGED <<route, deleted>>

(* The card is moved or, in the same deck, studied.                         *)
Change(c, n, deck, time) ==
  /\ local[c][n] # NoCard
  /\ UserActs(c)
  /\ SetLocal(c, [local[c] EXCEPT ![n] = [deck |-> deck, time |-> time, fresh |-> FALSE]])
  /\ UNCHANGED <<route, deleted>>

DeleteNote(c, n) ==
  /\ local[c][n] # NoCard
  /\ UserActs(c)
  /\ SetLocal(c, [local[c] EXCEPT ![n] = NoCard])
  /\ deleted' = deleted \cup {n}
  /\ UNCHANGED route

Reroute(c, decks) ==
  /\ decks # route[c]
  /\ UserActs(c)
  /\ route' = [route EXCEPT ![c] = decks]
  /\ UNCHANGED <<local, left, deleted>>

-----------------------------------------------------------------------------
(* What the server does with requests.                                      *)

(* A request of client c is executed while others publish.                  *)
Publishing == {"withdraw", "publishNotes", "publishCards"}
Disturb(c) == disturbed' = disturbed \cup {d \in Clients \ {c} : pc[d] \in Publishing}

(* DELETE of these resources, each with its tombstone.                      *)
Delete(resources) ==
  /\ noteRow' = {n \in noteRow : <<"note", n>> \notin resources}
  /\ row' = [n \in Notes |-> IF <<"card", n>> \in resources THEN NoCard ELSE row[n]]
  /\ stones' = stones \cup resources

UpsertNotes(notes) ==
  /\ noteRow' = noteRow \cup notes
  /\ stones' = stones \ ({"note"} \X notes)
  /\ UNCHANGED row

(* Newest-wins, whether the push is forced or not (batch.go asks for force    *)
(* only after it has skipped the older items).                             *)
Accepted(cards, keys) == {n \in keys : row[n] = NoCard \/ row[n].time <= cards[n].time}

UpsertCards(cards, keys) ==
  LET accepted == Accepted(cards, keys)
  IN  /\ row' = [n \in Notes |-> IF n \in accepted THEN cards[n] ELSE row[n]]
      /\ stones' = stones \ ({"card"} \X accepted)
      /\ UNCHANGED noteRow

-----------------------------------------------------------------------------
(* The pass.                                                                *)

Goto(c, step) == pc' = [pc EXCEPT ![c] = step]

(* Mutant: the deletions of a pass that stops are kept.                     *)
EndKeeping(c) ==
  /\ Goto(c, "idle")
  /\ seenNotes' = [seenNotes EXCEPT ![c] = {}]
  /\ seen' = [seen EXCEPT ![c] = NoCards]
  /\ inherit' = [inherit EXCEPT ![c] = {}]
  /\ deletes' = deletes

EndPass(c) ==
  /\ Goto(c, "idle")
  /\ seenNotes' = [seenNotes EXCEPT ![c] = {}]
  /\ seen' = [seen EXCEPT ![c] = NoCards]
  /\ inherit' = [inherit EXCEPT ![c] = {}]
  /\ deletes' = [deletes EXCEPT ![c] = {}]

(* _scope_server_manifest_to_decks: the routed cards and their notes.       *)
ScopedCards(c) == InScope(row, route[c])
ScopedNotes(c) == noteRow \cap ScopedCards(c)

GetManifest(c) ==
  /\ seenNotes' = [seenNotes EXCEPT ![c] = ScopedNotes(c)]
  /\ seen' = [seen EXCEPT ![c] = [n \in Notes |-> IF n \in ScopedCards(c) THEN row[n] ELSE NoCard]]

(* Mutant: the keys of a snapshot count whatever the route was.             *)
AnyRoute(c) == snapshot[c].keys

(* The keys of the snapshot, if it was taken with the same route.           *)
Baseline(c) == IF snapshot[c].route = route[c] THEN snapshot[c].keys ELSE {}

(* Tombstones of keys of the baseline remove the note, wherever it is now;   *)
(* a note without its card goes too.                                       *)
Buried(c, type) == {n \in Baseline(c) \cap Present(local[c]) : <<type, n>> \in stones}
Kept(c) == [n \in Notes |-> IF n \in Buried(c, "note") \cup Buried(c, "card") THEN NoCard ELSE local[c][n]]

(* compute_local_deletes, without what a tombstone has just removed, limited *)
(* to the server's scope.                                                  *)
LocalDeletes(c) ==
  LET missing == Baseline(c) \ InScope(Kept(c), route[c])
  IN  ({"note"} \X ((missing \ Buried(c, "note")) \cap ScopedNotes(c)))
      \cup ({"card"} \X ((missing \ (Buried(c, "note") \cup Buried(c, "card"))) \cap ScopedCards(c)))

Start(c) ==
  /\ pc[c] = "idle"
  /\ GetManifest(c)
  /\ SetLocal(c, Kept(c))
  /\ inherit' = [inherit EXCEPT ![c] = ScopedCards(c) \ InScope(Kept(c), route[c])]
  /\ deletes' = [deletes EXCEPT ![c] = LocalDeletes(c)]
  /\ Goto(c, IF LocalDeletes(c) = {} THEN "notes" ELSE "delete")
  /\ UNCHANGED <<serverVars, route, snapshot, late, userVars, failures, disturbed>>

(* A request for the notes, then one for the cards.                         *)
Request(c) ==
  LET notes == deletes[c] \cap ({"note"} \X Notes)
  IN  IF notes # {} THEN notes ELSE deletes[c]

PushLocalDeletes(c) ==
  /\ pc[c] = "delete"
  /\ Delete(Request(c))
  /\ deletes' = [deletes EXCEPT ![c] = @ \ Request(c)]
  /\ Goto(c, IF deletes[c] = Request(c) THEN "refresh" ELSE "delete")
  /\ Disturb(c)
  /\ UNCHANGED <<clientVars, seenNotes, seen, inherit, late, userVars, failures, left>>

Refresh(c) ==
  /\ pc[c] = "refresh"
  /\ GetManifest(c)
  /\ Goto(c, "notes")
  /\ UNCHANGED <<serverVars, clientVars, inherit, deletes, late, userVars, failures, left, disturbed>>

(* The server's notes that are not in the scope here are pulled, which        *)
(* generates the card of a note that is not here at all; the notes only we   *)
(* have in the scope are pushed.                                            *)
sync_notes_once(c) ==
  /\ pc[c] = "notes"
  /\ \E time \in Times :
       SetLocal(c, [n \in Notes |-> IF n \in (seenNotes[c] \cap noteRow) \ Present(local[c])
                                    THEN New(Default, time)
                                    ELSE local[c][n]])
  /\ UpsertNotes(Routed(c) \ seenNotes[c])
  /\ Disturb(c)
  /\ Goto(c, "cards")
  /\ UNCHANGED <<route, snapshot, seenNotes, seen, inherit, deletes, late, userVars, failures>>

-----------------------------------------------------------------------------
newest_side(mine, theirs) ==
  CASE mine.time > theirs.time -> "local"
    [] mine.time < theirs.time -> "server"
    [] OTHER -> "none"

(* Mutant: every card in the default deck looks like one the pass generated. *)
InDefault(c, n) == local[c][n].deck = Default /\ seen[c][n].deck # Default

(* _looks_like_interrupted_server_pull                                      *)
LooksInterrupted(c, n) ==
  /\ local[c][n].fresh
  /\ local[c][n].deck = Default
  /\ seen[c][n].deck # Default

Shared(c) == (Routed(c) \cap Present(seen[c])) \ inherit[c]

Winner(c, side) ==
  {n \in Shared(c) : ~LooksInterrupted(c, n) /\ newest_side(local[c][n], seen[c][n]) = side}

(* Mutant: only cards in the scope here are pulled.                         *)
PullShared(c) == Winner(c, "server") \cup {n \in Shared(c) : LooksInterrupted(c, n)}

CardsToPull(c) ==
  (Present(seen[c]) \ Shared(c)) \cup Winner(c, "server") \cup {n \in Shared(c) : LooksInterrupted(c, n)}

CardsToPush(c) == (Routed(c) \ (Present(seen[c]) \cup inherit[c])) \cup Winner(c, "local")

(* Moves that no time decides.                                              *)
Conflicts(c) ==
  {n \in Shared(c) : /\ ~LooksInterrupted(c, n)
                     /\ local[c][n].deck # seen[c][n].deck
                     /\ local[c][n].time = seen[c][n].time}

(* What is pulled is the server's card of now, whose deck may be any.       *)
sync_cards_once(c) ==
  /\ pc[c] = "cards"
  /\ SetLocal(c, [n \in Notes |-> IF n \in CardsToPull(c) /\ row[n] # NoCard /\ local[c][n] # NoCard
                                  THEN [row[n] EXCEPT !.fresh = FALSE]
                                  ELSE local[c][n]])
  /\ UpsertCards(local[c], CardsToPush(c))
  /\ Disturb(c)
  /\ Goto(c, IF Conflicts(c) = {} THEN "save" ELSE "conflict")
  /\ UNCHANGED <<route, snapshot, seenNotes, seen, inherit, deletes, late, userVars, failures>>

CardSyncConflict(c) ==
  /\ pc[c] = "conflict"
  /\ EndPass(c)
  /\ UNCHANGED <<serverVars, clientVars, late, userVars, failures, left, disturbed>>

save_state(c) ==
  /\ pc[c] = "save"
  /\ snapshot' = [snapshot EXCEPT ![c] = [route |-> route[c], keys |-> Routed(c)]]
  /\ EndPass(c)
  /\ UNCHANGED <<serverVars, local, route, late, userVars, failures, left, disturbed>>

-----------------------------------------------------------------------------
(* push_client_state: the user makes the scope here canonical.  What the     *)
(* server has in the scope and we have not is deleted, cards first, one at  *)
(* a time; then notes and cards are pushed.  No snapshot is saved.         *)

(* Mutant: only what exists here is published.                             *)
PublishUpserts(c) ==
  /\ pc[c] = "idle"
  /\ edits < MaxEdits
  /\ edits' = edits + 1
  /\ GetManifest(c)
  /\ Goto(c, "withdraw")
  /\ disturbed' = disturbed \ {c}
  /\ UNCHANGED <<serverVars, clientVars, inherit, deletes, late, deleted, failures, left>>

Publish(c) ==
  /\ pc[c] = "idle"
  /\ edits < MaxEdits
  /\ edits' = edits + 1
  /\ GetManifest(c)
  /\ LET missing(keys) == keys \ Routed(c)
     IN  /\ deletes' = [deletes EXCEPT ![c] = ({"card"} \X missing(ScopedCards(c)))
                                              \cup ({"note"} \X missing(ScopedNotes(c)))]
         /\ deleted' = deleted \cup missing(ScopedCards(c))
  /\ Goto(c, "withdraw")
  /\ disturbed' = disturbed \ {c}
  /\ UNCHANGED <<serverVars, clientVars, inherit, late, failures, left>>

NextDelete(c) ==
  LET cards == deletes[c] \cap ({"card"} \X Notes)
  IN  IF cards # {} THEN cards ELSE deletes[c]

Withdraw(c) ==
  /\ pc[c] = "withdraw"
  /\ IF deletes[c] = {}
     THEN /\ Goto(c, "publishNotes")
          /\ UNCHANGED <<serverVars, deletes, disturbed>>
     ELSE /\ \E resource \in NextDelete(c) :
               /\ Delete({resource})
               /\ deletes' = [deletes EXCEPT ![c] = @ \ {resource}]
          /\ Disturb(c)
          /\ UNCHANGED pc
  /\ UNCHANGED <<clientVars, seenNotes, seen, inherit, late, userVars, failures, left>>

PublishNotes(c) ==
  /\ pc[c] = "publishNotes"
  /\ UpsertNotes(Routed(c))
  /\ Disturb(c)
  /\ Goto(c, "publishCards")
  /\ UNCHANGED <<clientVars, seenNotes, seen, inherit, deletes, late, userVars, failures, left>>

PublishCards(c) ==
  /\ pc[c] = "publishCards"
  /\ UpsertCards(local[c], Routed(c))
  /\ Disturb(c)
  /\ EndPass(c)
  /\ UNCHANGED <<clientVars, late, userVars, failures, left>>

-----------------------------------------------------------------------------
(* Failures: the pass stops; a deletion it has sent may be executed later     *)
(* (late pushes are in ContentSync and CardSync).                           *)
Fail(c) ==
  /\ pc[c] # "idle"
  /\ failures < MaxFailures
  /\ failures' = failures + 1
  /\ \/ late' = late
     \/ pc[c] = "delete" /\ late' = late \cup {Request(c)}
     \/ pc[c] = "withdraw" /\ \E resource \in NextDelete(c) : late' = late \cup {{resource}}
  /\ EndPass(c)
  /\ UNCHANGED <<serverVars, clientVars, userVars, left, disturbed>>

LateDelete ==
  /\ \E request \in late : Delete(request) /\ late' = late \ {request}
  /\ disturbed' = disturbed \cup {d \in Clients : pc[d] \in Publishing}
  /\ UNCHANGED <<clientVars, passVars, userVars, failures, left>>

-----------------------------------------------------------------------------
User(c) ==
  \/ \E n \in Notes :
       \/ DeleteNote(c, n)
       \/ \E deck \in Decks, time \in Times : AddNote(c, n, deck, time) \/ Change(c, n, deck, time)
  \/ \E decks \in Routes : Reroute(c, decks)
  \/ Publish(c)

Pass(c) ==
  \/ Start(c) \/ PushLocalDeletes(c) \/ Refresh(c) \/ sync_notes_once(c) \/ sync_cards_once(c)
  \/ CardSyncConflict(c) \/ save_state(c) \/ Withdraw(c) \/ PublishNotes(c) \/ PublishCards(c)

Next == LateDelete \/ \E c \in Clients : User(c) \/ Pass(c) \/ Fail(c)

Spec == Init /\ [][Next]_vars

(* Every client keeps syncing.                                              *)
FairSpec == Spec /\ \A c \in Clients : WF_vars(Pass(c))

-----------------------------------------------------------------------------
PassSteps ==
  {"idle", "delete", "refresh", "notes", "cards", "conflict", "save"} \cup Publishing

(* The variables have their types, and a client has deletions only while it  *)
(* sends them (content_sync.py _push_local_deletes).                       *)
TypeOK ==
  /\ noteRow \subseteq Notes
  /\ row \in [Notes -> Version \cup {NoCard}]
  /\ stones \subseteq Resource
  /\ local \in [Clients -> [Notes -> Version \cup {NoCard}]]
  /\ route \in [Clients -> Routes]
  /\ snapshot \in [Clients -> [route : Routes \cup {{}}, keys : SUBSET Notes]]
  /\ pc \in [Clients -> PassSteps]
  /\ seenNotes \in [Clients -> SUBSET Notes]
  /\ seen \in [Clients -> [Notes -> Version \cup {NoCard}]]
  /\ inherit \in [Clients -> SUBSET Notes]
  /\ deletes \in [Clients -> SUBSET Resource]
  /\ late \subseteq SUBSET Resource
  /\ edits \in 0..MaxEdits
  /\ failures \in 0..MaxFailures
  /\ deleted \subseteq Notes
  /\ left \subseteq Notes
  /\ disturbed \subseteq Clients
  /\ \A c \in Clients : deletes[c] # {} => pc[c] \in {"delete", "withdraw"}

(* Whatever routes clients have, change and share, and wherever a pass stops:*)
(* a note disappears from the server or a collection only if a user deleted *)
(* it, published a scope without it, or it left the scope of a client that *)
(* had synced it (content_sync.py: "A route change resets the baseline     *)
(* instead of deleting data in either direction").                         *)
Removable == deleted' \cup left'

OnlyUsersRemove ==
  [][\A n \in Notes \ Removable :
       /\ n \in noteRow => n \in noteRow'
       /\ row[n] # NoCard => row'[n] # NoCard
       /\ \A c \in Clients : local[c][n] # NoCard => local'[c][n] # NoCard]_vars

(* What a user did to a card in the scope of a client is only replaced by a  *)
(* later version, whatever the manifest of the pass missed, the route or    *)
(* its scope have become, or was generated or inherited here, while nobody  *)
(* deletes the note or takes it out (card_sync.py sync_cards_once).         *)
ChangesGiveWayToLater ==
  [][\A c \in Clients, n \in Notes :
       (n \in Routed(c) \ Removable /\ ~local[c][n].fresh /\ edits' = edits /\ local'[c][n] # local[c][n])
         => local'[c][n] # NoCard /\ local[c][n].time < local'[c][n].time]_vars

(* A publication that no other client's request overlaps leaves the server's *)
(* scope as it is here, but for cards the server has in a later version,    *)
(* which the forced push does not replace (canonical_sync.py                *)
(* push_client_state, batch.go BatchPush).                                  *)
Finishes(c) == pc[c] = "publishCards" /\ pc'[c] = "idle" /\ failures' = failures
Later(n, version) == row'[n] # NoCard /\ row'[n].time > version.time

Published ==
  [][\A c \in Clients \ disturbed : Finishes(c) =>
       /\ \A n \in Routed(c) : n \in noteRow' /\ (row'[n] = local[c][n] \/ Later(n, local[c][n]))
       /\ InScope(row', route[c]) \subseteq Routed(c)]_vars

(* When failures have ended and users stop, a client has every note the      *)
(* server has in the decks it routes, in the server's version, unless some  *)
(* card is moved at equal times (DESIGN.md: "silent newest-wins").         *)
Arrived(c) ==
  \A n \in noteRow \cap InScope(row, route[c]) :
    local[c][n] # NoCard /\ local[c][n].deck = row[n].deck /\ local[c][n].time = row[n].time

Undecided ==
  \E c \in Clients, n \in Notes :
    /\ local[c][n] # NoCard /\ row[n] # NoCard
    /\ local[c][n].time = row[n].time /\ local[c][n].deck # row[n].deck

EventuallyArrived == <>[](Undecided \/ \A c \in Clients : Arrived(c))
=============================================================================
