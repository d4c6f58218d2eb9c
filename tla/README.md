# KelmaSync: a TLA+ verification of the sync protocol

KelmaSync keeps Anki collections on several devices in step. A Go server stores
notes, cards, decks, notetypes, reviews, daily study counters and media for each
user in PostgreSQL and a blob store; a Python client library, run inside Anki or
next to it, compares the local collection with the server's *manifest* of
checksums and pulls and pushes what differs. This directory models that
protocol in TLA+, model-checks it with TLC on small instances, and proves the
safety properties that matter most for instances of every size with TLAPS.

Paths below are relative to the repository root; `handler/` is
`internal/handler/` and `client/` is `clients/python/kelma_sync_v2/`.

## 1. Inventory

| component | state it keeps | operations | what is hard about it |
|---|---|---|---|
| Content store (`handler/notes.go`, `decks.go`, `notetypes.go`, `upsert.go`, `tombstone.go`, `batch.go`) | a row per note, deck, notetype; a tombstone per deleted resource | `Put*`, `Delete*`, `BatchPush`, `BatchDelete` (reads: `Get*`, `BatchPull`) | every statement commits on its own, so a checksum comparison and the write it guards, or a row and its tombstone, can be pulled apart; only `BatchDelete` is a transaction, which holds locks |
| Card store (`handler/cards.go`, `batch.go`, `migrations/002`) | card rows by `(note_guid, ord)`, tombstones by `card_id` | `PutCard`, `DeleteCard`, batch items | newest-wins by client time; two identities of one card |
| Review history (`handler/reviews.go`, `client/review_sync.py`, `migrations/004`) | append-only `reviews`; the local revlog with pending flags | union sync in chunks | late requests, collisions of millisecond ids, checksums that depend on whether the card still exists |
| Study days (same files) | greatest counters per day and deck; per deck one `[day, count]` pair of each kind on a device | publish, upsert, write back | devices on different days; partial batches; repeated and late requests |
| Manifest (`handler/manifest.go`) | none | `GetManifest` (full, or changes since a time) | eight queries at eight moments |
| Client content pass (`client/content_sync.py`, `tombstone_sync.py`, `sync_state.py`, `note_sync.py`, `deck_sync.py`, `notetype_sync.py`) | the collection; a snapshot file of the keys of the last finished pass | one pass: tombstones, local deletions, decks, notetypes, notes, cards, reviews, media, snapshot | a deletion is *deduced* from a missing key, so every stopped pass, stale manifest or lost snapshot is a chance to delete what nobody deleted |
| Client card pass (`client/card_sync.py`, `anki_apply.py`, `anki_local.py`) | the collection's cards | pull, push, newest-wins, recovery after an interrupted pull | cards Anki generates by itself look like edits |
| Write times and conflict policy (`handler/upsert.go`, `client/conflict_policy.py`) | none | clamping of client times, `newest_side` | clocks of several machines |
| Media store and pass (`handler/media.go`, `internal/storage/`, `client/media_sync.py`) | media rows, one object per file name, tombstones; each device's media folder | put, get, delete; the client's pass: upload what is not listed, download what is not here | row and object are written apart; a shared temporary file; an upload that is repeated while it goes on |
| Immersion cards (`handler/immersion.go`, `internal/auth/immersion.go`) | notes, cards, media made from a video clip | one post, idempotent by token | media before the transaction, the deck check outside it |
| Accounts and tokens (`handler/auth.go`, `internal.go`, `internal/auth/`) | users, clients, tokens | login, logout, authenticate, internal provisioning | a request in flight over a logout |
| Migrations (`internal/db/migrate.go`, `migrations/`) | `schema_migrations` | apply and record in order | a crash in between, two servers starting |
| Deck routing and decks (`client/content_sync.py`, `deck_sync.py`, `anki_apply.py`) | the route, and with the snapshot the route it was taken for; decks as a tree of paths | limit a manifest to the routed decks; reconcile decks; delete a deck | a note is in scope by the deck its card lies in, so a move looks like a deletion; Anki removes a deck with its children |
| Canonical sync (`client/canonical_sync.py`, `namespace_compare.py`) | none | publish a scope, or chosen differences; move a deck to another path | many requests by one comparison, none of them atomic with the next |
| Planned sync (`client/engine.py`) | a plan on the screen | compare with a whole or delta manifest; push, force, override, accept items | the plan, the manifest's time and its rows are of different moments |
| Full comparison (`client/full_diff.py`, `comparison_cache.py`) | a cache of comparisons | show differences | only reads |
| Checksums (`handler/checksum.go`, `client/checksum_rs.py`, `clients/rust/`) | none | hashing | a function of bytes: out of scope, a checksum is the identity of a content here |
| HTTP plumbing (`handler/handler.go`, `errors.go`, `util.go`, ..., `client/client.py`, `cmd/server`) | none | routing, panics, timeouts | its failures are actions of the models (`Abort`, `Fail`, `Late*`, `Lose`) |

How they interact: a client pass calls the server over HTTP with a 30 s timeout;
a request it gave up on may still be executed, at any later time. The server
runs each request in a goroutine of its own, and the only synchronisation between
two requests is the database's. Clients share nothing but the server. Within a
client, Anki's collection is edited by the user between passes, not during one.

What makes each component correct:

* the store: no version is replaced that the writer had not seen; a resource is
  live or tombstoned; every request is answered;
* reviews: append-only, and nothing a client stops considering pending is missing;
* counters: monotone on a day, never invented, never lowered by syncing;
* the pass: nothing disappears that no user deleted, an edit is only replaced by a
  later one, and collections converge;
* routing and decks: only what left the scope by an act of a user is removed, and every card
  lies in a deck that exists;
* publication: what was chosen is what the server has afterwards;
* plans: nothing is replaced that the user was not shown, and what a delta manifest may leave
  out is known;
* media: what is listed can be downloaded, nobody reads half a file, every device ends
  up with the files its notes refer to.

`PROJECT.json` lists each hazard at its line with the properties aimed at it.

## 2. Modules

| module | models | theorems |
|---|---|---|
| `ItemStore` | abstract: every item of a push and every deletion takes effect at one moment | |
| `ContentStore` | the handlers of notes, decks and notetypes, one action per SQL statement, several workers; implements `ItemStore` | `StoreAndPlan_proofs` |
| `ReviewHistory` | `insertReviews` and the review half of `sync_reviews_once` | `ReviewHistory_proofs` |
| `StudyDays` | `upsertStudyDay` and the counter half of `sync_reviews_once` | `StudyDays_proofs` |
| `ContentSync` | `sync_content_once` for notes: snapshot, tombstones, deduced deletions, planned pulls and pushes, resolutions, against the server's rows and tombstones | `ContentSync_proofs` |
| `CardSync` | the card items of `BatchPush` and `BatchDelete` against the server's card rows, and the card part of `sync_content_once` | `CardSync_proofs` |
| `FileStore` | abstract: an upload or a deletion of a whole file is seen at one moment | |
| `MediaSync` | `PutMedia`, `GetMedia`, `DeleteMedia` over the file system or R2 store, and `sync_media_once`; implements `FileStore` | `MediaSync_proofs` |
| `ScopedSync` | `sync_content_once` for routed decks, changes of the route, `push_client_state` | `ScopedSync_proofs` |
| `DeckSync` | decks and their tombstones in `sync_content_once`, `push_selected_client_state` for paths, decks and cards | `DeckSync_proofs` |
| `PlannedSync` | `engine.py`, `GetManifest` with `since`, `PutNote`, batch pushes and deletions up to their time stamp and from there to their commit, the server's clock and the database's | `StoreAndPlan_proofs` |
| `MC...` | TLC instances: model values, request sets, symmetry | |

`ContentStore` looks at overlapping requests on single keys; `ContentSync`
takes each item of a request as atomic (the overlaps are `ContentStore`'s) and
looks at what many passes of several clients do. `ItemStore` is the bridge: it says what a
store of atomic items is, and that `ContentStore` implements it is checked and proved.
Between them every state-changing statement on notes is covered at the granularity its
hazards need.
`CardSync` has the same pass for cards, with both views in one module: a card
item's comparison and write are two steps, because newest-wins has no other guard.

### ContentStore and ItemStore

State: `row[k]` is the stored checksum of a key or `Absent`, `stone` the keys with
a tombstone. A worker is a request goroutine: `req`, the item it is `at`, and `pc`,
the next SQL statement. A push runs *load, compare, upsert, clear tombstone* for
each item (`PutNote`, `upsertNote`, `BatchPush`); a delete runs *delete row, write
tombstone*; `BatchDelete` runs the same for all its keys, type by type, in one
transaction, whose locks are `rowsHeld` and `stonesHeld`. Its statements take their
locks one by one: the DELETE of a type finds the rows there are (`TxDeleteRows`, `found`) and
deletes them in whatever order its plan comes to them (`TxDeleteRow`), the INSERT writes the
tombstones in the order in which the request's array names the keys (`order`, `NextStones`,
`TxWriteTombstone`). A statement that needs a
row or tombstone another transaction holds waits (its guard); who waits for itself over others
is failed by PostgreSQL (`BreakDeadlock`). `Abort` is a panic, a
cancelled context or a failed statement. In both the
transaction is rolled back, autocommitted statements stay. `clearTombstoneFails`
is the discarded error of `upsert.go:145`. The history variables `touched`, `raced`
(two pushes of a key overlapped) and `mixed` (a push overlapped a delete, or
a request lost its second statement) let a property say exactly when the code
promises something. `WaitsFor` says at which statements a request waits, and for whom.

`ItemStore` has the same `row`, tombstones and requests, and no statements: `Put` and `Delete`
change a row and its tombstone together. `ContentStore` implements it with the effect of a
request where its first statement on a key is: `Stones` are the tombstones as they will be when
the second statements are done, `Effective` counts the items of a push that have had their
effect, and a batch delete has its effect at the commit. `contended` and `torn` of `ItemStore`
are `raced` and `mixed`; of a torn key the tombstone may be anything and a batch delete may miss the row,
but nothing else is given up.

### ReviewHistory

`server` is the table; per client `local` (fact of each revlog row), `carded` (the
card still exists, so the row knows its guid), `pending` (usn = -1), `unsaved`. A
pass takes a manifest, compares, pulls chunk by chunk, saves, pushes chunk by
chunk, and clears pending flags of the accepted rows. `insertReviews` (INSERT ... ON
CONFLICT DO NOTHING) and `Collisions` (the SELECT that follows) are separate
steps. `Fail` stops a pass anywhere and leaves its request in `late`, from where
it is executed (`Late`) or not (`Lose`). A version is a fact and whether the guid is
missing, because the portable checksum covers the guid.

### StudyDays

`server[day][deck][field]` is the table, `counter[c][deck][field]` the `[day, count]`
pair Anki keeps, `today[c]` the device's day. `Publish` sends the day record each
deck has, `Upsert` stores one row of the batch (the greatest of each counter),
`Accepted` collects the records known, `Apply` writes back the merged record of the
latest day.

### ContentSync

`row` and `stones` are the server; `local`, `snapshot`, `conflicted` each client;
`pc`, `seen`, `gone`, `plan` the pass. A note is the number of the edit that wrote it
(0: no note), so a content never returns and the number is also the checksum;
`timeOf` gives each edit its modification time, arbitrary and so possibly equal
or in the other order (clocks differ). The pass is
`ReadNotes; ReadTombstones; apply_tombstones; [PushLocalDeletes; Refresh]; PlanNotes;
[LookUp]; PullNotes; PushNotes; save_state`, with `DeletionSafetyError` and `Fail`
leaving it without a snapshot. Between passes users create, edit and delete notes
and resolve conflicts (`force_local_note`, `accept_server_note`). Cards, reviews and
media, whose phases follow the notes, appear as the step `rest`, which may fail.

### CardSync

A card is known to all as (note, template), the elements of `Cards`, but its `id`
is the moment its collection generated it, so each client has its own (here the
client's name). `row` is the server's card, with the id of the first writer;
`stones` are tombstones of *ids*. A version is the act that made it (`stamp`), the
`time` its device's clock gave it, the deck, and whether the card was ever studied.
`LoadCard` is `loadCardLogical` and the newest-wins test for one item of a push,
`upsertCard` its write; `DeleteCards` is a `BatchDelete` transaction. The pass is
`ReadNotes; ReadCards; apply_tombstones; [PushLocalDeletes; ReadNotes; ReadCards];
sync_notes_once; sync_cards_once; CardSyncConflict or save_state`. `sync_notes_once`
generates the cards of pulled notes, new and as of now; `inherit` are the cards for
which the server is authoritative in this pass (not here before the pull, or all of
them on a fresh restore). `sync_cards_once` plans, pulls by the manifest's id
(`Pulled`), may skip a pulled card, and sends the push, which the server executes
while the client waits, or later if it has given up (`Gone`). `overlapped` is the
history of cards for which two items were between comparison and write at once.

### MediaSync and FileStore

`listed` is the media table, `blob` the object of each file, `temp` the temporary file
that all uploads of a file share in `FS.Put`; `r2` is which store the server was
started with (`cmd/server/main.go`). A slot executes a request, one statement per step:
an upload is `receive; copy; rename; row; clear` (in R2 `receive; row; clear`), a
deletion `take; remove; stone`, a download `find; open`. A slot `<<d, f>>` is a request
that device `d` waits for; `GiveUp` moves it to a slot of `Late`, where it goes on
while `d` tries again. `handle` is where an open file is by now: a writer opened the
temporary file, another upload renames it, and the first goes on writing into the stored
object. `Empty` is a file created and not yet written (what a reader of a file
being written may see), `Broken` the bytes of two writers. `task[d][f]` is what the pass of
`d` has left to do about `f`, `tries` the attempts that failed. A pass plans by one
manifest; uploads come first; a file that ends in `"error"` fails the pass after its
phase. `overlapped` is the history of files that two requests were changing at once.
`Large` are the files above the server's limit.

`FileStore` knows neither rows nor objects: `served[f]` is what a download of `f` gets, and a
request, `Ask`, has its effect on it at one moment, `TakeEffect`, before a success, `Answer`,
can be told; a request that fails (`Refuse`, `Fail`) has none, and one whose client gave up goes on
(`GoOnAlone`). Of files that two requests changed at once (`mixed`) it promises nothing. In
`MediaSync` (`Served`, `Changes`, `Pending`) an upload of a listed file takes effect with its
object, an upload of another with its row, a deletion with the row; a row without its
object would be served as `Broken`, so that `ImplementsFiles` says that there is none.

### ScopedSync

A card is a deck and a time, and a note has one card; `route[c]` are the decks a client
syncs, `InScope` the cards that lie in them, here or on the server. The pass is
`Start` (manifest, tombstones, deduced deletions); `[PushLocalDeletes; Refresh]`;
`sync_notes_once; sync_cards_once; CardSyncConflict or save_state`. `Baseline` is the
snapshot if it was taken for the same route and empty otherwise, which is what
`scope_matches` decides for tombstones and deductions. A publication is
`Publish` (compare); `Withdraw` (one deletion per step, cards first); `PublishNotes;
PublishCards`. The server accepts a card only if it is not older than its own, forced or
not (`batch.go:127`). Between passes users add, move, study and delete, and route other
decks. Histories: `deleted`, what users deleted or withdrew; `left`, what a move took out
of the scope of a snapshot; `disturbed`, publications another request overlapped.

### DeckSync

Decks form a tree of two levels (`Parent`): creating a deck creates the one above,
removing one removes those below (`Path`, `Tree`), which is what Anki does with paths.
`Start` applies tombstones of cards, then of decks without cards of their own
(`BuriedDecks`), deduces deletions, and needs the user's approval for decks;
`FreshRestore` is the pass of a collection without cards for which no snapshot was `saved`
(or it was lost), which pushes no decks. `PushDeck`,
`PullDeck` and `MissDeck` are one turn of the loop of `sync_decks_once` each. `SameCards`
is the pairing of `namespace_compare.py`; `PublishNamespace; ForceDeck; ForceCards;
DeleteOldPath` the publication of a path, `PublishDeck` and `PublishCard` of one item.
`swept` is the history of cards that Anki removed with the deck above theirs.

### PlannedSync

`clock` counts readings of the server's clock (Go's `time.Now()`), `dbClock` of PostgreSQL's
`now()`; each only goes forward, and either may be ahead of the other. A put is compared and
then stamped by `clock` (`AdmitPut`); a batch push is stamped first and compared later (`Stamp`,
`AdmitBatch`); a deletion compares nothing and its tombstone has the reading of `dbClock` with
which its transaction begins (`BeginDelete`). All are stored later (`Commit`). A manifest takes
its time from `clock` at `BeginPlan`, its rows at
`ReadNotes` and is compared at `Compare`; `Listed` are the rows changed since. A plan stays
while its user edits, others write and pushes go on; a push sends the note of now with the
base of the plan (`Send`). `Refuse` is the 409 that makes an item a conflict. `Fail` leaves a request
that is served late or lost. Histories: `shown`, contents a manifest has shown a client;
`doubtful`, notes of which a write stamped by the manifest's time was not yet stored when its rows
were read; `overlapped`, notes with two admitted writes at once; `lagging`, notes with a deletion
stamped by a reading of `dbClock` that the server's clock had passed. A row and its tombstone are
one here; the batches and deletions of the user's other programs (`Elsewhere`) are requests like
the others.

## 3. Runs

| run | question | instance | result |
|---|---|---|---|
| `content_store` | are overlapping pushes, single and batch deletes those of a store of atomic items, do they keep rows and tombstones together, where can requests wait for each other in a circle, is every one answered? | 2 notes, deck, notetype; 2 workers; 3 requests of a set with forced, stale, mixed, empty and oversized ones, batch deletes of two notes in either order; aborts at every statement | holds |
| `reviews_union` | no forgotten upload, what a conflict can mean, do all devices end with the union? | 2 ids, one of them used twice; 2 clients, one of which deletes cards; chunks of 1; 1 failure | holds (0.8 M states) |
| `days_counters` | monotone, never inflated, never lowered, finally agreed | 2 clients, 2 days, counts to 2, 1 failure | holds |
| `sync_notes` | does anything disappear that no user deleted, is an edit only replaced by a later one, do collections converge? | 2 notes (one known to all), 2 clients, 3 edits or deletions, 2 times, 1 failure | holds |
| `cards_cards` | does a card disappear that no user deleted, is a studied card only replaced by a later version, do copies agree in the end? | 1 card with 2 ids, 2 clients, 2 decks, 2 times, 1 change or deletion, 1 failure | holds (1.4 M states) |
| `cards_generated` | does a generated card never replace a studied one, as `DESIGN.md:28-31` says? | 1 card, 2 clients, 1 change, no failure | violated |
| `media_media` | is a listed file stored, is every stored or downloaded file whole, do all devices get it? | a shared file and a too large one of one device, 2 contents, both stores, 2 attempts, 2 changes, 1 deletion, 1 failure, 1 late request | holds |
| `scope_decks` | does anything disappear that no user deleted, withdrew or moved out of a synced scope, does a change in scope only give way to a later version, does a publication end in what was published, does what the server has in a scope arrive? | 1 note, 2 clients with different first routes, 2 decks, 2 times, 3 acts, 1 failure | holds (1.1 M states) |
| `decks_decks` | do decks and cards disappear only by a user, does a published path replace the old one with its cards, do collections agree in the end? | 3 decks, one below another, 1 card, 2 clients, one of which publishes, 2 times, 3 acts or failures | holds (1.3 M states) |
| `decks_swept` | is a deck with cards never deleted, as `client/anki_apply.py:231-232` says? | 2 decks, one below the other, 1 card, 2 clients, 4 acts | violated |
| `plan_plans` | what can a delta manifest leave out, what can a push replace, what can a conflict mean? | 1 note, 2 contents, 2 clients and other programs, 4 readings of either clock, 3 acts or failures | holds (4.5 M states) |
| `media_heal` | is a file whose object is gone uploaded again, as `handler/media.go:61-63` says? | 1 file, 2 devices, 1 deletion, no failure | violated |

Bounds, and why they are enough. Two workers or clients give every pairwise
overlap; the safety theorems below hold for any number of them. Three requests
let a third change what two overlapping ones saw (base, delete and re-push). Two
review ids, one used twice, with chunks of one row, give a pass that is split
between chunks; one failure leaves a late request and a half-finished pass. Two
days and two counts are what a merge can tell apart. Two notes make a plan with a
deletion and a push at once; three edits give create, edit and delete, or two
concurrent edits of one note and a deletion. One card with two ids and one change is
all the card runs need, since cards meet only in their requests. In `ScopedSync` three acts
let a card be added, moved and the route changed or the scope published; in `DeckSync`
three events let a deck be made, a card put in it and the deck renamed, published or deleted;
`decks_swept` needs four. In `PlannedSync` four readings of either clock and three events let
a client plan, somebody write or delete meanwhile, and the client plan since the first time and push. Each bound is a constant in a guard:
`MaxRequests`, `MaxFailures`, `MaxDay`, `MaxCount`, `MaxEdits`, `MaxTime`, `MaxDeletes`, `MaxEvents`;
`Publishers` are the clients whose users create empty decks, rename and publish, `Deleters` those
whose users delete cards;
`Late` is the set of slots for late requests.
Media need two contents for a mixed file, one deletion and one late slot for each pair of
overlapping requests, and a second, too large file for a pass that fails before its
downloads. `MaxTries` (3 in the code) is 2, so that an attempt can fail and be repeated.
`DeleteLimit` (12 000 in the code) and `ChunkSize` (3000) are set to 2 and 1 so that
both sides are reached; `MaxUnapproved` is 0, so that every deletion may be refused.

`CHECK_DEADLOCK FALSE` appears only in the configurations of `ContentStore` and `PlannedSync`:
when the requests of a behaviour are used up and answered, or the clock's readings are,
the model stops. All the others check deadlock: a client can always start a pass (in `MediaSync` one with nothing
to do changes nothing).

Properties. `LiveXorDeleted`: a quiet key is live or tombstoned, unless a push
overlapped a delete. `ImplementsItems`: no client can tell the store from one of atomic items,
but by keys whose requests overlapped or were cut off; in particular an unforced push replaces
its base, or its own content, unless another push overlapped (`ReplacesOnlyItsBase`, stated
for its own sake and proved). `CirclesWithinAType`: requests that wait for each other in a circle
are at the same statement on one type, and at the tombstones only if some array is not sorted.
`ClearedIsStored`: a row no longer pending
is on the server. `ConflictMeansReuseOrOrphan`: what a conflict can mean.
`AckedIsStored`, `NoInflation`, `SameDayKept`: counters only grow, by study only, and
syncing never lowers a day's. `OnlyUsersDelete`: a note no user deleted stays on the
server and in every collection. `OnlyLaterEditsReplace`: an edit is only replaced by
one with a later time. In `CardSync`, `OnlyUsersDelete` says it of cards, whatever their
ids; `OnlyLaterReplaces`: a row never goes back in time and what a user studied is only
replaced by something later, but for cards whose items overlapped. In `ScopedSync`
`OnlyUsersRemove` allows in addition what left the scope of a synced snapshot, and says that
routes and publications of others remove nothing more; `ChangesGiveWayToLater`: what a user did
to a card in scope is replaced here only by a later version, whatever the route was when it was
compared and whatever looks inherited; `Published`: after a publication that
nobody disturbed, the server's scope is as it is here, but for later versions. In `DeckSync`
`OnlyUsersRemove` says it of cards and decks, but for what Anki sweeps; `NamespaceMoved`: a
published path has replaced the old one and holds its cards. `DeltaComplete`: whatever has
changed since a manifest is in the manifest since its time, but for two kinds of changes: a write
stamped by that time and stored after the rows were read, and a deletion that the database stamped
with a time the server's clock had passed;
`ReplacesOnlyShown`: an unforced push replaces only a content some manifest showed that
client, but for notes whose writes overlapped; `ConflictsAreNews`: a conflict means that somebody wrote since
the plan, or that a delta had left the row out. `ListedIsStored`: a listed file has
an object, whatever statement a request stopped at; `OnlyWholeFiles`: nothing half written
is stored or downloaded; both unless two requests changed the file at once. Liveness: `EveryRequestAnswered`, `EventuallyConverged` (reviews
and notes), `EventuallyAgreed` (counters, cards, decks
with their cards), `EventuallyArrived` (routed decks), `EventuallyShared` (media:
every device gets a file some device can upload, unless a too large file blocks its passes or
the file is listed without an object).

Fairness. In `ContentStore`, weak fairness of each worker's next statement: the Go
scheduler runs every goroutine and PostgreSQL every statement, and fails one of a circle of
waiting ones (`BreakDeadlock`); requests need not
arrive. In the client models, weak fairness of each client's `Pass`: devices
keep syncing (a sync that is never started again converges to nothing), and a
started pass proceeds (in `CardSync`, by the server executing the items it waits for): it waits for nothing but its own requests, which time out. Nothing is assumed
of users (in `DeckSync` they approve a deletion of decks in the end), failures, or late requests, which may be executed or lost. `PlannedSync` assumes
no fairness and states no liveness: nothing happens there without its user. In `MediaSync` the
server works off every request it has received, late ones included, and each device goes on
with its passes; an attempt may still fail at any statement.

### What the violated runs show

* `cards_generated`: a pass pushes notes before cards. A client that pulls the note in
  between generates its card, which is not in the manifest and therefore not
  inherited; it is pushed as a local card, and its generation time is later than the
  author's studied card.
* `decks_swept`: `delete_deck` counts the cards of the deck itself and then removes it with
  its children. A client that has put a card in a deck below one that another client
  deleted loses the card when the tombstone is applied; its next pass then finds
  the card missing and deletes it on the server, too, if it was in the snapshot.
* `media_heal`: a deletion takes the row, an upload writes object and row, the deletion
  removes the object. The manifest lists the file, so a device that has it skips it
  (`media_sync.py:109`), and one that has not gets 404 and skips it too. Any other loss of
  an object has the same end.

### What passing runs show against the documentation

* `scope_decks`, `Published`: a card that the server has in a later version is not replaced, forced
  or not (`batch.go:127`), and no conflict is reported. `batch.go:54` and `API.md:441` say that a
  forced batch accepts everything unconditionally. Without this exception `Published` fails when a card
  was changed here by a clock behind the one of the server's version.
* `plan_plans`, `DeltaComplete`: `API.md:61` tells a client to pass `server_time` as the next `since`.
  The time is taken before the rows are read (`manifest.go:29`), writes are stamped before they are
  stored (`batch.go:75`, `notes.go:80`), and tombstones are stamped by the database's clock
  (`tombstone.go:10`, `batch.go:288`): a write that overlaps the manifest, or a deletion stamped by a clock
  that lags, is never listed to that client. `DeltaComplete` fails without either exception.

Further consequences of the design, seen in the models and covered by no run of their
own: two overlapping pushes with the same base both pass the comparison of `notes.go:57-78` and
the second replaces what the first wrote (`ImplementsItems` excludes it by `raced`),
where `notes.go:34-36` says that the write is accepted only if the stored note still has the
base's checksum; a review whose card was deleted before its first upload is stored without a
guid, and a device that still has the card conflicts with it in every later pass
(`ConflictMeansReuseOrOrphan`); a tombstone has the id of the first writer, so a collection
that generated the card by itself does not find it and pushes the deleted card back; a card that
is moved out of the routed decks is deleted, with its note, for everybody (`left` in
`ScopedSync`); a card the server has in a newer version stays where it is when its deck is published
under another path, in a deck that is then deleted, until the next pass that knows the deck
pushes it again (`NamespaceMoved`); a card of equal time replaces the
stored one, where `API.md:234` says that only a newer one does (`OnlyLaterReplaces` of `CardSync`
allows both); `API.md:438-439` names a reused id as the only conflict of reviews, and a row that lost
its guid is another (`ConflictMeansReuseOrOrphan`); in a plan by a delta manifest every row that has not changed looks local-only
and is pushed without a base, a conflict if it was edited here (`ConflictsAreNews`); a later day's record of another device is written over a device's counters of its own
day (`review_sync.py:225`), so that Anki counts today's studied cards as zero, which
`SameDayKept` permits by the later day; a tombstone applied in a pass that then
stops, and a late push that restores the row, look like a local deletion to the next pass,
which deletes the note on the server (`OnlyUsersDelete` excludes notes some user deleted);
two uploads that share the temporary file store an empty or mixed file, which a device that
downloads it meanwhile keeps for ever (`OnlyWholeFiles` excludes it by `overlapped`); a push and a delete of a note that overlap (upsert, delete row, write
tombstone, clear tombstone) leave neither row nor tombstone, which
`LiveXorDeleted` excludes by `mixed`; a pass that pushed deletions of its own goes
by a second manifest (`content_sync.py:457`) but applies only the tombstones of the
first, so a note another client deleted in between is pushed back.

Two more, which no text of the repository contradicts: a tombstone removes a note that was edited here since
(no time is compared), and two clients whose passes never finish, because each
ends in a conflict on another note, keep their old snapshots, so that one can keep
deleting a note and the other keep pushing it (`EventuallyConverged` excludes a
state in which a conflict waits for its user).

## 4. Theorems

TLAPS checks every proof without assumptions other than the named `ASSUME`s on
constants (typing, and that the bounds are natural numbers).

| theorem | statement | argument |
|---|---|---|
| `StoreAndPlan_proofs!TypeCorrect` | `Spec => []TypeOK` | inductive as it stands, a lemma per kind of step |
| `StoreAndPlan_proofs!LiveXorDeletedHolds` | `Spec => []LiveXorDeleted` | `KeyInv(k)`: for a key that is not mixed, either pushes or deletes are in flight, and the row and tombstone agree except between the two statements of one of them |
| `StoreAndPlan_proofs!ReplacesOnlyItsBaseHolds` | `Spec => ReplacesOnlyItsBase` | `RaceInv`: a worker that has compared and not yet written still finds what it compared, unless the key is raced |
| `StoreAndPlan_proofs!Refinement` | `Spec => ImplementsItems` | with both of these: where a statement has an effect nobody else is between two statements on the key, and every other statement is a stutter |
| `StoreAndPlan_proofs!CirclesWithinATypeHolds` | `Spec => []CirclesWithinAType` | `OrderInv`: a transaction holds only rows and tombstones of the types and statements it has come to, and tombstones in the order of its request; so whoever is waited for has come at least as far (`Come`), those of a circle who have come least far (`LeastFar`) are kept waiting by each other alone, at the same statement; and if their arrays were sorted, nobody could hold the first tombstone that one of them waits for |
| `StoreAndPlan_proofs!StatementsRunOut` | every step is an arrival or takes from what one request has `Left`, a natural number, or from the finite set of rows or tombstones its statement has yet to come to (`Rest`), and gives the others no more to do (`Undelayed`) | a bound on the statements of a request, which every one of its steps lowers, or leaves while it takes a row or tombstone from `Rest` |
| `ReviewHistory_proofs!TypeCorrect` | `Spec => []TypeOK` | inductive as it stands |
| `ReviewHistory_proofs!ClearedIsStoredHolds` | `Spec => []ClearedIsStored` | `PassInv`: what a pass has pulled, sent and been told is on the server with the fact it compared |
| `ReviewHistory_proofs!ConflictMeansReuseOrOrphanHolds` | `Spec => []ConflictMeansReuseOrOrphan` | `FactsInv`: every copy of a row, stored, sent or late, has a fact of its id |
| `StudyDays_proofs!TypeCorrect`, `AckedIsStoredHolds`, `SameDayKeptHolds`, `NoInflationHolds` | | the server's table only grows; `PassInv` relates a pass's records to it; `InflationInv` bounds every copy of a counter by what was reached |
| `ContentSync_proofs!TypeCorrect` | `Spec => []TypeOK` | with the phase of each plan |
| `ContentSync_proofs!OnlyUsersDeleteHolds` | `Spec => OnlyUsersDelete` | `DeletionInv`: every tombstone seen or stored, planned deletion, late deletion, and snapshot key missing here is of a note some user deleted |
| `ContentSync_proofs!OnlyLaterEditsReplaceHolds` | `Spec => OnlyLaterEditsReplace` | `LaterInv`: the parts of a plan are disjoint, and what is planned to be pushed, pulled or is late is later than the base it was compared with |
| `CardSync_proofs!TypeCorrect` | `Spec => []TypeOK` | with the card of every note and the phase of conflicts, deletions and items |
| `CardSync_proofs!OnlyUsersDeleteHolds` | `Spec => OnlyUsersDelete` | `DeletionInv`: every tombstone, planned or late deletion, and snapshot id missing here is of a card some user deleted |
| `MediaSync_proofs!TypeCorrect` | `Spec => []TypeOK` | a lemma per kind of step |
| `MediaSync_proofs!ListedIsStoredHolds`, `OnlyWholeFilesHolds` | `Spec => []ListedIsStored`, `Spec => []OnlyWholeFiles` | `IInv`: of a file that was never overlapped at most one request changes it now (`OneWriter`), and how far that one is says what store, temporary file and table hold (`InHand`) |
| `MediaSync_proofs!FileRefinement` | `Spec => ImplementsFiles` | by `InHand` the request that makes its change seen puts exactly its data there, and of a file without overlaps nobody else is in between (`AboutFile`); every other statement is a stutter, a `Drift` |
| `CardSync_proofs!OnlyLaterReplacesHolds` | `Spec => OnlyLaterReplaces` | `ServedInv`: a compared item is the only one and still not older than the row; `SeenInv`: a row is not older than any manifest of it; `InheritInv`: nothing a user has studied is inherited before the pull |
| `ScopedSync_proofs!TypeCorrect` | `Spec => []TypeOK` | a lemma per kind of step |
| `ScopedSync_proofs!OnlyUsersRemoveHolds` | `Spec => OnlyUsersRemove` | `RemovalInv`: every tombstone, planned or late deletion, and key of the baseline that is missing in the scope, is of a note that a user deleted or withdrew, or that left a scope |
| `ScopedSync_proofs!ChangesGiveWayToLaterHolds` | `Spec => ChangesGiveWayToLater` | `LaterInv`: the row is not older than any manifest of it while nobody removes the note, and what is inherited in the scope was generated by the pass |
| `ScopedSync_proofs!PublishedHolds` | `Spec => Published` | `PublicationInv`: of an undisturbed publication, what the scope of the server has and ours has not is still to be deleted, then nothing is, then the notes are there |
| `DeckSync_proofs!TypeCorrect` | `Spec => []TypeOK` | with the closure of a collection's decks |
| `DeckSync_proofs!OnlyUsersRemoveHolds` | `Spec => OnlyUsersRemove` | `RemovalInv`: every tombstone, planned deletion and snapshot key missing here is of something a user removed, or below it, or swept |
| `DeckSync_proofs!NamespaceMovedHolds` | `Spec => NamespaceMoved` | `MoveInv`: what each step of an undisturbed publication has stored is still there at the next |
| `StoreAndPlan_proofs!PlanTypeCorrect` | `PlanSpec => []PlanTypeOK` | with `BasesInv`, since only the answer to an awaited write of a differing item makes a conflict |
| `StoreAndPlan_proofs!DeltaCompleteHolds` | `PlanSpec => []DeltaComplete` | `SinceInv`: of a note that a manifest does not doubt, every row and every stamped write not yet stored is what the manifest read, or later than its time, or a lagging deletion; `ClockInv`: no time of a manifest is ahead of the server's clock |
| `StoreAndPlan_proofs!ReplacesOnlyShownHolds` | `PlanSpec => ReplacesOnlyShown` | `BasesInv`: bases are contents the client was shown; `AdmittedInv`: of a note without overlaps one write at most is admitted, and what it was compared with is still stored |
| `StoreAndPlan_proofs!ConflictsAreNewsHolds` | `PlanSpec => ConflictsAreNews` | `BasesInv`: an awaited write has the base of its client's plan, and the plan is of the manifest the client has |

None of these properties is inductive alone: each speaks of a moment at which
something decided earlier takes effect, so the invariant has to say what is still
true of the decision (the manifest, the plan, the request in flight) meanwhile.

`StoreAndPlan_proofs` holds the proofs of two modules: of the store, and of the clients that
plan their writes to it. It extends both, which is why the names of `PlannedSync` differ from
those of `ContentStore` (`PlanInit`, `PlanNext`, `PlanSpec`, `PlanTypeOK`, `phase`, `stored`).
`StatementsRunOut` is the safety half of `EveryRequestAnswered`: whoever goes on has less left to do
and takes nothing from the others. What is missing is that a statement that can be executed
eventually is, and that a circle is broken, which is the fairness of the model.
`CirclesWithinATypeHolds` says where a circle can be at all. The repository's own clients send sorted
arrays of one type per batch (`content_sync.py:252-285`), so that a circle at the tombstones
needs another client, and one at the rows two plans that come to the rows in different orders.

`ImplementsFiles` is proved and not part of a run: TLC found no violation on the instance of
`media_media`, but together with `EventuallyShared` it takes half as long again, and that run is
the longest as it is. The run keeps `ListedIsStored`, which follows from it, and
`OnlyWholeFiles`.

Only model-checked: liveness (`EveryRequestAnswered`, both `EventuallyConverged`, the three
`EventuallyAgreed`, `EventuallyArrived`, `EventuallyShared`), which needs fairness and `ENABLED`, beyond the prover; and the
violated properties, which are counterexamples.

## 5. What is left out

* Contents, formatting, HTTP, JSON, authentication: a checksum is a content. All
  statements are scoped to one user; users do not interact.
* `ContentStore`: timestamps; the wait for deadlock detection (`deadlock_timeout`), and which
  statement of a circle PostgreSQL chooses to fail: any of them may be.
* `CardSync`: edits and deletions of notes (`ContentSync`), `DeletionSafetyError` (only
  refuses), repair of duplicate cards, day shifts of due dates, skewed clocks,
  several batches, `PutCard` and `DeleteCard`, which no client pass sends and which run
  the same statements. The order of pulling and pushing notes within
  `sync_notes_once` is `ContentSync`'s.
* `ContentSync`: notetypes; deck routing and decks (`ScopedSync`, `DeckSync`); notes equal up to Unicode normalisation; clocks off by more than five
  minutes; batches of more than one request; approval of many deletions, which is
  refused only as a failure.
* `ScopedSync`: routes are sets of decks, a deck below a routed one counts as routed; contents
  and ids of cards (`ContentSync`, `CardSync`); the media pass that ends a publication; the
  steps within a phase; pushes executed after their client has given up: deletions are
  (`LateDelete`), pushes are not, since with them the run has 2.5 M states and no longer ends in
  its time. `ContentSync` (`LatePush`) and `CardSync` (`Gone`) have late pushes.
* `DeckSync`: configurations of decks; collections that were restored half
  (`CardSync`); an empty deck called Default; paths of more than two parts; the third source
  (AnkiWeb) of a comparison; requests executed after their client has given up, for the same
  reason as in `ScopedSync`.
* `PlannedSync`: cards, which are newest-wins; equal readings of the clock; who calls it.
* The marks that ask Anki to upload to AnkiWeb (`canonical_sync.py:257-342`), notetypes,
  the duplicate repair of `anki_local.py`.
* `MediaSync`: names that differ in case only, which the client takes for one and the
  server for two; the pool's limit of 50; content types; sizes, but for the limit; the user
  changing the media folder during a pass. Media tombstones are written and cleared but read
  by no pass. A file that was changed under the same name is never sent again: the pass goes by
  names.
* The components marked `not_modelled` in `PROJECT.json`, each with its reason.

## 6. Plan

In order of weight; each entry with its abstract statement.

1. *done* `ContentStore`, `ReviewHistory`, `StudyDays`, `ContentSync`, `CardSync`,
   `MediaSync`, `ScopedSync`, `DeckSync`, `PlannedSync` and their proofs.
2. *done* `ItemStore`, a store of atomic items, implemented by `ContentStore`; `FileStore`, a store
   of whole files, implemented by `MediaSync`.
3. The same for the card items of `CardSync`: newest-wins at one moment.
4. Immersion posts and migrations: small crash and race models.
