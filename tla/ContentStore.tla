---------------------------- MODULE ContentStore ----------------------------
(***************************************************************************)
(* The server's store of user content: notes, decks and notetypes, each a  *)
(* row compared by checksum, and the tombstones that remember deletions.   *)
(*                                                                         *)
(* Every HTTP request runs in its own goroutine and every SQL statement of *)
(* a handler is its own autocommitted transaction (READ COMMITTED), except *)
(* that BatchDelete wraps its statements in one transaction.  One action   *)
(* below is one statement, so that requests interleave exactly where the   *)
(* handlers let them; the two statements of BatchDelete on a type, which    *)
(* lock one row or tombstone after the other, are an action per row.  The  *)
(* three resource types have the same handlers up to the table they        *)
(* address; a key carries its type.                                        *)
(*                                                                         *)
(* Abstracted: users (every statement is scoped to one), field values (the *)
(* content of a row is its checksum), timestamps, and the response bodies. *)
(***************************************************************************)
EXTENDS Integers, Sequences, FiniteSets

CONSTANTS
  Keys,         \* resource identifiers: a guid, a deck name, a notetype id
  TypeOf,       \* the type of each key
  Contents,     \* checksums of the contents in play
  Absent,       \* "no row"; as a base checksum, the empty string
  Workers,      \* request goroutines that may run at the same time
  Requests,     \* requests a client may send
  DeleteLimit,  \* most keys one BatchDelete accepts (12000 in the code)
  SortOrder,    \* the pairs <<j, k>> where key j sorts before k
  MaxRequests,  \* bound on the requests of a behaviour
  Failures      \* whether statements may fail and requests be cut off

Types == {"note", "notetype", "deck"}

(* An item of a push: what the client writes and the version it last saw.  *)
Item == [key : Keys, new : Contents, base : Contents \cup {Absent}]

(* Put and BatchPush carry items, the deletes only keys.  A BatchPush is    *)
(* processed item by item, a Put is a push of one item; order is the order *)
(* in which the arrays of a BatchDelete name the keys.                     *)
Request == [op    : {"put", "batchPush", "delete", "batchDelete"},
            items : Seq(Item),
            keys  : SUBSET Keys,
            order : Seq(Keys),
            force : BOOLEAN]

IsPush(r) == r.op \in {"put", "batchPush"}

NoRequest == [op |-> "none", items |-> << >>, keys |-> {}, order |-> << >>, force |-> FALSE]

(* The arrays name j before k.                                              *)
Before(r, j, k) == \E i, l \in DOMAIN r.order : i < l /\ r.order[i] = j /\ r.order[l] = k

ASSUME ContentsAssumption == Absent \notin Contents
ASSUME TypesAssumption == TypeOf \in [Keys -> Types]
ASSUME BoundsAssumption == /\ DeleteLimit \in Nat
                           /\ MaxRequests \in Nat
                           /\ Failures \in BOOLEAN
ASSUME SortAssumption ==
  \A K \in SUBSET Keys : K # {} => \E k \in K : \A j \in K : <<j, k>> \notin SortOrder
ASSUME RequestsAssumption ==
  /\ Requests \subseteq Request
  /\ \A r \in Requests :
       /\ IsFiniteSet(r.keys)
       /\ r.op = "batchDelete" => \A j, k \in r.keys : j # k => Before(r, j, k) \/ Before(r, k, j)
       /\ IsPush(r) => /\ r.items # << >>
                       /\ \A i \in DOMAIN r.items : r.items[i].key \in r.keys
       /\ r.op = "delete" => \E k \in Keys : r.keys = {k}

VARIABLES
  row,          \* the stored checksum of each key, or Absent
  stone,        \* the keys that have a tombstone
  pc,           \* the next statement of each worker, "idle" between requests
  req,          \* the request each worker serves, NoRequest when idle
  at,           \* index of the push item each worker is at
  found,        \* rows the DELETE of a BatchDelete has found and not come to
  rowsHeld,     \* rows an open BatchDelete transaction has deleted
  stonesHeld,   \* tombstones an open BatchDelete transaction has written
  issued,       \* number of requests received
  touched,      \* history: keys ever written or deleted
  raced,        \* history: keys pushed by two overlapping requests
  mixed         \* history: keys whose push and delete overlapped, or whose
                \* second statement (tombstone bookkeeping) was lost

store == <<row, stone>>
locks == <<found, rowsHeld, stonesHeld>>
vars == <<row, stone, pc, req, at, found, rowsHeld, stonesHeld, issued,
          touched, raced, mixed>>

Steps == {"idle", "load", "upsert", "clear", "deleteRow", "writeStone",
          "txBegin", "txRows", "txFound", "txStones", "txCommit"}

(* The order in which BatchDelete goes through the types (cards, which it    *)
(* handles between notes and notetypes, have a store of their own).        *)
DeleteOrder == <<"note", "notetype", "deck">>

(* The keys of the first n of these types.                                  *)
Handled(n) == {k \in Keys : \E i \in 1..n : TypeOf[k] = DeleteOrder[i]}

Init ==
  /\ row = [k \in Keys |-> Absent]
  /\ stone = {}
  /\ pc = [w \in Workers |-> "idle"]
  /\ req = [w \in Workers |-> NoRequest]
  /\ at = [w \in Workers |-> 1]
  /\ found = [w \in Workers |-> {}]
  /\ rowsHeld = [w \in Workers |-> {}]
  /\ stonesHeld = [w \in Workers |-> {}]
  /\ issued = 0
  /\ touched = {}
  /\ raced = {}
  /\ mixed = {}

-----------------------------------------------------------------------------
Live(k) == row[k] # Absent
Serving(w, k) == k \in req[w].keys
Pushing(w, k) == Serving(w, k) /\ IsPush(req[w])
Deleting(w, k) == Serving(w, k) /\ ~IsPush(req[w])

item(w) == req[w].items[at[w]]

(* PostgreSQL makes a statement wait for a row that another open            *)
(* transaction has deleted or written.                                     *)
RowFree(w, k) == \A o \in Workers \ {w} : k \notin rowsHeld[o]
StoneFree(w, k) == \A o \in Workers \ {w} : k \notin stonesHeld[o]

(* Of rows that are deleted an open DELETE finds no more than their absence. *)
NotFound(K) == found' = [w \in Workers |-> found[w] \ K]

Step(w, step) == pc' = [pc EXCEPT ![w] = step]
Goto(w, step) == Step(w, step) /\ UNCHANGED <<req, at>>

(* The response is sent: the worker is free again.                         *)
Finish(w) ==
  /\ Step(w, "idle")
  /\ req' = [req EXCEPT ![w] = NoRequest]
  /\ at' = [at EXCEPT ![w] = 1]

(* After an item: the next item of the push, or the response.               *)
NextItem(w) ==
  IF at[w] < Len(req[w].items)
    THEN at' = [at EXCEPT ![w] = @ + 1] /\ Step(w, "load") /\ req' = req
    ELSE Finish(w)

-----------------------------------------------------------------------------
(* A request arrives at an idle worker.                                    *)
Receive(w, r, first) ==
  /\ pc[w] = "idle"
  /\ issued < MaxRequests
  /\ issued' = issued + 1
  /\ req' = [req EXCEPT ![w] = r]
  /\ at' = [at EXCEPT ![w] = 1]
  /\ Step(w, first)
  /\ raced' = raced \cup {k \in r.keys : IsPush(r) /\ \E o \in Workers \ {w} : Pushing(o, k)}
  /\ mixed' = mixed \cup {k \in r.keys : \E o \in Workers \ {w} :
                                           IF IsPush(r) THEN Deleting(o, k) ELSE Pushing(o, k)}
  /\ UNCHANGED <<store, locks, touched>>

Put(w, type) ==
  \E r \in Requests : /\ r.op = "put"
                      /\ TypeOf[r.items[1].key] = type
                      /\ Receive(w, r, "load")

PutNote(w) == Put(w, "note")
PutNotetype(w) == Put(w, "notetype")
PutDeck(w) == Put(w, "deck")

BatchPush(w) == \E r \in Requests : r.op = "batchPush" /\ Receive(w, r, "load")

Delete(w, type) ==
  \E r \in Requests : /\ r.op = "delete"
                      /\ \A k \in r.keys : TypeOf[k] = type
                      /\ Receive(w, r, "deleteRow")

DeleteNote(w) == Delete(w, "note")
DeleteNotetype(w) == Delete(w, "notetype")
DeleteDeck(w) == Delete(w, "deck")

BatchDelete(w) == \E r \in Requests : r.op = "batchDelete" /\ Receive(w, r, "txBegin")

-----------------------------------------------------------------------------
(* SELECT the existing row and compare checksums: the stored version must   *)
(* be the client's base, or already be what the client pushes.             *)
NoConflictCheck(w) == FALSE
Conflict(w) ==
  LET old == row[item(w).key]
  IN  old # Absent /\ ~req[w].force /\ old # item(w).base /\ old # item(w).new

Accept(w) ==
  /\ pc[w] = "load"
  /\ ~Conflict(w)
  /\ Goto(w, "upsert")
  /\ UNCHANGED <<store, locks, issued, touched, raced, mixed>>

(* 409, or an entry in the batch response's conflicts.                      *)
Reject(w) ==
  /\ pc[w] = "load"
  /\ Conflict(w)
  /\ NextItem(w)
  /\ UNCHANGED <<store, locks, issued, touched, raced, mixed>>

(* INSERT ... ON CONFLICT DO UPDATE: whatever is stored by now is replaced. *)
Upsert(w, type) ==
  /\ pc[w] = "upsert"
  /\ TypeOf[item(w).key] = type
  /\ RowFree(w, item(w).key)
  /\ row' = [row EXCEPT ![item(w).key] = item(w).new]
  /\ touched' = touched \cup {item(w).key}
  /\ Goto(w, "clear")
  /\ UNCHANGED <<stone, locks, issued, raced, mixed>>

upsertNote(w) == Upsert(w, "note")
upsertNotetype(w) == Upsert(w, "notetype")
upsertDeck(w) == Upsert(w, "deck")

(* DELETE FROM tombstones: waits only for a tombstone it can see.           *)
clearTombstone(w) ==
  /\ pc[w] = "clear"
  /\ item(w).key \in stone => StoneFree(w, item(w).key)
  /\ stone' = stone \ {item(w).key}
  /\ NextItem(w)
  /\ UNCHANGED <<row, locks, issued, touched, raced, mixed>>

(* Its error is discarded: the push goes on, the tombstone stays.           *)
clearTombstoneFails(w) ==
  /\ Failures
  /\ pc[w] = "clear"
  /\ NextItem(w)
  /\ mixed' = mixed \cup {item(w).key}
  /\ UNCHANGED <<store, locks, issued, touched, raced>>

-----------------------------------------------------------------------------
(* A single delete: two statements.                                        *)
DeleteRow(w) ==
  /\ pc[w] = "deleteRow"
  /\ \A k \in req[w].keys : RowFree(w, k)
  /\ row' = [k \in Keys |-> IF k \in req[w].keys THEN Absent ELSE row[k]]
  /\ NotFound(req[w].keys)
  /\ touched' = touched \cup req[w].keys
  /\ Goto(w, "writeStone")
  /\ UNCHANGED <<stone, rowsHeld, stonesHeld, issued, raced, mixed>>

(* Mutant: a tombstone is written only when none is there to be updated.    *)
DropTombstone(w) ==
  /\ pc[w] = "writeStone"
  /\ Finish(w)
  /\ UNCHANGED <<store, locks, issued, touched, raced, mixed>>

writeTombstone(w) ==
  /\ pc[w] = "writeStone"
  /\ \A k \in req[w].keys : StoneFree(w, k)
  /\ stone' = stone \cup req[w].keys
  /\ Finish(w)
  /\ UNCHANGED <<row, locks, issued, touched, raced, mixed>>

(* BatchDelete refuses an empty request and one over the limit, else it     *)
(* begins a transaction.                                                   *)
RefuseBatchDelete(w) ==
  /\ pc[w] = "txBegin"
  /\ Cardinality(req[w].keys) \notin 1..DeleteLimit
  /\ Finish(w)
  /\ UNCHANGED <<store, locks, issued, touched, raced, mixed>>

TxBegin(w) ==
  /\ pc[w] = "txBegin"
  /\ Cardinality(req[w].keys) \in 1..DeleteLimit
  /\ Goto(w, "txRows")
  /\ UNCHANGED <<store, locks, issued, touched, raced, mixed>>

(* Mutant: the types are in a map, of which no two transactions see the same  *)
(* order.                                                                  *)
KeysInMapOrder(w) ==
  {k \in req[w].keys : TypeOf[k] = DeleteOrder[IF w = (CHOOSE v \in Workers : TRUE) THEN at[w] ELSE 4 - at[w]]}

(* The keys of the type the transaction is at.                              *)
KeysAt(w) == {k \in req[w].keys : TypeOf[k] = DeleteOrder[at[w]]}

(* Mutant: the WHERE clause misses the key, every live row is deleted.      *)
TxDeleteAllRows(w) ==
  /\ pc[w] = "txRows"
  /\ found' = [found EXCEPT ![w] = {k \in Keys : Live(k)}]
  /\ Goto(w, "txFound")
  /\ UNCHANGED <<store, rowsHeld, stonesHeld, issued, touched, raced, mixed>>

(* The DELETE of this type finds the rows there are when it begins ...       *)
TxDeleteRows(w) ==
  /\ pc[w] = "txRows"
  /\ found' = [found EXCEPT ![w] = {k \in KeysAt(w) : Live(k)}]
  /\ Goto(w, "txFound")
  /\ UNCHANGED <<store, rowsHeld, stonesHeld, issued, touched, raced, mixed>>

(* ... and deletes one after the other, in the order its plan comes to them,  *)
(* unseen by others until the commit.                                      *)
TxDeleteRow(w, k) ==
  /\ k \in found[w]
  /\ RowFree(w, k)
  /\ found' = [found EXCEPT ![w] = @ \ {k}]
  /\ rowsHeld' = [rowsHeld EXCEPT ![w] = @ \cup {k}]
  /\ UNCHANGED <<store, pc, req, at, stonesHeld, issued, touched, raced, mixed>>

TxRowsDeleted(w) ==
  /\ pc[w] = "txFound" /\ found[w] = {}
  /\ Goto(w, "txStones")
  /\ UNCHANGED <<store, locks, issued, touched, raced, mixed>>

(* Their tombstones, in the order of the array.                             *)
NextStones(w) ==
  {k \in KeysAt(w) \ stonesHeld[w] : \A j \in KeysAt(w) \ stonesHeld[w] : ~Before(req[w], j, k)}

TxWriteTombstone(w, k) ==
  /\ pc[w] = "txStones" /\ k \in NextStones(w)
  /\ StoneFree(w, k)
  /\ stonesHeld' = [stonesHeld EXCEPT ![w] = @ \cup {k}]
  /\ UNCHANGED <<store, pc, req, at, found, rowsHeld, issued, touched, raced, mixed>>

(* The next type or the commit.                                            *)
TxStonesWritten(w) ==
  /\ pc[w] = "txStones" /\ KeysAt(w) \subseteq stonesHeld[w]
  /\ IF at[w] < Len(DeleteOrder)
       THEN at' = [at EXCEPT ![w] = @ + 1] /\ Step(w, "txRows") /\ req' = req
       ELSE Goto(w, "txCommit")
  /\ UNCHANGED <<store, locks, issued, touched, raced, mixed>>

(* Mutant: the transaction is left open (no commit, no rollback).           *)
LeakLocks(w) == UNCHANGED locks

Release(w) ==
  /\ rowsHeld' = [rowsHeld EXCEPT ![w] = {}]
  /\ stonesHeld' = [stonesHeld EXCEPT ![w] = {}]

TxCommit(w) ==
  /\ pc[w] = "txCommit"
  /\ row' = [k \in Keys |-> IF k \in rowsHeld[w] THEN Absent ELSE row[k]]
  /\ stone' = stone \cup stonesHeld[w]
  /\ touched' = touched \cup req[w].keys
  /\ NotFound(rowsHeld[w])
  /\ Release(w)
  /\ Finish(w)
  /\ UNCHANGED <<issued, raced, mixed>>

(* A statement fails, the client disconnects (which cancels the request's   *)
(* context), or the process dies: the request ends where it is.  An open   *)
(* transaction rolls back; a statement already committed stays.            *)
RollBack(w) ==
  /\ found' = [found EXCEPT ![w] = {}]
  /\ Release(w)
  /\ Finish(w)

Abort(w) ==
  /\ Failures
  /\ pc[w] # "idle"
  /\ RollBack(w)
  /\ mixed' = CASE pc[w] = "clear"      -> mixed \cup {item(w).key}
                [] pc[w] = "writeStone" -> mixed \cup req[w].keys
                [] OTHER                -> mixed
  /\ UNCHANGED <<store, issued, touched, raced>>

(* The statement w is at waits for key k of the transaction of o, or will if  *)
(* that row is the next one it comes to.                                   *)
WaitsFor(w, o, k) ==
  /\ o # w
  /\ \/ k \in rowsHeld[o] /\ \/ pc[w] = "upsert" /\ item(w).key = k
                             \/ pc[w] = "deleteRow" /\ k \in req[w].keys
                             \/ k \in found[w]
     \/ k \in stonesHeld[o] /\ \/ pc[w] = "clear" /\ item(w).key = k /\ k \in stone
                               \/ pc[w] = "writeStone" /\ k \in req[w].keys
                               \/ pc[w] = "txStones" /\ k \in NextStones(w)

Blocks(o, w) == \E k \in Keys : WaitsFor(w, o, k)

(* w waits for others that, in the end, wait for w.                         *)
WaitsForItself(w) ==
  \A S \in SUBSET Workers :
    (\A o \in Workers : Blocks(o, w) \/ (\E v \in S : Blocks(o, v)) => o \in S) => w \in S

(* PostgreSQL fails a statement of such a circle.                           *)
BreakDeadlock(w) ==
  /\ WaitsForItself(w)
  /\ RollBack(w)
  /\ UNCHANGED <<store, issued, touched, raced, mixed>>

-----------------------------------------------------------------------------
Arrive(w) ==
  \/ PutNote(w) \/ PutNotetype(w) \/ PutDeck(w) \/ BatchPush(w)
  \/ DeleteNote(w) \/ DeleteNotetype(w) \/ DeleteDeck(w) \/ BatchDelete(w)

Serve(w) ==
  \/ Accept(w) \/ Reject(w)
  \/ upsertNote(w) \/ upsertNotetype(w) \/ upsertDeck(w) \/ clearTombstone(w)
  \/ DeleteRow(w) \/ writeTombstone(w)
  \/ RefuseBatchDelete(w) \/ TxBegin(w) \/ TxDeleteRows(w) \/ TxRowsDeleted(w) \/ TxStonesWritten(w)
  \/ \E k \in Keys : TxDeleteRow(w, k) \/ TxWriteTombstone(w, k)
  \/ TxCommit(w)

Next == \E w \in Workers : Arrive(w) \/ Serve(w) \/ clearTombstoneFails(w) \/ Abort(w) \/ BreakDeadlock(w)

Spec == Init /\ [][Next]_vars

(* A goroutine that can run its next statement eventually does: the Go      *)
(* scheduler and the database make progress, which includes that a circle  *)
(* of waiting statements is broken; requests need not arrive.              *)
Fairness == \A w \in Workers : WF_vars(Serve(w)) /\ WF_vars(BreakDeadlock(w))

FairSpec == Spec /\ Fairness

-----------------------------------------------------------------------------
(* The variables have their types; a worker is idle exactly when it serves   *)
(* no request and at a push statement exactly when it serves a push; and a *)
(* transaction holds only what its own request named, only while it is     *)
(* open, and by its commit a tombstone for every key (batch.go             *)
(* BatchDelete).                                                           *)
WorkerOK(w) ==
  /\ pc[w] = "idle" <=> req[w] = NoRequest
  /\ pc[w] \in {"load", "upsert", "clear"} <=> IsPush(req[w])
  /\ IsPush(req[w]) => at[w] \in DOMAIN req[w].items
  /\ pc[w] \in {"deleteRow", "writeStone"} <=> req[w].op = "delete"
  /\ pc[w] = "txBegin" => at[w] = 1
  /\ rowsHeld[w] \subseteq req[w].keys
  /\ found[w] \subseteq IF pc[w] = "txFound" THEN KeysAt(w) ELSE {}
  /\ pc[w] \in {"txRows", "txFound"} => stonesHeld[w] = req[w].keys \cap Handled(at[w] - 1)
  /\ pc[w] = "txStones" => /\ req[w].keys \cap Handled(at[w] - 1) \subseteq stonesHeld[w]
                           /\ stonesHeld[w] \subseteq req[w].keys \cap Handled(at[w])
  /\ pc[w] \in {"txRows", "txFound", "txStones"} => at[w] \in DOMAIN DeleteOrder
  /\ pc[w] = "txCommit" => stonesHeld[w] = req[w].keys
  /\ pc[w] \notin {"txRows", "txFound", "txStones", "txCommit"} => rowsHeld[w] = {} /\ stonesHeld[w] = {}

TypeOK ==
  /\ row \in [Keys -> Contents \cup {Absent}]
  /\ stone \subseteq Keys
  /\ pc \in [Workers -> Steps]
  /\ req \in [Workers -> Requests \cup {NoRequest}]
  /\ at \in [Workers -> Nat \ {0}]
  /\ found \in [Workers -> SUBSET Keys]
  /\ rowsHeld \in [Workers -> SUBSET Keys]
  /\ stonesHeld \in [Workers -> SUBSET Keys]
  /\ issued \in 0..MaxRequests
  /\ touched \subseteq Keys
  /\ raced \subseteq Keys
  /\ mixed \subseteq Keys
  /\ \A w \in Workers : WorkerOK(w)

Quiet(k) == \A w \in Workers : ~Serving(w, k)

(* Once no request on a key is in flight, the key is either live or         *)
(* tombstoned, never both and never neither, as long as no push of it      *)
(* overlapped a delete of it and no request lost its second statement:     *)
(* overlapping pushes, overlapping deletes (single and batch) and aborts   *)
(* at any other statement are harmless (upsert.go, tombstone.go, batch.go).*)
LiveXorDeleted ==
  \A k \in Keys : (Quiet(k) /\ k \in touched \ mixed) => (Live(k) <=> k \notin stone)

(* A push that was not forced replaces the stored version only if that is   *)
(* the client's base or already equal to the new content, unless another   *)
(* push of the same key was in flight (notes.go PutNote, batch.go).        *)
ReplacesOnlyItsBase ==
  [][\A w \in Workers :
       (pc[w] = "upsert" /\ pc'[w] = "clear" /\ ~req[w].force
          /\ item(w).key \notin raced)
         => row[item(w).key] \in {Absent, item(w).base, item(w).new}]_vars

(* A request takes effect with the first of its two statements on a key, a   *)
(* batch delete with its commit.                                           *)
Stones ==
  (stone \ {item(w).key : w \in {v \in Workers : pc[v] = "clear"}})
    \cup UNION {req[w].keys : w \in {v \in Workers : pc[v] = "writeStone"}}

Effective ==
  [w \in Workers |-> CASE pc[w] \in {"load", "upsert"} -> at[w]
                       [] pc[w] = "clear"             -> at[w] + 1
                       [] pc[w] = "writeStone"        -> 2
                       [] OTHER                       -> 1]

Atomic == INSTANCE ItemStore WITH stones <- Stones, next <- Effective, contended <- raced, torn <- mixed

(* The statements of overlapping requests, failures and aborts included, do   *)
(* what a store of atomic items does: to each other request the items of a *)
(* push and whole deletions happen in one moment, in the order sent, on    *)
(* what the client had seen, but for keys whose requests overlapped or     *)
(* were cut off (notes.go, upsert.go, tombstone.go, batch.go).             *)
ImplementsItems == Atomic!Spec

(* Workers each of which waits for one of them and keeps one of them waiting. *)
Circle(S) ==
  S # {} /\ \A w \in S : (\E o \in S : Blocks(o, w)) /\ (\E o \in S : Blocks(w, o))

(* The keys of each type in the order the repository's clients sort them.     *)
Sorted(r) == \A j, k \in r.keys : Before(r, j, k) /\ TypeOf[j] = TypeOf[k] => <<j, k>> \in SortOrder

(* Requests wait for each other in a circle only within one type: two         *)
(* transactions of it are at the same statement on rows or on tombstones   *)
(* of the same type, and at the tombstones somebody's array is not sorted  *)
(* as the repository's clients sort theirs (batch.go BatchDelete handles   *)
(* the types in one order, and a tombstone after the row).                 *)
CirclesWithinAType ==
  \A S \in SUBSET Workers : Circle(S) =>
    \E w, o, p \in S, j, k \in Keys :
      /\ WaitsFor(w, o, k) /\ WaitsFor(o, p, j)
      /\ pc[w] = pc[o] /\ TypeOf[j] = TypeOf[k]
      /\ pc[w] = "txStones" => \E v \in S : ~Sorted(req[v])

(* Every request is answered, if with the failure of a circle's statement: no *)
(* row or tombstone somebody has locked keeps a worker waiting for ever    *)
(* (batch.go).                                                             *)
EveryRequestAnswered == \A w \in Workers : pc[w] # "idle" ~> pc[w] = "idle"
=============================================================================
