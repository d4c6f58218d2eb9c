------------------------- MODULE StoreAndPlan_proofs -------------------------
(***************************************************************************)
(* Theorems about the content store and about the planned sync of the      *)
(* clients that write to such a store, for every number of keys, contents, *)
(* workers and requests, and of notes, clients and readings of the clock.  *)
(***************************************************************************)
EXTENDS ContentStore, PlannedSync, TLAPS

USE DEF Types

(* One worker moved: the others keep their control state and locks.         *)
OthersKeep(w) ==
  \A v \in Workers \ {w} : /\ pc'[v] = pc[v] /\ req'[v] = req[v] /\ at'[v] = at[v]
                           /\ rowsHeld'[v] = rowsHeld[v] /\ stonesHeld'[v] = stonesHeld[v]
                           /\ found'[v] \subseteq found[v]

(* A request that is served is one of Requests, and every item of a push     *)
(* is well formed and about a key the request names.                       *)
LEMMA ServedRequest ==
  ASSUME TypeOK, NEW w \in Workers, req[w] # NoRequest
  PROVE  /\ req[w] \in Requests
         /\ req[w] \in Request
         /\ IsPush(req[w]) => /\ req[w].items \in Seq(Item)
                              /\ item(w) \in Item
                              /\ item(w).key \in req[w].keys
                              /\ item(w).key \in Keys
<1>1. req[w] \in Requests /\ req[w] \in Request
  BY RequestsAssumption DEF TypeOK
<1>2. ASSUME IsPush(req[w])
      PROVE  req[w].items \in Seq(Item) /\ at[w] \in DOMAIN req[w].items
  BY <1>1, <1>2 DEF TypeOK, WorkerOK, Request
<1>3. ASSUME IsPush(req[w])
      PROVE  item(w) \in Item /\ item(w).key \in req[w].keys /\ item(w).key \in Keys
  <2>1. item(w) \in Item
    BY <1>2, <1>3 DEF item
  <2>2. item(w).key \in req[w].keys
    BY <1>1, <1>2, <1>3, RequestsAssumption DEF item
  <2>. QED  BY <2>1, <2>2 DEF Item
<1>. QED  BY <1>1, <1>2, <1>3

(* The value of NoRequest's fields.                                         *)
LEMMA NoRequestFields ==
  NoRequest.keys = {} /\ ~IsPush(NoRequest) /\ NoRequest.op = "none"
BY DEF NoRequest, IsPush

(* What the end of a request does to the control state of the worker.       *)
LEMMA FinishControl ==
  ASSUME TypeOK, NEW w \in Workers, Finish(w)
  PROVE  /\ pc' \in [Workers -> Steps]
         /\ req' \in [Workers -> Requests \cup {NoRequest}]
         /\ at' \in [Workers -> Nat \ {0}]
         /\ \A v \in Workers \ {w} : pc'[v] = pc[v] /\ req'[v] = req[v] /\ at'[v] = at[v]
         /\ pc'[w] = "idle" /\ req'[w] = NoRequest
BY DEF Finish, Step, TypeOK, Steps

(* What the end of an item does to the control state of the worker.         *)
LEMMA NextItemControl ==
  ASSUME TypeOK, NEW w \in Workers, IsPush(req[w]), NextItem(w)
  PROVE  /\ pc' \in [Workers -> Steps]
         /\ req' \in [Workers -> Requests \cup {NoRequest}]
         /\ at' \in [Workers -> Nat \ {0}]
         /\ \A v \in Workers \ {w} : pc'[v] = pc[v] /\ req'[v] = req[v] /\ at'[v] = at[v]
         /\ \/ pc'[w] = "load" /\ req'[w] = req[w] /\ at'[w] \in DOMAIN req[w].items
            \/ pc'[w] = "idle" /\ req'[w] = NoRequest
<1>1. req[w] # NoRequest
  BY NoRequestFields
<1>2. req[w].items \in Seq(Item) /\ at[w] \in DOMAIN req[w].items /\ at[w] \in Nat \ {0}
  BY <1>1, ServedRequest DEF TypeOK, WorkerOK
<1>3. CASE at[w] < Len(req[w].items)
  <2>1. at[w] + 1 \in DOMAIN req[w].items /\ at[w] + 1 \in Nat \ {0}
    <3>1. DOMAIN req[w].items = 1..Len(req[w].items) /\ Len(req[w].items) \in Nat
      BY <1>2
    <3>. QED  BY <1>2, <1>3, <3>1
  <2>. QED
    BY <1>3, <2>1, <1>2 DEF NextItem, Step, TypeOK, Steps
<1>4. CASE ~(at[w] < Len(req[w].items))
  <2>1. Finish(w)
    BY <1>4 DEF NextItem
  <2>. QED  BY <2>1, FinishControl
<1>. QED  BY <1>3, <1>4

(* Every way a request can arrive is a Receive with the first step that      *)
(* belongs to its kind.                                                    *)
LEMMA ArriveReceives ==
  ASSUME NEW w \in Workers, Arrive(w)
  PROVE  \E r \in Requests, first \in {"load", "deleteRow", "txBegin"} :
            /\ Receive(w, r, first)
            /\ IsPush(r) <=> first = "load"
            /\ r.op = "delete" <=> first = "deleteRow"
            /\ r.op # "none"
<1>1. CASE PutNote(w) \/ PutNotetype(w) \/ PutDeck(w)
  BY <1>1 DEF PutNote, PutNotetype, PutDeck, Put, IsPush
<1>2. CASE BatchPush(w)
  BY <1>2 DEF BatchPush, IsPush
<1>3. CASE DeleteNote(w) \/ DeleteNotetype(w) \/ DeleteDeck(w)
  BY <1>3 DEF DeleteNote, DeleteNotetype, DeleteDeck, Delete, IsPush
<1>4. CASE BatchDelete(w)
  BY <1>4 DEF BatchDelete, IsPush
<1>. QED  BY <1>1, <1>2, <1>3, <1>4 DEF Arrive

(* Type by type, the transaction comes to handle every key.                 *)
LEMMA HandledSteps ==
  /\ Len(DeleteOrder) = 3 /\ DOMAIN DeleteOrder = 1..3
  /\ Handled(0) = {} /\ Handled(3) = Keys
  /\ \A n \in 1..3 : Handled(n) = Handled(n - 1) \cup {k \in Keys : TypeOf[k] = DeleteOrder[n]}
<1>1. Len(DeleteOrder) = 3 /\ DOMAIN DeleteOrder = 1..3
  BY DEF DeleteOrder
<1>2. DeleteOrder[1] = "note" /\ DeleteOrder[2] = "notetype" /\ DeleteOrder[3] = "deck"
  BY DEF DeleteOrder
<1>3. Handled(0) = {}
  BY DEF Handled
<1>4. \A n \in 1..3 : Handled(n) = Handled(n - 1) \cup {k \in Keys : TypeOf[k] = DeleteOrder[n]}
  BY DEF Handled
<1>5. Handled(3) = Keys
  BY <1>2, TypesAssumption DEF Handled
<1>. QED  BY <1>1, <1>3, <1>4, <1>5

(* The end of one type's statements: the tombstones held are those of the    *)
(* types handled so far, of every type once the commit is next.            *)
LEMMA NextTypeControl ==
  ASSUME TypeOK, NEW w \in Workers, TxStonesWritten(w)
  PROVE  /\ pc' \in [Workers -> Steps] /\ at' \in [Workers -> Nat \ {0}]
         /\ req' = req /\ found' = found /\ rowsHeld' = rowsHeld /\ stonesHeld' = stonesHeld
         /\ \A v \in Workers \ {w} : pc'[v] = pc[v] /\ at'[v] = at[v]
         /\ stonesHeld[w] = req[w].keys \cap Handled(at[w])
         /\ \/ pc'[w] = "txRows" /\ at'[w] = at[w] + 1 /\ at'[w] \in DOMAIN DeleteOrder
            \/ pc'[w] = "txCommit" /\ stonesHeld[w] = req[w].keys
<1>0. WorkerOK(w) /\ pc[w] = "txStones" /\ KeysAt(w) \subseteq stonesHeld[w] /\ UNCHANGED <<found, rowsHeld, stonesHeld>>
  BY DEF TxStonesWritten, TypeOK, locks
<1>1. req[w].keys \subseteq Keys /\ at[w] \in 1..3
  BY <1>0, HandledSteps, ServedRequest DEF WorkerOK, Request
<1>2. stonesHeld[w] = req[w].keys \cap Handled(at[w])
  <2>1. req[w].keys \cap Handled(at[w]) = (req[w].keys \cap Handled(at[w] - 1)) \cup KeysAt(w)
    BY <1>1, HandledSteps DEF KeysAt
  <2>2. /\ req[w].keys \cap Handled(at[w] - 1) \subseteq stonesHeld[w]
        /\ stonesHeld[w] \subseteq req[w].keys \cap Handled(at[w])
    BY <1>0 DEF WorkerOK
  <2>. QED  BY <1>0, <2>1, <2>2
<1>4. CASE at[w] < Len(DeleteOrder)
  <2>1. at[w] + 1 \in DOMAIN DeleteOrder /\ at[w] + 1 \in Nat \ {0}
    BY <1>1, <1>4, HandledSteps
  <2>2. /\ pc' = [pc EXCEPT ![w] = "txRows"] /\ at' = [at EXCEPT ![w] = at[w] + 1] /\ req' = req
    BY <1>4 DEF TxStonesWritten, Step
  <2>3. /\ pc' \in [Workers -> Steps] /\ pc'[w] = "txRows"
        /\ \A v \in Workers \ {w} : pc'[v] = pc[v]
    BY <2>2 DEF TypeOK, Steps
  <2>4. /\ at' \in [Workers -> Nat \ {0}] /\ at'[w] = at[w] + 1
        /\ \A v \in Workers \ {w} : at'[v] = at[v]
    BY <2>1, <2>2 DEF TypeOK
  <2>. QED  BY <1>0, <1>2, <2>1, <2>2, <2>3, <2>4
<1>5. CASE ~(at[w] < Len(DeleteOrder))
  <2>1. at[w] = 3
    BY <1>1, <1>5, HandledSteps
  <2>2. stonesHeld[w] = req[w].keys
    BY <2>1, <1>1, <1>2, HandledSteps
  <2>. QED
    BY <1>0, <1>2, <1>5, <2>2 DEF TxStonesWritten, Goto, Step, TypeOK, Steps
<1>. QED  BY <1>4, <1>5

(* The end of a request that is rolled back.                                *)
LEMMA RollBackControl ==
  ASSUME TypeOK, NEW w \in Workers, RollBack(w)
  PROVE  /\ Finish(w)
         /\ found' \in [Workers -> SUBSET Keys] /\ rowsHeld' \in [Workers -> SUBSET Keys]
         /\ stonesHeld' \in [Workers -> SUBSET Keys]
         /\ found'[w] = {} /\ rowsHeld'[w] = {} /\ stonesHeld'[w] = {}
         /\ \A v \in Workers \ {w} : /\ found'[v] = found[v] /\ rowsHeld'[v] = rowsHeld[v]
                                     /\ stonesHeld'[v] = stonesHeld[v]
BY DEF RollBack, Release, TypeOK

-----------------------------------------------------------------------------
(* The control part of TypeOK, and the part every statement leaves typed.   *)
Control ==
  /\ found \in [Workers -> SUBSET Keys]
  /\ pc \in [Workers -> Steps]
  /\ req \in [Workers -> Requests \cup {NoRequest}]
  /\ at \in [Workers -> Nat \ {0}]
  /\ rowsHeld \in [Workers -> SUBSET Keys]
  /\ stonesHeld \in [Workers -> SUBSET Keys]

Data ==
  /\ row \in [Keys -> Contents \cup {Absent}]
  /\ stone \subseteq Keys
  /\ issued \in 0..MaxRequests
  /\ touched \subseteq Keys
  /\ raced \subseteq Keys
  /\ mixed \subseteq Keys

LEMMA WorkersOK ==
  ASSUME TypeOK, NEW w \in Workers, Control', OthersKeep(w), WorkerOK(w)', Data'
  PROVE  TypeOK'
<1>1. ASSUME NEW v \in Workers \ {w} PROVE WorkerOK(v)'
  <2>1. WorkerOK(v)
    BY DEF TypeOK
  <2>2. KeysAt(v)' = KeysAt(v)
    BY DEF OthersKeep, KeysAt
  <2>. QED  BY <2>1, <2>2 DEF WorkerOK, OthersKeep
<1>. QED  BY <1>1 DEF TypeOK, Control, Data

(* A step that only moves the program counter of a worker.                  *)
LEMMA GotoControl ==
  ASSUME TypeOK, NEW w \in Workers, NEW s \in Steps, Goto(w, s)
  PROVE  /\ pc' \in [Workers -> Steps]
         /\ req' = req /\ at' = at /\ pc'[w] = s
         /\ \A v \in Workers \ {w} : pc'[v] = pc[v]
BY DEF Goto, Step, TypeOK, Steps

(* Every variable keeps its type, a worker serves a request exactly when it  *)
(* is not idle, and a transaction holds only rows and tombstones its own   *)
(* request named (batch.go BatchDelete).                                   *)
THEOREM TypeCorrect == Spec => []TypeOK
<1>1. Init => TypeOK
  BY BoundsAssumption, NoRequestFields DEF Init, TypeOK, Steps, WorkerOK
<1>2. TypeOK /\ [Next]_vars => TypeOK'
  <2> SUFFICES ASSUME TypeOK, [Next]_vars PROVE TypeOK'
    OBVIOUS
  <2>1. CASE UNCHANGED vars
    BY <2>1 DEF vars, TypeOK, WorkerOK, KeysAt
  <2>2. ASSUME NEW w \in Workers, Arrive(w) PROVE TypeOK'
    <3>1. PICK r \in Requests, first \in {"load", "deleteRow", "txBegin"} :
             /\ Receive(w, r, first) /\ r.op # "none"
             /\ (IsPush(r) <=> first = "load") /\ (r.op = "delete" <=> first = "deleteRow")
      BY <2>2, ArriveReceives
    <3>2. r # NoRequest /\ r \in Request
      BY <3>1, RequestsAssumption, NoRequestFields
    <3>3. IsPush(r) => 1 \in DOMAIN r.items
      BY <3>1, <3>2, RequestsAssumption DEF Request
    <3>4. /\ pc[w] = "idle" /\ found[w] = {} /\ rowsHeld[w] = {} /\ stonesHeld[w] = {}
          /\ UNCHANGED <<row, stone, found, rowsHeld, stonesHeld, touched>>
      BY <3>1, NoRequestFields DEF Receive, TypeOK, WorkerOK, store, locks
    <3>5. Data'
      BY <3>1, <3>2, <3>4, BoundsAssumption DEF Receive, TypeOK, Data, Request
    <3>6. /\ Control' /\ OthersKeep(w)
          /\ pc'[w] = first /\ req'[w] = r /\ at'[w] = 1
      BY <3>1, <3>4 DEF Receive, Step, TypeOK, Steps, Control, OthersKeep
    <3>7. WorkerOK(w)'
      BY <3>1, <3>2, <3>3, <3>4, <3>6 DEF WorkerOK
    <3>. QED
      BY <3>5, <3>6, <3>7, WorkersOK
  <2>3. ASSUME NEW w \in Workers, Serve(w) \/ clearTombstoneFails(w) \/ Abort(w) \/ BreakDeadlock(w) PROVE TypeOK'
    <3>. WorkerOK(w)
      BY DEF TypeOK
    <3>1. CASE Accept(w)
      <4>1. Control' /\ OthersKeep(w) /\ WorkerOK(w)' /\ Data'
        BY <3>1, GotoControl DEF Accept, store, locks, TypeOK, WorkerOK, Control, Data, OthersKeep, Steps
      <4>. QED  BY <4>1, WorkersOK
    <3>2. CASE Reject(w) \/ clearTombstone(w) \/ clearTombstoneFails(w)
      <4>1. /\ IsPush(req[w]) /\ found[w] = {} /\ rowsHeld[w] = {} /\ stonesHeld[w] = {}
            /\ NextItem(w) /\ UNCHANGED <<row, found, rowsHeld, stonesHeld, issued, touched, raced>>
        BY <3>2 DEF Reject, clearTombstone, clearTombstoneFails, WorkerOK, store, locks
      <4>2. req[w] # NoRequest /\ item(w).key \in Keys
        BY <4>1, NoRequestFields, ServedRequest
      <4>3. Data'
        BY <3>2, <4>1, <4>2 DEF Reject, clearTombstone, clearTombstoneFails, Data, TypeOK, store
      <4>4. Control' /\ OthersKeep(w) /\ WorkerOK(w)'
        <5>1. /\ Control' /\ OthersKeep(w) /\ found'[w] = {} /\ rowsHeld'[w] = {} /\ stonesHeld'[w] = {}
              /\ \/ pc'[w] = "load" /\ req'[w] = req[w] /\ at'[w] \in DOMAIN req[w].items
                 \/ pc'[w] = "idle" /\ req'[w] = NoRequest
          BY <4>1, NextItemControl DEF TypeOK, Control, OthersKeep
        <5>2. req[w].op # "delete"
          BY <4>1 DEF IsPush
        <5>. QED  BY <4>1, <4>2, <5>1, <5>2, NoRequestFields DEF WorkerOK
      <4>. QED  BY <4>3, <4>4, WorkersOK
    <3>3. CASE upsertNote(w) \/ upsertNotetype(w) \/ upsertDeck(w)
      <4>1. PICK type \in Types : Upsert(w, type)
        BY <3>3 DEF upsertNote, upsertNotetype, upsertDeck
      <4>2. req[w] # NoRequest /\ IsPush(req[w])
        BY <4>1, NoRequestFields DEF Upsert, WorkerOK
      <4>3. item(w) \in Item /\ item(w).key \in Keys
        BY <4>2, ServedRequest
      <4>4. Control' /\ OthersKeep(w) /\ WorkerOK(w)'
        BY <4>1, <4>2, GotoControl DEF Upsert, locks, TypeOK, WorkerOK, Control, OthersKeep, Steps
      <4>5. Data'
        BY <4>1, <4>3 DEF Upsert, Data, TypeOK, Item
      <4>. QED  BY <4>4, <4>5, WorkersOK
    <3>4. CASE DeleteRow(w)
      <4>1. req[w].keys \subseteq Keys
        BY <3>4, ServedRequest DEF DeleteRow, WorkerOK, Request
      <4>2. /\ UNCHANGED <<req, at, rowsHeld, stonesHeld>> /\ pc[w] = "deleteRow" /\ pc'[w] = "writeStone"
            /\ \A v \in Workers : found'[v] \subseteq found[v]
            /\ Control' /\ OthersKeep(w)
        BY <3>4, GotoControl DEF DeleteRow, NotFound, TypeOK, Control, OthersKeep, Steps
      <4>4. WorkerOK(w)'
        BY <4>2 DEF WorkerOK
      <4>3. Data'
        BY <3>4, <4>1 DEF DeleteRow, Data, TypeOK
      <4>. QED  BY <4>2, <4>3, <4>4, WorkersOK
    <3>5. CASE writeTombstone(w) \/ RefuseBatchDelete(w)
      <4>1. req[w].keys \subseteq Keys
        BY <3>5, ServedRequest DEF writeTombstone, RefuseBatchDelete, WorkerOK, Request
      <4>2. /\ Finish(w) /\ UNCHANGED <<row, found, rowsHeld, stonesHeld, issued, touched, raced, mixed>>
            /\ stone' \subseteq stone \cup req[w].keys
            /\ found[w] = {} /\ rowsHeld[w] = {} /\ stonesHeld[w] = {}
        BY <3>5 DEF writeTombstone, RefuseBatchDelete, WorkerOK, store, locks
      <4>3. Control' /\ OthersKeep(w) /\ WorkerOK(w)'
        BY <4>2, FinishControl, NoRequestFields DEF TypeOK, WorkerOK, Control, OthersKeep
      <4>4. Data'
        BY <4>1, <4>2 DEF Data, TypeOK
      <4>. QED  BY <4>3, <4>4, WorkersOK
    <3>6. CASE TxDeleteRows(w)
      <4>1. KeysAt(w) \subseteq Keys /\ KeysAt(w)' = KeysAt(w)
        BY <3>6, ServedRequest DEF TxDeleteRows, WorkerOK, Request, KeysAt, Goto
      <4>2. /\ UNCHANGED <<req, at, rowsHeld, stonesHeld>> /\ pc[w] = "txRows" /\ pc'[w] = "txFound"
            /\ Control' /\ OthersKeep(w) /\ found'[w] \subseteq KeysAt(w)
        BY <3>6, <4>1, GotoControl DEF TxDeleteRows, TypeOK, Control, OthersKeep, Steps
      <4>3. WorkerOK(w)'
        BY <4>1, <4>2 DEF WorkerOK, Handled
      <4>4. Data'
        BY <3>6 DEF TxDeleteRows, store, TypeOK, Data
      <4>. QED  BY <4>2, <4>3, <4>4, WorkersOK
    <3>7. CASE \E k \in Keys : TxDeleteRow(w, k) \/ TxWriteTombstone(w, k)
      <4>1. PICK k \in Keys : TxDeleteRow(w, k) \/ TxWriteTombstone(w, k)
        BY <3>7
      <4>2. UNCHANGED <<pc, req, at>> /\ KeysAt(w)' = KeysAt(w) /\ Data'
        BY <4>1 DEF TxDeleteRow, TxWriteTombstone, KeysAt, store, Data, TypeOK
      <4>3. CASE TxDeleteRow(w, k)
        <5>1. /\ k \in found[w] /\ stonesHeld' = stonesHeld /\ Control' /\ OthersKeep(w)
              /\ found'[w] \subseteq found[w] /\ rowsHeld'[w] = rowsHeld[w] \cup {k}
          BY <4>3 DEF TxDeleteRow, TypeOK, Control, OthersKeep
        <5>2. pc[w] = "txFound" /\ k \in req[w].keys
          BY <5>1 DEF WorkerOK, KeysAt
        <5>3. WorkerOK(w)'
          BY <4>2, <5>1, <5>2 DEF WorkerOK, Handled
        <5>. QED  BY <4>2, <5>1, <5>3, WorkersOK
      <4>4. CASE TxWriteTombstone(w, k)
        <5>1. /\ pc[w] = "txStones" /\ k \in KeysAt(w) /\ UNCHANGED <<found, rowsHeld>>
              /\ Control' /\ OthersKeep(w) /\ stonesHeld'[w] = stonesHeld[w] \cup {k}
          BY <4>4 DEF TxWriteTombstone, NextStones, TypeOK, Control, OthersKeep
        <5>2. k \in req[w].keys \cap Handled(at[w])
          <6>1. at[w] \in 1..3
            BY <5>1, HandledSteps DEF WorkerOK
          <6>. QED  BY <5>1, <6>1, HandledSteps DEF KeysAt
        <5>3. WorkerOK(w)'
          BY <4>2, <5>1, <5>2 DEF WorkerOK, Handled
        <5>. QED  BY <4>2, <5>1, <5>3, WorkersOK
      <4>. QED  BY <4>1, <4>3, <4>4
    <3>11. CASE TxRowsDeleted(w)
      <4>1. /\ UNCHANGED <<req, at, found, rowsHeld, stonesHeld>> /\ pc[w] = "txFound" /\ pc'[w] = "txStones"
            /\ found[w] = {} /\ Control' /\ OthersKeep(w) /\ Data'
        BY <3>11, GotoControl DEF TxRowsDeleted, store, locks, TypeOK, Control, Data, OthersKeep, Steps
      <4>2. req[w].keys \cap Handled(at[w] - 1) \subseteq Handled(at[w])
        <5>1. at[w] \in 1..3
          BY <4>1, HandledSteps DEF WorkerOK
        <5>. QED  BY <5>1, HandledSteps
      <4>3. WorkerOK(w)'
        BY <4>1, <4>2 DEF WorkerOK, Handled
      <4>. QED  BY <4>1, <4>3, WorkersOK
    <3>12. CASE TxStonesWritten(w)
      <4>1. /\ pc[w] = "txStones" /\ req[w] # NoRequest /\ ~IsPush(req[w]) /\ req[w].op # "delete"
            /\ rowsHeld[w] \subseteq req[w].keys /\ found[w] = {} /\ at[w] \in Nat
        BY <3>12 DEF TxStonesWritten, TypeOK, WorkerOK
      <4>2. Control' /\ OthersKeep(w) /\ UNCHANGED <<req, found, rowsHeld, stonesHeld>>
        BY <3>12, NextTypeControl DEF TypeOK, Control, OthersKeep
      <4>9. /\ ~IsPush(req'[w]) /\ req'[w] # NoRequest /\ req'[w].op # "delete"
            /\ rowsHeld'[w] \subseteq req'[w].keys /\ found'[w] = {}
        BY <4>1, <4>2
      <4>3. ASSUME pc'[w] = "txRows", at'[w] = at[w] + 1, at'[w] \in DOMAIN DeleteOrder
            PROVE  WorkerOK(w)'
        <5>1. stonesHeld'[w] = req'[w].keys \cap Handled(at'[w] - 1)
          BY <3>12, <4>1, <4>2, <4>3, NextTypeControl
        <5>. QED  BY <4>9, <4>3, <5>1 DEF WorkerOK, Handled
      <4>4. ASSUME pc'[w] = "txCommit", stonesHeld[w] = req[w].keys
            PROVE  WorkerOK(w)'
        BY <4>2, <4>9, <4>4 DEF WorkerOK
      <4>5. WorkerOK(w)'
        <5>1. \/ pc'[w] = "txRows" /\ at'[w] = at[w] + 1 /\ at'[w] \in DOMAIN DeleteOrder
              \/ pc'[w] = "txCommit" /\ stonesHeld[w] = req[w].keys
          BY <3>12, NextTypeControl
        <5>. QED  BY <4>3, <4>4, <5>1
      <4>6. Data'
        BY <3>12 DEF TxStonesWritten, store, TypeOK, Data
      <4>. QED  BY <4>2, <4>5, <4>6, WorkersOK
    <3>8. CASE TxCommit(w)
      <4>1. req[w].keys \subseteq Keys /\ found[w] = {}
        BY <3>8, ServedRequest DEF TxCommit, WorkerOK, Request
      <4>2. /\ Finish(w) /\ \A v \in Workers : found'[v] \subseteq found[v]
            /\ found' \in [Workers -> SUBSET Keys] /\ rowsHeld' \in [Workers -> SUBSET Keys]
            /\ stonesHeld' \in [Workers -> SUBSET Keys]
            /\ rowsHeld'[w] = {} /\ stonesHeld'[w] = {}
            /\ \A v \in Workers \ {w} : rowsHeld'[v] = rowsHeld[v] /\ stonesHeld'[v] = stonesHeld[v]
        BY <3>8 DEF TxCommit, NotFound, Release, TypeOK
      <4>3. Control' /\ OthersKeep(w) /\ WorkerOK(w)'
        BY <4>1, <4>2, FinishControl, NoRequestFields DEF WorkerOK, Control, OthersKeep
      <4>4. Data'
        BY <3>8, <4>1 DEF TxCommit, Data, TypeOK
      <4>. QED  BY <4>3, <4>4, WorkersOK
    <3>9. CASE Abort(w) \/ BreakDeadlock(w)
      <4>1. RollBack(w) /\ UNCHANGED <<row, stone, issued, touched, raced>>
        BY <3>9 DEF Abort, BreakDeadlock, store
      <4>2. Control' /\ OthersKeep(w) /\ WorkerOK(w)'
        BY <4>1, RollBackControl, FinishControl, NoRequestFields DEF WorkerOK, Control, OthersKeep
      <4>3. mixed' \subseteq Keys
        <5>1. CASE pc[w] \in {"clear", "writeStone"} /\ Abort(w)
          <6>1. req[w] # NoRequest /\ (pc[w] = "clear" => IsPush(req[w]))
            BY <5>1 DEF WorkerOK
          <6>2. req[w].keys \subseteq Keys /\ (pc[w] = "clear" => item(w).key \in Keys)
            BY <6>1, ServedRequest DEF Request
          <6>. QED  BY <5>1, <6>2 DEF Abort, TypeOK
        <5>2. CASE ~(pc[w] \in {"clear", "writeStone"} /\ Abort(w))
          BY <3>9, <5>2 DEF Abort, BreakDeadlock, TypeOK
        <5>. QED  BY <5>1, <5>2
      <4>4. Data'
        BY <4>1, <4>3 DEF Data, TypeOK
      <4>. QED  BY <4>2, <4>4, WorkersOK
    <3>10. CASE TxBegin(w)
      <4>1. Control' /\ OthersKeep(w) /\ Data'
        BY <3>10, GotoControl DEF TxBegin, store, locks, TypeOK, Control, Data, OthersKeep, Steps
      <4>2. /\ at[w] = 1 /\ stonesHeld[w] = {} /\ found[w] = {} /\ pc'[w] = "txRows"
            /\ UNCHANGED <<req, at, found, rowsHeld, stonesHeld>>
        BY <3>10, GotoControl DEF TxBegin, locks, WorkerOK, Steps
      <4>3. at[w] \in DOMAIN DeleteOrder /\ stonesHeld[w] = req[w].keys \cap Handled(at[w] - 1)
        BY <4>2, HandledSteps
      <4>4. WorkerOK(w)'
        BY <3>10, <4>2, <4>3 DEF TxBegin, WorkerOK, Handled
      <4>. QED  BY <4>1, <4>4, WorkersOK
    <3>. QED
      BY <2>3, <3>1, <3>2, <3>3, <3>4, <3>5, <3>6, <3>7, <3>8, <3>9, <3>10, <3>11, <3>12 DEF Serve
  <2>. QED  BY <2>1, <2>2, <2>3 DEF Next
<1>. QED  BY <1>1, <1>2, PTL DEF Spec

-----------------------------------------------------------------------------
(* LiveXorDeleted.  The invariant speaks of each key on its own.  As long as  *)
(* the key is not mixed, pushes and deletes of it are never in flight at   *)
(* the same time; so from the upsert of a key until its tombstone is       *)
(* cleared the row stays, from the delete of its row until the tombstone   *)
(* is written the row stays away, and a transaction holds, or has found    *)
(* and will come to, every live row whose type it is past.  When nobody is between two such        *)
(* statements the key is settled: never seen, live, or tombstoned.         *)
AtClear(w, k) == pc[w] = "clear" /\ item(w).key = k
AtStone(w, k) == pc[w] = "writeStone" /\ k \in req[w].keys
InTx(w, k) ==
  /\ k \in req[w].keys
  /\ \/ pc[w] = "txRows" /\ k \in Handled(at[w] - 1)
     \/ pc[w] \in {"txFound", "txStones"} /\ k \in Handled(at[w])
     \/ pc[w] = "txCommit"

(* Who is about to clear a tombstone serves a push of that key.             *)
LEMMA AtClearPushes ==
  ASSUME TypeOK, NEW k \in Keys
  PROVE  \A v \in Workers : AtClear(v, k) => Pushing(v, k)
<1> SUFFICES ASSUME NEW v \in Workers, AtClear(v, k) PROVE Pushing(v, k)
  OBVIOUS
<1>1. IsPush(req[v]) /\ req[v] # NoRequest
  BY NoRequestFields DEF AtClear, TypeOK, WorkerOK
<1>. QED  BY <1>1, ServedRequest DEF AtClear, Pushing, Serving

Settled(k) ==
  /\ k \in touched => (Live(k) <=> k \notin stone)
  /\ k \notin touched => ~Live(k) /\ k \notin stone

KeyInv(k) ==
  k \notin mixed =>
    /\ \A w, v \in Workers : ~(Pushing(w, k) /\ Deleting(v, k))
    /\ \A w \in Workers : AtClear(w, k) => Live(k) /\ k \in touched
    /\ \A w \in Workers : AtStone(w, k) => ~Live(k) /\ k \in touched
    /\ \A w \in Workers : InTx(w, k) /\ Live(k) => k \in rowsHeld[w] \cup found[w]
    /\ (\A w \in Workers : ~AtClear(w, k) /\ ~AtStone(w, k)) => Settled(k)

(* Who waits for itself waits for a transaction and keeps somebody waiting:  *)
(* both are batch deletes, which have a key in common.                     *)
LEMMA CircleIsOfBatches ==
  ASSUME TypeOK, NEW w \in Workers, WaitsForItself(w)
  PROVE  /\ pc[w] \in {"txRows", "txFound", "txStones", "txCommit"} /\ req[w].op = "batchDelete"
         /\ \E o \in Workers \ {w} : req[o].op = "batchDelete" /\ req[o].keys \cap req[w].keys # {}
<1>1. ASSUME NEW v \in Workers, NEW o \in Workers, NEW k \in Keys, WaitsFor(v, o, k)
      PROVE  /\ o # v /\ pc[o] \in {"txRows", "txFound", "txStones", "txCommit"}
             /\ req[o].op = "batchDelete" /\ k \in req[o].keys /\ k \in req[v].keys
  <2>0. WorkerOK(o) /\ WorkerOK(v)
    BY DEF TypeOK
  <2>1. o # v /\ (k \in rowsHeld[o] \/ k \in stonesHeld[o])
    BY <1>1 DEF WaitsFor
  <2>2. pc[o] \in {"txRows", "txFound", "txStones", "txCommit"}
    BY <2>0, <2>1 DEF WorkerOK
  <2>3. stonesHeld[o] \subseteq req[o].keys /\ rowsHeld[o] \subseteq req[o].keys
    BY <2>0, <2>2 DEF WorkerOK
  <2>4. req[o] \in Request /\ ~IsPush(req[o]) /\ req[o].op # "delete"
    BY <2>0, <2>2, ServedRequest DEF WorkerOK
  <2>5. req[o].op = "batchDelete"
    BY <2>4 DEF Request, IsPush
  <2>6. k \in req[v].keys
    <3>1. CASE pc[v] \in {"upsert", "clear"} /\ item(v).key = k
      BY <2>0, <3>1, ServedRequest, NoRequestFields DEF WorkerOK
    <3>2. CASE k \in found[v] \/ k \in NextStones(v) \/ k \in req[v].keys
      BY <2>0, <3>2 DEF WorkerOK, NextStones, KeysAt
    <3>. QED  BY <1>1, <3>1, <3>2 DEF WaitsFor
  <2>. QED  BY <2>1, <2>2, <2>3, <2>5, <2>6
<1>2. PICK o \in Workers : Blocks(o, w)
  <2>. SUFFICES ASSUME \A o \in Workers : ~Blocks(o, w) PROVE FALSE
    OBVIOUS
  <2>1. {} \in SUBSET Workers /\ \A o \in Workers : Blocks(o, w) \/ (\E v \in {} : Blocks(o, v)) => o \in {}
    OBVIOUS
  <2>. QED  BY <2>1 DEF WaitsForItself
<1>3. PICK v \in Workers : Blocks(w, v)
  <2>. SUFFICES ASSUME \A v \in Workers : ~Blocks(w, v) PROVE FALSE
    OBVIOUS
  <2>1. \A u \in Workers : Blocks(u, w) \/ (\E v \in Workers \ {w} : Blocks(u, v)) => u \in Workers \ {w}
    OBVIOUS
  <2>. QED  BY <2>1 DEF WaitsForItself
<1>. QED  BY <1>1, <1>2, <1>3 DEF Blocks

LEMMA KeyInvStep ==
  ASSUME TypeOK, TypeOK', NEW k \in Keys, KeyInv(k), [Next]_vars
  PROVE  KeyInv(k)'
<1>. USE DEF KeyInv, Settled, Live
<1>1. CASE UNCHANGED vars
  BY <1>1 DEF vars, AtClear, AtStone, InTx, item, Pushing, Deleting, Serving
<1>2. ASSUME NEW w \in Workers, Arrive(w) PROVE KeyInv(k)'
  <2>1. PICK r \in Requests, first \in {"load", "deleteRow", "txBegin"} :
           /\ Receive(w, r, first) /\ r.op # "none"
             /\ (IsPush(r) <=> first = "load") /\ (r.op = "delete" <=> first = "deleteRow")
    BY <1>2, ArriveReceives
  <2>2. /\ UNCHANGED <<row, stone, found, rowsHeld, touched>> /\ mixed \subseteq mixed'
        /\ pc'[w] = first /\ req'[w] = r
        /\ \A v \in Workers \ {w} : pc'[v] = pc[v] /\ req'[v] = req[v] /\ at'[v] = at[v]
    BY <2>1 DEF Receive, Step, TypeOK, store, locks
  <2>3. ~AtClear(w, k) /\ ~AtStone(w, k) /\ ~InTx(w, k)
        /\ ~AtClear(w, k)' /\ ~AtStone(w, k)' /\ ~InTx(w, k)'
    BY <2>1, <2>2 DEF AtClear, AtStone, InTx, Receive
  <2>4. \A v \in Workers \ {w} : /\ AtClear(v, k)' <=> AtClear(v, k)
                                 /\ AtStone(v, k)' <=> AtStone(v, k)
                                 /\ InTx(v, k)' <=> InTx(v, k)
                                 /\ Pushing(v, k)' <=> Pushing(v, k)
                                 /\ Deleting(v, k)' <=> Deleting(v, k)
    BY <2>2 DEF AtClear, AtStone, InTx, item, Pushing, Deleting, Serving
  <2>5. ASSUME k \notin mixed' PROVE \A u, v \in Workers : ~(Pushing(u, k) /\ Deleting(v, k))'
    <3>1. k \in r.keys => \A o \in Workers \ {w} : IF IsPush(r) THEN ~Deleting(o, k) ELSE ~Pushing(o, k)
      BY <2>1, <2>5 DEF Receive
    <3>2. Pushing(w, k)' => k \in r.keys /\ IsPush(r)
      BY <2>2 DEF Pushing, Serving
    <3>3. Deleting(w, k)' => k \in r.keys /\ ~IsPush(r)
      BY <2>2 DEF Deleting, Serving
    <3>. QED  BY <3>1, <3>2, <3>3, <2>2, <2>4, <2>5
  <2>. QED  BY <2>2, <2>3, <2>4, <2>5
<1>3. ASSUME NEW w \in Workers, Serve(w) \/ clearTombstoneFails(w) \/ Abort(w) \/ BreakDeadlock(w) PROVE KeyInv(k)'
  <2>1. /\ \A v \in Workers \ {w} : /\ pc'[v] = pc[v] /\ req'[v] = req[v] /\ at'[v] = at[v]
                                    /\ rowsHeld'[v] = rowsHeld[v]
                                    /\ k \in found[v] => k \in found'[v] \/ ~Live(k)'
        /\ req'[w] = req[w] \/ req'[w] = NoRequest
        /\ mixed \subseteq mixed'
    <3>. USE DEF TypeOK
    <3>1. CASE Accept(w) \/ upsertNote(w) \/ upsertNotetype(w) \/ upsertDeck(w)
               \/ TxBegin(w) \/ TxDeleteRows(w) \/ TxRowsDeleted(w)
      BY <3>1 DEF Accept, upsertNote, upsertNotetype, upsertDeck, Upsert, TxBegin, TxDeleteRows,
                  TxRowsDeleted, Goto, Step, locks
    <3>2. CASE Reject(w) \/ clearTombstone(w) \/ clearTombstoneFails(w)
      BY <3>2 DEF Reject, clearTombstone, clearTombstoneFails, NextItem, Finish, Step, locks
    <3>8. CASE TxStonesWritten(w)
      BY <3>8, NextTypeControl DEF TxStonesWritten
    <3>3. CASE writeTombstone(w) \/ RefuseBatchDelete(w)
      BY <3>3 DEF writeTombstone, RefuseBatchDelete, Finish, Step, locks
    <3>4. CASE Abort(w) \/ BreakDeadlock(w)
      BY <3>4, RollBackControl, FinishControl DEF Abort, BreakDeadlock
    <3>5. CASE \E j \in Keys : TxDeleteRow(w, j) \/ TxWriteTombstone(w, j)
      BY <3>5 DEF TxDeleteRow, TxWriteTombstone
    <3>6. CASE DeleteRow(w)
      <4>1. \A v \in Workers \ {w} : k \in found[v] => k \in found'[v] \/ ~Live(k)'
        BY <3>6 DEF DeleteRow, NotFound
      <4>. QED  BY <3>6, <4>1 DEF DeleteRow, Goto, Step
    <3>7. CASE TxCommit(w)
      <4>1. \A v \in Workers \ {w} : k \in found[v] => k \in found'[v] \/ ~Live(k)'
        BY <3>7 DEF TxCommit, NotFound
      <4>. QED  BY <3>7, <4>1 DEF TxCommit, Release, Finish, Step
    <3>. QED  BY <1>3, <3>1, <3>2, <3>3, <3>4, <3>5, <3>6, <3>7, <3>8 DEF Serve
  <2>2. \A v \in Workers \ {w} : /\ AtClear(v, k)' <=> AtClear(v, k)
                                 /\ AtStone(v, k)' <=> AtStone(v, k)
                                 /\ InTx(v, k)' <=> InTx(v, k)
    BY <2>1 DEF AtClear, AtStone, InTx, item
  <2>3. \A u, v \in Workers : (Pushing(u, k) /\ Deleting(v, k))' => (Pushing(u, k) /\ Deleting(v, k))
    BY <2>1, NoRequestFields DEF Pushing, Deleting, Serving
  <2>. SUFFICES ASSUME k \notin mixed' PROVE KeyInv(k)'
    OBVIOUS
  <2>4. k \notin mixed
    BY <2>1
  <2>16. ASSUME Live(k)' => Live(k)
         PROVE  \A v \in Workers \ {w} : InTx(v, k)' /\ Live(k)' => k \in rowsHeld'[v] \cup found'[v]
    <3>. SUFFICES ASSUME NEW v \in Workers \ {w}, InTx(v, k)', Live(k)' PROVE k \in rowsHeld'[v] \cup found'[v]
      OBVIOUS
    <3>1. k \in rowsHeld[v] \cup found[v]
      BY <2>2, <2>4, <2>16
    <3>. QED  BY <2>1, <3>1
  <2>17. ASSUME row'[k] = row[k], k \in touched' <=> k \in touched, k \in stone' <=> k \in stone,
                ~AtClear(w, k), ~AtStone(w, k), ~AtClear(w, k)', ~AtStone(w, k)',
                InTx(w, k)' /\ Live(k)' => k \in rowsHeld'[w] \cup found'[w]
         PROVE  KeyInv(k)'
    <3>1. \A v \in Workers : InTx(v, k)' /\ Live(k)' => k \in rowsHeld'[v] \cup found'[v]
      BY <2>16, <2>17
    <3>2. \A v \in Workers : (AtClear(v, k)' <=> AtClear(v, k)) /\ (AtStone(v, k)' <=> AtStone(v, k))
      BY <2>2, <2>17
    <3>. QED  BY <3>1, <3>2, <2>3, <2>4, <2>17
  <2>5. CASE Accept(w) \/ Reject(w) \/ RefuseBatchDelete(w) \/ TxBegin(w)
    <3>1. /\ UNCHANGED <<row, stone, touched>>
          /\ ~AtClear(w, k) /\ ~AtStone(w, k) /\ ~InTx(w, k)
          /\ pc'[w] \in {"upsert", "load", "idle", "txRows"}
          /\ pc'[w] = "txRows" => at'[w] = 1
      BY <2>5 DEF Accept, Reject, RefuseBatchDelete, TxBegin, NextItem, Finish, Goto, Step, AtClear,
                  AtStone, InTx, store, TypeOK, WorkerOK
    <3>2. ~InTx(w, k)'
      BY <3>1, HandledSteps DEF InTx
    <3>3. ~AtClear(w, k)' /\ ~AtStone(w, k)'
      BY <3>1 DEF AtClear, AtStone
    <3>. QED  BY <2>17, <3>1, <3>2, <3>3
  <2>6. CASE upsertNote(w) \/ upsertNotetype(w) \/ upsertDeck(w)
    <3>1. PICK type \in Types : Upsert(w, type)
      BY <2>6 DEF upsertNote, upsertNotetype, upsertDeck
    <3>2. IsPush(req[w]) /\ req[w] # NoRequest
      BY <3>1, NoRequestFields DEF Upsert, TypeOK, WorkerOK
    <3>3. item(w) \in Item /\ item(w).key \in req[w].keys /\ item(w).new # Absent
      BY <3>2, ServedRequest, ContentsAssumption DEF Item
    <3>4. stone' = stone /\ pc'[w] = "clear" /\ item(w)' = item(w)
      BY <3>1 DEF Upsert, Goto, Step, TypeOK, item
    <3>5. CASE item(w).key = k
      <4>1. Live(k)' /\ k \in touched'
        BY <3>1, <3>3, <3>5 DEF Upsert, TypeOK
      <4>2. AtClear(w, k)'
        BY <3>4, <3>5 DEF AtClear
      <4>3. Pushing(w, k)
        BY <3>2, <3>3, <3>5 DEF Pushing, Serving
      <4>4. \A v \in Workers : ~AtStone(v, k)' /\ ~InTx(v, k)'
        <5>1. \A v \in Workers \ {w} : ~Deleting(v, k)
          BY <4>3, <2>4
        <5>2. \A v \in Workers \ {w} : AtStone(v, k) \/ InTx(v, k) => Deleting(v, k)
          BY DEF AtStone, InTx, Deleting, Serving, TypeOK, WorkerOK
        <5>. QED  BY <5>1, <5>2, <2>2, <3>4 DEF AtStone, InTx
      <4>. QED  BY <4>1, <4>2, <4>4, <2>3, <2>4
    <3>6. CASE item(w).key # k
      <4>1. (row'[k] = row[k]) /\ (k \in touched' <=> k \in touched)
        BY <3>1, <3>6 DEF Upsert, TypeOK
      <4>2. ~AtClear(w, k) /\ ~AtStone(w, k) /\ ~AtClear(w, k)' /\ ~AtStone(w, k)' /\ ~InTx(w, k)'
        BY <3>1, <3>4, <3>6 DEF Upsert, AtClear, AtStone, InTx
      <4>. QED  BY <4>1, <4>2, <3>4, <2>17
    <3>. QED  BY <3>5, <3>6
  <2>7. CASE clearTombstone(w)
    <3>1. /\ row' = row /\ touched' = touched /\ stone' = stone \ {item(w).key}
          /\ pc[w] = "clear" /\ pc'[w] \in {"load", "idle"}
      BY <2>7 DEF clearTombstone, NextItem, Finish, Step, TypeOK
    <3>2. ~AtStone(w, k) /\ ~AtClear(w, k)' /\ ~AtStone(w, k)' /\ ~InTx(w, k)'
      BY <3>1 DEF AtClear, AtStone, InTx
    <3>3. CASE item(w).key = k
      <4>1. Live(k) /\ k \in touched /\ k \notin stone'
        BY <3>1, <3>3, <2>4 DEF AtClear
      <4>2. \A v \in Workers : ~AtStone(v, k)
        BY <4>1, <2>4
      <4>3. \A v \in Workers : InTx(v, k)' /\ Live(k)' => k \in rowsHeld'[v] \cup found'[v]
        BY <3>1, <3>2, <2>16
      <4>. QED  BY <4>1, <4>2, <4>3, <3>1, <3>2, <2>2, <2>3, <2>4
    <3>4. CASE item(w).key # k
      <4>1. ~AtClear(w, k) /\ (k \in stone' <=> k \in stone)
        BY <3>1, <3>4 DEF AtClear
      <4>. QED  BY <4>1, <3>1, <3>2, <2>17
    <3>. QED  BY <3>3, <3>4
  <2>8. CASE clearTombstoneFails(w)
    <3>1. /\ UNCHANGED <<row, stone, touched>> /\ item(w).key # k
          /\ pc[w] = "clear" /\ pc'[w] \in {"load", "idle"}
      BY <2>8 DEF clearTombstoneFails, NextItem, Finish, Step, TypeOK, store
    <3>2. ~AtClear(w, k) /\ ~AtStone(w, k) /\ ~AtClear(w, k)' /\ ~AtStone(w, k)' /\ ~InTx(w, k)'
      BY <3>1 DEF AtClear, AtStone, InTx
    <3>. QED  BY <3>1, <3>2, <2>17
  <2>9. CASE DeleteRow(w)
    <3>1. /\ stone' = stone /\ pc[w] = "deleteRow" /\ pc'[w] = "writeStone" /\ req' = req
          /\ touched' = touched \cup req[w].keys
          /\ row'[k] = IF k \in req[w].keys THEN Absent ELSE row[k]
      BY <2>9 DEF DeleteRow, Goto, Step, TypeOK
    <3>2. ~AtClear(w, k) /\ ~AtStone(w, k) /\ ~AtClear(w, k)' /\ ~InTx(w, k)'
      BY <3>1 DEF AtClear, AtStone, InTx
    <3>3. CASE k \in req[w].keys
      <4>1. ~Live(k)' /\ k \in touched' /\ AtStone(w, k)'
        BY <3>1, <3>3 DEF AtStone
      <4>2. Deleting(w, k)
        BY <3>1, <3>3 DEF Deleting, Serving, TypeOK, WorkerOK
      <4>3. \A v \in Workers \ {w} : AtClear(v, k) => Pushing(v, k)
        BY AtClearPushes
      <4>4. \A v \in Workers : ~AtClear(v, k)'
        BY <4>2, <4>3, <2>2, <2>4, <3>2
      <4>. QED  BY <4>1, <4>4, <2>3, <2>4
    <3>4. CASE k \notin req[w].keys
      <4>1. ~AtStone(w, k)' /\ row'[k] = row[k] /\ (k \in touched' <=> k \in touched)
        BY <3>1, <3>4 DEF AtStone
      <4>. QED  BY <4>1, <3>1, <3>2, <2>17
    <3>. QED  BY <3>3, <3>4
  <2>10. CASE writeTombstone(w)
    <3>1. /\ row' = row /\ touched' = touched /\ stone' = stone \cup req[w].keys
          /\ pc[w] = "writeStone" /\ pc'[w] = "idle"
      BY <2>10 DEF writeTombstone, Finish, Step, TypeOK
    <3>2. ~AtClear(w, k) /\ ~AtClear(w, k)' /\ ~AtStone(w, k)' /\ ~InTx(w, k)'
      BY <3>1 DEF AtClear, AtStone, InTx
    <3>3. CASE k \in req[w].keys
      <4>1. ~Live(k) /\ k \in touched /\ k \in stone'
        BY <3>1, <3>3, <2>4 DEF AtStone
      <4>. QED  BY <4>1, <3>1, <3>2, <2>1, <2>2, <2>3, <2>4
    <3>4. CASE k \notin req[w].keys
      <4>1. ~AtStone(w, k) /\ (k \in stone' <=> k \in stone)
        BY <3>1, <3>4 DEF AtStone
      <4>. QED  BY <4>1, <3>1, <3>2, <2>17
    <3>. QED  BY <3>3, <3>4
  <2>11. CASE TxDeleteRows(w)
    <3>1. /\ UNCHANGED <<row, stone, touched, req, at, rowsHeld>> /\ pc[w] = "txRows" /\ pc'[w] = "txFound"
          /\ found[w] = {} /\ found'[w] = {j \in KeysAt(w) : Live(j)}
      BY <2>11 DEF TxDeleteRows, Goto, Step, TypeOK, WorkerOK, store
    <3>2. ~AtClear(w, k) /\ ~AtStone(w, k) /\ ~AtClear(w, k)' /\ ~AtStone(w, k)'
      BY <3>1 DEF AtClear, AtStone
    <3>3. InTx(w, k)' => InTx(w, k) \/ k \in KeysAt(w)
      <4>1. at[w] \in 1..3
        BY <3>1, HandledSteps DEF TypeOK, WorkerOK
      <4>. QED  BY <4>1, <3>1, HandledSteps DEF InTx, KeysAt
    <3>4. InTx(w, k)' /\ Live(k)' => k \in rowsHeld'[w] \cup found'[w]
      BY <3>1, <3>3, <2>4
    <3>. QED  BY <3>1, <3>2, <3>4, <2>17
  <2>12. CASE TxStonesWritten(w)
    <3>1. UNCHANGED <<row, stone, touched, found, rowsHeld, req>> /\ pc[w] = "txStones"
      BY <2>12 DEF TxStonesWritten, Goto, Step, TypeOK, store, locks
    <3>2. ~AtClear(w, k) /\ ~AtStone(w, k) /\ ~AtClear(w, k)' /\ ~AtStone(w, k)'
      BY <2>12, <3>1, NextTypeControl DEF AtClear, AtStone
    <3>3. InTx(w, k)' => InTx(w, k)
      <4>1. at[w] \in 1..3 /\ req[w].keys \subseteq Keys
        <5>1. at[w] \in 1..3 /\ req[w] # NoRequest
          BY <3>1, HandledSteps DEF TypeOK, WorkerOK
        <5>2. req[w].keys \subseteq Keys
          BY <5>1, ServedRequest DEF Request
        <5>. QED  BY <5>1, <5>2
      <4>2. CASE pc'[w] = "txRows" /\ at'[w] = at[w] + 1
        BY <4>1, <4>2, <3>1 DEF InTx
      <4>3. CASE pc'[w] = "txCommit" /\ stonesHeld[w] = req[w].keys
        BY <4>3, <2>12, <3>1, NextTypeControl DEF InTx
      <4>. QED  BY <4>2, <4>3, <2>12, NextTypeControl
    <3>. QED  BY <3>1, <3>2, <3>3, <2>4, <2>17
  <2>15. CASE TxRowsDeleted(w) \/ \E j \in Keys : TxDeleteRow(w, j) \/ TxWriteTombstone(w, j)
    <3>1. /\ UNCHANGED <<row, stone, touched, req, at>> /\ pc[w] \in {"txFound", "txStones"}
          /\ pc'[w] \in {"txFound", "txStones"} /\ rowsHeld[w] \cup found[w] \subseteq rowsHeld'[w] \cup found'[w]
      <4>1. CASE TxRowsDeleted(w)
        BY <4>1 DEF TxRowsDeleted, Goto, Step, TypeOK, store, locks
      <4>2. ASSUME NEW j \in Keys, TxDeleteRow(w, j) 
            PROVE  /\ UNCHANGED <<row, stone, touched, req, at>> /\ pc[w] \in {"txFound", "txStones"}
                   /\ pc' = pc /\ rowsHeld[w] \cup found[w] \subseteq rowsHeld'[w] \cup found'[w]
        <5>1. pc[w] = "txFound"
          BY <4>2 DEF TxDeleteRow, TypeOK, WorkerOK
        <5>. QED  BY <4>2, <5>1 DEF TxDeleteRow, TypeOK, store
      <4>3. ASSUME NEW j \in Keys, TxWriteTombstone(w, j) 
            PROVE  /\ UNCHANGED <<row, stone, touched, req, at>> /\ pc[w] \in {"txFound", "txStones"}
                   /\ pc' = pc /\ rowsHeld[w] \cup found[w] \subseteq rowsHeld'[w] \cup found'[w]
        BY <4>3 DEF TxWriteTombstone, TypeOK, store
      <4>. QED  BY <2>15, <4>1, <4>2, <4>3
    <3>2. /\ ~AtClear(w, k) /\ ~AtStone(w, k) /\ ~AtClear(w, k)' /\ ~AtStone(w, k)'
          /\ InTx(w, k)' => InTx(w, k)
      BY <3>1 DEF AtClear, AtStone, InTx
    <3>. QED  BY <3>1, <3>2, <2>4, <2>17
  <2>13. CASE TxCommit(w)
    <3>1. /\ pc[w] = "txCommit" /\ pc'[w] = "idle" /\ found[w] = {}
          /\ row'[k] = IF k \in rowsHeld[w] THEN Absent ELSE row[k]
          /\ stone' = stone \cup req[w].keys /\ touched' = touched \cup req[w].keys
      BY <2>13 DEF TxCommit, Finish, Step, TypeOK, WorkerOK
    <3>2. ~AtClear(w, k) /\ ~AtStone(w, k) /\ ~AtClear(w, k)' /\ ~AtStone(w, k)' /\ ~InTx(w, k)'
      BY <3>1 DEF AtClear, AtStone, InTx
    <3>3. CASE k \in req[w].keys
      <4>1. ~Live(k)' /\ k \in stone' /\ k \in touched'
        BY <3>1, <3>3, <2>4 DEF InTx
      <4>2. Deleting(w, k)
        BY <3>1, <3>3 DEF Deleting, Serving, TypeOK, WorkerOK
      <4>3. \A v \in Workers \ {w} : AtClear(v, k) => Pushing(v, k)
        BY AtClearPushes
      <4>4. \A v \in Workers : ~AtClear(v, k)'
        BY <4>2, <4>3, <2>2, <2>4, <3>2
      <4>. QED  BY <4>1, <4>4, <2>3, <2>4
    <3>4. CASE k \notin req[w].keys
      <4>1. row'[k] = row[k] /\ (k \in touched' <=> k \in touched) /\ (k \in stone' <=> k \in stone)
        BY <3>1, <3>4 DEF TypeOK, WorkerOK
      <4>. QED  BY <4>1, <3>2, <2>17
    <3>. QED  BY <3>3, <3>4
  <2>14. CASE Abort(w) \/ BreakDeadlock(w)
    <3>1. /\ UNCHANGED <<row, stone, touched>> /\ pc'[w] = "idle"
          /\ ~AtClear(w, k) /\ ~AtStone(w, k)
      <4>1. CASE Abort(w)
        BY <4>1 DEF Abort, RollBack, Finish, Step, TypeOK, store, AtClear, AtStone
      <4>2. CASE BreakDeadlock(w)
        BY <4>2, CircleIsOfBatches DEF BreakDeadlock, RollBack, Finish, Step, TypeOK, store, AtClear, AtStone
      <4>. QED  BY <2>14, <4>1, <4>2
    <3>2. ~AtClear(w, k)' /\ ~AtStone(w, k)' /\ ~InTx(w, k)'
      BY <3>1 DEF AtClear, AtStone, InTx
    <3>. QED  BY <3>1, <3>2, <2>17
  <2>. QED
    BY <1>3, <2>5, <2>6, <2>7, <2>8, <2>9, <2>10, <2>11, <2>12, <2>13, <2>14, <2>15 DEF Serve
<1>. QED  BY <1>1, <1>2, <1>3 DEF Next

(* In every reachable state, a key nobody is serving, whose pushes never     *)
(* overlapped its deletes and whose requests never lost their second       *)
(* statement, is live or tombstoned and not both.                          *)
THEOREM LiveXorDeletedHolds == Spec => []LiveXorDeleted
<1>1. Init => \A k \in Keys : KeyInv(k)
  BY NoRequestFields DEF Init, KeyInv, Settled, Live, AtClear, AtStone, InTx, Pushing, Deleting, Serving
<1>2. TypeOK /\ TypeOK' /\ (\A k \in Keys : KeyInv(k)) /\ [Next]_vars => (\A k \in Keys : KeyInv(k))'
  BY KeyInvStep
<1>3. TypeOK /\ (\A k \in Keys : KeyInv(k)) => LiveXorDeleted
  <2> SUFFICES ASSUME TypeOK, NEW k \in Keys, KeyInv(k), Quiet(k), k \in touched \ mixed
               PROVE  Live(k) <=> k \notin stone
    BY DEF LiveXorDeleted
  <2>1. \A w \in Workers : ~AtClear(w, k) /\ ~AtStone(w, k)
    BY ServedRequest, NoRequestFields DEF AtClear, AtStone, Quiet, Serving, TypeOK, WorkerOK
  <2>. QED  BY <2>1 DEF KeyInv, Settled
<1>. QED  BY <1>1, <1>2, <1>3, TypeCorrect, PTL DEF Spec

-----------------------------------------------------------------------------
(* ReplacesOnlyItsBase.  Between the SELECT that found no conflict and the   *)
(* upsert, only another push could store a different version, and then the *)
(* key is raced.                                                           *)
MayReplace(w) ==
  (pc[w] = "upsert" /\ ~req[w].force /\ item(w).key \notin raced)
    => row[item(w).key] \in {Absent, item(w).base, item(w).new}

RaceInv ==
  /\ \A w \in Workers : MayReplace(w)
  /\ \A w, v \in Workers, k \in Keys : (w # v /\ Pushing(w, k) /\ Pushing(v, k)) => k \in raced

LEMMA RaceInvStep ==
  ASSUME TypeOK, RaceInv, [Next]_vars
  PROVE  RaceInv'
<1>1. CASE UNCHANGED vars
  BY <1>1 DEF vars, RaceInv, MayReplace, item, Pushing, Serving
<1>2. ASSUME NEW w \in Workers, Arrive(w) PROVE RaceInv'
  <2>1. PICK r \in Requests, first \in {"load", "deleteRow", "txBegin"} :
           /\ Receive(w, r, first) /\ r.op # "none"
             /\ (IsPush(r) <=> first = "load") /\ (r.op = "delete" <=> first = "deleteRow")
    BY <1>2, ArriveReceives
  <2>2. /\ row' = row /\ raced \subseteq raced' /\ pc'[w] = first /\ req'[w] = r
        /\ \A v \in Workers \ {w} : pc'[v] = pc[v] /\ req'[v] = req[v] /\ at'[v] = at[v]
    BY <2>1 DEF Receive, Step, TypeOK, store
  <2>3. \A v \in Workers : MayReplace(v)'
    BY <2>2 DEF RaceInv, MayReplace, item
  <2>4. ASSUME NEW u \in Workers, NEW v \in Workers, NEW k \in Keys,
               u # v, Pushing(u, k)', Pushing(v, k)'
        PROVE  k \in raced'
    <3>1. CASE u # w /\ v # w
      BY <3>1, <2>2, <2>4 DEF RaceInv, Pushing, Serving
    <3>2. ASSUME NEW o \in Workers \ {w}, Pushing(w, k)', Pushing(o, k)' PROVE k \in raced'
      <4>1. k \in r.keys /\ IsPush(r) /\ Pushing(o, k)
        BY <3>2, <2>2 DEF Pushing, Serving
      <4>. QED  BY <4>1, <2>1 DEF Receive
    <3>. QED  BY <3>1, <3>2, <2>4
  <2>. QED  BY <2>3, <2>4 DEF RaceInv
<1>3. ASSUME NEW w \in Workers, Serve(w) \/ clearTombstoneFails(w) \/ Abort(w) \/ BreakDeadlock(w) PROVE RaceInv'
  <2>1. /\ \A v \in Workers \ {w} : pc'[v] = pc[v] /\ req'[v] = req[v] /\ at'[v] = at[v]
        /\ req'[w] = req[w] \/ req'[w] = NoRequest
        /\ raced' = raced
    <3>. USE DEF TypeOK
    <3>1. CASE Accept(w) \/ upsertNote(w) \/ upsertNotetype(w) \/ upsertDeck(w) \/ DeleteRow(w)
               \/ TxBegin(w) \/ TxDeleteRows(w) \/ TxRowsDeleted(w)
               \/ \E k \in Keys : TxDeleteRow(w, k) \/ TxWriteTombstone(w, k)
      BY <3>1 DEF Accept, upsertNote, upsertNotetype, upsertDeck, Upsert, DeleteRow, TxBegin, TxDeleteRows,
                  TxRowsDeleted, TxDeleteRow, TxWriteTombstone, Goto, Step
    <3>2. CASE Reject(w) \/ clearTombstone(w) \/ clearTombstoneFails(w) \/ TxStonesWritten(w)
      BY <3>2 DEF Reject, clearTombstone, clearTombstoneFails, TxStonesWritten, NextItem, Finish, Goto, Step
    <3>3. CASE writeTombstone(w) \/ RefuseBatchDelete(w) \/ TxCommit(w) \/ Abort(w) \/ BreakDeadlock(w)
      BY <3>3 DEF writeTombstone, RefuseBatchDelete, TxCommit, Abort, BreakDeadlock, RollBack, Finish, Step
    <3>. QED  BY <1>3, <3>1, <3>2, <3>3 DEF Serve
  <2>2. \A u, v \in Workers, k \in Keys : (u # v /\ Pushing(u, k) /\ Pushing(v, k))' => k \in raced'
    BY <2>1, NoRequestFields DEF RaceInv, Pushing, Serving
  <2>3. ASSUME NEW v \in Workers \ {w}, pc[v] = "upsert"
        PROVE  Pushing(v, item(v).key) /\ item(v).key \in Keys
    BY <2>3, ServedRequest, NoRequestFields DEF Pushing, Serving, TypeOK, WorkerOK
  <2>4. ASSUME NEW v \in Workers \ {w},
               pc[v] = "upsert" => row'[item(v).key] \in {row[item(v).key], Absent} \/ item(v).key \in raced
        PROVE  MayReplace(v)'
    BY <2>1, <2>4 DEF RaceInv, MayReplace, item
  <2>5. CASE Accept(w)
    <3>1. MayReplace(w)'
      BY <2>5 DEF Accept, Conflict, Goto, Step, MayReplace, item, store
    <3>2. row' = row
      BY <2>5 DEF Accept, store
    <3>. QED  BY <3>1, <3>2, <2>2, <2>4 DEF RaceInv
  <2>6. CASE Reject(w) \/ clearTombstone(w) \/ clearTombstoneFails(w) \/ writeTombstone(w)
             \/ RefuseBatchDelete(w) \/ TxBegin(w) \/ TxDeleteRows(w) \/ TxRowsDeleted(w) \/ TxStonesWritten(w)
             \/ Abort(w) \/ BreakDeadlock(w)
    <3>1. row' = row /\ pc'[w] # "upsert"
      BY <2>6 DEF Reject, clearTombstone, clearTombstoneFails, writeTombstone, RefuseBatchDelete, TxBegin, TxDeleteRows,
                  TxRowsDeleted, TxStonesWritten, Abort, BreakDeadlock, RollBack, NextItem, Finish, Goto, Step, store, TypeOK
    <3>. QED  BY <3>1, <2>2, <2>4 DEF RaceInv, MayReplace
  <2>9. CASE \E k \in Keys : TxDeleteRow(w, k) \/ TxWriteTombstone(w, k)
    <3>1. row' = row /\ pc'[w] # "upsert"
      BY <2>9 DEF TxDeleteRow, TxWriteTombstone, store, TypeOK, WorkerOK
    <3>. QED  BY <3>1, <2>2, <2>4 DEF RaceInv, MayReplace
  <2>7. CASE DeleteRow(w) \/ TxCommit(w)
    <3>1. pc'[w] # "upsert" /\ \A k \in Keys : row'[k] \in {row[k], Absent}
      BY <2>7 DEF DeleteRow, TxCommit, Finish, Goto, Step, TypeOK
    <3>. QED  BY <3>1, <2>2, <2>3, <2>4 DEF RaceInv, MayReplace
  <2>8. CASE upsertNote(w) \/ upsertNotetype(w) \/ upsertDeck(w)
    <3>1. PICK type \in Types : Upsert(w, type)
      BY <2>8 DEF upsertNote, upsertNotetype, upsertDeck
    <3>2. pc'[w] # "upsert" /\ \A k \in Keys \ {item(w).key} : row'[k] = row[k]
      BY <3>1 DEF Upsert, Goto, Step, TypeOK
    <3>3. Pushing(w, item(w).key) /\ item(w).key \in Keys
      BY <3>1, ServedRequest, NoRequestFields DEF Upsert, Pushing, Serving, TypeOK, WorkerOK
    <3>4. ASSUME NEW v \in Workers \ {w}, pc[v] = "upsert"
          PROVE  row'[item(v).key] = row[item(v).key] \/ item(v).key \in raced
      BY <3>2, <3>3, <3>4, <2>3 DEF RaceInv
    <3>. QED  BY <3>2, <3>4, <2>2, <2>4 DEF RaceInv, MayReplace
  <2>. QED  BY <1>3, <2>5, <2>6, <2>7, <2>8, <2>9 DEF Serve
<1>. QED  BY <1>1, <1>2, <1>3 DEF Next

(* No push replaces a version its client has not seen, unless the client     *)
(* forces it or another push of the same key is in flight.                 *)
THEOREM ReplacesOnlyItsBaseHolds == Spec => ReplacesOnlyItsBase
<1>1. Init => RaceInv
  BY NoRequestFields DEF Init, RaceInv, MayReplace, Pushing, Serving
<1>2. TypeOK /\ RaceInv /\ [Next]_vars => RaceInv'
  BY RaceInvStep
<1>3. RaceInv =>
        \A w \in Workers : (pc[w] = "upsert" /\ pc'[w] = "clear" /\ ~req[w].force
                             /\ item(w).key \notin raced)
                              => row[item(w).key] \in {Absent, item(w).base, item(w).new}
  BY DEF RaceInv, MayReplace
<1>. QED  BY <1>1, <1>2, <1>3, TypeCorrect, PTL DEF Spec, ReplacesOnlyItsBase

-----------------------------------------------------------------------------
(* ImplementsItems.  The steps between two requests' effects are stutters;    *)
(* where a step has an effect, KeyInv says that no other request is between *)
(* its two statements on that key, and RaceInv that the push finds what it *)
(* compared.                                                               *)
ItemsInv == TypeOK /\ RaceInv /\ \A k \in Keys : KeyInv(k)

(* Only the control state of w moves.                                       *)
OnlyMoves(w) == \A v \in Workers \ {w} : pc'[v] = pc[v] /\ req'[v] = req[v] /\ at'[v] = at[v]

(* What Stones says of a key.                                               *)
LEMMA StonesOf ==
  ASSUME NEW k \in Keys
  PROVE  /\ k \in Stones <=> \/ k \in stone /\ \A v \in Workers : ~AtClear(v, k)
                             \/ \E v \in Workers : AtStone(v, k)
         /\ k \in Stones' <=> \/ k \in stone' /\ \A v \in Workers : ~AtClear(v, k)'
                              \/ \E v \in Workers : AtStone(v, k)'
BY DEF Stones, AtClear, AtStone

(* A key about which w is between no statements keeps its tombstone.          *)
LEMMA StonesKept ==
  ASSUME NEW w \in Workers, OnlyMoves(w), NEW k \in Keys, k \in stone' <=> k \in stone,
         ~AtClear(w, k), ~AtStone(w, k), ~AtClear(w, k)', ~AtStone(w, k)'
  PROVE  k \in Stones' <=> k \in Stones
<1>1. \A v \in Workers : (AtClear(v, k)' <=> AtClear(v, k)) /\ (AtStone(v, k)' <=> AtStone(v, k))
  BY DEF OnlyMoves, AtClear, AtStone, item
<1>. QED  BY <1>1, StonesOf

(* The abstract counter of w and of the others.                             *)
LEMMA EffectiveStep ==
  ASSUME NEW w \in Workers, OnlyMoves(w)
  PROVE  Effective' = [Effective EXCEPT ![w] = Effective'[w]]
<1>1. \A v \in Workers \ {w} : Effective'[v] = Effective[v]
  BY DEF OnlyMoves, Effective
<1>2. /\ Effective = [v \in Workers |-> Effective[v]]
      /\ Effective' = [v \in Workers |-> Effective'[v]]
  BY DEF Effective
<1>. QED  BY <1>1, <1>2

LEMMA EffectiveSame ==
  ASSUME NEW w \in Workers, OnlyMoves(w), Effective'[w] = Effective[w]
  PROVE  Effective' = Effective
<1>1. \A v \in Workers : Effective'[v] = Effective[v]
  BY DEF OnlyMoves, Effective
<1>. QED  BY <1>1 DEF Effective

LEMMA EffectiveIs ==
  ASSUME NEW w \in Workers
  PROVE  /\ pc[w] \in {"load", "upsert"} => Effective[w] = at[w]
         /\ pc[w] = "clear" => Effective[w] = at[w] + 1
         /\ pc[w] = "writeStone" => Effective[w] = 2
         /\ pc[w] \notin {"load", "upsert", "clear", "writeStone"} => Effective[w] = 1
         /\ pc'[w] \in {"load", "upsert"} => Effective'[w] = at'[w]
         /\ pc'[w] = "clear" => Effective'[w] = at'[w] + 1
         /\ pc'[w] = "writeStone" => Effective'[w] = 2
         /\ pc'[w] \notin {"load", "upsert", "clear", "writeStone"} => Effective'[w] = 1
BY DEF Effective

(* The end of a request is its answer.                                      *)
LEMMA FinishAnswers ==
  ASSUME TypeOK, NEW w \in Workers, Finish(w)
  PROVE  OnlyMoves(w) /\ pc'[w] = "idle" /\ Atomic!Answer(w)
<1>1. OnlyMoves(w) /\ pc'[w] = "idle"
  BY FinishControl DEF OnlyMoves
<1>2. Effective' = [Effective EXCEPT ![w] = 1]
  BY <1>1, EffectiveStep, EffectiveIs
<1>. QED  BY <1>1, <1>2 DEF Finish, Atomic!Answer

(* Who serves a push is at one of its items, whom else a deletion.            *)
LEMMA PushOrDelete ==
  ASSUME TypeOK, NEW w \in Workers, pc[w] # "idle"
  PROVE  /\ req[w] # NoRequest /\ req[w].keys \subseteq Keys
         /\ pc[w] \in {"load", "upsert", "clear"} =>
              /\ IsPush(req[w]) /\ Len(req[w].items) \in Nat /\ DOMAIN req[w].items = 1..Len(req[w].items)
              /\ at[w] \in 1..Len(req[w].items) /\ item(w) \in Item
              /\ item(w).key \in Keys /\ Pushing(w, item(w).key)
         /\ pc[w] \notin {"load", "upsert", "clear"} =>
              /\ req[w].op \in {"delete", "batchDelete"}
              /\ \A k \in req[w].keys : Deleting(w, k)
<1>1. req[w] # NoRequest /\ WorkerOK(w)
  BY DEF TypeOK, WorkerOK
<1>2. req[w] \in Request /\ req[w].keys \subseteq Keys
  BY <1>1, ServedRequest DEF Request
<1>3. CASE pc[w] \in {"load", "upsert", "clear"}
  <2>1. IsPush(req[w]) /\ at[w] \in DOMAIN req[w].items
    BY <1>1, <1>3 DEF WorkerOK
  <2>2. req[w].items \in Seq(Item) /\ item(w) \in Item /\ item(w).key \in Keys /\ Pushing(w, item(w).key)
    BY <1>1, <2>1, ServedRequest DEF Pushing, Serving
  <2>3. Len(req[w].items) \in Nat /\ DOMAIN req[w].items = 1..Len(req[w].items)
    BY <2>2
  <2>. QED  BY <1>1, <1>2, <1>3, <2>1, <2>2, <2>3
<1>4. CASE pc[w] \notin {"load", "upsert", "clear"}
  <2>1. ~IsPush(req[w])
    BY <1>1, <1>4 DEF WorkerOK
  <2>2. req[w].op \in {"delete", "batchDelete"}
    BY <1>2, <2>1 DEF Request, IsPush
  <2>. QED  BY <1>1, <1>2, <1>4, <2>1, <2>2 DEF Deleting, Serving
<1>. QED  BY <1>3, <1>4

(* Who is between the two statements about a key serves it.                 *)
LEMMA BetweenServes ==
  ASSUME TypeOK, NEW k \in Keys, NEW v \in Workers
  PROVE  (AtClear(v, k) => Pushing(v, k)) /\ (AtStone(v, k) => Deleting(v, k))
BY AtClearPushes, PushOrDelete DEF AtStone

(* While w pushes an untorn key nobody is about to write its tombstone, while  *)
(* it deletes one nobody is about to clear it.                              *)
LEMMA NobodyBetween ==
  ASSUME ItemsInv, NEW w \in Workers, NEW k \in Keys \ mixed
  PROVE  /\ Pushing(w, k) => \A v \in Workers : ~AtStone(v, k)
         /\ Deleting(w, k) => \A v \in Workers : ~AtClear(v, k)
BY BetweenServes DEF ItemsInv, KeyInv

LEMMA ArriveItems ==
  ASSUME ItemsInv, NEW w \in Workers, Arrive(w)
  PROVE  \E r \in Requests : Atomic!Receive(w, r)
<1>1. PICK r \in Requests, first \in {"load", "deleteRow", "txBegin"} :
         /\ Receive(w, r, first) /\ r.op # "none"
             /\ (IsPush(r) <=> first = "load") /\ (r.op = "delete" <=> first = "deleteRow")
  BY ArriveReceives
<1>2. /\ TypeOK /\ OnlyMoves(w) /\ pc[w] = "idle" /\ pc'[w] = first /\ req'[w] = r /\ at'[w] = 1
      /\ req' = [req EXCEPT ![w] = r] /\ row' = row /\ stone' = stone
  BY <1>1 DEF ItemsInv, Receive, Step, TypeOK, OnlyMoves, store
<1>3. Effective' = [Effective EXCEPT ![w] = 1]
  BY <1>1, <1>2, EffectiveStep, EffectiveIs
<1>4. req[w] = NoRequest
  BY <1>2 DEF TypeOK, WorkerOK
<1>5. raced' = raced \cup {k \in r.keys : Atomic!IsPush(r) /\
                             \E o \in {o \in Workers \ {w} : k \in req[o].keys} : Atomic!IsPush(req[o])}
  BY <1>1 DEF Receive, Pushing, Serving, IsPush, Atomic!IsPush
<1>6. mixed' = mixed \cup {k \in r.keys :
                 \E o \in {o \in Workers \ {w} : k \in req[o].keys} : Atomic!IsPush(r) <=> ~Atomic!IsPush(req[o])}
  <2>1. \A k \in r.keys :
          (\E o \in Workers \ {w} : IF IsPush(r) THEN Deleting(o, k) ELSE Pushing(o, k))
            <=> \E o \in {o \in Workers \ {w} : k \in req[o].keys} : IsPush(r) <=> ~IsPush(req[o])
    BY DEF Deleting, Pushing, Serving
  <2>2. mixed' = mixed \cup {k \in r.keys : \E o \in Workers \ {w} : IF IsPush(r) THEN Deleting(o, k) ELSE Pushing(o, k)}
    BY <1>1 DEF Receive
  <2>. QED  BY <2>1, <2>2 DEF IsPush, Atomic!IsPush
<1>7. ASSUME NEW k \in Keys PROVE k \in Stones' <=> k \in Stones
  BY <1>2, StonesKept DEF AtClear, AtStone
<1>. QED
  BY <1>2, <1>3, <1>4, <1>5, <1>6, <1>7 DEF Atomic!Receive, Atomic!StonesBecome

(* Statements that have no effect on what the client is told.               *)
LEMMA QuietItems ==
  ASSUME ItemsInv, NEW w \in Workers,
         \/ Accept(w) \/ TxBegin(w) \/ TxDeleteRows(w) \/ TxRowsDeleted(w) \/ TxStonesWritten(w)
         \/ \E k \in Keys : TxDeleteRow(w, k) \/ TxWriteTombstone(w, k)
  PROVE  Atomic!Drift
<1>0. TypeOK
  BY DEF ItemsInv
<1>1. CASE Accept(w)
  <2>1. /\ UNCHANGED <<row, stone, req, at, raced, mixed>> /\ OnlyMoves(w)
        /\ pc[w] = "load" /\ pc'[w] = "upsert" /\ at'[w] = at[w]
    BY <1>0, <1>1 DEF Accept, Goto, Step, store, TypeOK, OnlyMoves
  <2>2. Effective' = Effective
    <3>1. Effective'[w] = Effective[w]
      BY <2>1, EffectiveIs
    <3>. QED  BY <2>1, <3>1, EffectiveSame
  <2>3. ASSUME NEW k \in Keys PROVE k \in Stones' <=> k \in Stones
    BY <2>1, StonesKept DEF AtClear, AtStone
  <2>. QED  BY <2>1, <2>2, <2>3 DEF Atomic!Drift, Atomic!StonesBecome
<1>2. CASE TxBegin(w) \/ TxDeleteRows(w) \/ TxRowsDeleted(w) \/ TxStonesWritten(w)
           \/ \E k \in Keys : TxDeleteRow(w, k) \/ TxWriteTombstone(w, k)
  <2>1. /\ UNCHANGED <<row, stone, req, raced, mixed>> /\ OnlyMoves(w)
        /\ {pc[w], pc'[w]} \subseteq {"txBegin", "txRows", "txFound", "txStones", "txCommit"}
    <3>1. CASE TxBegin(w) \/ TxDeleteRows(w) \/ TxRowsDeleted(w)
      BY <1>0, <3>1 DEF TxBegin, TxDeleteRows, TxRowsDeleted, Goto, Step, store, TypeOK, OnlyMoves
    <3>2. CASE TxStonesWritten(w)
      BY <1>0, <3>2, NextTypeControl DEF TxStonesWritten, store, OnlyMoves
    <3>3. CASE \E k \in Keys : TxDeleteRow(w, k) \/ TxWriteTombstone(w, k)
      BY <1>0, <3>3 DEF TxDeleteRow, TxWriteTombstone, store, TypeOK, WorkerOK, OnlyMoves
    <3>. QED  BY <1>2, <3>1, <3>2, <3>3
  <2>2. Effective' = Effective
    <3>1. Effective'[w] = Effective[w]
      BY <2>1, EffectiveIs
    <3>. QED  BY <2>1, <3>1, EffectiveSame
  <2>3. ASSUME NEW k \in Keys PROVE k \in Stones' <=> k \in Stones
    BY <2>1, StonesKept DEF AtClear, AtStone
  <2>. QED  BY <2>1, <2>2, <2>3 DEF Atomic!Drift, Atomic!StonesBecome
<1>. QED  BY <1>1, <1>2

LEMMA RejectItems ==
  ASSUME ItemsInv, NEW w \in Workers, Reject(w)
  PROVE  Atomic!Refuse(w)
<1>0. TypeOK
  BY DEF ItemsInv
<1>1. /\ pc[w] = "load" /\ Conflict(w) /\ NextItem(w) /\ UNCHANGED <<row, stone, raced, mixed>>
      /\ Effective[w] = at[w] /\ IsPush(req[w]) /\ at[w] \in DOMAIN req[w].items
      /\ Len(req[w].items) \in Nat
  BY <1>0, EffectiveIs, PushOrDelete DEF Reject, store
<1>2. Atomic!HasItem(w) /\ Atomic!item(w) = item(w)
  BY <1>1 DEF Atomic!HasItem, Atomic!IsPush, IsPush, Atomic!item, item
<1>3. ~Atomic!Fits(w)
  BY <1>1, <1>2 DEF Conflict, Atomic!Fits
<1>4. OnlyMoves(w) /\ pc'[w] \in {"load", "idle"}
  BY <1>0, <1>1, NextItemControl DEF OnlyMoves
<1>5. IF Effective[w] < Len(req[w].items) THEN Atomic!GoOn(w) ELSE Atomic!Answer(w)
  <2>1. CASE at[w] < Len(req[w].items)
    <3>1. pc'[w] = "load" /\ req' = req /\ at'[w] = at[w] + 1
      BY <1>0, <1>1, <2>1 DEF NextItem, Step, TypeOK
    <3>2. Effective' = [Effective EXCEPT ![w] = @ + 1]
      BY <1>1, <1>4, <3>1, EffectiveStep, EffectiveIs
    <3>. QED  BY <1>1, <2>1, <3>1, <3>2 DEF Atomic!GoOn
  <2>2. CASE ~(at[w] < Len(req[w].items))
    BY <1>0, <1>1, <2>2, FinishAnswers DEF NextItem
  <2>. QED  BY <2>1, <2>2
<1>6. ASSUME NEW k \in Keys PROVE k \in Stones' <=> k \in Stones
  BY <1>1, <1>4, StonesKept DEF AtClear, AtStone
<1>. QED  BY <1>1, <1>2, <1>3, <1>5, <1>6 DEF Atomic!Refuse, Atomic!StonesBecome

LEMMA UpsertItems ==
  ASSUME ItemsInv, NEW w \in Workers, upsertNote(w) \/ upsertNotetype(w) \/ upsertDeck(w)
  PROVE  Atomic!Put(w)
<1>0. TypeOK /\ MayReplace(w)
  BY DEF ItemsInv, RaceInv
<1>1. PICK type \in Types : Upsert(w, type)
  BY DEF upsertNote, upsertNotetype, upsertDeck
<1>2. /\ pc[w] = "upsert" /\ pc'[w] = "clear" /\ OnlyMoves(w) /\ req' = req /\ at' = at
      /\ UNCHANGED <<stone, raced, mixed>> /\ item(w)' = item(w)
      /\ row' = [row EXCEPT ![item(w).key] = item(w).new]
  BY <1>0, <1>1 DEF Upsert, Goto, Step, TypeOK, OnlyMoves, item
<1>3. /\ IsPush(req[w]) /\ at[w] \in DOMAIN req[w].items /\ Effective[w] = at[w] /\ at[w] \in Nat
      /\ item(w).key \in Keys /\ Pushing(w, item(w).key)
  BY <1>0, <1>2, EffectiveIs, PushOrDelete
<1>4. Atomic!HasItem(w) /\ Atomic!item(w) = item(w)
  BY <1>3 DEF Atomic!HasItem, Atomic!IsPush, IsPush, Atomic!item, item
<1>5. Atomic!Fits(w) \/ item(w).key \in raced
  BY <1>0, <1>2, <1>4 DEF MayReplace, Atomic!Fits
<1>6. Atomic!GoOn(w)
  <2>1. Effective' = [Effective EXCEPT ![w] = @ + 1]
    BY <1>2, <1>3, EffectiveStep, EffectiveIs
  <2>. QED  BY <1>2, <2>1 DEF Atomic!GoOn
<1>7. ASSUME NEW k \in Keys \ mixed PROVE k \in Stones' <=> k \in Stones \ {item(w).key}
  <2>1. CASE k = item(w).key
    <3>1. \A v \in Workers : ~AtStone(v, k)
      BY <1>3, <2>1, NobodyBetween
    <3>2. \A v \in Workers : ~AtStone(v, k)'
      BY <1>2, <3>1 DEF OnlyMoves, AtStone
    <3>3. AtClear(w, k)'
      BY <1>2, <2>1 DEF AtClear
    <3>. QED  BY <2>1, <3>2, <3>3, StonesOf
  <2>2. CASE k # item(w).key
    BY <1>2, <2>2, StonesKept DEF AtClear, AtStone
  <2>. QED  BY <2>1, <2>2
<1>. QED  BY <1>2, <1>4, <1>5, <1>6, <1>7 DEF Atomic!Put, Atomic!StonesBecome

(* Of a push that clears a tombstone, or fails to, the client learns at most   *)
(* that it is at an end.                                                   *)
LEMMA AfterClear ==
  ASSUME TypeOK, NEW w \in Workers, pc[w] = "clear", NextItem(w)
  PROVE  /\ OnlyMoves(w) /\ pc'[w] \in {"load", "idle"}
         /\ UNCHANGED <<req, Effective>> \/ (Atomic!Done(w) /\ Atomic!Answer(w))
<1>1. /\ IsPush(req[w]) /\ Len(req[w].items) \in Nat /\ at[w] \in 1..Len(req[w].items)
      /\ DOMAIN req[w].items = 1..Len(req[w].items) /\ Effective[w] = at[w] + 1 /\ req[w] # NoRequest
  BY PushOrDelete, EffectiveIs
<1>2. OnlyMoves(w) /\ pc'[w] \in {"load", "idle"}
  BY <1>1, NextItemControl DEF OnlyMoves
<1>3. CASE at[w] < Len(req[w].items)
  <2>1. pc'[w] = "load" /\ req' = req /\ at'[w] = at[w] + 1
    BY <1>3 DEF NextItem, Step, TypeOK
  <2>2. Effective' = Effective
    <3>1. Effective'[w] = Effective[w]
      BY <1>1, <2>1, EffectiveIs
    <3>. QED  BY <1>2, <3>1, EffectiveSame
  <2>. QED  BY <1>2, <2>1, <2>2
<1>4. CASE ~(at[w] < Len(req[w].items))
  <2>1. Atomic!Answer(w)
    BY <1>4, FinishAnswers DEF NextItem
  <2>2. at[w] + 1 \notin DOMAIN req[w].items
    BY <1>1, <1>4
  <2>3. Atomic!Done(w)
    BY <1>1, <2>2 DEF Atomic!Done, Atomic!HasItem, Atomic!ToDelete, IsPush
  <2>. QED  BY <1>2, <2>1, <2>3
<1>. QED  BY <1>3, <1>4

LEMMA ClearItems ==
  ASSUME ItemsInv, NEW w \in Workers, clearTombstone(w)
  PROVE  Atomic!Finish(w) \/ Atomic!Drift
<1>0. TypeOK
  BY DEF ItemsInv
<1>1. /\ pc[w] = "clear" /\ NextItem(w) /\ stone' = stone \ {item(w).key} /\ UNCHANGED <<row, raced, mixed>>
      /\ Pushing(w, item(w).key)
  BY <1>0, PushOrDelete DEF clearTombstone
<1>2. /\ OnlyMoves(w) /\ pc'[w] \in {"load", "idle"}
      /\ UNCHANGED <<req, Effective>> \/ (Atomic!Done(w) /\ Atomic!Answer(w))
  BY <1>0, <1>1, AfterClear
<1>3. ASSUME NEW k \in Keys \ mixed PROVE k \in Stones' <=> k \in Stones
  <2>1. CASE k = item(w).key
    <3>1. \A v \in Workers : ~AtStone(v, k)
      BY <1>1, <2>1, NobodyBetween
    <3>2. \A v \in Workers : ~AtStone(v, k)'
      BY <1>2, <3>1 DEF OnlyMoves, AtStone
    <3>3. AtClear(w, k) /\ k \notin stone'
      BY <1>1, <2>1 DEF AtClear
    <3>. QED  BY <3>1, <3>2, <3>3, StonesOf
  <2>2. CASE k # item(w).key
    BY <1>1, <1>2, <2>2, StonesKept DEF AtClear, AtStone
  <2>. QED  BY <2>1, <2>2
<1>. QED  BY <1>1, <1>2, <1>3 DEF Atomic!Finish, Atomic!Drift, Atomic!StonesBecome

LEMMA ClearFailsItems ==
  ASSUME ItemsInv, NEW w \in Workers, clearTombstoneFails(w)
  PROVE  Atomic!Fail(w)
<1>0. TypeOK
  BY DEF ItemsInv
<1>1. /\ Failures /\ pc[w] = "clear" /\ NextItem(w) /\ UNCHANGED <<row, stone, raced>>
      /\ mixed' = mixed \cup {item(w).key}
  BY DEF clearTombstoneFails, store
<1>2. /\ OnlyMoves(w) /\ pc'[w] \in {"load", "idle"}
      /\ UNCHANGED <<req, Effective>> \/ Atomic!Answer(w)
      /\ req[w] # NoRequest
  BY <1>0, <1>1, AfterClear, PushOrDelete
<1>3. Atomic!Latest(w) = {item(w).key}
  <2>1. IsPush(req[w]) /\ at[w] \in DOMAIN req[w].items /\ at[w] \in Nat /\ Effective[w] - 1 = at[w]
    BY <1>0, <1>1, PushOrDelete, EffectiveIs
  <2>. QED  BY <2>1 DEF Atomic!Latest, Atomic!IsPush, IsPush, item
<1>4. ASSUME NEW k \in Keys \ mixed' PROVE k \in Stones' <=> k \in Stones
  <2>1. k # item(w).key
    BY <1>1, <1>4
  <2>. QED  BY <1>1, <1>2, <2>1, StonesKept DEF AtClear, AtStone
<1>. QED  BY <1>1, <1>2, <1>3, <1>4 DEF Atomic!Fail, Atomic!StonesBecome

LEMMA DeleteRowItems ==
  ASSUME ItemsInv, NEW w \in Workers, DeleteRow(w)
  PROVE  Atomic!Delete(w)
<1>0. TypeOK
  BY DEF ItemsInv
<1>1. /\ pc[w] = "deleteRow" /\ pc'[w] = "writeStone" /\ OnlyMoves(w) /\ req' = req
      /\ UNCHANGED <<stone, raced, mixed>>
      /\ row' = [k \in Keys |-> IF k \in req[w].keys THEN Absent ELSE row[k]]
  BY <1>0 DEF DeleteRow, Goto, Step, TypeOK, OnlyMoves
<1>2. Effective[w] = 1 /\ Atomic!ToDelete(w)
  BY <1>0, <1>1, EffectiveIs, PushOrDelete DEF Atomic!ToDelete
<1>3. Atomic!GoOn(w)
  <2>1. Effective'[w] = 2
    BY <1>1, EffectiveIs
  <2>2. Effective' = [Effective EXCEPT ![w] = @ + 1]
    BY <1>1, <1>2, <2>1, EffectiveStep
  <2>. QED  BY <1>1, <2>2 DEF Atomic!GoOn
<1>4. ASSUME NEW k \in Keys \ mixed PROVE k \in Stones' <=> k \in Stones \cup req[w].keys
  <2>1. CASE k \in req[w].keys
    <3>1. AtStone(w, k)'
      BY <1>1, <2>1 DEF AtStone
    <3>. QED  BY <2>1, <3>1, StonesOf
  <2>2. CASE k \notin req[w].keys
    BY <1>1, <2>2, StonesKept DEF AtClear, AtStone
  <2>. QED  BY <2>1, <2>2
<1>. QED  BY <1>1, <1>2, <1>3, <1>4 DEF Atomic!Delete, Atomic!StonesBecome

LEMMA WriteTombstoneItems ==
  ASSUME ItemsInv, NEW w \in Workers, writeTombstone(w)
  PROVE  Atomic!Finish(w)
<1>0. TypeOK
  BY DEF ItemsInv
<1>1. pc[w] = "writeStone" /\ Finish(w) /\ stone' = stone \cup req[w].keys /\ UNCHANGED <<row, raced, mixed>>
  BY DEF writeTombstone
<1>2. OnlyMoves(w) /\ pc'[w] = "idle" /\ Atomic!Answer(w)
  BY <1>0, <1>1, FinishAnswers
<1>3. Atomic!Done(w)
  <2>1. Effective[w] = 2 /\ req[w] # NoRequest /\ req[w].op \in {"delete", "batchDelete"}
    BY <1>0, <1>1, EffectiveIs, PushOrDelete
  <2>. QED  BY <2>1 DEF Atomic!Done, Atomic!HasItem, Atomic!IsPush, Atomic!ToDelete
<1>4. ASSUME NEW k \in Keys \ mixed PROVE k \in Stones' <=> k \in Stones
  <2>1. CASE k \in req[w].keys
    <3>1. AtStone(w, k)
      BY <1>1, <2>1 DEF AtStone
    <3>2. \A v \in Workers : ~AtClear(v, k)
      BY <1>0, <3>1, BetweenServes, NobodyBetween
    <3>3. \A v \in Workers : ~AtClear(v, k)'
      BY <1>2, <3>2 DEF OnlyMoves, AtClear, item
    <3>. QED  BY <1>1, <2>1, <3>1, <3>3, StonesOf
  <2>2. CASE k \notin req[w].keys
    BY <1>1, <1>2, <2>2, StonesKept DEF AtClear, AtStone
  <2>. QED  BY <2>1, <2>2
<1>. QED  BY <1>1, <1>2, <1>3, <1>4 DEF Atomic!Finish, Atomic!StonesBecome

LEMMA RefuseDeleteItems ==
  ASSUME ItemsInv, NEW w \in Workers, RefuseBatchDelete(w)
  PROVE  Atomic!RefuseDelete(w)
<1>0. TypeOK
  BY DEF ItemsInv
<1>1. /\ pc[w] = "txBegin" /\ Finish(w) /\ UNCHANGED <<row, stone, raced, mixed>>
      /\ Cardinality(req[w].keys) \notin 1..DeleteLimit
  BY DEF RefuseBatchDelete, store
<1>2. OnlyMoves(w) /\ pc'[w] = "idle" /\ Atomic!Answer(w)
  BY <1>0, <1>1, FinishAnswers
<1>3. Atomic!ToDelete(w)
  BY <1>0, <1>1, EffectiveIs, PushOrDelete DEF Atomic!ToDelete
<1>4. ASSUME NEW k \in Keys PROVE k \in Stones' <=> k \in Stones
  BY <1>1, <1>2, StonesKept DEF AtClear, AtStone
<1>. QED  BY <1>1, <1>2, <1>3, <1>4 DEF Atomic!RefuseDelete, Atomic!StonesBecome, Cardinality, Atomic!Cardinality

(* A circle is broken by the refusal of a batch that another one is in the    *)
(* way of.                                                                 *)
LEMMA BreakItems ==
  ASSUME ItemsInv, NEW w \in Workers, BreakDeadlock(w)
  PROVE  Atomic!RefuseDelete(w)
<1>0. TypeOK
  BY DEF ItemsInv
<1>1. WaitsForItself(w) /\ Finish(w) /\ UNCHANGED <<row, stone, raced, mixed>>
  BY DEF BreakDeadlock, RollBack, store
<1>2. /\ pc[w] \in {"txRows", "txFound", "txStones", "txCommit"} /\ req[w].op = "batchDelete"
      /\ \E o \in Workers \ {w} : req[o].op = "batchDelete" /\ req[o].keys \cap req[w].keys # {}
  BY <1>0, <1>1, CircleIsOfBatches
<1>3. OnlyMoves(w) /\ pc'[w] = "idle" /\ Atomic!Answer(w)
  BY <1>0, <1>1, FinishAnswers
<1>4. Atomic!ToDelete(w)
  BY <1>0, <1>2, EffectiveIs DEF Atomic!ToDelete
<1>5. ASSUME NEW k \in Keys PROVE k \in Stones' <=> k \in Stones
  BY <1>1, <1>2, <1>3, StonesKept DEF AtClear, AtStone
<1>. QED  BY <1>1, <1>2, <1>3, <1>4, <1>5 DEF Atomic!RefuseDelete, Atomic!StonesBecome

(* The transaction holds every row there is of an untorn key of its own.      *)
LEMMA CommitItems ==
  ASSUME ItemsInv, NEW w \in Workers, TxCommit(w)
  PROVE  Atomic!Delete(w)
<1>0. TypeOK
  BY DEF ItemsInv
<1>1. /\ pc[w] = "txCommit" /\ Finish(w) /\ UNCHANGED <<raced, mixed>>
      /\ row' = [k \in Keys |-> IF k \in rowsHeld[w] THEN Absent ELSE row[k]]
      /\ rowsHeld[w] \subseteq req[w].keys /\ stone' = stone \cup req[w].keys
  BY <1>0 DEF TxCommit, TypeOK, WorkerOK
<1>2. OnlyMoves(w) /\ pc'[w] = "idle" /\ Atomic!Answer(w)
  BY <1>0, <1>1, FinishAnswers
<1>3. Atomic!ToDelete(w) /\ found[w] = {}
  <2>1. Atomic!ToDelete(w)
    BY <1>0, <1>1, EffectiveIs, PushOrDelete DEF Atomic!ToDelete, TypeOK, WorkerOK
  <2>2. found[w] = {}
    BY <1>0, <1>1 DEF TypeOK, WorkerOK
  <2>. QED  BY <2>1, <2>2
<1>4. \E K \in SUBSET req[w].keys : req[w].keys \ mixed \subseteq K
                                    /\ row' = [k \in Keys |-> IF k \in K THEN Absent ELSE row[k]]
  <2>. DEFINE K == rowsHeld[w] \cup {k \in req[w].keys : ~Live(k)}
  <2>1. req[w].keys \ mixed \subseteq K
    <3>. SUFFICES ASSUME NEW k \in req[w].keys \ mixed, Live(k) PROVE k \in rowsHeld[w]
      OBVIOUS
    <3>1. k \in Keys /\ InTx(w, k)
      BY <1>0, <1>1, PushOrDelete DEF InTx
    <3>. QED  BY <1>3, <3>1 DEF ItemsInv, KeyInv
  <2>2. row' = [k \in Keys |-> IF k \in K THEN Absent ELSE row[k]]
    BY <1>1 DEF Live
  <2>. QED  BY <1>1, <2>1, <2>2
<1>5. ASSUME NEW k \in Keys \ mixed PROVE k \in Stones' <=> k \in Stones \cup req[w].keys
  <2>1. CASE k \in req[w].keys
    <3>1. \A v \in Workers : ~AtClear(v, k)
      BY <1>0, <1>1, <2>1, PushOrDelete, NobodyBetween
    <3>2. \A v \in Workers : ~AtClear(v, k)'
      BY <1>2, <3>1 DEF OnlyMoves, AtClear, item
    <3>. QED  BY <1>1, <2>1, <3>2, StonesOf
  <2>2. CASE k \notin req[w].keys
    BY <1>1, <1>2, <2>2, StonesKept DEF AtClear, AtStone
  <2>. QED  BY <2>1, <2>2
<1>. QED  BY <1>1, <1>2, <1>3, <1>4, <1>5 DEF Atomic!Delete, Atomic!StonesBecome

LEMMA AbortItems ==
  ASSUME ItemsInv, NEW w \in Workers, Abort(w)
  PROVE  Atomic!Fail(w)
<1>0. TypeOK
  BY DEF ItemsInv
<1>1. /\ Failures /\ pc[w] # "idle" /\ Finish(w) /\ UNCHANGED <<row, stone, raced>>
      /\ pc[w] = "clear" => mixed' = mixed \cup {item(w).key}
      /\ pc[w] = "writeStone" => mixed' = mixed \cup req[w].keys
      /\ pc[w] \notin {"clear", "writeStone"} => mixed' = mixed
  BY DEF Abort, RollBack, store
<1>2. OnlyMoves(w) /\ pc'[w] = "idle" /\ Atomic!Answer(w) /\ req[w] # NoRequest
  BY <1>0, <1>1, FinishAnswers, PushOrDelete
<1>3. mixed' \in {mixed, mixed \cup Atomic!Latest(w)}
  <2>1. CASE pc[w] = "clear"
    <3>1. IsPush(req[w]) /\ at[w] \in DOMAIN req[w].items /\ at[w] \in Nat /\ Effective[w] - 1 = at[w]
      BY <1>0, <2>1, PushOrDelete, EffectiveIs
    <3>2. Atomic!Latest(w) = {item(w).key}
      BY <3>1 DEF Atomic!Latest, Atomic!IsPush, IsPush, item
    <3>. QED  BY <1>1, <2>1, <3>2
  <2>2. CASE pc[w] = "writeStone"
    <3>1. Effective[w] = 2 /\ req[w].op \in {"delete", "batchDelete"}
      BY <1>0, <2>2, PushOrDelete, EffectiveIs
    <3>2. Atomic!Latest(w) = req[w].keys
      BY <3>1 DEF Atomic!Latest, Atomic!IsPush
    <3>. QED  BY <1>1, <2>2, <3>2
  <2>. QED  BY <1>1, <2>1, <2>2
<1>4. ASSUME NEW k \in Keys \ mixed' PROVE k \in Stones' <=> k \in Stones
  <2>1. ~AtClear(w, k) /\ ~AtStone(w, k)
    BY <1>1, <1>4 DEF AtClear, AtStone
  <2>. QED  BY <1>1, <1>2, <2>1, StonesKept DEF AtClear, AtStone
<1>. QED  BY <1>1, <1>2, <1>3, <1>4 DEF Atomic!Fail, Atomic!StonesBecome

(* The content store is a store of atomic items: with the effect of a request *)
(* where its first statement on a key is, every statement is a step of such *)
(* a store or none (notes.go, upsert.go, tombstone.go, batch.go).          *)
THEOREM Refinement == Spec => ImplementsItems
<1>1. Init => RaceInv /\ \A k \in Keys : KeyInv(k)
  BY NoRequestFields DEF Init, RaceInv, MayReplace, Pushing, Deleting, Serving, KeyInv, Settled, Live,
                         AtClear, AtStone, InTx
<1>2. TypeOK /\ TypeOK' /\ RaceInv /\ (\A k \in Keys : KeyInv(k)) /\ [Next]_vars
        => RaceInv' /\ (\A k \in Keys : KeyInv(k))'
  BY RaceInvStep, KeyInvStep
<1>3. Init => Atomic!Init
  <2>. SUFFICES ASSUME Init PROVE Atomic!Init
    OBVIOUS
  <2>1. Stones = {}
    BY DEF Init, Stones
  <2>2. Effective = [w \in Workers |-> 1]
    BY DEF Init, Effective
  <2>. QED  BY <2>1, <2>2 DEF Init, Atomic!Init
<1>4. ASSUME ItemsInv, [Next]_vars PROVE [Atomic!Next]_(Atomic!vars)
  <2>1. CASE UNCHANGED vars
    <3>1. Stones' = Stones
      BY <2>1 DEF vars, Stones, item
    <3>2. Effective' = Effective
      BY <2>1 DEF vars, Effective
    <3>. QED  BY <2>1, <3>1, <3>2 DEF vars, store, locks, Atomic!vars
  <2>2. ASSUME NEW w \in Workers, Arrive(w) \/ Serve(w) \/ clearTombstoneFails(w) \/ Abort(w) \/ BreakDeadlock(w)
        PROVE  Atomic!Next
    <3>1. CASE Arrive(w)
      BY <1>4, <3>1, ArriveItems DEF Atomic!Next
    <3>2. CASE \/ Accept(w) \/ TxBegin(w) \/ TxDeleteRows(w) \/ TxRowsDeleted(w) \/ TxStonesWritten(w)
               \/ \E k \in Keys : TxDeleteRow(w, k) \/ TxWriteTombstone(w, k)
      BY <1>4, <3>2, QuietItems DEF Atomic!Next
    <3>3. CASE Reject(w)
      BY <1>4, <3>3, RejectItems DEF Atomic!Next
    <3>4. CASE upsertNote(w) \/ upsertNotetype(w) \/ upsertDeck(w)
      BY <1>4, <3>4, UpsertItems DEF Atomic!Next
    <3>5. CASE clearTombstone(w)
      BY <1>4, <3>5, ClearItems DEF Atomic!Next
    <3>6. CASE clearTombstoneFails(w)
      BY <1>4, <3>6, ClearFailsItems DEF Atomic!Next
    <3>7. CASE DeleteRow(w)
      BY <1>4, <3>7, DeleteRowItems DEF Atomic!Next
    <3>8. CASE writeTombstone(w)
      BY <1>4, <3>8, WriteTombstoneItems DEF Atomic!Next
    <3>9. CASE RefuseBatchDelete(w)
      BY <1>4, <3>9, RefuseDeleteItems DEF Atomic!Next
    <3>10. CASE TxCommit(w)
      BY <1>4, <3>10, CommitItems DEF Atomic!Next
    <3>11. CASE Abort(w)
      BY <1>4, <3>11, AbortItems DEF Atomic!Next
    <3>12. CASE BreakDeadlock(w)
      BY <1>4, <3>12, BreakItems DEF Atomic!Next
    <3>. QED
      BY <2>2, <3>1, <3>2, <3>3, <3>4, <3>5, <3>6, <3>7, <3>8, <3>9, <3>10, <3>11, <3>12 DEF Serve
  <2>. QED  BY <1>4, <2>1, <2>2 DEF Next
<1>5. TypeOK /\ RaceInv /\ (\A k \in Keys : KeyInv(k)) => ItemsInv
  BY DEF ItemsInv
<1>. QED
  BY <1>1, <1>2, <1>3, <1>4, <1>5, TypeCorrect, PTL DEF Spec, ImplementsItems, Atomic!Spec

-----------------------------------------------------------------------------
(* CirclesWithinAType.  A transaction takes the rows, then the tombstones of  *)
(* one type after the other, so that whoever is waited for has come        *)
(* further than who waits, or is at the same statement on the same type;   *)
(* within a statement tombstones come in the order of the request.         *)
OrderOK(w) ==
  /\ pc[w] = "txRows" => rowsHeld[w] \subseteq Handled(at[w] - 1)
  /\ pc[w] \in {"txFound", "txStones"} => rowsHeld[w] \subseteq Handled(at[w])
  /\ pc[w] = "txStones" =>
       \A k \in stonesHeld[w] \cap KeysAt(w), j \in KeysAt(w) \ stonesHeld[w] : ~Before(req[w], j, k)

OrderInv == \A w \in Workers : OrderOK(w)

(* Each type is handled once.                                               *)
LEMMA HandledOnce ==
  ASSUME NEW i \in 1..3, NEW n \in 0..3, NEW k \in Handled(n), TypeOf[k] = DeleteOrder[i]
  PROVE  i <= n
BY DEF Handled, DeleteOrder

LEMMA OrderInvStep ==
  ASSUME TypeOK, OrderInv, [Next]_vars
  PROVE  OrderInv'
<1>0. \A w \in Workers : WorkerOK(w) /\ OrderOK(w)
  BY DEF TypeOK, OrderInv
<1>1. CASE UNCHANGED vars
  BY <1>0, <1>1 DEF vars, OrderInv, OrderOK, Handled, KeysAt
<1>2. ASSUME NEW w \in Workers,
             \A v \in Workers \ {w} : /\ pc'[v] = pc[v] /\ req'[v] = req[v] /\ at'[v] = at[v]
                                      /\ rowsHeld'[v] = rowsHeld[v] /\ stonesHeld'[v] = stonesHeld[v],
             OrderOK(w)'
      PROVE  OrderInv'
  BY <1>0, <1>2 DEF OrderInv, OrderOK, Handled, KeysAt
<1>3. ASSUME NEW w \in Workers, Arrive(w) PROVE OrderInv'
  <2>1. PICK r \in Requests, first \in {"load", "deleteRow", "txBegin"} : Receive(w, r, first)
    BY <1>3, ArriveReceives
  <2>2. /\ pc'[w] = first /\ UNCHANGED <<rowsHeld, stonesHeld>>
        /\ \A v \in Workers \ {w} : pc'[v] = pc[v] /\ req'[v] = req[v] /\ at'[v] = at[v]
    BY <2>1 DEF Receive, Step, TypeOK, locks
  <2>. QED  BY <2>2, <1>2 DEF OrderOK
<1>4. ASSUME NEW w \in Workers, Serve(w) \/ clearTombstoneFails(w) \/ Abort(w) \/ BreakDeadlock(w) PROVE OrderInv'
  <2>1. CASE Accept(w) \/ upsertNote(w) \/ upsertNotetype(w) \/ upsertDeck(w) \/ DeleteRow(w)
    <3>1. /\ pc'[w] \notin {"txRows", "txFound", "txStones"} /\ UNCHANGED <<req, at, rowsHeld, stonesHeld>>
          /\ \A v \in Workers \ {w} : pc'[v] = pc[v]
      BY <2>1 DEF Accept, upsertNote, upsertNotetype, upsertDeck, Upsert, DeleteRow, Goto, Step, locks, TypeOK
    <3>. QED  BY <3>1, <1>2 DEF OrderOK
  <2>2. CASE Reject(w) \/ clearTombstone(w) \/ clearTombstoneFails(w)
    <3>1. IsPush(req[w]) /\ NextItem(w) /\ UNCHANGED <<rowsHeld, stonesHeld>>
      BY <2>2, <1>0 DEF Reject, clearTombstone, clearTombstoneFails, WorkerOK, locks
    <3>. QED  BY <3>1, <1>2, NextItemControl DEF OrderOK
  <2>3. CASE writeTombstone(w) \/ RefuseBatchDelete(w) \/ TxCommit(w) \/ Abort(w) \/ BreakDeadlock(w)
    <3>1. /\ Finish(w)
          /\ \A v \in Workers \ {w} : rowsHeld'[v] = rowsHeld[v] /\ stonesHeld'[v] = stonesHeld[v]
      BY <2>3 DEF writeTombstone, RefuseBatchDelete, TxCommit, Abort, BreakDeadlock, RollBack, Release, locks, TypeOK
    <3>. QED  BY <3>1, <1>2, FinishControl DEF OrderOK
  <2>4. CASE TxBegin(w)
    <3>1. Goto(w, "txRows") /\ UNCHANGED <<rowsHeld, stonesHeld>> /\ rowsHeld[w] = {}
      BY <2>4, <1>0 DEF TxBegin, locks, WorkerOK
    <3>. QED  BY <3>1, <1>2 DEF Goto, Step, TypeOK, OrderOK
  <2>5. CASE TxDeleteRows(w)
    <3>1. /\ at[w] \in 1..3 /\ rowsHeld[w] \subseteq Handled(at[w] - 1)
          /\ Handled(at[w]) = Handled(at[w] - 1) \cup {k \in Keys : TypeOf[k] = DeleteOrder[at[w]]}
      BY <2>5, <1>0, HandledSteps DEF TxDeleteRows, WorkerOK, OrderOK
    <3>2. Goto(w, "txFound") /\ rowsHeld[w] \subseteq Handled(at[w]) /\ UNCHANGED <<rowsHeld, stonesHeld>>
      BY <2>5, <3>1 DEF TxDeleteRows
    <3>. QED  BY <3>2, <1>2 DEF Goto, Step, TypeOK, OrderOK, Handled
  <2>6. ASSUME NEW k \in Keys, TxDeleteRow(w, k) PROVE OrderInv'
    <3>1. pc[w] = "txFound" /\ k \in KeysAt(w) /\ at[w] \in 1..3
      BY <2>6, <1>0, HandledSteps DEF TxDeleteRow, WorkerOK
    <3>2. k \in Handled(at[w]) /\ rowsHeld[w] \subseteq Handled(at[w])
      BY <2>6, <3>1, <1>0, HandledSteps DEF KeysAt, OrderOK
    <3>3. /\ UNCHANGED <<pc, req, at, stonesHeld>> /\ rowsHeld'[w] = rowsHeld[w] \cup {k}
          /\ \A v \in Workers \ {w} : rowsHeld'[v] = rowsHeld[v]
      BY <2>6 DEF TxDeleteRow, TypeOK
    <3>. QED  BY <3>1, <3>2, <3>3, <1>2 DEF OrderOK, Handled
  <2>7. CASE TxRowsDeleted(w)
    <3>1. Goto(w, "txStones") /\ UNCHANGED <<rowsHeld, stonesHeld>> /\ pc[w] = "txFound"
      BY <2>7 DEF TxRowsDeleted, locks
    <3>2. stonesHeld[w] \cap KeysAt(w) = {}
      <4>1. stonesHeld[w] = req[w].keys \cap Handled(at[w] - 1) /\ at[w] \in 1..3
        BY <3>1, <1>0, HandledSteps DEF WorkerOK
      <4>2. \A k \in stonesHeld[w] \cap KeysAt(w) : at[w] <= at[w] - 1
        BY <4>1, HandledOnce DEF KeysAt
      <4>. QED  BY <4>1, <4>2
    <3>3. OrderOK(w)'
      BY <3>1, <3>2, <1>0 DEF Goto, Step, TypeOK, OrderOK, Handled, KeysAt
    <3>. QED  BY <3>1, <3>3, <1>2 DEF Goto, Step, TypeOK
  <2>8. ASSUME NEW k \in Keys, TxWriteTombstone(w, k) PROVE OrderInv'
    <3>1. /\ UNCHANGED <<pc, req, at, rowsHeld>> /\ stonesHeld'[w] = stonesHeld[w] \cup {k}
          /\ \A v \in Workers \ {w} : stonesHeld'[v] = stonesHeld[v]
          /\ pc[w] = "txStones" /\ k \in NextStones(w)
      BY <2>8 DEF TxWriteTombstone, TypeOK
    <3>2. KeysAt(w)' = KeysAt(w) /\ Handled(at[w])' = Handled(at[w])
      BY <3>1 DEF KeysAt, Handled
    <3>3. OrderOK(w)'
      BY <3>1, <3>2, <1>0 DEF OrderOK, NextStones, Before
    <3>. QED  BY <3>1, <3>3, <1>2
  <2>9. CASE TxStonesWritten(w)
    <3>1. /\ rowsHeld' = rowsHeld /\ stonesHeld' = stonesHeld /\ req' = req
          /\ rowsHeld[w] \subseteq Handled(at[w]) /\ at[w] \in Nat
          /\ \A v \in Workers \ {w} : pc'[v] = pc[v] /\ at'[v] = at[v]
          /\ \/ pc'[w] = "txRows" /\ at'[w] = at[w] + 1
             \/ pc'[w] = "txCommit"
      BY <2>9, <1>0, NextTypeControl DEF TxStonesWritten, TypeOK, OrderOK
    <3>2. pc'[w] = "txRows" => at'[w] - 1 = at[w]
      BY <3>1
    <3>. QED  BY <3>1, <3>2, <1>2 DEF OrderOK, Handled
  <2>. QED  BY <1>4, <2>1, <2>2, <2>3, <2>4, <2>5, <2>6, <2>7, <2>8, <2>9 DEF Serve
<1>. QED  BY <1>1, <1>3, <1>4 DEF Next

(* How far a request has come with its locks.                               *)
Come(w) ==
  IF pc[w] = "txRows" THEN 3 * at[w]
  ELSE IF pc[w] = "txFound" THEN 3 * at[w] + 1
  ELSE IF pc[w] = "txStones" THEN 3 * at[w] + 2
  ELSE IF pc[w] = "txCommit" THEN 12 ELSE 0

LEMMA ComeBounded ==
  ASSUME TypeOK, NEW w \in Workers
  PROVE  Come(w) \in 0..12
BY HandledSteps DEF TypeOK, WorkerOK, Come

(* Who holds a row or a tombstone is a transaction of a batch delete.         *)
LEMMA HolderIsBatch ==
  ASSUME TypeOK, NEW o \in Workers, NEW k \in rowsHeld[o] \cup stonesHeld[o]
  PROVE  /\ pc[o] \in {"txRows", "txFound", "txStones", "txCommit"}
         /\ req[o] \in Requests /\ req[o].op = "batchDelete" /\ k \in req[o].keys
         /\ pc[o] # "txCommit" => at[o] \in 1..3
<1>1. WorkerOK(o)
  BY DEF TypeOK
<1>2. pc[o] \in {"txRows", "txFound", "txStones", "txCommit"}
  BY <1>1 DEF WorkerOK
<1>3. stonesHeld[o] \subseteq req[o].keys /\ rowsHeld[o] \subseteq req[o].keys
  BY <1>1, <1>2 DEF WorkerOK
<1>4. req[o] \in Requests /\ req[o] \in Request /\ ~IsPush(req[o]) /\ req[o].op # "delete"
  BY <1>1, <1>2, ServedRequest DEF WorkerOK
<1>5. req[o].op = "batchDelete"
  BY <1>4 DEF Request, IsPush
<1>. QED  BY <1>1, <1>2, <1>3, <1>4, <1>5, HandledSteps DEF WorkerOK

(* Who is waited for has come further, or is at the same statement.           *)
SameStatement(w, o) == pc[w] = pc[o] /\ pc[w] \in {"txFound", "txStones"} /\ at[w] = at[o]

LEMMA WaitsForFurther ==
  ASSUME TypeOK, OrderInv, NEW w \in Workers, NEW o \in Workers, NEW k \in Keys, WaitsFor(w, o, k)
  PROVE  Come(o) > Come(w) \/ (SameStatement(w, o) /\ TypeOf[k] = DeleteOrder[at[w]])
<1>0. WorkerOK(w) /\ WorkerOK(o) /\ OrderOK(o) /\ at[w] \in Nat /\ at[o] \in Nat
  BY DEF TypeOK, OrderInv
<1>1. /\ pc[o] \in {"txRows", "txFound", "txStones", "txCommit"}
      /\ pc[o] # "txCommit" => at[o] \in 1..3
  BY HolderIsBatch DEF WaitsFor
<1>2. CASE pc[w] \in {"upsert", "clear", "deleteRow", "writeStone"}
  BY <1>1, <1>2 DEF Come
<1>3. CASE k \in found[w]
  <2>1. k \in rowsHeld[o] /\ pc[w] = "txFound" /\ TypeOf[k] = DeleteOrder[at[w]] /\ at[w] \in 1..3
    BY <1>0, <1>3, HandledSteps DEF WaitsFor, WorkerOK, KeysAt
  <2>2. CASE pc[o] = "txRows"
    <3>1. k \in Handled(at[o] - 1) /\ at[o] - 1 \in 0..3
      BY <1>0, <1>1, <2>1, <2>2 DEF OrderOK
    <3>2. at[w] <= at[o] - 1
      BY <2>1, <3>1, HandledOnce
    <3>. QED  BY <1>0, <2>1, <2>2, <3>2 DEF Come
  <2>3. CASE pc[o] \in {"txFound", "txStones"}
    <3>1. k \in Handled(at[o]) /\ at[o] \in 0..3
      BY <1>0, <1>1, <2>1, <2>3 DEF OrderOK
    <3>2. at[w] <= at[o]
      BY <2>1, <3>1, HandledOnce
    <3>. QED  BY <1>0, <2>1, <2>3, <3>2 DEF Come, SameStatement
  <2>. QED  BY <1>1, <2>1, <2>2, <2>3 DEF Come
<1>4. CASE k \notin found[w] /\ pc[w] \notin {"upsert", "clear", "deleteRow", "writeStone"}
  <2>1. k \in stonesHeld[o] /\ pc[w] = "txStones" /\ TypeOf[k] = DeleteOrder[at[w]] /\ at[w] \in 1..3
    BY <1>0, <1>4, HandledSteps DEF WaitsFor, WorkerOK, NextStones, KeysAt
  <2>2. CASE pc[o] \in {"txRows", "txFound"}
    <3>1. k \in Handled(at[o] - 1) /\ at[o] - 1 \in 0..3
      BY <1>0, <1>1, <2>1, <2>2 DEF WorkerOK
    <3>2. at[w] <= at[o] - 1
      BY <2>1, <3>1, HandledOnce
    <3>. QED  BY <1>0, <2>1, <2>2, <3>2 DEF Come
  <2>3. CASE pc[o] = "txStones"
    <3>1. k \in Handled(at[o]) /\ at[o] \in 0..3
      BY <1>0, <1>1, <2>1, <2>3 DEF WorkerOK
    <3>2. at[w] <= at[o]
      BY <2>1, <3>1, HandledOnce
    <3>. QED  BY <1>0, <2>1, <2>3, <3>2 DEF Come, SameStatement
  <2>. QED  BY <1>1, <2>1, <2>2, <2>3 DEF Come
<1>. QED  BY <1>2, <1>3, <1>4

(* Of some workers, one has come least far: the numbers up to 12 have a first *)
(* one that is reached.                                                    *)
LEMMA LeastFar ==
  ASSUME TypeOK, NEW S \in SUBSET Workers, S # {}
  PROVE  \E m \in S : \A v \in S : Come(m) <= Come(v)
<1>. SUFFICES ASSUME \A m \in S : \E v \in S : Come(v) < Come(m) PROVE FALSE
  BY ComeBounded
<1>. DEFINE Beyond(n) == \A v \in S : Come(v) >= n
<1>1. \A v \in S : Come(v) \in 0..12
  BY ComeBounded
<1>2. Beyond(0)
  BY <1>1
<1>3. ASSUME NEW n \in 0..12, Beyond(n) PROVE Beyond(n + 1)
  <2>. SUFFICES ASSUME NEW v \in S, ~(Come(v) >= n + 1) PROVE FALSE
    OBVIOUS
  <2>1. Come(v) = n
    BY <1>1, <1>3
  <2>. QED  BY <1>1, <1>3, <2>1
<1>. HIDE DEF Beyond
<1>4. Beyond(13)
  <2>1. \A n \in 0..12 : Beyond(n) => Beyond(n + 1)
    BY <1>3
  <2>2. Beyond(1) /\ (Beyond(1) => Beyond(2)) /\ (Beyond(2) => Beyond(3)) /\ (Beyond(3) => Beyond(4))
    BY <1>2, <2>1
  <2>3. (Beyond(4) => Beyond(5)) /\ (Beyond(5) => Beyond(6)) /\ (Beyond(6) => Beyond(7))
    BY <2>1
  <2>4. (Beyond(7) => Beyond(8)) /\ (Beyond(8) => Beyond(9)) /\ (Beyond(9) => Beyond(10))
    BY <2>1
  <2>5. (Beyond(10) => Beyond(11)) /\ (Beyond(11) => Beyond(12)) /\ (Beyond(12) => Beyond(13))
    BY <2>1
  <2>. QED  BY <2>2, <2>3, <2>4, <2>5
<1>. QED  BY <1>1, <1>4 DEF Beyond

(* Those of a circle who have come least far keep only each other waiting.    *)
(* If their arrays are sorted, take the first tombstone of those awaited:  *)
(* who waits for it keeps somebody waiting for an earlier one.             *)
LEMMA CircleIsWithinAType ==
  ASSUME TypeOK, OrderInv
  PROVE  CirclesWithinAType
<1>. SUFFICES ASSUME NEW S \in SUBSET Workers, Circle(S)
              PROVE  \E w, o, p \in S, j, k \in Keys :
                       /\ WaitsFor(w, o, k) /\ WaitsFor(o, p, j)
                       /\ pc[w] = pc[o] /\ TypeOf[j] = TypeOf[k]
                       /\ pc[w] = "txStones" => \E v \in S : ~Sorted(req[v])
  BY DEF CirclesWithinAType
<1>1. PICK m0 \in S : \A v \in S : Come(m0) <= Come(v)
  BY LeastFar DEF Circle
<1>. DEFINE M == {m \in S : pc[m] = pc[m0] /\ at[m] = at[m0]}
            Type == DeleteOrder[at[m0]]
<1>2. ASSUME NEW m \in M
      PROVE  \E v \in M, k \in Keys : WaitsFor(v, m, k) /\ SameStatement(v, m) /\ TypeOf[k] = Type
  <2>1. PICK v \in S, k \in Keys : WaitsFor(v, m, k)
    BY DEF Circle, Blocks
  <2>2. Come(m) = Come(m0) /\ Come(m) \in 0..12 /\ Come(v) \in 0..12
    BY ComeBounded DEF Come
  <2>3. SameStatement(v, m) /\ TypeOf[k] = DeleteOrder[at[v]]
    BY <1>1, <2>1, <2>2, WaitsForFurther
  <2>. QED  BY <2>1, <2>3 DEF SameStatement
<1>3. PICK o \in M, j \in Keys : WaitsFor(o, m0, j) /\ SameStatement(o, m0) /\ TypeOf[j] = Type
  BY <1>2
<1>4. PICK w \in M, k \in Keys : WaitsFor(w, o, k) /\ SameStatement(w, o) /\ TypeOf[k] = Type
  BY <1>2
<1>5. ASSUME pc[m0] = "txStones", \A v \in S : Sorted(req[v]) PROVE FALSE
  <2>. DEFINE Awaited == {i \in Keys : TypeOf[i] = Type /\ \E v, m \in M : WaitsFor(v, m, i)}
  <2>1. PICK i \in Awaited : \A l \in Awaited : <<l, i>> \notin SortOrder
    <3>1. Awaited \in SUBSET Keys /\ j \in Awaited
      BY <1>3
    <3>. QED  BY <3>1, SortAssumption
  <2>2. PICK v \in M, m \in M : WaitsFor(v, m, i) /\ TypeOf[i] = Type
    BY <2>1
  <2>3. PICK u \in M, l \in Keys : WaitsFor(u, v, l) /\ SameStatement(u, v) /\ TypeOf[l] = Type
    BY <1>2
  <2>4. /\ WorkerOK(v) /\ WorkerOK(u) /\ OrderOK(v)
        /\ pc[v] = "txStones" /\ pc[u] = "txStones" /\ at[v] = at[m0]
    BY <1>5 DEF TypeOK, OrderInv
  <2>5. i \in NextStones(v) /\ l \in stonesHeld[v]
    BY <2>2, <2>3, <2>4 DEF WaitsFor, WorkerOK
  <2>6. req[v] \in Requests /\ req[v].op = "batchDelete" /\ l \in req[v].keys
    BY <2>5, HolderIsBatch
  <2>7. i \in KeysAt(v) \ stonesHeld[v] /\ l \in KeysAt(v) \cap stonesHeld[v]
    BY <2>3, <2>4, <2>5, <2>6 DEF NextStones, KeysAt
  <2>8. ~Before(req[v], i, l) /\ i # l /\ i \in req[v].keys
    BY <2>4, <2>7 DEF OrderOK, KeysAt
  <2>9. Before(req[v], l, i)
    BY <2>6, <2>8, RequestsAssumption
  <2>10. <<l, i>> \in SortOrder
    BY <1>5, <2>2, <2>3, <2>6, <2>8, <2>9 DEF Sorted
  <2>. QED  BY <2>1, <2>3, <2>10
<1>6. pc[w] = "txStones" => \E v \in S : ~Sorted(req[v])
  BY <1>5
<1>. QED  BY <1>3, <1>4, <1>6

(* However many requests overlap, they wait for each other in a circle only   *)
(* within one type, and at its tombstones only if somebody's array is not  *)
(* sorted (batch.go BatchDelete, upsert.go, tombstone.go).                 *)
THEOREM CirclesWithinATypeHolds == Spec => []CirclesWithinAType
<1>1. Init => OrderInv
  BY DEF Init, OrderInv, OrderOK
<1>2. TypeOK /\ OrderInv /\ [Next]_vars => OrderInv'
  BY OrderInvStep
<1>3. TypeOK /\ OrderInv => CirclesWithinAType
  BY CircleIsWithinAType
<1>. QED  BY <1>1, <1>2, <1>3, TypeCorrect, PTL DEF Spec

-----------------------------------------------------------------------------
(* What the breaking of circles leaves of EveryRequestAnswered: the          *)
(* statements that a request still has to execute, at the most, and the    *)
(* rows or tombstones that the one it is at still has to come to.          *)
Left(w) ==
  IF pc[w] = "idle" THEN 0
  ELSE IF pc[w] = "load" THEN 3 * (Len(req[w].items) - at[w]) + 3
  ELSE IF pc[w] = "upsert" THEN 3 * (Len(req[w].items) - at[w]) + 2
  ELSE IF pc[w] = "clear" THEN 3 * (Len(req[w].items) - at[w]) + 1
  ELSE IF pc[w] = "deleteRow" THEN 2
  ELSE IF pc[w] = "txBegin" THEN 11
  ELSE IF pc[w] = "txRows" THEN 3 * (4 - at[w]) + 1
  ELSE IF pc[w] = "txFound" THEN 3 * (4 - at[w])
  ELSE IF pc[w] = "txStones" THEN 3 * (4 - at[w]) - 1
  ELSE 1

Rest(w) ==
  IF pc[w] = "txFound" THEN found[w]
  ELSE IF pc[w] = "txStones" THEN KeysAt(w) \ stonesHeld[w] ELSE {}

LEMMA LeftNat ==
  ASSUME TypeOK, NEW w \in Workers
  PROVE  /\ Left(w) \in Nat /\ (pc[w] # "idle" => Left(w) > 0)
         /\ IsPush(req[w]) => Len(req[w].items) \in Nat /\ at[w] \in 1..Len(req[w].items)
<1>1. WorkerOK(w) /\ pc[w] \in Steps /\ at[w] \in Nat
  BY DEF TypeOK
<1>2. ASSUME IsPush(req[w]) PROVE Len(req[w].items) \in Nat /\ at[w] \in 1..Len(req[w].items)
  <2>1. req[w].items \in Seq(Item) /\ at[w] \in DOMAIN req[w].items
    BY <1>1, <1>2, ServedRequest, NoRequestFields DEF WorkerOK
  <2>. QED  BY <2>1
<1>3. pc[w] \in {"txRows", "txFound", "txStones"} => at[w] \in 1..3
  BY <1>1, HandledSteps DEF WorkerOK
<1>4. pc[w] \in {"load", "upsert", "clear"} => IsPush(req[w])
  BY <1>1 DEF WorkerOK
<1>5. CASE pc[w] \in {"load", "upsert", "clear"}
  <2>1. Len(req[w].items) \in Nat /\ at[w] \in Nat /\ at[w] <= Len(req[w].items)
    BY <1>2, <1>4, <1>5
  <2>2. Len(req[w].items) - at[w] \in Nat
    BY <2>1
  <2>. QED  BY <1>2, <1>5, <2>2 DEF Left
<1>6. CASE pc[w] \in {"txRows", "txFound", "txStones"}
  <2>1. Left(w) = 3 * (4 - at[w]) + 1 \/ Left(w) = 3 * (4 - at[w]) \/ Left(w) = 3 * (4 - at[w]) - 1
    BY <1>6 DEF Left
  <2>. QED  BY <1>2, <1>3, <1>6, <2>1
<1>7. CASE pc[w] \in Steps \ {"load", "upsert", "clear", "txRows", "txFound", "txStones"}
  BY <1>2, <1>7 DEF Left, Steps
<1>. QED  BY <1>1, <1>5, <1>6, <1>7

(* After an item there is less left than at any of its statements.           *)
LEMMA NextItemLess ==
  ASSUME TypeOK, NEW w \in Workers, IsPush(req[w]), NextItem(w)
  PROVE  Left(w)' < Left(w)
<1>1. /\ Len(req[w].items) \in Nat /\ at[w] \in 1..Len(req[w].items)
      /\ Left(w) \in Nat /\ Left(w) > 0 /\ pc[w] \in {"load", "upsert", "clear"}
  BY LeftNat, NoRequestFields DEF TypeOK, WorkerOK
<1>2. CASE at[w] < Len(req[w].items)
  <2>1. pc'[w] = "load" /\ req'[w] = req[w] /\ at'[w] = at[w] + 1
    BY <1>2 DEF NextItem, Step, TypeOK
  <2>. DEFINE rest == 3 * (Len(req[w].items) - at[w])
  <2>2. Left(w)' = 3 * (Len(req[w].items) - (at[w] + 1)) + 3
    BY <2>1 DEF Left
  <2>3. Left(w) = rest + 3 \/ Left(w) = rest + 2 \/ Left(w) = rest + 1
    BY <1>1 DEF Left
  <2>4. rest \in Int /\ Left(w)' = rest
    <3>1. \A len, i \in Int : 3 * (len - (i + 1)) + 3 = 3 * (len - i) /\ 3 * (len - i) \in Int
      OBVIOUS
    <3>2. at[w] \in Int /\ Len(req[w].items) \in Int
      BY <1>1
    <3>. QED  BY <3>1, <3>2, <2>2
  <2>. HIDE DEF rest
  <2>. QED  BY <2>3, <2>4
<1>3. CASE ~(at[w] < Len(req[w].items))
  BY <1>1, <1>3, FinishControl DEF NextItem, Left
<1>. QED  BY <1>2, <1>3

(* A statement of w is one less for it to execute, or leaves fewer rows or    *)
(* tombstones for the one it is at.                                        *)
Fewer(w) == Left(w)' = Left(w) /\ Rest(w)' \subseteq Rest(w) /\ Rest(w)' # Rest(w)

LEMMA StatementLess ==
  ASSUME TypeOK, NEW w \in Workers, Serve(w) \/ clearTombstoneFails(w) \/ Abort(w) \/ BreakDeadlock(w)
  PROVE  Left(w)' < Left(w) \/ Fewer(w)
<1>0. /\ WorkerOK(w) /\ at[w] \in Nat
      /\ Left(w) \in Nat /\ (pc[w] # "idle" => Left(w) > 0)
      /\ IsPush(req[w]) => Len(req[w].items) \in Nat /\ at[w] \in 1..Len(req[w].items)
  BY LeftNat DEF TypeOK
<1>1. CASE Accept(w) \/ upsertNote(w) \/ upsertNotetype(w) \/ upsertDeck(w)
  <2>1. /\ IsPush(req[w]) /\ req' = req /\ at' = at
        /\ \/ pc[w] = "load" /\ pc'[w] = "upsert"
           \/ pc[w] = "upsert" /\ pc'[w] = "clear"
    BY <1>0, <1>1 DEF Accept, upsertNote, upsertNotetype, upsertDeck, Upsert, Goto, Step, TypeOK, WorkerOK
  <2>. DEFINE rest == Len(req[w].items) - at[w]
  <2>2. rest \in Int /\ Len(req'[w].items) - at'[w] = rest
    BY <1>0, <2>1
  <2>3. \/ Left(w) = 3 * rest + 3 /\ Left(w)' = 3 * rest + 2
        \/ Left(w) = 3 * rest + 2 /\ Left(w)' = 3 * rest + 1
    BY <2>1, <2>2 DEF Left
  <2>. QED  BY <2>2, <2>3
<1>2. CASE Reject(w) \/ clearTombstone(w) \/ clearTombstoneFails(w)
  BY <1>0, <1>2, NextItemLess DEF Reject, clearTombstone, clearTombstoneFails, WorkerOK
<1>3. CASE DeleteRow(w)
  BY <1>3 DEF DeleteRow, Goto, Step, TypeOK, Left
<1>4. CASE writeTombstone(w) \/ RefuseBatchDelete(w) \/ TxCommit(w) \/ Abort(w) \/ BreakDeadlock(w)
  <2>1. Finish(w) /\ pc[w] # "idle"
    BY <1>4, CircleIsOfBatches DEF writeTombstone, RefuseBatchDelete, TxCommit, Abort, BreakDeadlock, RollBack
  <2>. QED  BY <1>0, <2>1, FinishControl DEF Left
<1>5. CASE TxBegin(w)
  <2>1. pc[w] = "txBegin" /\ pc'[w] = "txRows" /\ at'[w] = 1
    BY <1>0, <1>5 DEF TxBegin, Goto, Step, TypeOK, WorkerOK
  <2>. QED  BY <2>1 DEF Left
<1>6. CASE TxDeleteRows(w) \/ TxRowsDeleted(w)
  <2>1. /\ \/ pc[w] = "txRows" /\ pc'[w] = "txFound"
           \/ pc[w] = "txFound" /\ pc'[w] = "txStones"
        /\ at'[w] = at[w]
    BY <1>6 DEF TxDeleteRows, TxRowsDeleted, Goto, Step, TypeOK
  <2>. QED  BY <1>0, <2>1 DEF Left
<1>7. CASE TxStonesWritten(w)
  <2>1. /\ pc[w] = "txStones" /\ at[w] \in 1..3
        /\ \/ pc'[w] = "txRows" /\ at'[w] = at[w] + 1
           \/ pc'[w] = "txCommit"
    BY <1>0, <1>7, NextTypeControl, HandledSteps DEF TxStonesWritten, WorkerOK
  <2>. QED  BY <2>1 DEF Left
<1>8. ASSUME NEW k \in Keys, TxDeleteRow(w, k) PROVE Fewer(w)
  <2>1. pc[w] = "txFound" /\ UNCHANGED <<pc, req, at>>
    BY <1>0, <1>8 DEF TxDeleteRow, WorkerOK
  <2>2. k \in found[w] /\ found'[w] = found[w] \ {k}
    BY <1>8 DEF TxDeleteRow, TypeOK
  <2>. QED  BY <2>1, <2>2 DEF Fewer, Left, Rest
<1>9. ASSUME NEW k \in Keys, TxWriteTombstone(w, k) PROVE Fewer(w)
  <2>1. pc[w] = "txStones" /\ UNCHANGED <<pc, req, at>>
    BY <1>9 DEF TxWriteTombstone
  <2>2. k \in KeysAt(w) \ stonesHeld[w] /\ stonesHeld'[w] = stonesHeld[w] \cup {k}
    BY <1>9 DEF TxWriteTombstone, NextStones, TypeOK
  <2>. QED  BY <2>1, <2>2 DEF Fewer, Left, Rest, KeysAt
<1>. QED  BY <1>1, <1>2, <1>3, <1>4, <1>5, <1>6, <1>7, <1>8, <1>9 DEF Serve

(* It is the only worker whose control state changes.                        *)
Undelayed(v) == Left(v)' = Left(v) /\ Rest(v)' \subseteq Rest(v)

LEMMA OneWorkerSteps ==
  ASSUME TypeOK, NEW w \in Workers,
         Arrive(w) \/ Serve(w) \/ clearTombstoneFails(w) \/ Abort(w) \/ BreakDeadlock(w)
  PROVE  \A v \in Workers \ {w} : Undelayed(v)
<1>1. ASSUME \A v \in Workers \ {w} : /\ pc'[v] = pc[v] /\ req'[v] = req[v] /\ at'[v] = at[v]
                                      /\ found'[v] \subseteq found[v] /\ stonesHeld'[v] = stonesHeld[v]
      PROVE  \A v \in Workers \ {w} : Undelayed(v)
  BY <1>1 DEF Undelayed, Left, Rest, KeysAt
<1>2. CASE Arrive(w)
  BY <1>1, <1>2, ArriveReceives DEF Receive, Step, TypeOK, locks
<1>3. CASE Reject(w) \/ clearTombstone(w) \/ clearTombstoneFails(w)
  BY <1>1, <1>3, NextItemControl DEF Reject, clearTombstone, clearTombstoneFails, TypeOK, WorkerOK, locks
<1>4. CASE writeTombstone(w) \/ RefuseBatchDelete(w)
  BY <1>1, <1>4, FinishControl DEF writeTombstone, RefuseBatchDelete, locks
<1>5. CASE Abort(w) \/ BreakDeadlock(w)
  BY <1>1, <1>5, FinishControl, RollBackControl DEF Abort, BreakDeadlock
<1>6. CASE TxCommit(w)
  <2>1. Finish(w) /\ \A v \in Workers \ {w} : found'[v] \subseteq found[v] /\ stonesHeld'[v] = stonesHeld[v]
    BY <1>6 DEF TxCommit, NotFound, Release, TypeOK
  <2>. QED  BY <1>1, <2>1, FinishControl
<1>7. CASE Accept(w) \/ upsertNote(w) \/ upsertNotetype(w) \/ upsertDeck(w) \/ TxBegin(w) \/ TxRowsDeleted(w)
  <2>1. UNCHANGED <<found, stonesHeld>> /\ \E step \in Steps : Goto(w, step)
    BY <1>7 DEF Accept, upsertNote, upsertNotetype, upsertDeck, Upsert, TxBegin, TxRowsDeleted, Steps, locks
  <2>. QED  BY <1>1, <2>1 DEF Goto, Step, TypeOK
<1>8. CASE DeleteRow(w) \/ TxDeleteRows(w)
  <2>1. \E step \in Steps : Goto(w, step)
    BY <1>8 DEF DeleteRow, TxDeleteRows, Steps
  <2>2. \A v \in Workers \ {w} : found'[v] \subseteq found[v] /\ stonesHeld'[v] = stonesHeld[v]
    BY <1>8 DEF DeleteRow, NotFound, TxDeleteRows, TypeOK
  <2>. QED  BY <1>1, <2>1, <2>2 DEF Goto, Step, TypeOK
<1>9. CASE \E k \in Keys : TxDeleteRow(w, k) \/ TxWriteTombstone(w, k)
  BY <1>1, <1>9 DEF TxDeleteRow, TxWriteTombstone, TypeOK
<1>10. CASE TxStonesWritten(w)
  BY <1>1, <1>10, NextTypeControl
<1>. QED  BY <1>2, <1>3, <1>4, <1>5, <1>6, <1>7, <1>8, <1>9, <1>10 DEF Serve

(* Every step is an arrival at an idle worker or takes a statement, or a row  *)
(* or tombstone of one, from what one request has left, and delays no      *)
(* other: a request, which names finitely many keys, is answered after     *)
(* finitely many steps of its own (batch.go, upsert.go).                   *)
THEOREM StatementsRunOut ==
  Spec => [][\E w \in Workers : /\ Left(w) \in Nat
                                /\ (pc[w] = "idle" /\ issued' = issued + 1) \/ Left(w)' < Left(w) \/ Fewer(w)
                                /\ \A v \in Workers \ {w} : Undelayed(v)]_vars
<1>1. ASSUME TypeOK, Next
      PROVE  \E w \in Workers : /\ Left(w) \in Nat
                                /\ (pc[w] = "idle" /\ issued' = issued + 1) \/ Left(w)' < Left(w) \/ Fewer(w)
                                /\ \A v \in Workers \ {w} : Undelayed(v)
  <2>1. PICK w \in Workers : Arrive(w) \/ Serve(w) \/ clearTombstoneFails(w) \/ Abort(w) \/ BreakDeadlock(w)
    BY <1>1 DEF Next
  <2>2. Arrive(w) => pc[w] = "idle" /\ issued' = issued + 1
    BY ArriveReceives DEF Receive
  <2>3. ~Arrive(w) => Left(w)' < Left(w) \/ Fewer(w)
    BY <1>1, <2>1, StatementLess
  <2>4. Left(w) \in Nat /\ \A v \in Workers \ {w} : Undelayed(v)
    BY <1>1, <2>1, LeftNat, OneWorkerSteps
  <2>. QED  BY <2>2, <2>3, <2>4
<1>. QED  BY <1>1, TypeCorrect, PTL DEF Spec

-----------------------------------------------------------------------------
(* Planned sync.                                                            *)
Manifest == [since : 0..MaxTime, time : 0..MaxTime, rows : [Notes -> Row]]
Plan == [mine : [Notes -> Optional], server : [Notes -> Optional], conflicts : SUBSET Notes]

(* A manifest's times are readings there were; what is admitted is stamped.   *)
ClockInv ==
  /\ \A r \in requests : r.admitted => r.at > 0
  /\ \A c \in Clients : manifest[c].since <= clock /\ manifest[c].time <= clock

(* A plan is of the manifest its client has, or there is none.               *)
PlanOf(c) ==
  \/ plan[c] = NoPlan
  \/ phase[c] \in {"idle", "put"} /\ plan[c].server = Listed(manifest[c])
  \/ phase[c] \in {"read", "compare"} /\ plan[c] = [NoPlan EXCEPT !.mine = plan[c].mine]

(* What it has of the server was shown to the client.                        *)
PlanOK(c) ==
  /\ PlanOf(c)
  /\ \A n \in Notes : plan[c].server[n] \in shown[c][n] \cup {NoNote}

(* The base of a put is a content the client was shown; the write a client    *)
(* awaits is of an item of its plan.                                       *)
WriteOK(r) ==
  /\ r.op = "put" => r.from \in Clients /\ r.base \in shown[r.from][r.note] \cup {NoNote}
  /\ r.op = "delete" => r.content = NoNote
  /\ r.awaited => /\ r.base = plan[r.from].server[r.note]
                  /\ r.note \in Differing(r.from)
                  /\ ~r.force => r.note \in ToPush(r.from)

BasesInv == (\A c \in Clients : PlanOK(c)) /\ \A r \in requests : WriteOK(r)

(* Of a note whose writes did not overlap one at most is admitted, and what   *)
(* a put was compared with is still stored.                                *)
AdmittedInv ==
  /\ \A r, q \in Admitted : r.note = q.note /\ r # q => r.note \in overlapped
  /\ \A r \in Admitted :
       r.op = "put" /\ ~r.force /\ r.note \notin overlapped =>
         stored[r.note].content \in shown[r.from][r.note] \cup {NoNote, r.content}

(* A time and a content that the manifest of c since its server_time has.    *)
Told(c, n, t, text) == t > manifest[c].time \/ (text = NoNote /\ n \in lagging)

(* What is stamped and not yet stored is told by every manifest that does not *)
(* doubt it, and so is what has changed since.                             *)
Since(c, n) ==
  /\ stored[n] # manifest[c].rows[n] => Told(c, n, stored[n].at, stored[n].content)
  /\ \A r \in Stamped : r.note = n => Told(c, n, r.at, r.content)

SinceInv == \A c \in Clients : phase[c] # "read" => \A n \in Notes \ doubtful[c] : Since(c, n)

PlanInv == PlanTypeOK /\ ClockInv /\ BasesInv /\ AdmittedInv /\ SinceInv

(* The parts of the empty plan and the empty manifest.                       *)
LEMMA EmptyPlan ==
  /\ NoRow \in Row /\ NoRows \in [Notes -> Row] /\ NoNotes \in [Notes -> Optional]
  /\ NoPlan \in Plan /\ NoPlan.conflicts = {} /\ NoPlan.mine = NoNotes /\ NoPlan.server = NoNotes
BY PlanConstants DEF NoRow, NoRows, NoNotes, NoPlan, Row, Optional, Plan

(* What a read manifest is.                                                  *)
LEMMA ManifestRead ==
  ASSUME NEW m \in Manifest, NEW rows \in [Notes -> Row]
  PROVE  [m EXCEPT !.rows = rows] \in Manifest
BY DEF Manifest

LEMMA ManifestTimed ==
  ASSUME NEW m \in Manifest, NEW t \in 0..MaxTime
  PROVE  [m EXCEPT !.time = t] \in Manifest
BY DEF Manifest

LEMMA ManifestDropped ==
  ASSUME NEW m \in Manifest, NEW rows \in [Notes -> Row]
  PROVE  [m EXCEPT !.time = m.since, !.rows = rows] \in Manifest
BY DEF Manifest

(* What a request keeps when the server stamps or admits it, or when its      *)
(* client is gone.                                                         *)
Asked(s, r) ==
  /\ s.op = r.op /\ s.from = r.from /\ s.note = r.note /\ s.content = r.content
  /\ s.base = r.base /\ s.force = r.force

LEMMA StampedFields ==
  ASSUME NEW r \in Write, NEW t \in 0..MaxTime, NEW new, new = [r EXCEPT !.at = t]
  PROVE  new \in Write /\ Asked(new, r) /\ new.at = t /\ new.awaited = r.awaited /\ (new.admitted <=> r.admitted)
BY DEF Write, Asked

LEMMA AdmittedFields ==
  ASSUME NEW r \in Write, NEW new, new = [r EXCEPT !.admitted = TRUE]
  PROVE  new \in Write /\ Asked(new, r) /\ new.at = r.at /\ new.awaited = r.awaited /\ new.admitted = TRUE
BY DEF Write, Asked

LEMMA GivenUpFields ==
  ASSUME NEW r \in Write, NEW new, new = [r EXCEPT !.awaited = FALSE]
  PROVE  new \in Write /\ Asked(new, r) /\ new.at = r.at /\ new.awaited = FALSE /\ new.admitted = r.admitted
BY DEF Write, Asked

LEMMA InitialPlans ==
  PlanInit => PlanInv
<1>. SUFFICES ASSUME PlanInit PROVE PlanInv
  OBVIOUS
<1>1. PlanTypeOK
  BY EmptyPlan, PlanConstants DEF PlanInit, PlanTypeOK, OneAwaited, Plan
<1>2. ClockInv /\ AdmittedInv /\ SinceInv
  BY PlanConstants DEF PlanInit, ClockInv, AdmittedInv, SinceInv, Since, Stamped, Admitted
<1>3. BasesInv
  BY EmptyPlan DEF PlanInit, BasesInv, PlanOK, PlanOf, NoNotes
<1>. QED  BY <1>1, <1>2, <1>3 DEF PlanInv

(* PlanTypeOK by parts.                                                      *)
Typing ==
  /\ clock \in 0..MaxTime
  /\ dbClock \in 0..MaxTime
  /\ stored \in [Notes -> Row]
  /\ requests \subseteq Write
  /\ local \in [Clients -> [Notes -> Optional]]
  /\ phase \in [Clients -> {"idle", "read", "compare", "put"}]
  /\ manifest \in [Clients -> Manifest]
  /\ plan \in [Clients -> Plan]
  /\ events \in 0..MaxEvents
  /\ shown \in [Clients -> [Notes -> SUBSET Texts]]
  /\ doubtful \in [Clients -> SUBSET Notes]
  /\ overlapped \subseteq Notes
  /\ lagging \subseteq Notes

OnlyDiffering == \A c \in Clients : plan[c].conflicts \subseteq ToPush(c)

LEMMA TypingParts == PlanTypeOK <=> Typing /\ OneAwaited /\ OnlyDiffering
BY DEF PlanTypeOK, Typing, OnlyDiffering, Manifest, Plan

(* What the clock reads next.                                               *)
LEMMA Ticks ==
  ASSUME Typing, Tick
  PROVE  clock' = clock + 1 /\ clock' \in 0..MaxTime /\ clock' > 0
BY PlanConstants DEF Typing, Tick

LEMMA Events ==
  ASSUME Typing, Event
  PROVE  events' \in 0..MaxEvents
BY PlanConstants DEF Typing, Event

LEMMA ListedTyped ==
  ASSUME NEW m \in Manifest
  PROVE  Listed(m) \in [Notes -> Optional]
BY DEF Listed, Manifest, Row, Optional

(* What the server makes of r: s is r stamped or admitted.                    *)
Attend(r) == Stamp(r) \/ AdmitBatch(r) \/ AdmitPut(r) \/ BeginDelete(r)

Served(r, s) ==
  /\ s \in Write /\ Asked(s, r) /\ s.awaited = r.awaited
  /\ requests' = (requests \ {r}) \cup {s}
  /\ UNCHANGED <<stored, local, plan, manifest, shown, phase, doubtful, events>>
  /\ clock' \in 0..MaxTime /\ clock <= clock' /\ dbClock' \in 0..MaxTime
  /\ s.at > 0
  /\ \/ s.at = r.at
     \/ s.at = clock' /\ clock < clock'
     \/ r.op = "delete" /\ (s.at <= clock => r.note \in lagging')
  /\ lagging \subseteq lagging' /\ lagging' \subseteq Notes
  /\ overlapped \subseteq overlapped' /\ overlapped' \subseteq Notes
  /\ ~r.admitted
  /\ s.admitted => /\ (\E q \in Admitted : q.note = r.note) => r.note \in overlapped'
                   /\ r.op = "put" => ~Refused(r)

LEMMA AttendSteps ==
  ASSUME Typing, ClockInv, NEW r \in requests, Attend(r)
  PROVE  \E s \in Write : Served(r, s)
<1>. USE DEF clientVars, history
<1>0. /\ r \in Write /\ r.note \in Notes /\ r.at \in 0..MaxTime /\ clock \in 0..MaxTime /\ dbClock \in 0..MaxTime
      /\ lagging \subseteq Notes /\ overlapped \subseteq Notes /\ MaxTime \in Nat
      /\ r.op \in {"put", "batch", "delete"} /\ r.admitted \in BOOLEAN
  BY PlanConstants DEF Typing, Write
<1>1. CASE Stamp(r)
  <2>1. clock' = clock + 1 /\ clock' \in 0..MaxTime /\ ~r.admitted
    BY <1>0, <1>1 DEF Stamp, Tick, ClockInv
  <2>2. PICK s : s = [r EXCEPT !.at = clock']
    OBVIOUS
  <2>3. s \in Write /\ Asked(s, r) /\ s.at = clock' /\ s.awaited = r.awaited
    BY <1>0, <2>1, <2>2, StampedFields
  <2>4. ~s.admitted
    BY <1>0, <2>1, <2>2, StampedFields
  <2>5. requests' = (requests \ {r}) \cup {s} /\ UNCHANGED <<stored, local, plan, manifest, shown, phase, doubtful, events>>
        /\ UNCHANGED <<dbClock, lagging, overlapped>>
    BY <1>1, <2>2 DEF Stamp
  <2>6. clock <= clock' /\ clock < clock' /\ clock' > 0
    BY <1>0, <2>1
  <2>. QED  BY <1>0, <2>1, <2>3, <2>4, <2>5, <2>6 DEF Served
<1>2. CASE AdmitBatch(r)
  <2>1. PICK s : s = [r EXCEPT !.admitted = TRUE]
    OBVIOUS
  <2>2. s \in Write /\ Asked(s, r) /\ s.at = r.at /\ s.awaited = r.awaited
    BY <1>0, <2>1, AdmittedFields
  <2>3. overlapped \subseteq overlapped' /\ overlapped' \subseteq Notes
        /\ ((\E q \in Admitted : q.note = r.note) => r.note \in overlapped')
    BY <1>0, <1>2 DEF AdmitBatch, Overlap
  <2>4. requests' = (requests \ {r}) \cup {s} /\ UNCHANGED <<stored, local, plan, manifest, shown, phase, doubtful, events>>
        /\ UNCHANGED <<clock, dbClock, lagging>> /\ ~r.admitted /\ r.at > 0 /\ ~Refused(r)
    BY <1>2, <2>1 DEF AdmitBatch
  <2>. QED  BY <1>0, <2>2, <2>3, <2>4 DEF Served
<1>3. CASE AdmitPut(r)
  <2>1. clock' = clock + 1 /\ clock' \in 0..MaxTime
    BY <1>0, <1>3 DEF AdmitPut, Tick
  <2>2. PICK s : s = [r EXCEPT !.at = clock', !.admitted = TRUE]
    OBVIOUS
  <2>3. s \in Write /\ Asked(s, r) /\ s.at = clock' /\ s.awaited = r.awaited
    BY <1>0, <2>1, <2>2 DEF Write, Asked
  <2>4. overlapped \subseteq overlapped' /\ overlapped' \subseteq Notes
        /\ ((\E q \in Admitted : q.note = r.note) => r.note \in overlapped')
    BY <1>0, <1>3 DEF AdmitPut, Overlap
  <2>5. requests' = (requests \ {r}) \cup {s} /\ UNCHANGED <<stored, local, plan, manifest, shown, phase, doubtful, events>>
        /\ UNCHANGED <<dbClock, lagging>> /\ ~r.admitted /\ ~Refused(r)
    BY <1>3, <2>2 DEF AdmitPut
  <2>6. clock <= clock' /\ clock < clock' /\ clock' > 0
    BY <1>0, <2>1
  <2>. QED  BY <1>0, <2>1, <2>3, <2>4, <2>5, <2>6 DEF Served
<1>4. CASE BeginDelete(r)
  <2>1. PICK now \in (dbClock + 1)..MaxTime :
          /\ dbClock' = now
          /\ requests' = (requests \ {r}) \cup {[r EXCEPT !.at = now, !.admitted = TRUE]}
          /\ lagging' = IF now <= clock THEN lagging \cup {r.note} ELSE lagging
    BY <1>4 DEF BeginDelete
  <2>2. now \in 0..MaxTime /\ now > 0 /\ dbClock' \in 0..MaxTime
    BY <1>0, <2>1
  <2>3. PICK s : s = [r EXCEPT !.at = now, !.admitted = TRUE]
    OBVIOUS
  <2>4. s \in Write /\ Asked(s, r) /\ s.at = now /\ s.awaited = r.awaited
    BY <1>0, <2>2, <2>3 DEF Write, Asked
  <2>5. overlapped \subseteq overlapped' /\ overlapped' \subseteq Notes
        /\ ((\E q \in Admitted : q.note = r.note) => r.note \in overlapped')
    BY <1>0, <1>4 DEF BeginDelete, Overlap
  <2>6. lagging \subseteq lagging' /\ lagging' \subseteq Notes /\ (now <= clock => r.note \in lagging')
    BY <1>0, <2>1
  <2>7. requests' = (requests \ {r}) \cup {s} /\ UNCHANGED <<stored, local, plan, manifest, shown, phase, doubtful, events>>
        /\ UNCHANGED clock /\ ~r.admitted /\ r.op = "delete" /\ clock <= clock
    BY <1>0, <1>4, <2>1, <2>3 DEF BeginDelete
  <2>. QED  BY <1>0, <2>2, <2>4, <2>5, <2>6, <2>7 DEF Served
<1>. QED  BY <1>1, <1>2, <1>3, <1>4 DEF Attend

(* The steps of PlannedSync: what users and other programs do, the steps of   *)
(* build_plan, and what becomes of a request.                              *)
Asks ==
  \/ \E c \in Clients, n \in Notes, content \in Optional :
       \/ accept_server(c, n) \/ push_local(c, n) \/ force_local(c, n)
       \/ Edit(c, n, content) \/ canonical_override(c, n, content)
  \/ OtherProgram

LEMMA PlanSteps ==
  ASSUME [PlanNext]_planVars
  PROVE  \/ Asks
         \/ \E c \in Clients : \E whole \in BOOLEAN : BeginPlan(c, whole)
         \/ \E c \in Clients : ReadNotes(c) \/ Compare(c) \/ Fail(c)
         \/ \E r \in requests : Attend(r) \/ Refuse(r) \/ Commit(r) \/ Lose(r)
         \/ UNCHANGED planVars
<1>1. ASSUME NEW c \in Clients, Client(c)
      PROVE  \/ Asks \/ (\E whole \in BOOLEAN : BeginPlan(c, whole))
             \/ ReadNotes(c) \/ Compare(c) \/ Fail(c)
  <2>1. ASSUME NEW n \in Notes, push_local(c, n) \/ force_local(c, n) \/ accept_server(c, n)
        PROVE  Asks
    <3>1. NoNote \in Optional
      BY DEF Optional
    <3>. QED  BY <2>1, <3>1 DEF Asks
  <2>2. ASSUME NEW n \in Notes, NEW content \in Optional, Edit(c, n, content)
        PROVE  Asks
    BY <2>2 DEF Asks
  <2>3. ASSUME NEW n \in Notes, NEW content \in Texts, canonical_override(c, n, content)
        PROVE  Asks
    BY <2>3 DEF Asks, Optional
  <2>. QED  BY <1>1, <2>1, <2>2, <2>3 DEF Client
<1>2. ASSUME NEW r \in requests, Handle(r)
      PROVE  Attend(r) \/ Refuse(r) \/ Commit(r) \/ Lose(r)
  BY <1>2 DEF Handle, Attend
<1>. QED  BY <1>1, <1>2 DEF PlanNext, Asks

(* The steps that send a request, or none, and what the request is.           *)
LEMMA AddedFresh ==
  ASSUME Asks
  PROVE  /\ UNCHANGED <<clock, stored, manifest, doubtful, shown, overlapped, lagging>>
         /\ \A r \in requests' : r \in requests \/ (r.at = 0 /\ ~r.admitted)
<1>. USE DEF serverVars, clientVars, history
<1>1. ASSUME NEW from, NEW n, NEW op, NEW text, NEW base, NEW force, Post(from, n, op, text, base, force)
      PROVE  \A r \in requests' : r \in requests \/ (r.at = 0 /\ ~r.admitted)
  BY <1>1 DEF Post
<1>2. ASSUME NEW c \in Clients, NEW n \in Notes, NEW content \in Optional, accept_server(c, n) \/ Edit(c, n, content)
      PROVE  /\ UNCHANGED <<clock, stored, manifest, doubtful, shown, overlapped, lagging>>
             /\ UNCHANGED requests
  BY <1>2 DEF accept_server, Edit
<1>3. ASSUME NEW c \in Clients, NEW n \in Notes, NEW content \in Optional,
             push_local(c, n) \/ force_local(c, n) \/ canonical_override(c, n, content)
      PROVE  /\ UNCHANGED <<clock, stored, manifest, doubtful, shown, overlapped, lagging>>
             /\ \A r \in requests' : r \in requests \/ (r.at = 0 /\ ~r.admitted)
  BY <1>1, <1>3 DEF push_local, force_local, canonical_override, Send
<1>4. CASE OtherProgram
  BY <1>1, <1>4 DEF OtherProgram, RequestDelete, RequestBatch
<1>. QED  BY <1>2, <1>3, <1>4 DEF Asks

(* Every step keeps the types.                                              *)
LEMMA TypingStep ==
  ASSUME PlanInv, [PlanNext]_planVars
  PROVE  Typing'
<1>. USE DEF serverVars, clientVars, history
<1>0. Typing
  BY TypingParts DEF PlanInv
<1>1. ASSUME NEW c \in Clients, NEW n \in Notes, NEW content \in Optional, Edit(c, n, content)
      PROVE  Typing'
  BY <1>0, <1>1, Events DEF Edit, Typing
<1>2. CASE OtherProgram
  <2>1. \A n \in Notes :
        [op |-> "delete", from |-> Elsewhere, note |-> n, content |-> NoNote, base |-> NoNote, force |-> TRUE,
         at |-> 0, admitted |-> FALSE, awaited |-> FALSE] \in Write
    BY PlanConstants DEF Write, Optional
  <2>2. \A n \in Notes, content \in Texts :
        [op |-> "batch", from |-> Elsewhere, note |-> n, content |-> content, base |-> stored[n].content, force |-> FALSE,
         at |-> 0, admitted |-> FALSE, awaited |-> FALSE] \in Write
    BY <1>0, PlanConstants DEF Write, Optional, Typing, Row
  <2>. QED  BY <1>0, <1>2, <2>1, <2>2, Events DEF OtherProgram, RequestDelete, RequestBatch, Post, Typing
<1>3. ASSUME NEW c \in Clients, NEW whole \in BOOLEAN, BeginPlan(c, whole)
      PROVE  Typing'
  <2>1. [NoPlan EXCEPT !.mine = local[c]] \in Plan
    BY <1>0, EmptyPlan DEF Typing, Plan
  <2>2. [since |-> IF whole THEN 0 ELSE manifest[c].time, time |-> clock', rows |-> NoRows] \in Manifest
    BY <1>0, <1>3, Ticks, EmptyPlan, PlanConstants DEF Typing, Manifest, BeginPlan
  <2>. QED  BY <1>0, <1>3, <2>1, <2>2, Ticks DEF BeginPlan, Enter, Typing
<1>4. ASSUME NEW c \in Clients, ReadNotes(c)
      PROVE  Typing'
  <2>1. [manifest[c] EXCEPT !.rows = stored] \in Manifest
    <3>1. manifest[c] \in Manifest /\ stored \in [Notes -> Row]
      BY <1>0 DEF Typing
    <3>. QED  BY <3>1, ManifestRead
  <2>2. {r.note : r \in {q \in Stamped : q.at <= manifest[c].time}} \subseteq Notes
    BY <1>0 DEF Typing, Stamped, Write
  <2>. QED  BY <1>0, <1>4, <2>1, <2>2 DEF ReadNotes, Enter, Typing
<1>5. ASSUME NEW c \in Clients, Compare(c)
      PROVE  Typing'
  <2>1. [manifest[c] EXCEPT !.time = ServerTime(c)] \in Manifest
    <3>1. manifest[c] \in Manifest
      BY <1>0 DEF Typing
    <3>2. ServerTime(c) \in 0..MaxTime
      BY <3>1 DEF ServerTime, Manifest
    <3>. QED  BY <3>1, <3>2, ManifestTimed
  <2>2. [plan[c] EXCEPT !.server = Listed(manifest[c])] \in Plan
    <3>1. plan[c] \in Plan /\ Listed(manifest[c]) \in [Notes -> Optional]
      BY <1>0, ListedTyped DEF Typing
    <3>. QED  BY <3>1 DEF Plan
  <2>3. [n \in Notes |-> shown[c][n] \cup ({Listed(manifest[c])[n]} \ {NoNote})] \in [Notes -> SUBSET Texts]
    BY <1>0, ListedTyped DEF Typing, Optional
  <2>. QED  BY <1>0, <1>5, <2>1, <2>2, <2>3 DEF Compare, Enter, Typing
<1>6. ASSUME NEW c \in Clients, NEW n \in Notes, NEW content \in Optional, NEW force \in BOOLEAN,
             Send(c, n, content, force), events' \in 0..MaxEvents
      PROVE  Typing'
  <2>1. Base(c, n) \in Optional
    BY <1>0 DEF Typing, Plan, Base
  <2>2. c # Elsewhere
    BY PlanConstants
  <2>3. [op |-> "put", from |-> c, note |-> n, content |-> content, base |-> Base(c, n), force |-> force,
         at |-> 0, admitted |-> FALSE, awaited |-> c # Elsewhere] \in Write
    BY <2>1, <2>2, PlanConstants DEF Write
  <2>. QED  BY <1>0, <1>6, <2>3 DEF Send, Post, Enter, Typing
<1>7. ASSUME NEW c \in Clients, NEW n \in Notes, accept_server(c, n)
      PROVE  Typing'
  BY <1>0, <1>7, Events DEF accept_server, Typing, Row
<1>8. ASSUME NEW c \in Clients, Fail(c)
      PROVE  Typing'
  <2>1. plan' \in [Clients -> Plan]
    BY <1>0, <1>8, EmptyPlan DEF Fail, Typing
  <2>2. requests' \subseteq Write
    <3>1. \A r \in requests : [r EXCEPT !.awaited = FALSE] \in Write /\ r \in Write
      BY <1>0, GivenUpFields DEF Typing
    <3>. QED  BY <1>8, <3>1 DEF Fail
  <2>3. manifest' \in [Clients -> Manifest]
    <3>1. [manifest[c] EXCEPT !.time = manifest[c].since, !.rows = NoRows] \in Manifest
      <4>1. manifest[c] \in Manifest /\ NoRows \in [Notes -> Row]
        BY <1>0, EmptyPlan DEF Typing
      <4>. QED  BY <4>1, ManifestDropped
    <3>. QED  BY <1>0, <1>8, <3>1 DEF Fail, Typing
  <2>. QED  BY <1>0, <1>8, <2>1, <2>2, <2>3, Events DEF Fail, Enter, Typing
<1>9. ASSUME NEW r \in requests, Attend(r)
      PROVE  Typing'
  <2>1. PICK s \in Write : Served(r, s)
    BY <1>0, <1>9, AttendSteps DEF PlanInv
  <2>. QED  BY <1>0, <2>1 DEF Served, Typing
<1>10. ASSUME NEW r \in requests, Refuse(r)
      PROVE  Typing'
  <2>1. r.note \in Notes /\ (r.awaited => r.from \in Clients)
    BY <1>0, TypingParts DEF Typing, Write, PlanInv, OneAwaited
  <2>2. plan' \in [Clients -> Plan]
    <3>1. CASE r.awaited
      <4>1. plan[r.from] \in Plan
        BY <1>0, <2>1, <3>1 DEF Typing
      <4>2. [plan[r.from] EXCEPT !.conflicts = @ \cup {r.note}] \in Plan
        BY <2>1, <4>1 DEF Plan
      <4>. QED  BY <1>0, <1>10, <2>1, <3>1, <4>2 DEF Refuse, Typing
    <3>2. CASE ~r.awaited
      BY <1>0, <1>10, <3>2 DEF Refuse, Typing
    <3>. QED  BY <3>1, <3>2
  <2>. QED  BY <1>0, <1>10, <2>1, <2>2 DEF Refuse, Answer, Typing
<1>11. ASSUME NEW r \in requests, Commit(r)
      PROVE  Typing'
  <2>1. r.note \in Notes /\ [content |-> r.content, at |-> r.at] \in Row
    BY <1>0 DEF Typing, Write, Row
  <2>. QED  BY <1>0, <1>11, <2>1 DEF Commit, Answer, Typing
<1>12. ASSUME NEW r \in requests, Lose(r)
      PROVE  Typing'
  BY <1>0, <1>12, Events DEF Lose, Typing
<1>13. CASE UNCHANGED planVars
  BY <1>0, <1>13 DEF planVars, Typing
<1>14. ASSUME NEW c \in Clients, NEW n \in Notes, push_local(c, n)
       PROVE  Typing'
  <2>1. local[c][n] \in Optional /\ events' \in 0..MaxEvents
    BY <1>0, <1>14 DEF push_local, Typing
  <2>. QED  BY <1>14, <1>6, <2>1 DEF push_local
<1>15. ASSUME NEW c \in Clients, NEW n \in Notes, force_local(c, n)
       PROVE  Typing'
  <2>1. local[c][n] \in Optional
    BY <1>0 DEF Typing
  <2>. QED  BY <1>0, <1>15, <1>6, <2>1, Events DEF force_local
<1>16. ASSUME NEW c \in Clients, NEW n \in Notes, NEW content \in Optional, canonical_override(c, n, content)
       PROVE  Typing'
  BY <1>0, <1>16, <1>6, Events DEF canonical_override
<1>. QED
  BY <1>1, <1>2, <1>3, <1>4, <1>5, <1>7, <1>8, <1>9, <1>10, <1>11, <1>12, <1>13, <1>14, <1>15, <1>16, PlanSteps DEF Asks

(* A plan and what a request says of it depend on nothing else.              *)
LEMMA PlanKept ==
  ASSUME NEW c \in Clients, plan'[c] = plan[c], PlanOK(c), \A n \in Notes : shown[c][n] \subseteq shown'[c][n],
         \/ phase'[c] = phase[c] /\ manifest'[c] = manifest[c]
         \/ phase'[c] = phase[c] /\ phase[c] \in {"read", "compare"}
         \/ {phase[c], phase'[c]} = {"idle", "put"} /\ manifest'[c] = manifest[c]
         \/ {phase[c], phase'[c]} = {"read", "compare"}
  PROVE  PlanOK(c)'
BY DEF PlanOK, PlanOf, Listed

LEMMA WriteKept ==
  ASSUME NEW r \in requests, WriteOK(r), r \in Write,
         r.from \in Clients => shown[r.from][r.note] \subseteq shown'[r.from][r.note],
         r.awaited => plan'[r.from].server = plan[r.from].server /\ plan'[r.from].mine = plan[r.from].mine
  PROVE  WriteOK(r)'
BY DEF WriteOK, Differing, ToPush

(* The parts of the invariant that say what a plan and a write are of.       *)
PlansInv == OneAwaited /\ OnlyDiffering /\ BasesInv

(* A step that leaves the plans alone and adds no write that is awaited.     *)
LEMMA QuietStep ==
  ASSUME Typing, PlansInv, UNCHANGED <<plan, manifest, shown, phase>>,
         \A r \in requests' : r \in requests \/ (WriteOK(r)' /\ ~r.awaited)
  PROVE  PlansInv'
<1>1. OneAwaited'
  BY DEF PlansInv, OneAwaited
<1>2. OnlyDiffering'
  BY DEF PlansInv, OnlyDiffering, ToPush, Differing
<1>3. ASSUME NEW c \in Clients PROVE PlanOK(c)'
  BY PlanKept DEF PlansInv, BasesInv
<1>4. ASSUME NEW r \in requests' PROVE WriteOK(r)'
  <2>1. CASE r \in requests
    BY <2>1, WriteKept DEF PlansInv, BasesInv, Typing
  <2>2. CASE WriteOK(r)'
    BY <2>2
  <2>. QED  BY <2>1, <2>2
<1>. QED  BY <1>1, <1>2, <1>3, <1>4 DEF PlansInv, BasesInv

LEMMA BeginPlans ==
  ASSUME Typing, PlansInv, NEW c \in Clients, NEW whole \in BOOLEAN, BeginPlan(c, whole)
  PROVE  PlansInv'
<1>. USE DEF history
<1>1. /\ UNCHANGED <<requests, shown>>
      /\ phase[c] = "idle" /\ phase'[c] = "read"
      /\ plan'[c] = [NoPlan EXCEPT !.mine = local[c]]
      /\ \A d \in Clients \ {c} : plan'[d] = plan[d] /\ manifest'[d] = manifest[d] /\ phase'[d] = phase[d]
  BY DEF BeginPlan, Enter, Typing
<1>2. /\ plan'[c].mine = local[c] /\ plan'[c].server = NoNotes /\ plan'[c].conflicts = {}
      /\ plan'[c] = [NoPlan EXCEPT !.mine = plan'[c].mine]
  BY <1>1 DEF NoPlan
<1>3. \A r \in requests : r \in Write /\ (r.awaited => r.from \in Clients \ {c})
  BY <1>1 DEF Typing, PlansInv, OneAwaited, Write
<1>4. OneAwaited'
  BY <1>1, <1>3 DEF PlansInv, OneAwaited
<1>5. OnlyDiffering'
  <2>1. ASSUME NEW d \in Clients PROVE (plan[d].conflicts \subseteq ToPush(d))'
    <3>1. CASE d = c
      BY <3>1, <1>2
    <3>2. CASE d # c
      BY <3>2, <1>1 DEF PlansInv, OnlyDiffering, ToPush, Differing
    <3>. QED  BY <3>1, <3>2
  <2>. QED  BY <2>1 DEF OnlyDiffering
<1>6. ASSUME NEW d \in Clients PROVE PlanOK(d)'
  <2>1. CASE d = c
    BY <2>1, <1>1, <1>2 DEF PlanOK, PlanOf, NoNotes
  <2>2. CASE d # c
    BY <2>2, <1>1, PlanKept DEF PlansInv, BasesInv
  <2>. QED  BY <2>1, <2>2
<1>7. ASSUME NEW r \in requests' PROVE WriteOK(r)'
  BY <1>1, <1>3, WriteKept DEF PlansInv, BasesInv
<1>. QED  BY <1>4, <1>5, <1>6, <1>7 DEF PlansInv, BasesInv

LEMMA ReadPlans ==
  ASSUME Typing, PlansInv, NEW c \in Clients, ReadNotes(c)
  PROVE  PlansInv'
<1>. USE DEF serverVars
<1>1. /\ UNCHANGED <<requests, shown, plan>>
      /\ phase[c] = "read" /\ phase'[c] = "compare"
      /\ \A d \in Clients \ {c} : manifest'[d] = manifest[d] /\ phase'[d] = phase[d]
  BY DEF ReadNotes, Enter, Typing
<1>2. \A r \in requests : r \in Write /\ (r.awaited => r.from \in Clients \ {c})
  BY <1>1 DEF Typing, PlansInv, OneAwaited, Write
<1>3. OneAwaited'
  BY <1>1, <1>2 DEF PlansInv, OneAwaited
<1>4. OnlyDiffering'
  BY <1>1 DEF PlansInv, OnlyDiffering, ToPush, Differing
<1>5. ASSUME NEW d \in Clients PROVE PlanOK(d)'
  BY <1>1, PlanKept DEF PlansInv, BasesInv
<1>6. ASSUME NEW r \in requests' PROVE WriteOK(r)'
  BY <1>1, <1>2, WriteKept DEF PlansInv, BasesInv
<1>. QED  BY <1>3, <1>4, <1>5, <1>6 DEF PlansInv, BasesInv

LEMMA ComparePlans ==
  ASSUME Typing, PlansInv, NEW c \in Clients, Compare(c)
  PROVE  PlansInv'
<1>. USE DEF serverVars
<1>. DEFINE answer == Listed(manifest[c])
<1>0. answer \in [Notes -> Optional]
  BY ListedTyped DEF Typing
<1>1. /\ UNCHANGED requests
      /\ phase[c] = "compare" /\ phase'[c] = "idle"
      /\ plan'[c] = [plan[c] EXCEPT !.server = answer]
      /\ manifest'[c] = [manifest[c] EXCEPT !.time = ServerTime(c)]
      /\ \A n \in Notes : shown'[c][n] = shown[c][n] \cup ({answer[n]} \ {NoNote})
      /\ \A d \in Clients \ {c} : /\ plan'[d] = plan[d] /\ manifest'[d] = manifest[d] /\ phase'[d] = phase[d]
                                  /\ shown'[d] = shown[d]
  BY DEF Compare, Enter, Typing
<1>2. plan[c].conflicts = {}
  <2>1. plan[c] = NoPlan \/ plan[c] = [NoPlan EXCEPT !.mine = plan[c].mine]
    BY <1>1 DEF PlansInv, BasesInv, PlanOK, PlanOf
  <2>2. [NoPlan EXCEPT !.mine = plan[c].mine].conflicts = {}
    BY DEF NoPlan
  <2>. QED  BY <2>1, <2>2, EmptyPlan
<1>3. plan'[c].server = answer /\ plan'[c].conflicts = {} /\ Listed(manifest'[c]) = answer
  <2>1. plan[c] \in Plan /\ manifest[c] \in Manifest
    BY DEF Typing
  <2>2. manifest'[c].rows = manifest[c].rows /\ manifest'[c].since = manifest[c].since
    BY <1>1, <2>1 DEF Manifest
  <2>. QED  BY <1>1, <1>2, <2>1, <2>2 DEF Plan, Listed
<1>4. \A r \in requests : r \in Write /\ r.note \in Notes /\ (r.awaited => r.from \in Clients \ {c})
  BY <1>1 DEF Typing, PlansInv, OneAwaited, Write
<1>5. OneAwaited'
  BY <1>1, <1>4 DEF PlansInv, OneAwaited
<1>6. OnlyDiffering'
  <2>1. ASSUME NEW d \in Clients PROVE (plan[d].conflicts \subseteq ToPush(d))'
    <3>1. CASE d = c
      BY <3>1, <1>3
    <3>2. CASE d # c
      BY <3>2, <1>1 DEF PlansInv, OnlyDiffering, ToPush, Differing
    <3>. QED  BY <3>1, <3>2
  <2>. QED  BY <2>1 DEF OnlyDiffering
<1>7. ASSUME NEW d \in Clients PROVE PlanOK(d)'
  <2>1. CASE d = c
    BY <2>1, <1>0, <1>1, <1>3 DEF PlanOK, PlanOf, Listed
  <2>2. CASE d # c
    BY <2>2, <1>1, PlanKept DEF PlansInv, BasesInv
  <2>. QED  BY <2>1, <2>2
<1>8. ASSUME NEW r \in requests' PROVE WriteOK(r)'
  <2>1. r.from \in Clients => shown[r.from][r.note] \subseteq shown'[r.from][r.note]
    BY <1>1, <1>4
  <2>. QED  BY <1>1, <1>4, <2>1, WriteKept DEF PlansInv, BasesInv
<1>. QED  BY <1>5, <1>6, <1>7, <1>8 DEF PlansInv, BasesInv

(* A push or an override.                                                   *)
LEMMA SendPlans ==
  ASSUME Typing, PlansInv, NEW c \in Clients, NEW n \in Differing(c), NEW content \in Optional, NEW force \in BOOLEAN,
         Send(c, n, content, force), ~force => n \in ToPush(c)
  PROVE  PlansInv'
<1>. USE DEF history
<1>. DEFINE new == [op |-> "put", from |-> c, note |-> n, content |-> content, base |-> Base(c, n), force |-> force,
                    at |-> 0, admitted |-> FALSE, awaited |-> TRUE]
<1>1. /\ UNCHANGED <<plan, manifest, shown>>
      /\ phase[c] = "idle" /\ phase'[c] = "put"
      /\ requests' = requests \cup {new}
      /\ \A d \in Clients \ {c} : phase'[d] = phase[d]
  BY PlanConstants DEF Send, Post, Enter, Typing
<1>2. \A r \in requests : r \in Write /\ (r.awaited => r.from \in Clients \ {c})
  BY <1>1 DEF Typing, PlansInv, OneAwaited, Write
<1>3. OneAwaited'
  <2>. SUFFICES ASSUME NEW r \in requests', NEW q \in requests', r.awaited
                PROVE  r.from \in Clients /\ phase'[r.from] = "put" /\ (q.awaited /\ q.from = r.from => q = r)
    BY DEF OneAwaited
  <2>1. new.from = c
    OBVIOUS
  <2>2. CASE r \in requests
    BY <2>1, <2>2, <1>1, <1>2 DEF PlansInv, OneAwaited
  <2>3. CASE r = new
    BY <2>1, <2>3, <1>1, <1>2
  <2>. QED  BY <1>1, <2>2, <2>3
<1>4. OnlyDiffering'
  BY <1>1 DEF PlansInv, OnlyDiffering, ToPush, Differing
<1>5. ASSUME NEW d \in Clients PROVE PlanOK(d)'
  BY <1>1, PlanKept DEF PlansInv, BasesInv
<1>6. ASSUME NEW r \in requests' PROVE WriteOK(r)'
  <2>1. CASE r \in requests
    BY <1>1, <1>2, <2>1, WriteKept DEF PlansInv, BasesInv
  <2>2. CASE r = new
    <3>1. plan[c].server[n] \in shown[c][n] \cup {NoNote}
      BY DEF PlansInv, BasesInv, PlanOK, Differing
    <3>2. r.op = "put" /\ r.from = c /\ r.note = n /\ r.base = plan[c].server[n] /\ r.force = force
      BY <2>2 DEF Base
    <3>. QED  BY <1>1, <3>1, <3>2 DEF WriteOK, Differing, ToPush
  <2>. QED  BY <1>1, <2>1, <2>2
<1>. QED  BY <1>3, <1>4, <1>5, <1>6 DEF PlansInv, BasesInv

LEMMA FailPlans ==
  ASSUME Typing, PlansInv, NEW c \in Clients, Fail(c)
  PROVE  PlansInv'
<1>1. /\ UNCHANGED shown
      /\ phase[c] # "idle" /\ phase'[c] = "idle"
      /\ plan'[c] = NoPlan \/ (phase[c] = "put" /\ plan'[c] = plan[c] /\ manifest'[c] = manifest[c])
      /\ \A d \in Clients \ {c} : plan'[d] = plan[d] /\ manifest'[d] = manifest[d] /\ phase'[d] = phase[d]
  BY DEF Fail, Enter, Typing
<1>2. \A r \in requests : r \in Write /\ Asked([r EXCEPT !.awaited = FALSE], r) /\ ~[r EXCEPT !.awaited = FALSE].awaited
  BY GivenUpFields DEF Typing
<1>3. \A r \in requests' : \E q \in requests : \/ q.from = c /\ r = [q EXCEPT !.awaited = FALSE]
                                               \/ q.from # c /\ r = q
  BY DEF Fail
<1>4. OneAwaited'
  <2>1. \A r \in requests' : r.awaited => r \in requests /\ r.from \in Clients \ {c}
    <3>1. \A r \in requests : r.awaited => r.from \in Clients
      BY DEF PlansInv, OneAwaited
    <3>. QED  BY <1>2, <1>3, <3>1
  <2>2. \A r, q \in requests : r.awaited => r.from \in Clients /\ phase[r.from] = "put" /\ (q.awaited /\ q.from = r.from => q = r)
    BY DEF PlansInv, OneAwaited
  <2>. QED  BY <1>1, <2>1, <2>2 DEF OneAwaited
<1>5. OnlyDiffering'
  <2>1. ASSUME NEW d \in Clients PROVE (plan[d].conflicts \subseteq ToPush(d))'
    <3>1. CASE plan'[d] = NoPlan
      BY <3>1, EmptyPlan
    <3>2. CASE plan'[d] = plan[d]
      BY <3>2, <1>1 DEF PlansInv, OnlyDiffering, ToPush, Differing
    <3>. QED  BY <1>1, <3>1, <3>2
  <2>. QED  BY <2>1 DEF OnlyDiffering
<1>6. ASSUME NEW d \in Clients PROVE PlanOK(d)'
  <2>1. CASE plan'[d] = NoPlan
    BY <2>1, EmptyPlan DEF PlanOK, PlanOf, NoNotes
  <2>2. CASE plan'[d] # NoPlan
    BY <2>2, <1>1, PlanKept DEF PlansInv, BasesInv
  <2>. QED  BY <2>1, <2>2
<1>7. ASSUME NEW r \in requests' PROVE WriteOK(r)'
  <2>1. PICK q \in requests : \/ q.from = c /\ r = [q EXCEPT !.awaited = FALSE]
                              \/ q.from # c /\ r = q
    BY <1>3
  <2>2. CASE q.from = c /\ r = [q EXCEPT !.awaited = FALSE]
    BY <2>2, <1>1, <1>2 DEF WriteOK, PlansInv, BasesInv, Asked
  <2>3. CASE q.from # c /\ r = q
    <3>1. r.awaited => r.from \in Clients \ {c}
      BY <2>1, <2>3 DEF PlansInv, OneAwaited
    <3>. QED  BY <2>3, <1>1, <1>2, <3>1, WriteKept DEF PlansInv, BasesInv
  <2>. QED  BY <2>1, <2>2, <2>3
<1>. QED  BY <1>4, <1>5, <1>6, <1>7 DEF PlansInv, BasesInv

LEMMA AttendPlans ==
  ASSUME Typing, PlansInv, ClockInv, NEW r \in requests, Attend(r)
  PROVE  PlansInv'
<1>0. PICK s \in Write : Served(r, s)
  BY AttendSteps
<1>1. /\ UNCHANGED <<plan, manifest, shown, phase>>
      /\ requests' = (requests \ {r}) \cup {s}
  BY <1>0 DEF Served
<1>2. /\ Asked(s, r) /\ s.awaited = r.awaited
      /\ \A q \in requests : q \in Write
  BY <1>0 DEF Served, Typing
<1>3. OneAwaited'
  <2>1. \A p, q \in requests :
          p.awaited => p.from \in Clients /\ phase[p.from] = "put" /\ (q.awaited /\ q.from = p.from => q = p)
    BY DEF PlansInv, OneAwaited
  <2>2. ASSUME NEW p \in requests', NEW q \in requests', p.awaited
        PROVE  p.from \in Clients /\ phase'[p.from] = "put" /\ (q.awaited /\ q.from = p.from => q = p)
    <3>1. CASE p = s
      BY <3>1, <1>1, <1>2, <2>1, <2>2 DEF Asked
    <3>2. CASE p \in requests \ {r}
      <4>1. p.from \in Clients /\ phase'[p.from] = "put"
        BY <3>2, <1>1, <2>1, <2>2
      <4>2. ASSUME q \in requests, q.awaited, q.from = p.from PROVE q = p
        BY <3>2, <2>1, <2>2, <4>2
      <4>3. ASSUME q = s, q.awaited, q.from = p.from PROVE q = p
        <5>1. r.awaited /\ r.from = p.from
          BY <1>2, <4>3 DEF Asked
        <5>2. r = p
          BY <3>2, <2>1, <2>2, <5>1
        <5>. QED  BY <3>2, <5>2
      <4>. QED  BY <1>1, <4>1, <4>2, <4>3
    <3>. QED  BY <1>1, <3>1, <3>2
  <2>. QED  BY <2>2 DEF OneAwaited
<1>4. OnlyDiffering'
  BY <1>1 DEF PlansInv, OnlyDiffering, ToPush, Differing
<1>5. ASSUME NEW d \in Clients PROVE PlanOK(d)'
  BY <1>1, PlanKept DEF PlansInv, BasesInv
<1>6. ASSUME NEW q \in requests' PROVE WriteOK(q)'
  <2>1. CASE q \in requests
    BY <1>1, <1>2, <2>1, WriteKept DEF PlansInv, BasesInv
  <2>2. CASE q = s
    <3>1. WriteOK(r)
      BY DEF PlansInv, BasesInv
    <3>. QED  BY <2>2, <3>1, <1>1, <1>2 DEF WriteOK, Differing, ToPush, Asked
  <2>. QED  BY <1>1, <2>1, <2>2
<1>. QED  BY <1>3, <1>4, <1>5, <1>6 DEF PlansInv, BasesInv

(* The answer to r: nobody awaits it any more, and its client goes on.       *)
LEMMA AnsweredOnce ==
  ASSUME Typing, PlansInv, NEW r \in requests, Answer(r), requests' = requests \ {r}
  PROVE  /\ OneAwaited'
         /\ r \in Write /\ r.note \in Notes /\ (r.awaited => r.from \in Clients)
         /\ \A q \in requests' : q \in Write /\ (r.awaited /\ q.awaited => q.from # r.from)
         /\ r.awaited => phase[r.from] = "put" /\ phase'[r.from] = "idle"
         /\ \A d \in Clients : phase'[d] = phase[d] \/ (d = r.from /\ r.awaited)
<1>1. /\ r \in Write /\ r.note \in Notes /\ (r.awaited => r.from \in Clients)
      /\ \A q \in requests' : q \in Write
  BY DEF Typing, Write, PlansInv, OneAwaited
<1>2. /\ r.awaited => phase[r.from] = "put" /\ phase'[r.from] = "idle"
      /\ \A d \in Clients : phase'[d] = phase[d] \/ (d = r.from /\ r.awaited)
  BY <1>1 DEF Answer, Typing, PlansInv, OneAwaited
<1>3. \A q \in requests' : r.awaited /\ q.awaited => q.from # r.from
  BY DEF PlansInv, OneAwaited
<1>4. OneAwaited'
  BY <1>1, <1>2, <1>3 DEF PlansInv, OneAwaited
<1>. QED  BY <1>1, <1>2, <1>3, <1>4

LEMMA RefusePlans ==
  ASSUME Typing, PlansInv, NEW r \in requests, Refuse(r)
  PROVE  PlansInv'
<1>. USE DEF history
<1>0. /\ Answer(r) /\ requests' = requests \ {r} /\ UNCHANGED <<manifest, shown>>
      /\ plan' = IF r.awaited THEN [plan EXCEPT ![r.from].conflicts = @ \cup {r.note}] ELSE plan
      /\ ~r.force
  BY DEF Refuse, Refused
<1>1. /\ OneAwaited'
      /\ r \in Write /\ r.note \in Notes /\ (r.awaited => r.from \in Clients)
      /\ \A q \in requests' : q \in Write /\ (r.awaited /\ q.awaited => q.from # r.from)
      /\ r.awaited => phase[r.from] = "put" /\ phase'[r.from] = "idle"
      /\ \A d \in Clients : phase'[d] = phase[d] \/ (d = r.from /\ r.awaited)
  BY <1>0, AnsweredOnce
<1>2. \A d \in Clients : /\ plan'[d].mine = plan[d].mine /\ plan'[d].server = plan[d].server
                         /\ plan'[d].conflicts = IF d = r.from /\ r.awaited THEN plan[d].conflicts \cup {r.note}
                                                                          ELSE plan[d].conflicts
                         /\ plan'[d] = plan[d] \/ (d = r.from /\ r.awaited)
  <2>1. plan \in [Clients -> Plan]
    BY DEF Typing
  <2>2. CASE r.awaited
    <3>1. \A d \in Clients : plan'[d] = IF d = r.from THEN [plan[r.from] EXCEPT !.conflicts = @ \cup {r.note}]
                                                      ELSE plan[d]
      BY <1>0, <1>1, <2>1, <2>2
    <3>2. plan'[r.from] = [plan[r.from] EXCEPT !.conflicts = @ \cup {r.note}] /\ plan[r.from] \in Plan
      BY <1>1, <2>1, <2>2, <3>1
    <3>3. /\ plan'[r.from].mine = plan[r.from].mine /\ plan'[r.from].server = plan[r.from].server
          /\ plan'[r.from].conflicts = plan[r.from].conflicts \cup {r.note}
      BY <3>2 DEF Plan
    <3>4. \A d \in Clients : d = r.from \/ plan'[d] = plan[d]
      BY <3>1
    <3>. QED  BY <2>2, <3>3, <3>4
  <2>3. CASE ~r.awaited
    BY <1>0, <2>3
  <2>. QED  BY <2>2, <2>3
<1>3. OnlyDiffering'
  <2>1. ASSUME NEW d \in Clients PROVE (plan[d].conflicts \subseteq ToPush(d))'
    <3>1. ToPush(d)' = ToPush(d)
      BY <1>2 DEF ToPush, Differing
    <3>2. d = r.from /\ r.awaited => r.note \in ToPush(d)
      BY <1>0 DEF PlansInv, BasesInv, WriteOK
    <3>3. plan[d].conflicts \subseteq ToPush(d)
      BY DEF PlansInv, OnlyDiffering
    <3>4. plan'[d].conflicts = IF d = r.from /\ r.awaited THEN plan[d].conflicts \cup {r.note} ELSE plan[d].conflicts
      BY <1>2
    <3>5. plan'[d].conflicts \subseteq ToPush(d)
      BY <3>2, <3>3, <3>4
    <3>. QED  BY <3>1, <3>5
  <2>. QED  BY <2>1 DEF OnlyDiffering
<1>4. ASSUME NEW d \in Clients PROVE PlanOK(d)'
  <2>1. CASE d = r.from /\ r.awaited
    <3>1. r.note \in Differing(d) /\ PlanOK(d)
      BY <2>1 DEF PlansInv, BasesInv, WriteOK
    <3>2. plan[d] # NoPlan
      BY <3>1, EmptyPlan DEF Differing
    <3>3. plan[d].server = Listed(manifest[d])
      BY <3>1, <3>2, <1>1, <2>1 DEF PlanOK, PlanOf
    <3>4. phase'[d] = "idle" /\ manifest' = manifest /\ shown' = shown /\ plan'[d].server = plan[d].server
      BY <1>0, <1>1, <1>2, <2>1
    <3>5. PlanOf(d)'
      BY <3>3, <3>4 DEF PlanOf, Listed
    <3>. QED  BY <3>1, <3>4, <3>5 DEF PlanOK
  <2>2. CASE ~(d = r.from /\ r.awaited)
    BY <2>2, <1>0, <1>1, <1>2, PlanKept DEF PlansInv, BasesInv
  <2>. QED  BY <2>1, <2>2
<1>5. ASSUME NEW q \in requests' PROVE WriteOK(q)'
  BY <1>0, <1>1, <1>2, WriteKept DEF PlansInv, BasesInv
<1>. QED  BY <1>1, <1>3, <1>4, <1>5 DEF PlansInv, BasesInv

LEMMA CommitPlans ==
  ASSUME Typing, PlansInv, NEW r \in requests, Commit(r)
  PROVE  PlansInv'
<1>. USE DEF history
<1>0. Answer(r) /\ requests' = requests \ {r} /\ UNCHANGED <<manifest, shown, plan>>
  BY DEF Commit
<1>1. /\ OneAwaited'
      /\ \A q \in requests' : q \in Write
      /\ r.awaited => phase[r.from] = "put" /\ phase'[r.from] = "idle"
      /\ \A d \in Clients : phase'[d] = phase[d] \/ (d = r.from /\ r.awaited)
  BY <1>0, AnsweredOnce
<1>2. OnlyDiffering'
  BY <1>0 DEF PlansInv, OnlyDiffering, ToPush, Differing
<1>3. ASSUME NEW d \in Clients PROVE PlanOK(d)'
  BY <1>0, <1>1, PlanKept DEF PlansInv, BasesInv
<1>4. ASSUME NEW q \in requests' PROVE WriteOK(q)'
  BY <1>0, <1>1, WriteKept DEF PlansInv, BasesInv
<1>. QED  BY <1>1, <1>2, <1>3, <1>4 DEF PlansInv, BasesInv

LEMMA PlansStep ==
  ASSUME Typing, PlansInv, ClockInv, [PlanNext]_planVars
  PROVE  PlansInv'
<1>. USE DEF serverVars, clientVars, history
<1>0. CASE OtherProgram
  <2>1. ASSUME NEW r \in requests', r \notin requests
        PROVE  ((r.op = "delete" /\ r.content = NoNote) \/ r.op = "batch") /\ ~r.awaited
    <3>1. ASSUME NEW n \in Notes, RequestDelete(n)
          PROVE  r.op = "delete" /\ r.content = NoNote /\ ~r.awaited
      <4>1. r = [op |-> "delete", from |-> Elsewhere, note |-> n, content |-> NoNote, base |-> NoNote, force |-> TRUE,
                 at |-> 0, admitted |-> FALSE, awaited |-> FALSE]
        BY <2>1, <3>1 DEF RequestDelete, Post
      <4>. QED  BY <4>1
    <3>2. ASSUME NEW n \in Notes, NEW content \in Texts, RequestBatch(n, content)
          PROVE  r.op = "batch" /\ ~r.awaited
      <4>1. r = [op |-> "batch", from |-> Elsewhere, note |-> n, content |-> content, base |-> stored[n].content,
                 force |-> FALSE, at |-> 0, admitted |-> FALSE, awaited |-> FALSE]
        BY <2>1, <3>2 DEF RequestBatch, Post
      <4>. QED  BY <4>1
    <3>. QED  BY <1>0, <3>1, <3>2 DEF OtherProgram
  <2>2. \A r \in requests' : r \in requests \/ (WriteOK(r)' /\ ~r.awaited)
    BY <2>1 DEF WriteOK
  <2>. QED  BY <1>0, <2>2, QuietStep DEF OtherProgram, RequestDelete, RequestBatch
<1>1. ASSUME NEW c \in Clients, NEW n \in Notes, accept_server(c, n) \/ \E content \in Optional : Edit(c, n, content)
      PROVE  PlansInv'
  BY <1>1, QuietStep DEF accept_server, Edit
<1>2. ASSUME NEW r \in requests, Lose(r)
      PROVE  PlansInv'
  BY <1>2, QuietStep DEF Lose
<1>3. CASE UNCHANGED planVars
  BY <1>3, QuietStep DEF planVars
<1>4. ASSUME NEW c \in Clients, NEW n \in Notes, push_local(c, n)
      PROVE  PlansInv'
  <2>1. local[c][n] \in Optional /\ n \in Differing(c)
    BY <1>4 DEF Typing, push_local, ToPush
  <2>. QED  BY <1>4, <2>1, SendPlans DEF push_local
<1>5. ASSUME NEW c \in Clients, NEW n \in Notes, force_local(c, n)
      PROVE  PlansInv'
  <2>1. local[c][n] \in Optional
    BY DEF Typing
  <2>. QED  BY <1>5, <2>1, SendPlans DEF force_local
<1>6. ASSUME NEW c \in Clients, NEW n \in Notes, NEW content \in Optional, canonical_override(c, n, content)
      PROVE  PlansInv'
  BY <1>6, SendPlans DEF canonical_override
<1>. QED
  BY <1>0, <1>1, <1>2, <1>3, <1>4, <1>5, <1>6, BeginPlans, ReadPlans, ComparePlans, FailPlans, AttendPlans, RefusePlans,
     CommitPlans, PlanSteps DEF Asks

LEMMA ClockStep ==
  ASSUME Typing, ClockInv, [PlanNext]_planVars
  PROVE  ClockInv'
<1>. USE DEF serverVars, clientVars, history
<1>0. clock \in Nat /\ \A r \in requests : r \in Write /\ r.at \in Nat
  BY PlanConstants DEF Typing, Write
<1>1. ASSUME UNCHANGED <<clock, manifest>>, \A r \in requests' : r \in requests \/ ~r.admitted
      PROVE  ClockInv'
  BY <1>0, <1>1 DEF ClockInv
<1>2. ASSUME Asks
      PROVE  ClockInv'
  <2>1. UNCHANGED <<clock, manifest>> /\ \A r \in requests' : r \in requests \/ ~r.admitted
    BY <1>2, AddedFresh
  <2>. QED  BY <1>1, <2>1
<1>3. ASSUME NEW r \in requests, Lose(r) \/ Refuse(r) \/ Commit(r)
      PROVE  ClockInv'
  BY <1>1, <1>3 DEF Lose, Refuse, Commit
<1>4. CASE UNCHANGED planVars
  BY <1>1, <1>4 DEF planVars
<1>5. ASSUME NEW c \in Clients, NEW whole \in BOOLEAN, BeginPlan(c, whole)
      PROVE  ClockInv'
  <2>1. clock' = clock + 1 /\ UNCHANGED requests
    BY <1>5 DEF BeginPlan, Tick
  <2>2. /\ manifest'[c].time = clock' /\ manifest'[c].since \in {0, manifest[c].time}
        /\ \A d \in Clients \ {c} : manifest'[d] = manifest[d]
    BY <1>5 DEF BeginPlan, Typing
  <2>3. \A d \in Clients : manifest[d].time \in Nat /\ manifest[d].since \in Nat
    BY PlanConstants DEF Typing, Manifest
  <2>. QED  BY <1>0, <2>1, <2>2, <2>3 DEF ClockInv
<1>6. ASSUME NEW c \in Clients, ReadNotes(c) \/ Compare(c) \/ Fail(c)
      PROVE  ClockInv'
  <2>1. \A d \in Clients : manifest[d] \in Manifest
    BY DEF Typing
  <2>2. \A d \in Clients : /\ manifest'[d].since = manifest[d].since
                           /\ manifest'[d].time \in {manifest[d].time, manifest[d].since}
    <3>1. CASE ReadNotes(c)
      <4>1. \A d \in Clients : manifest'[d] = IF d = c THEN [manifest[d] EXCEPT !.rows = stored] ELSE manifest[d]
        BY <3>1 DEF ReadNotes, Typing
      <4>. QED  BY <2>1, <4>1 DEF Manifest
    <3>2. CASE Compare(c)
      <4>1. \A d \in Clients : manifest'[d] = IF d = c THEN [manifest[d] EXCEPT !.time = manifest[d].time] ELSE manifest[d]
        BY <3>2 DEF Compare, ServerTime, Typing
      <4>. QED  BY <2>1, <4>1 DEF Manifest
    <3>3. CASE Fail(c)
      <4>1. \A d \in Clients : \/ manifest'[d] = manifest[d]
                               \/ manifest'[d] = [manifest[d] EXCEPT !.time = manifest[d].since, !.rows = NoRows]
        BY <3>3 DEF Fail, Typing
      <4>. QED  BY <2>1, <4>1 DEF Manifest
    <3>. QED  BY <1>6, <3>1, <3>2, <3>3
  <2>3. \A r \in requests' : \E q \in requests : r.at = q.at /\ r.admitted = q.admitted
    <3>1. CASE ReadNotes(c) \/ Compare(c)
      BY <3>1 DEF ReadNotes, Compare
    <3>2. CASE Fail(c)
      <4>1. \A q \in requests : /\ [q EXCEPT !.awaited = FALSE].at = q.at
                                 /\ [q EXCEPT !.awaited = FALSE].admitted = q.admitted
        BY <1>0, GivenUpFields
      <4>. QED  BY <3>2, <4>1 DEF Fail
    <3>. QED  BY <1>6, <3>1, <3>2
  <2>4. UNCHANGED clock
    BY <1>6 DEF ReadNotes, Compare, Fail
  <2>. QED  BY <2>2, <2>3, <2>4 DEF ClockInv
<1>7. ASSUME NEW r \in requests, Attend(r)
      PROVE  ClockInv'
  <2>1. PICK s \in Write : Served(r, s)
    BY <1>7, AttendSteps
  <2>2. UNCHANGED manifest /\ clock <= clock' /\ clock' \in Nat /\ requests' = (requests \ {r}) \cup {s} /\ s.at > 0
    BY <2>1, PlanConstants DEF Served
  <2>3. \A d \in Clients : manifest[d].time \in Nat /\ manifest[d].since \in Nat
    BY PlanConstants DEF Typing, Manifest
  <2>. QED  BY <1>0, <2>2, <2>3 DEF ClockInv
<1>. QED
  BY <1>2, <1>3, <1>4, <1>5, <1>6, <1>7, PlanSteps

(* No step takes back what a client was shown, that writes overlapped, or      *)
(* that a deletion was stamped by a clock behind.                          *)
LEMMA HistoriesGrow ==
  ASSUME Typing, ClockInv, [PlanNext]_planVars
  PROVE  /\ overlapped \subseteq overlapped' /\ lagging \subseteq lagging'
         /\ \A c \in Clients, n \in Notes : shown[c][n] \subseteq shown'[c][n]
<1>. USE DEF serverVars, clientVars, history
<1>1. ASSUME NEW c \in Clients, Compare(c)
      PROVE  /\ UNCHANGED <<overlapped, lagging>>
             /\ \A d \in Clients, n \in Notes : shown[d][n] \subseteq shown'[d][n]
  BY <1>1 DEF Compare, Typing
<1>2. ASSUME Asks
      PROVE  UNCHANGED <<shown, overlapped, lagging>>
  BY <1>2, AddedFresh
<1>3. ASSUME NEW c \in Clients, (\E whole \in BOOLEAN : BeginPlan(c, whole)) \/ ReadNotes(c) \/ Fail(c)
      PROVE  UNCHANGED <<shown, overlapped, lagging>>
  BY <1>3 DEF BeginPlan, ReadNotes, Fail
<1>4. ASSUME NEW r \in requests, Attend(r)
      PROVE  UNCHANGED shown /\ overlapped \subseteq overlapped' /\ lagging \subseteq lagging'
  BY <1>4, AttendSteps DEF Served
<1>5. ASSUME NEW r \in requests, Refuse(r) \/ Commit(r) \/ Lose(r)
      PROVE  UNCHANGED <<shown, overlapped, lagging>>
  BY <1>5 DEF Refuse, Commit, Lose
<1>6. CASE UNCHANGED planVars
  BY <1>6 DEF planVars
<1>. QED
  BY <1>1, <1>2, <1>3, <1>4, <1>5, <1>6, PlanSteps

(* What is stamped or admitted changes only when the server serves a request,  *)
(* stores its write, or loses it; the rest of a request stays.             *)
SameButAwaited(r, q) == Asked(r, q) /\ r.at = q.at /\ r.admitted = q.admitted

TwoWereTwo ==
  \A r, q \in Admitted' : r # q => \E s, t \in Admitted : s # t /\ s.note = r.note /\ t.note = q.note

Undisturbed ==
  /\ UNCHANGED stored
  /\ \A r \in requests' : (r.at = 0 /\ ~r.admitted) \/ \E q \in requests : SameButAwaited(r, q)
  /\ TwoWereTwo

LEMMA AdmittedStay ==
  ASSUME Typing, [PlanNext]_planVars, \A r \in requests : ~Attend(r) /\ ~Commit(r)
  PROVE  Undisturbed
<1>. USE DEF serverVars, clientVars, history
<1>1. ASSUME UNCHANGED stored, \A r \in requests' : r \in requests \/ (r.at = 0 /\ ~r.admitted)
      PROVE  Undisturbed
  BY <1>1 DEF Undisturbed, Admitted, SameButAwaited, Asked, TwoWereTwo
<1>2. ASSUME Asks
      PROVE  Undisturbed
  BY <1>1, <1>2, AddedFresh
<1>3. ASSUME NEW r \in requests, Lose(r) \/ Refuse(r)
      PROVE  Undisturbed
  BY <1>1, <1>3 DEF Lose, Refuse
<1>4. ASSUME NEW c \in Clients, (\E whole \in BOOLEAN : BeginPlan(c, whole)) \/ ReadNotes(c) \/ Compare(c)
      PROVE  Undisturbed
  BY <1>1, <1>4 DEF BeginPlan, ReadNotes, Compare
<1>5. ASSUME NEW c \in Clients, Fail(c)
      PROVE  Undisturbed
  <2>1. \A q \in requests : SameButAwaited([q EXCEPT !.awaited = FALSE], q)
    BY GivenUpFields DEF Typing, SameButAwaited
  <2>2. \A q \in requests : SameButAwaited(q, q)
    BY DEF SameButAwaited, Asked
  <2>3. \A r \in requests' : \E q \in requests : SameButAwaited(r, q)
    BY <1>5, <2>1, <2>2 DEF Fail
  <2>4. ASSUME NEW r \in Admitted', NEW q \in Admitted', r # q
        PROVE  \E s, t \in Admitted : s # t /\ s.note = r.note /\ t.note = q.note
    <3>1. PICK s \in requests : r = IF s.from = c THEN [s EXCEPT !.awaited = FALSE] ELSE s
      BY <1>5 DEF Fail, Admitted
    <3>2. PICK t \in requests : q = IF t.from = c THEN [t EXCEPT !.awaited = FALSE] ELSE t
      BY <1>5 DEF Fail, Admitted
    <3>3. r.admitted = s.admitted /\ r.note = s.note /\ q.admitted = t.admitted /\ q.note = t.note
      BY <2>1, <3>1, <3>2 DEF SameButAwaited, Asked
    <3>. QED  BY <2>4, <3>1, <3>2, <3>3 DEF Admitted
  <2>. QED  BY <1>5, <2>3, <2>4 DEF Undisturbed, TwoWereTwo, Fail
<1>6. CASE UNCHANGED planVars
  BY <1>1, <1>6 DEF planVars
<1>. QED
  BY <1>2, <1>3, <1>4, <1>5, <1>6, PlanSteps

LEMMA AdmittedStep ==
  ASSUME PlanInv, [PlanNext]_planVars
  PROVE  AdmittedInv'
<1>0. Typing /\ AdmittedInv /\ BasesInv /\ ClockInv
  BY TypingParts DEF PlanInv
<1>1. /\ overlapped \subseteq overlapped'
      /\ \A c \in Clients, n \in Notes : shown[c][n] \subseteq shown'[c][n]
  BY <1>0, HistoriesGrow
<1>2. \A r \in requests : r \in Write /\ (r.op = "put" => r.from \in Clients) /\ r.note \in Notes /\ r.at \in Nat
  BY <1>0, PlanConstants DEF Typing, Write, BasesInv, WriteOK
<1>3. CASE \A r \in requests : ~Attend(r) /\ ~Commit(r)
  <2>1. Undisturbed
    BY <1>0, <1>3, AdmittedStay
  <2>2. ASSUME NEW r \in Admitted', NEW q \in Admitted', r.note = q.note, r # q
        PROVE  r.note \in overlapped'
    BY <1>0, <1>1, <2>1, <2>2 DEF Undisturbed, TwoWereTwo, AdmittedInv
  <2>3. ASSUME NEW r \in Admitted', r.op = "put", ~r.force, r.note \notin overlapped'
        PROVE  stored'[r.note].content \in shown'[r.from][r.note] \cup {NoNote, r.content}
    <3>1. PICK q \in requests : SameButAwaited(r, q)
      BY <2>1 DEF Undisturbed, Admitted
    <3>2. q \in Admitted /\ q.op = "put" /\ q.from \in Clients /\ q.note \in Notes
      BY <1>2, <2>3, <3>1 DEF Admitted, SameButAwaited, Asked
    <3>. QED  BY <1>0, <1>1, <2>1, <2>3, <3>1, <3>2 DEF SameButAwaited, Asked, AdmittedInv, Undisturbed
  <2>. QED  BY <2>2, <2>3 DEF AdmittedInv
<1>4. ASSUME NEW r \in requests, Attend(r)
      PROVE  AdmittedInv'
  <2>0. PICK s \in Write : Served(r, s)
    BY <1>0, <1>4, AttendSteps
  <2>1. /\ UNCHANGED stored /\ requests' = (requests \ {r}) \cup {s} /\ ~r.admitted
        /\ s.admitted => /\ (\E q \in Admitted : q.note = r.note) => r.note \in overlapped'
                         /\ r.op = "put" => ~Refused(r)
    BY <2>0 DEF Served
  <2>2. s.op = r.op /\ s.from = r.from /\ s.note = r.note /\ s.content = r.content /\ s.force = r.force
    BY <2>0 DEF Served, Asked
  <2>3. \A q \in Admitted' : q \in Admitted \/ (q = s /\ s.admitted)
    BY <2>1 DEF Admitted
  <2>4. ASSUME NEW p \in Admitted', NEW q \in Admitted', p.note = q.note, p # q
        PROVE  p.note \in overlapped'
    BY <1>0, <1>1, <2>1, <2>2, <2>3, <2>4 DEF AdmittedInv
  <2>5. ASSUME NEW q \in Admitted', q.op = "put", ~q.force, q.note \notin overlapped'
        PROVE  stored'[q.note].content \in shown'[q.from][q.note] \cup {NoNote, q.content}
    <3>1. CASE q \in Admitted
      <4>1. q.from \in Clients /\ q.note \in Notes
        BY <1>2, <2>5, <3>1 DEF Admitted
      <4>. QED  BY <1>0, <1>1, <2>1, <2>5, <3>1, <4>1 DEF AdmittedInv
    <3>2. CASE q = s /\ s.admitted
      <4>1. r.op = "put" /\ r.from \in Clients /\ r.note \in Notes
        BY <1>2, <2>2, <2>5, <3>2
      <4>2. r.base \in shown[r.from][r.note] \cup {NoNote}
        BY <1>0, <4>1 DEF BasesInv, WriteOK
      <4>3. stored[r.note].content \in {NoNote, r.base, r.content}
        BY <2>1, <2>2, <2>5, <3>2, <4>1 DEF Refused
      <4>. QED  BY <1>1, <2>1, <2>2, <3>2, <4>1, <4>2, <4>3
    <3>. QED  BY <2>3, <3>1, <3>2
  <2>. QED  BY <2>4, <2>5 DEF AdmittedInv
<1>5. ASSUME NEW r \in requests, Commit(r)
      PROVE  AdmittedInv'
  <2>1. /\ requests' = requests \ {r} /\ r \in Admitted
        /\ \A n \in Notes \ {r.note} : stored'[n] = stored[n]
    BY <1>0, <1>5 DEF Commit, Admitted, Typing
  <2>2. \A q \in Admitted' : q \in Admitted \ {r} /\ q.note \in Notes /\ (q.op = "put" => q.from \in Clients)
    BY <1>2, <2>1 DEF Admitted
  <2>3. ASSUME NEW p \in Admitted', NEW q \in Admitted', p.note = q.note, p # q
        PROVE  p.note \in overlapped'
    BY <1>0, <1>1, <2>2, <2>3 DEF AdmittedInv
  <2>4. ASSUME NEW q \in Admitted', q.op = "put", ~q.force, q.note \notin overlapped'
        PROVE  stored'[q.note].content \in shown'[q.from][q.note] \cup {NoNote, q.content}
    <3>1. q.note # r.note
      BY <1>0, <1>1, <2>1, <2>2, <2>4 DEF AdmittedInv
    <3>. QED  BY <1>0, <1>1, <2>1, <2>2, <2>4, <3>1 DEF AdmittedInv
  <2>. QED  BY <2>3, <2>4 DEF AdmittedInv
<1>. QED  BY <1>3, <1>4, <1>5

(* A client that has a manifest, and whose step is not about the manifest.   *)
KeepsManifest(c) ==
  /\ phase[c] # "read"
  /\ manifest'[c].rows = manifest[c].rows /\ manifest'[c].time = manifest[c].time
  /\ doubtful'[c] = doubtful[c]

(* In every step each client reads no rows, has read them, or keeps them.    *)
LEMMA ManifestStep ==
  ASSUME Typing, PlansInv, ClockInv, [PlanNext]_planVars, NEW c \in Clients
  PROVE  phase'[c] = "read" \/ ReadNotes(c) \/ doubtful'[c] = Notes \/ KeepsManifest(c)
<1>. USE DEF serverVars, clientVars, history
<1>0. manifest[c] \in Manifest /\ phase[c] \in {"idle", "read", "compare", "put"}
  BY DEF Typing
<1>1. ASSUME UNCHANGED <<manifest, doubtful>>, phase'[c] = phase[c] \/ phase[c] # "read"
      PROVE  phase'[c] = "read" \/ KeepsManifest(c)
  BY <1>0, <1>1 DEF KeepsManifest
<1>2. ASSUME NEW d \in Clients, Client(d)
      PROVE  phase'[c] = "read" \/ ReadNotes(c) \/ doubtful'[c] = Notes \/ KeepsManifest(c)
  <2>1. CASE \E n \in Notes : \/ push_local(d, n) \/ force_local(d, n) \/ accept_server(d, n)
                              \/ \E content \in Optional : Edit(d, n, content)
                              \/ \E content \in Texts : canonical_override(d, n, content)
    BY <2>1, <1>0, <1>1 DEF push_local, force_local, accept_server, Edit, canonical_override, Send, Enter, Typing
  <2>2. CASE BeginPlan(d, TRUE) \/ BeginPlan(d, FALSE)
    <3>1. CASE c = d
      BY <2>2, <3>1 DEF BeginPlan, Enter, Typing
    <3>2. CASE c # d
      BY <2>2, <3>2, <1>0 DEF BeginPlan, Enter, Typing, KeepsManifest
    <3>. QED  BY <3>1, <3>2
  <2>3. CASE ReadNotes(d)
    BY <2>3, <1>0 DEF ReadNotes, Enter, Typing, KeepsManifest
  <2>4. CASE Compare(d)
    <3>1. manifest'[c] = IF c = d THEN [manifest[c] EXCEPT !.time = manifest[c].time] ELSE manifest[c]
      BY <2>4 DEF Compare, ServerTime, Typing
    <3>2. manifest'[c].rows = manifest[c].rows /\ manifest'[c].time = manifest[c].time
      BY <1>0, <3>1 DEF Manifest
    <3>3. phase[c] # "read" \/ phase'[c] = "read"
      BY <2>4 DEF Compare, Enter, Typing
    <3>. QED  BY <2>4, <3>2, <3>3 DEF Compare, KeepsManifest
  <2>5. CASE Fail(d)
    <3>1. CASE phase[d] = "put"
      BY <2>5, <3>1, <1>0 DEF Fail, Enter, Typing, KeepsManifest
    <3>2. CASE phase[d] # "put" /\ c = d
      BY <2>5, <3>2 DEF Fail, Typing
    <3>3. CASE phase[d] # "put" /\ c # d
      BY <2>5, <3>3, <1>0 DEF Fail, Enter, Typing, KeepsManifest
    <3>. QED  BY <3>1, <3>2, <3>3
  <2>. QED  BY <1>2, <2>1, <2>2, <2>3, <2>4, <2>5 DEF Client
<1>3. ASSUME NEW r \in requests, Attend(r)
      PROVE  phase'[c] = "read" \/ KeepsManifest(c)
  BY <1>1, <1>3, AttendSteps DEF Served
<1>4. ASSUME NEW r \in requests, Refuse(r) \/ Commit(r) \/ Lose(r)
      PROVE  phase'[c] = "read" \/ KeepsManifest(c)
  <2>1. UNCHANGED <<manifest, doubtful>>
    BY <1>4 DEF Refuse, Commit, Lose
  <2>2. r.awaited => phase[r.from] = "put"
    BY DEF PlansInv, OneAwaited
  <2>3. phase'[c] = phase[c] \/ phase[c] # "read"
    BY <1>4, <2>2 DEF Refuse, Commit, Lose, Answer, Typing
  <2>. QED  BY <2>1, <2>3, <1>1
<1>5. ASSUME OtherProgram
      PROVE  phase'[c] = "read" \/ KeepsManifest(c)
  BY <1>1, <1>5 DEF OtherProgram, RequestDelete, RequestBatch
<1>. QED  BY <1>1, <1>2, <1>3, <1>4, <1>5 DEF PlanNext, Handle, Attend, planVars

LEMMA SinceStep ==
  ASSUME PlanInv, [PlanNext]_planVars
  PROVE  SinceInv'
<1>0. Typing /\ PlansInv /\ ClockInv /\ SinceInv
  BY TypingParts DEF PlanInv, PlansInv
<1>1. \A r \in requests : r \in Write /\ r.note \in Notes /\ r.at \in Nat
  BY <1>0, PlanConstants DEF Typing, Write
<1>2. \A c \in Clients : manifest[c] \in Manifest /\ manifest[c].time \in Nat
  BY <1>0, PlanConstants DEF Typing, Manifest
<1>. SUFFICES ASSUME NEW c \in Clients, phase'[c] # "read", NEW n \in Notes \ doubtful'[c]
              PROVE  Since(c, n)'
  BY DEF SinceInv
<1>3. CASE ReadNotes(c)
  <2>1. /\ UNCHANGED <<stored, requests, lagging>>
        /\ manifest'[c] = [manifest[c] EXCEPT !.rows = stored]
        /\ doubtful'[c] = {r.note : r \in {q \in Stamped : q.at <= manifest[c].time}}
    BY <1>0, <1>3 DEF ReadNotes, Typing, serverVars
  <2>2. manifest'[c].rows = stored /\ manifest'[c].time = manifest[c].time
    BY <1>2, <2>1 DEF Manifest
  <2>3. ASSUME NEW r \in Stamped, r.note = n
        PROVE  r.at > manifest[c].time
    BY <1>1, <1>2, <2>1, <2>3 DEF Stamped
  <2>. QED  BY <2>1, <2>2, <2>3 DEF Since, Told, Stamped
<1>4. CASE doubtful'[c] = Notes
  BY <1>4
<1>5. CASE KeepsManifest(c)
  <2>1. Since(c, n)
    BY <1>0, <1>5 DEF SinceInv, KeepsManifest
  <2>2. manifest'[c].rows = manifest[c].rows /\ manifest'[c].time = manifest[c].time /\ lagging \subseteq lagging'
    BY <1>0, <1>5, HistoriesGrow DEF KeepsManifest
  <2>3. \A t, text : Told(c, n, t, text) => (t > manifest'[c].time \/ (text = NoNote /\ n \in lagging'))
    BY <2>2 DEF Told
  <2>4. CASE \A r \in requests : ~Attend(r) /\ ~Commit(r)
    <3>1. Undisturbed
      BY <1>0, <2>4, AdmittedStay
    <3>2. ASSUME NEW r \in Stamped', r.note = n
          PROVE  r.at > manifest'[c].time \/ (r.content = NoNote /\ n \in lagging')
      <4>1. PICK q \in requests : SameButAwaited(r, q)
        BY <1>1, <3>1 DEF Undisturbed, Stamped
      <4>2. q \in Stamped /\ q.note = n /\ q.at = r.at /\ q.content = r.content
        BY <3>2, <4>1 DEF SameButAwaited, Asked, Stamped
      <4>3. Told(c, n, r.at, r.content)
        BY <2>1, <4>2 DEF Since
      <4>. QED  BY <2>3, <4>3
    <3>3. stored' = stored
      BY <3>1 DEF Undisturbed
    <3>. QED  BY <2>1, <2>2, <2>3, <3>2, <3>3 DEF Since, Told
  <2>5. ASSUME NEW r \in requests, Attend(r)
        PROVE  Since(c, n)'
    <3>0. PICK s \in Write : Served(r, s)
      BY <1>0, <2>5, AttendSteps
    <3>1. /\ UNCHANGED stored /\ requests' = (requests \ {r}) \cup {s} /\ s.note = r.note /\ s.content = r.content
          /\ s.at > 0
          /\ \/ s.at = r.at
             \/ s.at = clock' /\ clock < clock'
             \/ r.op = "delete" /\ (s.at <= clock => r.note \in lagging')
      BY <3>0 DEF Served, Asked
    <3>2. clock \in Nat /\ clock' \in Nat /\ s.at \in Nat /\ manifest[c].time <= clock
      BY <1>0, <3>0, PlanConstants DEF ClockInv, Typing, Served, Write
    <3>3. r.op = "delete" => r.content = NoNote
      BY DEF PlanInv, BasesInv, WriteOK
    <3>4. r.note = n => s.at > manifest'[c].time \/ (s.content = NoNote /\ n \in lagging')
      <4>1. CASE s.at = r.at
        BY <2>1, <2>3, <3>1, <4>1 DEF Since, Stamped
      <4>2. CASE s.at = clock' /\ clock < clock'
        BY <1>2, <2>2, <3>2, <4>2
      <4>3. CASE r.op = "delete" /\ (s.at <= clock => r.note \in lagging')
        BY <1>2, <2>2, <3>1, <3>2, <3>3, <4>3
      <4>. QED  BY <3>1, <4>1, <4>2, <4>3
    <3>5. ASSUME NEW q \in Stamped', q.note = n
          PROVE  q.at > manifest'[c].time \/ (q.content = NoNote /\ n \in lagging')
      <4>1. CASE q = s
        BY <3>1, <3>4, <3>5, <4>1
      <4>2. CASE q \in requests
        BY <2>1, <2>3, <3>5, <4>2 DEF Since, Stamped
      <4>. QED  BY <3>1, <4>1, <4>2 DEF Stamped
    <3>. QED  BY <2>1, <2>2, <2>3, <3>1, <3>5 DEF Since, Told
  <2>6. ASSUME NEW r \in requests, Commit(r)
        PROVE  Since(c, n)'
    <3>1. r \in Stamped /\ requests' = requests \ {r}
      BY <1>0, <2>6 DEF Commit, Stamped, ClockInv
    <3>2. \A q \in Stamped' : q.note = n => Told(c, n, q.at, q.content)
      BY <2>1, <3>1 DEF Since, Stamped
    <3>3. stored'[n] # manifest[c].rows[n] => Told(c, n, stored'[n].at, stored'[n].content)
      <4>1. CASE n = r.note
        <5>1. stored'[n].at = r.at /\ stored'[n].content = r.content
          BY <1>0, <2>6, <4>1 DEF Commit, Typing
        <5>2. Told(c, n, r.at, r.content)
          BY <2>1, <3>1, <4>1 DEF Since
        <5>. QED  BY <5>1, <5>2
      <4>2. CASE n # r.note
        <5>1. stored'[n] = stored[n]
          BY <1>0, <2>6, <4>2 DEF Commit, Typing
        <5>. QED  BY <2>1, <5>1 DEF Since
      <4>. QED  BY <4>1, <4>2
    <3>. QED  BY <2>2, <2>3, <3>2, <3>3 DEF Since, Told
  <2>. QED  BY <2>4, <2>5, <2>6
<1>. QED  BY <1>0, <1>3, <1>4, <1>5, ManifestStep

LEMMA PlanInvStep ==
  ASSUME PlanInv, [PlanNext]_planVars
  PROVE  PlanInv'
<1>1. Typing /\ PlansInv /\ ClockInv
  BY TypingParts DEF PlanInv, PlansInv
<1>2. Typing' /\ PlansInv' /\ ClockInv' /\ AdmittedInv' /\ SinceInv'
  BY <1>1, TypingStep, PlansStep, ClockStep, AdmittedStep, SinceStep
<1>3. PlanTypeOK'
  BY <1>2 DEF PlanTypeOK, Typing, PlansInv, OnlyDiffering, Manifest, Plan
<1>. QED  BY <1>2, <1>3 DEF PlanInv, PlansInv

LEMMA PlanInvariant == PlanSpec => []PlanInv
<1>1. PlanInv /\ [PlanNext]_planVars => PlanInv'
  BY PlanInvStep
<1>. QED  BY InitialPlans, <1>1, PTL DEF PlanSpec

(* The variables of PlannedSync have their types, a client awaits one write   *)
(* at most and only items that differ are in conflict.                     *)
THEOREM PlanTypeCorrect == PlanSpec => []PlanTypeOK
<1>1. PlanInv => PlanTypeOK
  BY DEF PlanInv
<1>. QED  BY PlanInvariant, <1>1, PTL

(* A manifest since a server_time leaves out nothing that has changed but     *)
(* writes stamped by that time and stored after the rows were read, and    *)
(* deletions stamped by a database clock that was behind, whatever the two *)
(* clocks do (manifest.go GetManifest, batch.go).                          *)
THEOREM DeltaCompleteHolds == PlanSpec => []DeltaComplete
<1>1. PlanInv => DeltaComplete
  BY DEF PlanInv, SinceInv, Since, Told, DeltaComplete
<1>. QED  BY PlanInvariant, <1>1, PTL

(* Unless writes of the note overlap, a push that is not forced replaces only *)
(* what a manifest has shown its client (engine.py push_local).            *)
THEOREM ReplacesOnlyShownHolds == PlanSpec => ReplacesOnlyShown
<1>1. ASSUME PlanInv, [PlanNext]_planVars, NEW r \in requests \ requests',
             stored' # stored, r.op = "put", r.admitted, ~r.force, r.note \notin overlapped
      PROVE  stored[r.note].content \in shown[r.from][r.note] \cup {NoNote, r.content}
  BY <1>1 DEF PlanInv, AdmittedInv, Admitted
<1>2. PlanInv /\ [PlanNext]_planVars =>
        [\A r \in requests \ requests' :
           (stored' # stored /\ r.op = "put" /\ r.admitted /\ ~r.force /\ r.note \notin overlapped)
             => stored[r.note].content \in shown[r.from][r.note] \cup {NoNote, r.content}]_planVars
  BY <1>1
<1>. QED  BY PlanInvariant, <1>2, PTL DEF PlanSpec, ReplacesOnlyShown

(* An item becomes a conflict when the server refuses the write its client    *)
(* awaits.                                                                 *)
LEMMA NewConflict ==
  ASSUME Typing, PlansInv, ClockInv, [PlanNext]_planVars, NEW c \in Clients, NEW n \in plan'[c].conflicts \ plan[c].conflicts
  PROVE  \E r \in requests : Refuse(r) /\ r.awaited /\ r.from = c /\ r.note = n
<1>. USE DEF serverVars, clientVars, history
<1>0. plan[c] \in Plan
  BY DEF Typing
<1>1. ASSUME NEW d \in Clients, Client(d)
      PROVE  plan'[c].conflicts \subseteq plan[c].conflicts
  <2>1. CASE \E m \in Notes : \/ push_local(d, m) \/ force_local(d, m) \/ accept_server(d, m)
                              \/ \E content \in Optional : Edit(d, m, content)
                              \/ \E content \in Texts : canonical_override(d, m, content)
    BY <2>1 DEF push_local, force_local, accept_server, Edit, canonical_override, Send
  <2>2. CASE BeginPlan(d, TRUE) \/ BeginPlan(d, FALSE)
    <3>1. [NoPlan EXCEPT !.mine = local[d]].conflicts = {}
      BY DEF NoPlan
    <3>. QED  BY <2>2, <3>1 DEF BeginPlan, Typing
  <2>3. CASE ReadNotes(d)
    BY <2>3 DEF ReadNotes
  <2>4. CASE Compare(d)
    <3>1. [plan[c] EXCEPT !.server = Listed(manifest[d])].conflicts = plan[c].conflicts
      BY <1>0 DEF Plan
    <3>. QED  BY <2>4, <3>1 DEF Compare, Typing
  <2>5. CASE Fail(d)
    BY <2>5, EmptyPlan DEF Fail, Typing
  <2>. QED  BY <1>1, <2>1, <2>2, <2>3, <2>4, <2>5 DEF Client
<1>2. ASSUME NEW r \in requests, Attend(r) \/ Commit(r) \/ Lose(r)
      PROVE  plan'[c] = plan[c]
  BY <1>2, AttendSteps DEF Served, Commit, Lose
<1>4. ASSUME OtherProgram
      PROVE  plan'[c] = plan[c]
  BY <1>4 DEF OtherProgram, RequestDelete, RequestBatch
<1>3. ASSUME NEW r \in requests, Refuse(r)
      PROVE  r.awaited /\ r.from = c /\ r.note = n
  <2>1. [plan[c] EXCEPT !.conflicts = @ \cup {r.note}].conflicts = plan[c].conflicts \cup {r.note}
    BY <1>0 DEF Plan
  <2>. QED  BY <1>3, <2>1 DEF Refuse, Typing
<1>. QED  BY <1>1, <1>2, <1>3, <1>4 DEF PlanNext, Handle, Attend, planVars

(* A conflict means that the note was written after the plan's manifest was    *)
(* read, or that the manifest had left it out as unchanged (engine.py      *)
(* push_all_non_conflicting).                                              *)
THEOREM ConflictsAreNewsHolds == PlanSpec => ConflictsAreNews
<1>1. ASSUME PlanInv, [PlanNext]_planVars, NEW c \in Clients, NEW n \in plan'[c].conflicts \ plan[c].conflicts
      PROVE  stored[n] # manifest[c].rows[n] \/ stored[n].at <= manifest[c].since
  <2>0. Typing /\ PlansInv /\ ClockInv
    BY <1>1, TypingParts DEF PlanInv, PlansInv
  <2>1. PICK r \in requests : Refuse(r) /\ r.awaited /\ r.from = c /\ r.note = n
    BY <1>1, <2>0, NewConflict
  <2>2. WriteOK(r) /\ PlanOK(c) /\ phase[c] = "put"
    BY <2>0, <2>1 DEF PlansInv, BasesInv, OneAwaited
  <2>3. plan[c] # NoPlan
    BY <2>1, <2>2, EmptyPlan DEF WriteOK, Differing
  <2>4. plan[c].server = Listed(manifest[c]) /\ n \in Notes
    BY <2>1, <2>2, <2>3 DEF PlanOK, PlanOf, WriteOK, Differing
  <2>5. r.base = Listed(manifest[c])[n] /\ stored[n].content # r.base
    BY <2>1, <2>2, <2>4 DEF WriteOK, Refuse, Refused
  <2>6. CASE manifest[c].rows[n].at > manifest[c].since
    BY <2>4, <2>5, <2>6 DEF Listed
  <2>7. CASE ~(manifest[c].rows[n].at > manifest[c].since)
    <3>1. manifest[c] \in Manifest /\ stored[n] \in Row
      BY <2>0, <2>4 DEF Typing
    <3>2. manifest[c].since \in Nat /\ manifest[c].rows[n].at \in Nat
      BY <2>4, <3>1, PlanConstants DEF Manifest, Row
    <3>. QED  BY <2>7, <3>2
  <2>. QED  BY <2>6, <2>7
<1>2. PlanInv /\ [PlanNext]_planVars =>
        [\A c \in Clients : \A n \in plan'[c].conflicts \ plan[c].conflicts :
           \/ stored[n] # manifest[c].rows[n]
           \/ stored[n].at <= manifest[c].since]_planVars
  BY <1>1
<1>. QED  BY PlanInvariant, <1>2, PTL DEF PlanSpec, ConflictsAreNews
=============================================================================
