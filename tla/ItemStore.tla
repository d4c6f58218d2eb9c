------------------------------ MODULE ItemStore ------------------------------
(***************************************************************************)
(* What the content store promises its clients, who know nothing of its    *)
(* statements: each item of a push, in order, and each deletion, single or *)
(* batch, takes effect at one moment between the request and its answer, a *)
(* row and its tombstone together.                                         *)
(*                                                                         *)
(* The promise has two gaps.  Pushes of one key that overlap do not see    *)
(* what they replace (contended).  A push and a delete of one key that     *)
(* overlap, or one that is cut off halfway, may leave the row and the      *)
(* tombstone apart (torn).                                                 *)
(***************************************************************************)
EXTENDS Integers, Sequences, FiniteSets

CONSTANTS Keys, Absent, Workers, Requests, NoRequest, DeleteLimit, Failures

VARIABLES
  row,        \* the content of each key, or Absent
  stones,     \* the keys with a tombstone
  req,        \* the request of each worker, or NoRequest
  next,       \* the item of its push that is next; 2 if its delete is done
  contended,
  torn

vars == <<row, stones, req, next, contended, torn>>

Init ==
  /\ row = [k \in Keys |-> Absent]
  /\ stones = {}
  /\ req = [w \in Workers |-> NoRequest]
  /\ next = [w \in Workers |-> 1]
  /\ contended = {}
  /\ torn = {}

IsPush(r) == r.op \in {"put", "batchPush"}

(* The tombstones become S, but for torn keys.                              *)
StonesBecome(S) == \A k \in Keys \ torn' : k \in stones' <=> k \in S

Answer(w) ==
  /\ req' = [req EXCEPT ![w] = NoRequest]
  /\ next' = [next EXCEPT ![w] = 1]

GoOn(w) == next' = [next EXCEPT ![w] = @ + 1] /\ req' = req

-----------------------------------------------------------------------------
Receive(w, r) ==
  LET Others(k) == {o \in Workers \ {w} : k \in req[o].keys}
  IN  /\ req[w] = NoRequest
      /\ req' = [req EXCEPT ![w] = r]
      /\ next' = [next EXCEPT ![w] = 1]
      /\ contended' = contended \cup {k \in r.keys : IsPush(r) /\ \E o \in Others(k) : IsPush(req[o])}
      /\ torn' = torn \cup {k \in r.keys : \E o \in Others(k) : IsPush(r) <=> ~IsPush(req[o])}
      /\ row' = row
      /\ StonesBecome(stones)

item(w) == req[w].items[next[w]]

HasItem(w) == IsPush(req[w]) /\ next[w] \in DOMAIN req[w].items

(* What a push that is not forced may replace.                              *)
Fits(w) == req[w].force \/ row[item(w).key] \in {Absent, item(w).base, item(w).new}

Put(w) ==
  /\ HasItem(w)
  /\ Fits(w) \/ item(w).key \in contended
  /\ row' = [row EXCEPT ![item(w).key] = item(w).new]
  /\ StonesBecome(stones \ {item(w).key})
  /\ GoOn(w)
  /\ UNCHANGED <<contended, torn>>

(* A conflict; after the last item the answer.                              *)
Refuse(w) ==
  /\ HasItem(w) /\ ~Fits(w)
  /\ IF next[w] < Len(req[w].items) THEN GoOn(w) ELSE Answer(w)
  /\ StonesBecome(stones)
  /\ UNCHANGED <<row, contended, torn>>

ToDelete(w) == req[w].op \in {"delete", "batchDelete"} /\ next[w] = 1

(* All keys at once; a torn one may stay.                                   *)
Delete(w) ==
  /\ ToDelete(w)
  /\ \E K \in SUBSET req[w].keys : req[w].keys \ torn \subseteq K
                                   /\ row' = [k \in Keys |-> IF k \in K THEN Absent ELSE row[k]]
  /\ StonesBecome(stones \cup req[w].keys)
  /\ GoOn(w) \/ Answer(w)
  /\ UNCHANGED <<contended, torn>>

(* A deletion of too many keys, or a batch that another one gets in the way   *)
(* of, is refused as a whole.                                              *)
RefuseDelete(w) ==
  /\ ToDelete(w)
  /\ \/ Cardinality(req[w].keys) \notin 1..DeleteLimit
     \/ \E o \in Workers \ {w} : /\ req[o].op = "batchDelete" /\ req[w].op = "batchDelete"
                                 /\ req[o].keys \cap req[w].keys # {}
  /\ Answer(w)
  /\ StonesBecome(stones)
  /\ UNCHANGED <<row, contended, torn>>

Done(w) == req[w] # NoRequest /\ ~HasItem(w) /\ ~ToDelete(w)

Finish(w) ==
  /\ Done(w)
  /\ Answer(w)
  /\ StonesBecome(stones)
  /\ UNCHANGED <<row, contended, torn>>

(* What took effect last.                                                   *)
Latest(w) ==
  IF IsPush(req[w]) THEN {req[w].items[i].key : i \in {i \in DOMAIN req[w].items : i = next[w] - 1}}
  ELSE IF next[w] = 2 THEN req[w].keys ELSE {}

(* Half of it is lost, or the request is cut off, or both.                   *)
Fail(w) ==
  /\ Failures /\ req[w] # NoRequest
  /\ torn' \in {torn, torn \cup Latest(w)}
  /\ Answer(w) \/ UNCHANGED <<req, next>>
  /\ StonesBecome(stones)
  /\ UNCHANGED <<row, contended>>

(* A tombstone of a torn key comes or goes.                                 *)
Drift == StonesBecome(stones) /\ UNCHANGED <<row, req, next, contended, torn>>

Next ==
  \/ \E w \in Workers :
       \/ \E r \in Requests : Receive(w, r)
       \/ Put(w) \/ Refuse(w) \/ Delete(w) \/ RefuseDelete(w) \/ Finish(w) \/ Fail(w)
  \/ Drift

Spec == Init /\ [][Next]_vars
=============================================================================
