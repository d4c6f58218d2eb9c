------------------------------ MODULE FileStore ------------------------------
(***************************************************************************)
(* What the media store promises of its rows and objects, which no         *)
(* transaction spans: an upload or a deletion changes what is served of    *)
(* its file at one moment between the request and its answer, or, if it    *)
(* fails, perhaps never; nothing else changes it, and what is served is    *)
(* what some request brought, whole.                                       *)
(*                                                                         *)
(* The promise is about files that only one request changes at a time      *)
(* (not mixed): the server has no lock for them.                           *)
(***************************************************************************)
EXTENDS Naturals

CONSTANTS Files, Large, Contents, Data, NoFile, Slots, NoRequest

VARIABLES
  served,     \* what a download of each file gets
  req,        \* the change each slot was asked for, or NoRequest
  pending,    \* the slots whose change has not taken effect
  mixed,      \* the files two requests were changing at once
  failures    \* number of failures so far

vars == <<served, req, pending, mixed, failures>>

Init ==
  /\ served = [f \in Files |-> NoFile]
  /\ req = [s \in Slots |-> NoRequest]
  /\ pending = {}
  /\ mixed = {}
  /\ failures = 0

(* Of mixed files anything may be served, and their requests be done or not. *)
ServedBecomes(files) == \A f \in Files \ mixed' : served'[f] = files[f]

PendingBecomes(S) ==
  LET certain == {s \in Slots : req'[s] # NoRequest /\ req'[s].file \notin mixed'}
  IN  pending' \cap certain = S \cap certain

Asked(s) == req[s] # NoRequest

Undone(s) == Asked(s) /\ (s \in pending \/ req[s].file \in mixed)

Leaves(s) == req' = [req EXCEPT ![s] = NoRequest] /\ ServedBecomes(served) /\ PendingBecomes(pending)

-----------------------------------------------------------------------------
(* An upload brings a content, a deletion NoFile.                           *)
Ask(s, f, data) ==
  /\ ~Asked(s)
  /\ req' = [req EXCEPT ![s] = [file |-> f, data |-> data]]
  /\ mixed' = mixed \cup {g \in {f} : \E t \in Slots : Asked(t) /\ req[t].file = f}
  /\ f \in mixed' \/ data \in Contents \cup {NoFile}
  /\ ServedBecomes(served)
  /\ PendingBecomes(pending \cup {s})

TakeEffect(s) ==
  /\ Undone(s)
  /\ ServedBecomes([served EXCEPT ![req[s].file] = req[s].data])
  /\ PendingBecomes(pending \ {s})
  /\ UNCHANGED <<req, mixed>>

Done(s) == Asked(s) /\ (s \notin pending \/ req[s].file \in mixed)

(* Whoever is told of a success finds the change made.                      *)
Answer(s) ==
  /\ Done(s)
  /\ Leaves(s)
  /\ UNCHANGED mixed

Refuse(s) ==
  /\ Undone(s)
  /\ req[s].file \in Large
  /\ Leaves(s)
  /\ UNCHANGED mixed

Fail(s) ==
  /\ Undone(s)
  /\ failures' > failures
  /\ Leaves(s)
  /\ UNCHANGED mixed

(* Nobody waits for it any more; it goes on.                                *)
GoOnAlone(s, late) ==
  /\ Asked(s) /\ ~Asked(late)
  /\ req' = [req EXCEPT ![s] = NoRequest, ![late] = req[s]]
  /\ ServedBecomes(served)
  /\ PendingBecomes({IF t = s THEN late ELSE t : t \in pending})
  /\ UNCHANGED mixed

(* A mixed file changes, or something fails that is no request.              *)
Drift == UNCHANGED <<mixed, req>> /\ ServedBecomes(served) /\ PendingBecomes(pending)

Next ==
  \/ Drift
  \/ \E s \in Slots :
       \/ TakeEffect(s) \/ Answer(s) \/ Refuse(s) \/ Fail(s)
       \/ \E f \in Files, data \in Data : Ask(s, f, data)
       \/ \E late \in Slots : GoOnAlone(s, late)

Spec == Init /\ [][Next]_vars
=============================================================================
