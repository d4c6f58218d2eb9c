----------------------------- MODULE ContentSync -----------------------------
(***************************************************************************)
(* The client's content pass (content_sync.py) for notes: the snapshot of  *)
(* the last finished pass, the server's tombstones, the deletions deduced  *)
(* from the snapshot, and the pulls and pushes planned by checksum         *)
(* (note_sync.py, conflict_policy.py), against the server's rows and       *)
(* tombstones.                                                             *)
(*                                                                         *)
(* Every item of a request is atomic here; ContentStore has the overlaps.  *)
(* A pass may stop anywhere: a request fails, another phase (decks, cards, *)
(* reviews, media) raises, or the program ends.  A request its client has  *)
(* given up on may still execute.  Nothing is edited during a pass.        *)
(*                                                                         *)
(* Abstracted: a note is the number of the edit that wrote it, which is    *)
(* also its checksum, so that a content never returns; texts that differ   *)
(* only in bytes are one content.  timeOf gives the client_modified_at of  *)
(* an edit; clocks are within the five minutes the server allows.          *)
(* One batch holds all the items, and the pass is over the whole           *)
(* collection: routing to decks is a snapshot lost at a change of route.   *)
(***************************************************************************)
EXTENDS Naturals, FiniteSets

CONSTANTS
  Notes,         \* note guids
  Clients,
  Synced,        \* the notes every side already has
  NewestWins,    \* the newest_wins option: else a difference is a conflict
  MaxUnapproved, \* deletions pushed without approval (10 in the code)
  MaxEdits,      \* bound on the users' edits and deletions
  MaxTime,       \* bound on modification times
  MaxFailures    \* bound on the failures of a behaviour

ASSUME ContentConstants ==
  /\ Synced \subseteq Notes
  /\ NewestWins \in BOOLEAN
  /\ MaxUnapproved \in Nat
  /\ MaxEdits \in Nat \ {0}
  /\ MaxTime \in Nat \ {0}
  /\ MaxFailures \in Nat

Edits == 1..MaxEdits
Absent == 0     \* no note
Version == Edits \cup {Absent}

VARIABLES
  timeOf,       \* the modification time each edit gets, fixed from the start
  row,          \* the server's notes
  stones,       \* the server's tombstones
  local,        \* per client, the notes of its collection
  snapshot,     \* per client, the guids recorded by the last finished pass
  conflicted,   \* per client, the notes the last pass reported as conflicts
  pc,           \* where the client is in sync_content_once
  seen,         \* the notes of the manifest it goes by
  gone,         \* the tombstones of that manifest
  plan,         \* the notes to delete, pull, push, look up; and the conflicts
  latePushes,   \* items of push requests whose client is gone
  lateDeletes,  \* delete requests whose client is gone
  born,         \* notes created so far
  edits,        \* number of edits and deletions by users so far
  failures,     \* number of failures so far
  userDeleted,  \* history: per client, the notes its user deleted
  forced        \* history: notes a user resolved by hand

serverVars == <<row, stones>>
lateVars == <<latePushes, lateDeletes>>
passVars == <<pc, seen, gone, plan>>
userVars == <<timeOf, born, edits, userDeleted, forced>>
vars == <<serverVars, lateVars, local, snapshot, conflicted, passVars, userVars, failures>>

NoNotes == [n \in Notes |-> Absent]
Present(notes) == {n \in Notes : notes[n] # Absent}
NoPlan == [delete |-> {}, pull |-> {}, push |-> {}, lookup |-> {}, conflict |-> {}]
Known == [n \in Notes |-> IF n \in Synced THEN 1 ELSE Absent]

Init ==
  /\ timeOf \in [Edits -> 1..MaxTime]
  /\ row = Known
  /\ stones = {}
  /\ local = [c \in Clients |-> Known]
  /\ snapshot = [c \in Clients |-> Synced]
  /\ conflicted = [c \in Clients |-> {}]
  /\ pc = [c \in Clients |-> "idle"]
  /\ seen = [c \in Clients |-> NoNotes]
  /\ gone = [c \in Clients |-> {}]
  /\ plan = [c \in Clients |-> NoPlan]
  /\ latePushes = {}
  /\ lateDeletes = {}
  /\ born = Synced
  /\ edits = 1
  /\ failures = 0
  /\ userDeleted = [c \in Clients |-> {}]
  /\ forced = {}

-----------------------------------------------------------------------------
(* What the user does between passes.                                       *)

Write(c, n) ==
  /\ edits < MaxEdits
  /\ edits' = edits + 1
  /\ local' = [local EXCEPT ![c][n] = edits + 1]
  /\ UNCHANGED timeOf

Create(c, n) ==
  /\ pc[c] = "idle"
  /\ n \notin born
  /\ Write(c, n)
  /\ born' = born \cup {n}
  /\ UNCHANGED <<serverVars, lateVars, snapshot, conflicted, passVars, userDeleted, forced, failures>>

Edit(c, n) ==
  /\ pc[c] = "idle"
  /\ local[c][n] # Absent
  /\ Write(c, n)
  /\ UNCHANGED <<serverVars, lateVars, snapshot, conflicted, passVars, born, userDeleted, forced, failures>>

Delete(c, n) ==
  /\ pc[c] = "idle"
  /\ local[c][n] # Absent
  /\ edits < MaxEdits
  /\ edits' = edits + 1
  /\ local' = [local EXCEPT ![c][n] = Absent]
  /\ userDeleted' = [userDeleted EXCEPT ![c] = @ \cup {n}]
  /\ UNCHANGED <<serverVars, lateVars, snapshot, conflicted, passVars, timeOf, born, forced, failures>>

-----------------------------------------------------------------------------
(* What the server does with a request.                                     *)

StoreNotes(versions) ==
  /\ row' = [n \in Notes |-> IF versions[n] # Absent THEN versions[n] ELSE row[n]]
  /\ stones' = stones \ Present(versions)

(* Mutant: what the client saw is not compared.                             *)
NoBaseCheck(n, version, base) == TRUE

(* The row is still the client's base, or already what it pushes.           *)
Accepts(n, version, base) ==
  \/ row[n] = Absent
  \/ row[n] = base
  \/ row[n] = version

DeleteNotes(notes) ==
  /\ row' = [n \in Notes |-> IF n \in notes THEN Absent ELSE row[n]]
  /\ stones' = stones \cup notes

-----------------------------------------------------------------------------
(* Conflicts of the last pass, resolved by the user.                        *)

force_local_note(c, n) ==
  /\ pc[c] = "idle"
  /\ n \in conflicted[c]
  /\ local[c][n] # Absent
  /\ StoreNotes([NoNotes EXCEPT ![n] = local[c][n]])
  /\ conflicted' = [conflicted EXCEPT ![c] = @ \ {n}]
  /\ forced' = forced \cup {n}
  /\ UNCHANGED <<lateVars, local, snapshot, passVars, timeOf, born, edits, userDeleted, failures>>

accept_server_note(c, n) ==
  /\ pc[c] = "idle"
  /\ n \in conflicted[c]
  /\ row[n] # Absent
  /\ local' = [local EXCEPT ![c][n] = row[n]]
  /\ conflicted' = [conflicted EXCEPT ![c] = @ \ {n}]
  /\ forced' = forced \cup {n}
  /\ UNCHANGED <<serverVars, lateVars, snapshot, passVars, timeOf, born, edits, userDeleted, failures>>

-----------------------------------------------------------------------------
(* The pass.                                                                *)

Goto(c, step) == pc' = [pc EXCEPT ![c] = step]

EndPass(c) ==
  /\ Goto(c, "idle")
  /\ seen' = [seen EXCEPT ![c] = NoNotes]
  /\ gone' = [gone EXCEPT ![c] = {}]
  /\ plan' = [plan EXCEPT ![c] = NoPlan]

(* The manifest's notes and its tombstones are read one after the other.    *)
ReadNotes(c) ==
  /\ pc[c] = "idle"
  /\ seen' = [seen EXCEPT ![c] = row]
  /\ conflicted' = [conflicted EXCEPT ![c] = {}]
  /\ Goto(c, "stones")
  /\ UNCHANGED <<serverVars, lateVars, local, snapshot, gone, plan, userVars, failures>>

ReadTombstones(c) ==
  /\ pc[c] = "stones"
  /\ gone' = [gone EXCEPT ![c] = stones]
  /\ Goto(c, "apply")
  /\ UNCHANGED <<serverVars, lateVars, local, snapshot, conflicted, seen, plan, userVars, failures>>

(* The tombstones of notes this client had at its last finished pass.       *)
TombstonesForSnapshot(c) == gone[c] \cap snapshot[c]

(* Notes of the snapshot that are missing here, that no tombstone has just   *)
(* removed, and that the server still has.                                 *)
compute_local_deletes(c) == (snapshot[c] \ Present(local[c])) \cap Present(seen[c])

apply_tombstones(c) ==
  /\ pc[c] = "apply"
  /\ local' = [local EXCEPT ![c] = [n \in Notes |-> IF n \in TombstonesForSnapshot(c) THEN Absent ELSE @[n]]]
  /\ LET deletes == compute_local_deletes(c)
     IN  \/ /\ deletes = {}
            /\ Goto(c, "plan")
            /\ UNCHANGED <<seen, gone, plan>>
         \/ /\ deletes # {}
            /\ plan' = [plan EXCEPT ![c].delete = deletes]
            /\ Goto(c, "delete")
            /\ UNCHANGED <<seen, gone>>
  /\ UNCHANGED <<serverVars, lateVars, snapshot, conflicted, userVars, failures>>

(* Many deletions stop the pass, unless the user approves them.             *)
DeletionSafetyError(c) ==
  /\ pc[c] = "delete"
  /\ Cardinality(plan[c].delete) > MaxUnapproved
  /\ failures < MaxFailures
  /\ failures' = failures + 1
  /\ EndPass(c)
  /\ UNCHANGED <<serverVars, lateVars, local, snapshot, conflicted, userVars>>

PushLocalDeletes(c) ==
  /\ pc[c] = "delete"
  /\ DeleteNotes(plan[c].delete)
  /\ plan' = [plan EXCEPT ![c].delete = {}]
  /\ Goto(c, "refresh")
  /\ UNCHANGED <<lateVars, local, snapshot, conflicted, seen, gone, userVars, failures>>

(* After a deletion the manifest is fetched again; the tombstones of the     *)
(* second one are not applied.                                             *)
Refresh(c) ==
  /\ pc[c] = "refresh"
  /\ seen' = [seen EXCEPT ![c] = row]
  /\ Goto(c, "plan")
  /\ UNCHANGED <<serverVars, lateVars, local, snapshot, conflicted, gone, plan, userVars, failures>>

newest_side(mine, theirs) ==
  CASE ~NewestWins -> "none"
    [] timeOf[mine] > timeOf[theirs] -> "local"
    [] timeOf[mine] < timeOf[theirs] -> "server"
    [] OTHER -> "none"

Differing(c) == {n \in Present(local[c]) \cap Present(seen[c]) : local[c][n] # seen[c][n]}
Winner(c, side) == {n \in Differing(c) : newest_side(local[c][n], seen[c][n]) = side}

(* Mutant: only notes this collection lacks are pulled.                     *)
OnlyMissing(c) == Present(seen[c]) \ Present(local[c])

(* Mutant: what the server has is pushed back to it.                        *)
PushAll(c) == Present(local[c]) \cup Present(seen[c])

NotesToPull(c) == (Present(seen[c]) \ Present(local[c])) \cup Winner(c, "server")
NotesToPush(c) == (Present(local[c]) \ Present(seen[c])) \cup Winner(c, "local")

PlanNotes(c) ==
  /\ pc[c] = "plan"
  /\ plan' = [plan EXCEPT ![c] = [NoPlan EXCEPT !.pull = NotesToPull(c), !.push = NotesToPush(c), !.lookup = Winner(c, "none")]]
  /\ Goto(c, IF Winner(c, "none") = {} THEN "pull" ELSE "lookup")
  /\ UNCHANGED <<serverVars, lateVars, local, snapshot, conflicted, seen, gone, userVars, failures>>

(* Differences no time decides are looked up: if the server has the local    *)
(* content by now it is pushed again, otherwise it is a conflict.          *)
LookUp(c) ==
  /\ pc[c] = "lookup"
  /\ LET same == {n \in plan[c].lookup : row[n] = local[c][n]}
     IN  plan' = [plan EXCEPT ![c].push = @ \cup same, ![c].conflict = plan[c].lookup \ same, ![c].lookup = {}]
  /\ Goto(c, "pull")
  /\ UNCHANGED <<serverVars, lateVars, local, snapshot, conflicted, seen, gone, userVars, failures>>

(* batch_pull, and apply_note for each note it returns.  An exception skips   *)
(* a note this collection lacks (its notetype is missing).                 *)
PullNotes(c) ==
  /\ pc[c] = "pull"
  /\ \E skipped \in SUBSET (plan[c].pull \ Present(local[c])) :
       /\ failures' = IF skipped = {} THEN failures ELSE failures + 1
       /\ failures' <= MaxFailures
       /\ local' = [local EXCEPT ![c] =
            [n \in Notes |-> IF n \in plan[c].pull \ skipped /\ row[n] # Absent THEN row[n] ELSE @[n]]]
  /\ Goto(c, "push")
  /\ UNCHANGED <<serverVars, lateVars, snapshot, conflicted, seen, gone, plan, userVars>>

Refused(c) == {n \in plan[c].push : ~Accepts(n, local[c][n], seen[c][n])}

(* batch_push with the manifest's checksums as bases; conflicts, the planned *)
(* ones included, end the pass with an exception.                          *)
PushNotes(c) ==
  /\ pc[c] = "push"
  /\ StoreNotes([n \in Notes |-> IF n \in plan[c].push \ Refused(c) THEN local[c][n] ELSE Absent])
  /\ LET conflicts == plan[c].conflict \cup Refused(c)
     IN  IF conflicts = {}
         THEN Goto(c, "rest") /\ UNCHANGED <<seen, gone, plan, conflicted>>
         ELSE EndPass(c) /\ conflicted' = [conflicted EXCEPT ![c] = conflicts]
  /\ UNCHANGED <<lateVars, local, snapshot, userVars, failures>>

(* Mutant: the snapshot also records what the server has.                   *)
ServerKeysToo(c) == Present(local[c]) \cup Present(seen[c])

(* The collection after the pass, not before the pulls.                     *)
FinalKeys(c) == Present(local[c])

(* Cards, reviews and media are done: the snapshot is saved.                *)
save_state(c) ==
  /\ pc[c] = "rest"
  /\ snapshot' = [snapshot EXCEPT ![c] = FinalKeys(c)]
  /\ EndPass(c)
  /\ UNCHANGED <<serverVars, lateVars, local, conflicted, userVars, failures>>

-----------------------------------------------------------------------------
(* Failures.                                                                *)

(* The pass stops: nothing is undone, and no snapshot is saved.  A request   *)
(* that was sent may still execute.                                        *)
Fail(c) ==
  /\ failures < MaxFailures
  /\ failures' = failures + 1
  /\ pc[c] # "idle"
  /\ lateDeletes' = IF pc[c] = "delete" THEN lateDeletes \cup {plan[c].delete} ELSE lateDeletes
  /\ latePushes' = IF pc[c] = "push"
                   THEN latePushes \cup {<<n, local[c][n], seen[c][n]>> : n \in plan[c].push}
                   ELSE latePushes
  /\ EndPass(c)
  /\ UNCHANGED <<serverVars, local, snapshot, conflicted, userVars>>

(* The snapshot is unusable: the file was cut short, or the route changed.  *)
LoseSnapshot(c) ==
  /\ failures < MaxFailures
  /\ failures' = failures + 1
  /\ pc[c] = "idle"
  /\ snapshot' = [snapshot EXCEPT ![c] = {}]
  /\ UNCHANGED <<serverVars, lateVars, local, conflicted, passVars, userVars>>

(* A request whose client is gone executes, or never does.                  *)
LatePush(push) ==
  /\ latePushes' = latePushes \ {push}
  /\ IF Accepts(push[1], push[2], push[3])
     THEN StoreNotes([NoNotes EXCEPT ![push[1]] = push[2]])
     ELSE UNCHANGED serverVars
  /\ UNCHANGED <<lateDeletes, local, snapshot, conflicted, passVars, userVars, failures>>

LateDelete(notes) ==
  /\ lateDeletes' = lateDeletes \ {notes}
  /\ DeleteNotes(notes)
  /\ UNCHANGED <<latePushes, local, snapshot, conflicted, passVars, userVars, failures>>

Lose ==
  /\ \/ \E push \in latePushes : latePushes' = latePushes \ {push} /\ UNCHANGED lateDeletes
     \/ \E notes \in lateDeletes : lateDeletes' = lateDeletes \ {notes} /\ UNCHANGED latePushes
  /\ UNCHANGED <<serverVars, local, snapshot, conflicted, passVars, userVars, failures>>

-----------------------------------------------------------------------------
User(c) ==
  \E n \in Notes :
    Create(c, n) \/ Edit(c, n) \/ Delete(c, n) \/ force_local_note(c, n) \/ accept_server_note(c, n)

Pass(c) ==
  \/ ReadNotes(c) \/ ReadTombstones(c) \/ apply_tombstones(c)
  \/ PushLocalDeletes(c) \/ Refresh(c)
  \/ PlanNotes(c) \/ LookUp(c) \/ PullNotes(c) \/ PushNotes(c) \/ save_state(c)

Next ==
  \/ \E c \in Clients : User(c) \/ Pass(c) \/ DeletionSafetyError(c) \/ Fail(c) \/ LoseSnapshot(c)
  \/ \E push \in latePushes : LatePush(push)
  \/ \E notes \in lateDeletes : LateDelete(notes)
  \/ Lose

Spec == Init /\ [][Next]_vars

(* Every client keeps syncing, and a started pass proceeds.  Users need not  *)
(* do anything, and late requests need not execute.                        *)
Fairness == \A c \in Clients : WF_vars(Pass(c))

FairSpec == Spec /\ Fairness

-----------------------------------------------------------------------------
Plans == [delete : SUBSET Notes, pull : SUBSET Notes, push : SUBSET Notes, lookup : SUBSET Notes, conflict : SUBSET Notes]

(* The variables have their types; a client has no plan before it needs one, *)
(* and a note to push is in its collection.                                *)
TypeOK ==
  /\ row \in [Notes -> Version]
  /\ stones \subseteq Notes
  /\ local \in [Clients -> [Notes -> Version]]
  /\ snapshot \in [Clients -> SUBSET Notes]
  /\ conflicted \in [Clients -> SUBSET Notes]
  /\ pc \in [Clients -> {"idle", "stones", "apply", "delete", "refresh", "plan", "lookup", "pull", "push", "rest"}]
  /\ seen \in [Clients -> [Notes -> Version]]
  /\ gone \in [Clients -> SUBSET Notes]
  /\ plan \in [Clients -> Plans]
  /\ latePushes \subseteq Notes \X Edits \X Version
  /\ lateDeletes \subseteq SUBSET Notes
  /\ born \subseteq Notes
  /\ timeOf \in [Edits -> 1..MaxTime]
  /\ edits \in Edits
  /\ failures \in 0..MaxFailures
  /\ userDeleted \in [Clients -> SUBSET Notes]
  /\ forced \subseteq Notes
  /\ \A c \in Clients :
       /\ pc[c] \in {"idle", "stones", "apply"} => plan[c] = NoPlan
       /\ plan[c].push \cup plan[c].lookup \subseteq Present(local[c])

DeletedByUsers == UNION {userDeleted[c] : c \in Clients}

(* A note no user has deleted stays where it is, on the server and in every  *)
(* collection: no stopped pass, stale manifest, skipped pull, lost         *)
(* snapshot or late request is ever mistaken for a deletion                *)
(* (sync_state.py compute_local_deletes, content_sync.py).                 *)
OnlyUsersDelete ==
  [][\A n \in Notes \ DeletedByUsers' :
       /\ row[n] # Absent => row'[n] # Absent
       /\ \A c \in Clients : local[c][n] # Absent => local'[c][n] # Absent]_vars

Replaced(old, new) == old # Absent /\ new # Absent /\ old # new

(* An edit that is replaced by synchronisation, on the server or in a        *)
(* collection, is replaced by one with a later time, whatever the server   *)
(* received since the manifest was read; a note that was deleted or        *)
(* resolved by hand aside (note_sync.py, conflict_policy.py, the base      *)
(* check of batch.go).                                                     *)
OnlyLaterEditsReplace ==
  [][\A n \in Notes \ (DeletedByUsers' \cup forced') :
       /\ Replaced(row[n], row'[n]) => timeOf[row[n]] < timeOf[row'[n]]
       /\ \A c \in Clients :
            Replaced(local[c][n], local'[c][n]) /\ edits' = edits => timeOf[local[c][n]] < timeOf[local'[c][n]]]_vars

Same(n) == \A c \in Clients : local[c][n] = row[n]
Undecided(n) ==
  \E c \in Clients : Replaced(local[c][n], row[n]) /\ newest_side(local[c][n], row[n]) = "none"

(* When failures have ended and users stop, every collection ends with the   *)
(* server's notes, unless a conflict waits for the user (DESIGN.md:         *)
(* "keeping independent items consistent across devices").                 *)
EventuallyConverged == <>[]((\A n \in Notes : Same(n)) \/ (\E n \in Notes : Undecided(n)))
=============================================================================
