------------------------- MODULE ContentSync_proofs -------------------------
(***************************************************************************)
(* Theorems about the content pass, for every set of clients and notes,    *)
(* any number of edits, any clocks and any number of failures.             *)
(***************************************************************************)
EXTENDS ContentSync, TLAPS

-----------------------------------------------------------------------------
(* Types.                                                                   *)

LEMMA EditsFacts == 1 \in Edits /\ Edits \subseteq Nat /\ Absent \notin Edits /\ Edits \subseteq Version /\ Absent \in Version
BY ContentConstants DEF Edits, Version, Absent

LEMMA InitTyped == Init => TypeOK
<1>1. Known \in [Notes -> Version] /\ NoNotes \in [Notes -> Version] /\ NoPlan \in Plans /\ NoPlan.push = {} /\ NoPlan.lookup = {}
  BY EditsFacts DEF Known, NoNotes, NoPlan, Plans
<1>2. [n \in Notes |-> 0] \in [Notes -> Version]
  BY EditsFacts DEF Absent
<1>. QED  BY <1>1, <1>2, EditsFacts, ContentConstants DEF Init, TypeOK, Edits

LEMMA StoreTyped ==
  ASSUME TypeOK, NEW versions \in [Notes -> Version], StoreNotes(versions)
  PROVE  row' \in [Notes -> Version] /\ stones' \subseteq Notes
BY DEF TypeOK, StoreNotes

LEMMA DeleteTyped ==
  ASSUME TypeOK, NEW notes \in SUBSET Notes, DeleteNotes(notes)
  PROVE  row' \in [Notes -> Version] /\ stones' \subseteq Notes
BY EditsFacts DEF TypeOK, DeleteNotes

(* What users do keeps the types.                                           *)
LEMMA UserTyped ==
  ASSUME TypeOK, NEW c \in Clients, User(c)
  PROVE  TypeOK'
<1>. DEFINE Idle == plan[c].push \cup plan[c].lookup = {}
<1>0. pc[c] = "idle" => Idle
  BY DEF TypeOK, NoPlan
<1>1. PICK n \in Notes :
        Create(c, n) \/ Edit(c, n) \/ Delete(c, n) \/ force_local_note(c, n) \/ accept_server_note(c, n)
  BY DEF User
<1>2. ASSUME pc[c] = "idle", Write(c, n), UNCHANGED <<serverVars, lateVars, snapshot, conflicted, passVars, userDeleted, forced, failures>>,
             born' \subseteq Notes
      PROVE  TypeOK'
  <2>1. edits' \in Edits /\ edits' \in Version
    BY <1>2, ContentConstants DEF TypeOK, Write, Edits, Version
  <2>2. local' = [local EXCEPT ![c][n] = edits'] /\ timeOf' = timeOf
    BY <1>2 DEF Write
  <2>. QED  BY <1>0, <1>2, <2>1, <2>2 DEF TypeOK, Present, serverVars, lateVars, passVars
<1>3. CASE Create(c, n)
  BY <1>2, <1>3 DEF Create, TypeOK
<1>4. CASE Edit(c, n)
  BY <1>2, <1>4 DEF Edit, TypeOK
<1>5. CASE Delete(c, n)
  <2>1. edits' \in Edits
    BY <1>5, ContentConstants DEF TypeOK, Delete, Edits
  <2>. QED  BY <1>0, <1>5, <2>1, EditsFacts DEF TypeOK, Delete, Present, serverVars, lateVars, passVars
<1>6. CASE force_local_note(c, n)
  <2>1. [NoNotes EXCEPT ![n] = local[c][n]] \in [Notes -> Version]
    BY EditsFacts DEF TypeOK, NoNotes
  <2>2. row' \in [Notes -> Version] /\ stones' \subseteq Notes
    BY <1>6, <2>1, StoreTyped DEF force_local_note
  <2>. QED  BY <1>6, <2>2 DEF TypeOK, force_local_note, lateVars, passVars
<1>7. CASE accept_server_note(c, n)
  BY <1>0, <1>7 DEF TypeOK, accept_server_note, Present, serverVars, lateVars, passVars
<1>. QED  BY <1>1, <1>3, <1>4, <1>5, <1>6, <1>7

(* The plans a pass makes.                                                  *)
Deleting(p, S) == [p EXCEPT !.delete = S]
Planned(S, T, U) == [NoPlan EXCEPT !.pull = S, !.push = T, !.lookup = U]
LookedUp(p, S) == [p EXCEPT !.push = @ \cup S, !.conflict = p.lookup \ S, !.lookup = {}]

LEMMA PlanFacts ==
  ASSUME NEW p \in Plans, NEW S \in SUBSET Notes
  PROVE  /\ Deleting(p, S) \in Plans
         /\ Deleting(p, S).push = p.push
         /\ Deleting(p, S).lookup = p.lookup
         /\ Deleting(p, S).pull = p.pull
         /\ Deleting(p, S).delete = S
         /\ LookedUp(p, S) \in Plans
         /\ LookedUp(p, S).push = p.push \cup S
         /\ LookedUp(p, S).lookup = {}
         /\ LookedUp(p, S).pull = p.pull
         /\ LookedUp(p, S).delete = p.delete
BY DEF Deleting, LookedUp, Plans

LEMMA PlannedFacts ==
  ASSUME NEW S \in SUBSET Notes, NEW T \in SUBSET Notes, NEW U \in SUBSET Notes
  PROVE  /\ Planned(S, T, U) \in Plans
         /\ Planned(S, T, U).pull = S
         /\ Planned(S, T, U).push = T
         /\ Planned(S, T, U).lookup = U
         /\ Planned(S, T, U).delete = {}
BY DEF Planned, NoPlan, Plans

LEMMA NoPlanFacts ==
  NoPlan \in Plans /\ NoPlan.delete = {} /\ NoPlan.pull = {} /\ NoPlan.push = {} /\ NoPlan.lookup = {}
BY DEF NoPlan, Plans

Steps == {"idle", "stones", "apply", "delete", "refresh", "plan", "lookup", "pull", "push", "rest"}

(* What TypeOK says of a client's plan.                                     *)
PlanFits(d) ==
  /\ pc[d] \in {"idle", "stones", "apply"} => plan[d] = NoPlan
  /\ plan[d].push \cup plan[d].lookup \subseteq Present(local[d])

(* A step of one client that fits its own plan fits all the plans.           *)
LEMMA OneClient ==
  ASSUME TypeOK, NEW c \in Clients, NEW step \in Steps, NEW new \in Plans,
         pc' = [pc EXCEPT ![c] = step],
         plan' = [plan EXCEPT ![c] = new],
         \A d \in Clients : Present(local[d]) \subseteq Present(local'[d]) \/ (d = c /\ new.push \cup new.lookup = {}),
         step \in {"idle", "stones", "apply"} => new = NoPlan,
         new.push \cup new.lookup \subseteq Present(local[c])
  PROVE  /\ pc' \in [Clients -> Steps]
         /\ plan' \in [Clients -> Plans]
         /\ \A d \in Clients : PlanFits(d)'
<1>1. pc' \in [Clients -> Steps] /\ plan' \in [Clients -> Plans]
  BY DEF TypeOK, Steps
<1>2. ASSUME NEW d \in Clients PROVE PlanFits(d)'
  <2>1. CASE d = c
    <3>1. pc'[d] = step /\ plan'[d] = new
      BY <2>1 DEF TypeOK
    <3>. QED  BY <2>1, <3>1 DEF PlanFits
  <2>2. CASE d # c
    <3>1. pc'[d] = pc[d] /\ plan'[d] = plan[d]
      BY <2>2 DEF TypeOK
    <3>. QED  BY <2>2, <3>1 DEF PlanFits, TypeOK
  <2>. QED  BY <2>1, <2>2
<1>. QED  BY <1>1, <1>2

LEMMA EndPassFits ==
  ASSUME TypeOK, NEW c \in Clients, EndPass(c), local' = local
  PROVE  /\ pc' \in [Clients -> Steps]
         /\ plan' \in [Clients -> Plans]
         /\ seen' \in [Clients -> [Notes -> Version]]
         /\ gone' \in [Clients -> SUBSET Notes]
         /\ \A d \in Clients : PlanFits(d)'
<1>1. NoNotes \in [Notes -> Version] /\ NoPlan \in Plans /\ NoPlan.push = {} /\ NoPlan.lookup = {}
  BY EditsFacts DEF NoNotes, NoPlan, Plans
<1>2. seen' \in [Clients -> [Notes -> Version]] /\ gone' \in [Clients -> SUBSET Notes]
  BY <1>1 DEF TypeOK, EndPass
<1>3. "idle" \in Steps /\ pc' = [pc EXCEPT ![c] = "idle"] /\ plan' = [plan EXCEPT ![c] = NoPlan]
  BY DEF EndPass, Goto, Steps
<1>. QED  BY <1>1, <1>2, <1>3, OneClient

(* A client's own step keeps what TypeOK says of the other clients.          *)
LEMMA PassTyped ==
  ASSUME TypeOK, NEW c \in Clients, Pass(c)
  PROVE  TypeOK'
<1>1. CASE ReadNotes(c)
  BY <1>1 DEF TypeOK, ReadNotes, Goto, serverVars, lateVars, userVars
<1>2. CASE ReadTombstones(c)
  BY <1>2 DEF TypeOK, ReadTombstones, Goto, serverVars, lateVars, userVars
<1>3. CASE apply_tombstones(c)
  <2>0. plan[c] = NoPlan /\ plan[c].push \cup plan[c].lookup = {}
    BY <1>3 DEF TypeOK, NoPlan, apply_tombstones
  <2>1. local' \in [Clients -> [Notes -> Version]] /\ \A d \in Clients \ {c} : local'[d] = local[d]
    BY <1>3, EditsFacts DEF TypeOK, apply_tombstones
  <2>2. compute_local_deletes(c) \in SUBSET Notes
    BY DEF TypeOK, compute_local_deletes
  <2>. DEFINE deleting == Deleting(plan[c], compute_local_deletes(c))
  <2>3. plan[c] \in Plans /\ deleting \in Plans /\ deleting.push \cup deleting.lookup = {}
    <3>1. plan[c] \in Plans
      BY DEF TypeOK
    <3>2. deleting \in Plans /\ deleting.push = plan[c].push /\ deleting.lookup = plan[c].lookup
      BY <2>2, <3>1, PlanFacts
    <3>. QED  BY <2>0, <3>1, <3>2
  <2>4. \A d \in Clients : Present(local[d]) \subseteq Present(local'[d]) \/ d = c
    BY <2>1
  <2>5. UNCHANGED <<serverVars, lateVars, snapshot, conflicted, userVars, failures, seen, gone>>
    BY <1>3 DEF apply_tombstones
  <2>6. CASE Goto(c, "plan") /\ UNCHANGED plan
    <3>1. plan' = [plan EXCEPT ![c] = plan[c]]
      BY <2>6 DEF TypeOK
    <3>2. pc' = [pc EXCEPT ![c] = "plan"] /\ "plan" \in Steps
      BY <2>6 DEF Goto, Steps
    <3>3. \A d \in Clients : Present(local[d]) \subseteq Present(local'[d]) \/ (d = c /\ plan[c].push \cup plan[c].lookup = {})
      BY <2>0, <2>4
    <3>4. pc' \in [Clients -> Steps] /\ plan' \in [Clients -> Plans] /\ \A d \in Clients : PlanFits(d)'
      BY <2>0, <2>3, <3>1, <3>2, <3>3, OneClient
    <3>. QED  BY <2>1, <2>5, <3>4 DEF TypeOK, PlanFits, Steps, serverVars, lateVars, userVars
  <2>7. CASE Goto(c, "delete") /\ plan' = [plan EXCEPT ![c].delete = compute_local_deletes(c)]
    <3>1. plan' = [plan EXCEPT ![c] = deleting]
      BY <2>7 DEF Deleting
    <3>. HIDE DEF deleting
    <3>2. pc' \in [Clients -> Steps] /\ plan' \in [Clients -> Plans] /\ \A d \in Clients : PlanFits(d)'
      BY <2>3, <2>4, <2>7, <3>1, OneClient DEF Goto, Steps
    <3>. QED  BY <2>1, <2>5, <3>2 DEF TypeOK, PlanFits, Steps, serverVars, lateVars, userVars
  <2>. QED  BY <1>3, <2>6, <2>7 DEF apply_tombstones
<1>4. CASE PushLocalDeletes(c)
  <2>1. row' \in [Notes -> Version] /\ stones' \subseteq Notes
    BY <1>4, DeleteTyped DEF PushLocalDeletes, TypeOK, Plans
  <2>. DEFINE new == Deleting(plan[c], {})
  <2>2. new \in Plans /\ new.push = plan[c].push /\ new.lookup = plan[c].lookup
    BY PlanFacts DEF TypeOK
  <2>3. plan' = [plan EXCEPT ![c] = new]
    BY <1>4 DEF PushLocalDeletes, Deleting
  <2>. HIDE DEF new
  <2>4. new.push \cup new.lookup \subseteq Present(local[c])
    BY <2>2 DEF TypeOK
  <2>5. pc' \in [Clients -> Steps] /\ plan' \in [Clients -> Plans] /\ \A d \in Clients : PlanFits(d)'
    BY <1>4, <2>2, <2>3, <2>4, OneClient DEF PushLocalDeletes, Goto, Steps
  <2>. QED  BY <1>4, <2>1, <2>5 DEF TypeOK, PushLocalDeletes, PlanFits, Steps, lateVars, userVars
<1>5. CASE Refresh(c)
  BY <1>5 DEF TypeOK, Refresh, Goto, serverVars, lateVars, userVars
<1>6. CASE PlanNotes(c)
  <2>. DEFINE new == Planned(NotesToPull(c), NotesToPush(c), Winner(c, "none"))
  <2>0. /\ NotesToPull(c) \in SUBSET Notes /\ NotesToPush(c) \in SUBSET Notes /\ Winner(c, "none") \in SUBSET Notes
        /\ NotesToPush(c) \cup Winner(c, "none") \subseteq Present(local[c])
    BY DEF NotesToPull, NotesToPush, Winner, Differing, Present
  <2>1. new \in Plans /\ new.push \cup new.lookup \subseteq Present(local[c])
    <3>1. new \in Plans /\ new.push = NotesToPush(c) /\ new.lookup = Winner(c, "none")
      BY <2>0, PlannedFacts
    <3>. HIDE DEF new
    <3>. QED  BY <2>0, <3>1
  <2>2. plan' = [plan EXCEPT ![c] = new]
    BY <1>6 DEF PlanNotes, Planned
  <2>. HIDE DEF new
  <2>. DEFINE next == IF Winner(c, "none") = {} THEN "pull" ELSE "lookup"
  <2>3. next \in Steps \ {"idle", "stones", "apply"} /\ pc' = [pc EXCEPT ![c] = next]
    BY <1>6 DEF PlanNotes, Goto, Steps
  <2>. HIDE DEF next
  <2>4. pc' \in [Clients -> Steps] /\ plan' \in [Clients -> Plans] /\ \A d \in Clients : PlanFits(d)'
    BY <1>6, <2>1, <2>2, <2>3, OneClient DEF PlanNotes
  <2>. QED  BY <1>6, <2>4 DEF TypeOK, PlanNotes, PlanFits, Steps, serverVars, lateVars, userVars
<1>7. CASE LookUp(c)
  <2>. DEFINE same == {n \in plan[c].lookup : row[n] = local[c][n]}
  <2>. DEFINE new == LookedUp(plan[c], same)
  <2>1. plan[c] \in Plans /\ same \in SUBSET Notes /\ same \subseteq plan[c].lookup
    BY DEF TypeOK, Plans
  <2>2. new \in Plans /\ new.push = plan[c].push \cup same /\ new.lookup = {}
    BY <2>1, PlanFacts
  <2>3. plan' = [plan EXCEPT ![c] = new]
    BY <1>7 DEF LookUp, LookedUp
  <2>4. new.push \cup new.lookup \subseteq Present(local[c])
    BY <2>1, <2>2 DEF TypeOK
  <2>. HIDE DEF new
  <2>5. pc' \in [Clients -> Steps] /\ plan' \in [Clients -> Plans] /\ \A d \in Clients : PlanFits(d)'
    BY <1>7, <2>2, <2>3, <2>4, OneClient DEF LookUp, Goto, Steps
  <2>. QED  BY <1>7, <2>5 DEF TypeOK, LookUp, PlanFits, Steps, serverVars, lateVars, userVars
<1>8. CASE PullNotes(c)
  <2>1. /\ local' \in [Clients -> [Notes -> Version]]
        /\ \A d \in Clients : Present(local[d]) \subseteq Present(local'[d])
    BY <1>8 DEF PullNotes, TypeOK, Present
  <2>2. failures' \in 0..MaxFailures
    BY <1>8, ContentConstants DEF PullNotes, TypeOK
  <2>. QED  BY <1>8, <2>1, <2>2 DEF TypeOK, PullNotes, Goto, serverVars, lateVars, userVars
<1>9. CASE PushNotes(c)
  <2>1. [n \in Notes |-> IF n \in plan[c].push \ Refused(c) THEN local[c][n] ELSE Absent] \in [Notes -> Version]
    BY EditsFacts DEF TypeOK
  <2>2. row' \in [Notes -> Version] /\ stones' \subseteq Notes
    BY <1>9, <2>1, StoreTyped DEF PushNotes
  <2>3. UNCHANGED <<lateVars, local, snapshot, userVars, failures>>
    BY <1>9 DEF PushNotes
  <2>4. CASE Goto(c, "rest") /\ UNCHANGED <<seen, gone, plan, conflicted>>
    BY <2>2, <2>3, <2>4 DEF TypeOK, Goto, lateVars, userVars
  <2>5. CASE EndPass(c) /\ conflicted' = [conflicted EXCEPT ![c] = plan[c].conflict \cup Refused(c)]
    <3>1. conflicted' \in [Clients -> SUBSET Notes]
      BY <2>5 DEF TypeOK, Plans, Refused
    <3>. QED  BY <2>2, <2>3, <2>5, <3>1, EndPassFits DEF TypeOK, PlanFits, Steps, lateVars, userVars, NoPlan
  <2>. QED  BY <1>9, <2>4, <2>5 DEF PushNotes
<1>10. CASE save_state(c)
  <2>1. snapshot' \in [Clients -> SUBSET Notes]
    BY <1>10 DEF save_state, TypeOK, FinalKeys, Present
  <2>. QED  BY <1>10, <2>1, EndPassFits DEF TypeOK, PlanFits, Steps, save_state, serverVars, lateVars, userVars, NoPlan
<1>. QED  BY <1>1, <1>2, <1>3, <1>4, <1>5, <1>6, <1>7, <1>8, <1>9, <1>10 DEF Pass

(* So do failures and late requests.                                        *)
LEMMA FailureTyped ==
  ASSUME TypeOK,
         \/ \E c \in Clients : DeletionSafetyError(c) \/ Fail(c) \/ LoseSnapshot(c)
         \/ \E push \in latePushes : LatePush(push)
         \/ \E notes \in lateDeletes : LateDelete(notes)
         \/ Lose
  PROVE  TypeOK'
<1>1. ASSUME NEW c \in Clients, DeletionSafetyError(c) PROVE TypeOK'
  BY <1>1, EndPassFits, ContentConstants DEF TypeOK, PlanFits, Steps, DeletionSafetyError, serverVars, lateVars, userVars, NoPlan
<1>2. ASSUME NEW c \in Clients, Fail(c) PROVE TypeOK'
  <2>1. lateDeletes' \subseteq SUBSET Notes
    BY <1>2 DEF TypeOK, Fail, Plans
  <2>2. \A n \in plan[c].push : n \in Notes /\ local[c][n] \in Edits /\ seen[c][n] \in Version
    BY EditsFacts DEF TypeOK, Plans, Present, Version
  <2>3. latePushes' \subseteq Notes \X Edits \X Version
    BY <1>2, <2>2 DEF TypeOK, Fail
  <2>4. failures' \in 0..MaxFailures
    BY <1>2, ContentConstants DEF TypeOK, Fail
  <2>. QED  BY <1>2, <2>1, <2>3, <2>4, EndPassFits DEF TypeOK, PlanFits, Steps, Fail, serverVars, userVars, NoPlan
<1>3. ASSUME NEW c \in Clients, LoseSnapshot(c) PROVE TypeOK'
  BY <1>3, ContentConstants DEF TypeOK, LoseSnapshot, serverVars, lateVars, passVars, userVars
<1>4. ASSUME NEW push \in latePushes, LatePush(push) PROVE TypeOK'
  <2>1. push[1] \in Notes /\ push[2] \in Version
    BY EditsFacts DEF TypeOK
  <2>2. [NoNotes EXCEPT ![push[1]] = push[2]] \in [Notes -> Version]
    BY <2>1, EditsFacts DEF NoNotes
  <2>3. row' \in [Notes -> Version] /\ stones' \subseteq Notes
    <3>1. CASE Accepts(push[1], push[2], push[3])
      BY <1>4, <2>2, <3>1, StoreTyped DEF LatePush
    <3>2. CASE UNCHANGED serverVars
      BY <3>2 DEF TypeOK, serverVars
    <3>. QED  BY <1>4, <3>1, <3>2 DEF LatePush
  <2>. QED  BY <1>4, <2>3 DEF TypeOK, LatePush, passVars, userVars
<1>5. ASSUME NEW notes \in lateDeletes, LateDelete(notes) PROVE TypeOK'
  <2>1. row' \in [Notes -> Version] /\ stones' \subseteq Notes
    BY <1>5, DeleteTyped DEF LateDelete, TypeOK
  <2>. QED  BY <1>5, <2>1 DEF TypeOK, LateDelete, passVars, userVars
<1>6. CASE Lose
  BY <1>6 DEF TypeOK, Lose, serverVars, passVars, userVars
<1>. QED  BY <1>1, <1>2, <1>3, <1>4, <1>5, <1>6

LEMMA StepTyped == TypeOK /\ [Next]_vars => TypeOK'
<1>1. TypeOK /\ UNCHANGED vars => TypeOK'
  BY DEF TypeOK, vars, serverVars, lateVars, passVars, userVars
<1>. QED  BY <1>1, UserTyped, PassTyped, FailureTyped DEF Next

(* Every reachable state is well typed, and a planned push or lookup is of a *)
(* note in the collection.                                                 *)
THEOREM TypeCorrect == Spec => []TypeOK
BY InitTyped, StepTyped, PTL DEF Spec

-----------------------------------------------------------------------------
(* Only users delete.                                                       *)

(* Whatever speaks of a deletion speaks of a note some user has deleted: a   *)
(* tombstone, a planned or late deletion, and a note of a snapshot that is *)
(* missing in its collection.                                              *)
DeletionInv ==
  /\ stones \subseteq DeletedByUsers
  /\ \A S \in lateDeletes : S \subseteq DeletedByUsers
  /\ \A c \in Clients :
       /\ gone[c] \subseteq DeletedByUsers
       /\ plan[c].delete \subseteq DeletedByUsers
       /\ snapshot[c] \ Present(local[c]) \subseteq DeletedByUsers

(* The step of OnlyUsersDelete.                                             *)
NothingElseGoes ==
  \A n \in Notes \ DeletedByUsers' :
    /\ row[n] # Absent => row'[n] # Absent
    /\ \A c \in Clients : local[c][n] # Absent => local'[c][n] # Absent

LEMMA InitDeletions == Init => DeletionInv
<1>1. Synced \ Present(Known) = {}
  BY ContentConstants DEF Present, Known, Absent
<1>. QED  BY <1>1, NoPlanFacts DEF Init, DeletionInv

(* What is proved of each step.                                             *)
Good == DeletionInv' /\ NothingElseGoes

(* Storing notes neither removes a note nor adds a tombstone.               *)
LEMMA StoreKeeps ==
  ASSUME TypeOK, DeletionInv, NEW versions \in [Notes -> Version], StoreNotes(versions)
  PROVE  stones' \subseteq DeletedByUsers /\ \A n \in Notes : row[n] # Absent => row'[n] # Absent
BY DEF StoreNotes, DeletionInv

LEMMA DeleteKeeps ==
  ASSUME TypeOK, DeletionInv, NEW notes \in SUBSET Notes, notes \subseteq DeletedByUsers, DeleteNotes(notes)
  PROVE  /\ stones' \subseteq DeletedByUsers
         /\ \A n \in Notes \ DeletedByUsers : row[n] # Absent => row'[n] # Absent
BY DEF DeleteNotes, DeletionInv

LEMMA EndPassKeeps ==
  ASSUME TypeOK, DeletionInv, NEW c \in Clients, EndPass(c)
  PROVE  \A d \in Clients : gone'[d] \subseteq DeletedByUsers /\ plan'[d].delete \subseteq DeletedByUsers
BY NoPlanFacts DEF TypeOK, DeletionInv, EndPass

LEMMA UserDeletes ==
  ASSUME TypeOK, DeletionInv, NEW c \in Clients, User(c)
  PROVE  Good
<1>1. PICK n \in Notes :
        Create(c, n) \/ Edit(c, n) \/ Delete(c, n) \/ force_local_note(c, n) \/ accept_server_note(c, n)
  BY DEF User
<1>2. ASSUME Write(c, n), UNCHANGED <<serverVars, lateVars, snapshot, conflicted, passVars, userDeleted, forced, failures>>
      PROVE  Good
  <2>1. edits' \in Nat /\ edits' # Absent
    BY <1>2, ContentConstants DEF Write, TypeOK, Edits, Absent
  <2>2. \A d \in Clients : Present(local[d]) \subseteq Present(local'[d])
    BY <1>2, <2>1 DEF Write, TypeOK, Present
  <2>3. DeletedByUsers' = DeletedByUsers
    BY <1>2 DEF DeletedByUsers
  <2>. QED  BY <1>2, <2>2, <2>3 DEF Good, DeletionInv, NothingElseGoes, Present, serverVars, lateVars, passVars
<1>3. CASE Create(c, n) \/ Edit(c, n)
  BY <1>2, <1>3 DEF Create, Edit
<1>4. CASE Delete(c, n)
  <2>1. DeletedByUsers' = DeletedByUsers \cup {n}
    BY <1>4 DEF Delete, DeletedByUsers, TypeOK
  <2>2. \A d \in Clients : Present(local[d]) \ {n} \subseteq Present(local'[d])
    BY <1>4 DEF Delete, TypeOK, Present
  <2>. QED  BY <1>4, <2>1, <2>2 DEF Delete, Good, DeletionInv, NothingElseGoes, Present, serverVars, lateVars, passVars
<1>5. CASE force_local_note(c, n)
  <2>1. [NoNotes EXCEPT ![n] = local[c][n]] \in [Notes -> Version]
    BY EditsFacts DEF TypeOK, NoNotes
  <2>2. stones' \subseteq DeletedByUsers /\ \A m \in Notes : row[m] # Absent => row'[m] # Absent
    BY <1>5, <2>1, StoreKeeps DEF force_local_note
  <2>3. DeletedByUsers' = DeletedByUsers
    BY <1>5 DEF force_local_note, DeletedByUsers
  <2>. QED  BY <1>5, <2>2, <2>3 DEF force_local_note, Good, DeletionInv, NothingElseGoes, Present, lateVars, passVars
<1>6. CASE accept_server_note(c, n)
  <2>1. \A d \in Clients : Present(local[d]) \subseteq Present(local'[d])
    BY <1>6 DEF accept_server_note, TypeOK, Present
  <2>2. DeletedByUsers' = DeletedByUsers
    BY <1>6 DEF accept_server_note, DeletedByUsers
  <2>. QED  BY <1>6, <2>1, <2>2 DEF accept_server_note, Good, DeletionInv, NothingElseGoes, Present, serverVars, lateVars, passVars
<1>. QED  BY <1>1, <1>3, <1>4, <1>5, <1>6

LEMMA PassDeletes ==
  ASSUME TypeOK, DeletionInv, NEW c \in Clients, Pass(c)
  PROVE  Good
<1>0. userDeleted' = userDeleted /\ DeletedByUsers' = DeletedByUsers
  BY DEF Pass, ReadNotes, ReadTombstones, apply_tombstones, PushLocalDeletes, Refresh, PlanNotes, LookUp, PullNotes, PushNotes,
         save_state, userVars, DeletedByUsers
<1>1. CASE ReadNotes(c)
  BY <1>0, <1>1 DEF ReadNotes, Good, DeletionInv, NothingElseGoes, Present, serverVars, lateVars
<1>2. CASE ReadTombstones(c)
  BY <1>0, <1>2 DEF ReadTombstones, Good, DeletionInv, NothingElseGoes, Present, serverVars, lateVars, TypeOK
<1>3. CASE apply_tombstones(c)
  <2>1. compute_local_deletes(c) \subseteq DeletedByUsers /\ compute_local_deletes(c) \in SUBSET Notes
    BY DEF compute_local_deletes, DeletionInv, Present
  <2>2. \A d \in Clients, n \in Notes \ DeletedByUsers : local[d][n] # Absent => local'[d][n] # Absent
    BY <1>3 DEF apply_tombstones, TombstonesForSnapshot, DeletionInv, TypeOK
  <2>3. \A d \in Clients : plan'[d].delete \subseteq DeletedByUsers
    <3>1. CASE UNCHANGED plan
      BY <3>1 DEF DeletionInv
    <3>2. CASE plan' = [plan EXCEPT ![c].delete = compute_local_deletes(c)]
      <4>1. plan' = [plan EXCEPT ![c] = Deleting(plan[c], compute_local_deletes(c))]
        BY <3>2 DEF Deleting
      <4>2. Deleting(plan[c], compute_local_deletes(c)).delete = compute_local_deletes(c)
        BY <2>1, PlanFacts DEF TypeOK
      <4>. QED  BY <2>1, <4>1, <4>2 DEF DeletionInv, TypeOK
    <3>. QED  BY <1>3, <3>1, <3>2 DEF apply_tombstones
  <2>4. \A d \in Clients : snapshot[d] \ Present(local'[d]) \subseteq DeletedByUsers
    BY <2>2 DEF DeletionInv, Present, TypeOK
  <2>. QED  BY <1>0, <1>3, <2>2, <2>3, <2>4 DEF apply_tombstones, Good, DeletionInv, NothingElseGoes, Present, serverVars, lateVars
<1>4. CASE PushLocalDeletes(c)
  <2>1. plan[c].delete \in SUBSET Notes /\ plan[c].delete \subseteq DeletedByUsers
    BY DEF TypeOK, Plans, DeletionInv
  <2>2. /\ stones' \subseteq DeletedByUsers
        /\ \A n \in Notes \ DeletedByUsers : row[n] # Absent => row'[n] # Absent
    BY <1>4, <2>1, DeleteKeeps DEF PushLocalDeletes
  <2>3. \A d \in Clients : plan'[d].delete \subseteq DeletedByUsers
    <3>1. plan' = [plan EXCEPT ![c] = Deleting(plan[c], {})]
      BY <1>4 DEF PushLocalDeletes, Deleting
    <3>2. Deleting(plan[c], {}).delete = {}
      BY PlanFacts DEF TypeOK
    <3>. QED  BY <3>1, <3>2 DEF DeletionInv, TypeOK
  <2>. QED  BY <1>0, <1>4, <2>2, <2>3 DEF PushLocalDeletes, Good, DeletionInv, NothingElseGoes, Present, lateVars
<1>5. CASE Refresh(c)
  BY <1>0, <1>5 DEF Refresh, Good, DeletionInv, NothingElseGoes, Present, serverVars, lateVars
<1>6. CASE PlanNotes(c)
  <2>. DEFINE new == Planned(NotesToPull(c), NotesToPush(c), Winner(c, "none"))
  <2>1. plan' = [plan EXCEPT ![c] = new]
    BY <1>6 DEF PlanNotes, Planned
  <2>2. new.delete = {}
    BY DEF Planned, NoPlan
  <2>3. \A d \in Clients : plan'[d].delete \subseteq DeletedByUsers
    BY <2>1, <2>2 DEF DeletionInv, TypeOK
  <2>. QED  BY <1>0, <1>6, <2>3 DEF PlanNotes, Good, DeletionInv, NothingElseGoes, Present, serverVars, lateVars
<1>7. CASE LookUp(c)
  <2>. DEFINE same == {n \in plan[c].lookup : row[n] = local[c][n]}
              new == LookedUp(plan[c], same)
  <2>1. plan' = [plan EXCEPT ![c] = new]
    BY <1>7 DEF LookUp, LookedUp
  <2>2. new.delete = plan[c].delete
    <3>1. plan[c] \in Plans /\ same \in SUBSET Notes
      BY DEF TypeOK, Plans
    <3>. QED  BY <3>1, PlanFacts
  <2>3. \A d \in Clients : plan'[d].delete \subseteq DeletedByUsers
    BY <2>1, <2>2 DEF DeletionInv, TypeOK
  <2>. QED  BY <1>0, <1>7, <2>3 DEF LookUp, Good, DeletionInv, NothingElseGoes, Present, serverVars, lateVars
<1>8. CASE PullNotes(c)
  <2>1. \A d \in Clients, n \in Notes : local[d][n] # Absent => local'[d][n] # Absent
    BY <1>8 DEF PullNotes, TypeOK
  <2>. QED  BY <1>0, <1>8, <2>1 DEF PullNotes, Good, DeletionInv, NothingElseGoes, Present, serverVars, lateVars, TypeOK
<1>9. CASE PushNotes(c)
  <2>1. [n \in Notes |-> IF n \in plan[c].push \ Refused(c) THEN local[c][n] ELSE Absent] \in [Notes -> Version]
    BY EditsFacts DEF TypeOK
  <2>2. stones' \subseteq DeletedByUsers /\ \A n \in Notes : row[n] # Absent => row'[n] # Absent
    BY <1>9, <2>1, StoreKeeps DEF PushNotes
  <2>3. \A d \in Clients : gone'[d] \subseteq DeletedByUsers /\ plan'[d].delete \subseteq DeletedByUsers
    BY <1>9, EndPassKeeps DEF PushNotes, DeletionInv
  <2>. QED  BY <1>0, <1>9, <2>2, <2>3 DEF PushNotes, Good, DeletionInv, NothingElseGoes, Present, lateVars
<1>10. CASE save_state(c)
  <2>1. \A d \in Clients : snapshot'[d] \ Present(local[d]) \subseteq DeletedByUsers
    BY <1>10 DEF save_state, FinalKeys, DeletionInv, TypeOK
  <2>2. \A d \in Clients : gone'[d] \subseteq DeletedByUsers /\ plan'[d].delete \subseteq DeletedByUsers
    BY <1>10, EndPassKeeps DEF save_state
  <2>. QED  BY <1>0, <1>10, <2>1, <2>2 DEF save_state, Good, DeletionInv, NothingElseGoes, Present, serverVars, lateVars
<1>. QED  BY <1>1, <1>2, <1>3, <1>4, <1>5, <1>6, <1>7, <1>8, <1>9, <1>10 DEF Pass

LEMMA FailureDeletes ==
  ASSUME TypeOK, DeletionInv,
         \/ \E c \in Clients : DeletionSafetyError(c) \/ Fail(c) \/ LoseSnapshot(c)
         \/ \E push \in latePushes : LatePush(push)
         \/ \E notes \in lateDeletes : LateDelete(notes)
         \/ Lose
  PROVE  Good
<1>0. DeletedByUsers' = DeletedByUsers
  BY DEF DeletionSafetyError, Fail, LoseSnapshot, LatePush, LateDelete, Lose, userVars, DeletedByUsers
<1>1. ASSUME NEW c \in Clients, DeletionSafetyError(c) PROVE Good
  BY <1>0, <1>1, EndPassKeeps DEF DeletionSafetyError, Good, DeletionInv, NothingElseGoes, Present, serverVars, lateVars
<1>2. ASSUME NEW c \in Clients, Fail(c) PROVE Good
  <2>1. \A S \in lateDeletes' : S \subseteq DeletedByUsers
    BY <1>2 DEF Fail, DeletionInv
  <2>. QED  BY <1>0, <1>2, <2>1, EndPassKeeps DEF Fail, Good, DeletionInv, NothingElseGoes, Present, serverVars
<1>3. ASSUME NEW c \in Clients, LoseSnapshot(c) PROVE Good
  BY <1>0, <1>3 DEF LoseSnapshot, Good, DeletionInv, NothingElseGoes, Present, serverVars, lateVars, passVars, TypeOK
<1>4. ASSUME NEW push \in latePushes, LatePush(push) PROVE Good
  <2>1. [NoNotes EXCEPT ![push[1]] = push[2]] \in [Notes -> Version]
    BY EditsFacts DEF TypeOK, NoNotes
  <2>2. stones' \subseteq DeletedByUsers /\ \A n \in Notes : row[n] # Absent => row'[n] # Absent
    <3>1. CASE Accepts(push[1], push[2], push[3])
      BY <1>4, <2>1, <3>1, StoreKeeps DEF LatePush
    <3>2. CASE UNCHANGED serverVars
      BY <3>2 DEF DeletionInv, serverVars
    <3>. QED  BY <1>4, <3>1, <3>2 DEF LatePush
  <2>. QED  BY <1>0, <1>4, <2>2 DEF LatePush, Good, DeletionInv, NothingElseGoes, Present, passVars
<1>5. ASSUME NEW notes \in lateDeletes, LateDelete(notes) PROVE Good
  <2>1. /\ stones' \subseteq DeletedByUsers
        /\ \A n \in Notes \ DeletedByUsers : row[n] # Absent => row'[n] # Absent
    BY <1>5, DeleteKeeps DEF LateDelete, DeletionInv, TypeOK
  <2>. QED  BY <1>0, <1>5, <2>1 DEF LateDelete, Good, DeletionInv, NothingElseGoes, Present, passVars
<1>6. CASE Lose
  BY <1>0, <1>6 DEF Lose, Good, DeletionInv, NothingElseGoes, Present, serverVars, passVars
<1>. QED  BY <1>1, <1>2, <1>3, <1>4, <1>5, <1>6

LEMMA StepDeletes == TypeOK /\ DeletionInv /\ Next => Good
BY UserDeletes, PassDeletes, FailureDeletes DEF Next

LEMMA StutterDeletes == DeletionInv /\ UNCHANGED vars => DeletionInv'
BY DEF DeletionInv, DeletedByUsers, Present, vars, serverVars, lateVars, passVars, userVars

(* A note no user has deleted is never removed, by any pass.                *)
THEOREM OnlyUsersDeleteHolds == Spec => OnlyUsersDelete
<1>1. TypeOK /\ DeletionInv /\ [Next]_vars => DeletionInv'
  BY StepDeletes, StutterDeletes DEF Good
<1>2. TypeOK /\ DeletionInv /\ [Next]_vars => [NothingElseGoes]_vars
  BY StepDeletes DEF Good
<1>3. Spec => []DeletionInv
  BY <1>1, InitDeletions, TypeCorrect, PTL DEF Spec
<1>4. Spec => [][NothingElseGoes]_vars
  BY <1>2, <1>3, TypeCorrect, PTL DEF Spec
<1>. QED  BY <1>4 DEF OnlyUsersDelete, NothingElseGoes

-----------------------------------------------------------------------------
(* Only later edits replace.                                                *)

Ordinary == Notes \ (DeletedByUsers \cup forced)

NoSyncPlan(c) == plan[c].pull = {} /\ plan[c].push = {} /\ plan[c].lookup = {}

(* Before planning there is nothing to pull or push, and no note is pulled   *)
(* and pushed in one pass.                                                 *)
PlansApart ==
  \A c \in Clients :
    /\ pc[c] \in {"idle", "stones", "apply", "delete", "refresh", "plan"} => NoSyncPlan(c)
    /\ plan[c].pull \cap (plan[c].push \cup plan[c].lookup) = {}

(* Why a plan's decision stays right: the server's note is the manifest's or *)
(* a later one.                                                            *)
Decided(c, n) ==
  /\ seen[c][n] # Absent => /\ row[n] # Absent
                            /\ row[n] = seen[c][n] \/ timeOf[seen[c][n]] < timeOf[row[n]]
  /\ n \in plan[c].push /\ seen[c][n] # Absent => timeOf[seen[c][n]] < timeOf[local[c][n]]
  /\ n \in plan[c].lookup => seen[c][n] # Absent /\ seen[c][n] # local[c][n]
  /\ n \in plan[c].pull /\ pc[c] \in {"lookup", "pull"} /\ local[c][n] # Absent
       => seen[c][n] # Absent /\ timeOf[local[c][n]] < timeOf[seen[c][n]]

(* A late push carries a version later than its base.                       *)
LatesDecided == \A p \in latePushes : p[1] \in Ordinary /\ p[3] # Absent => timeOf[p[3]] < timeOf[p[2]]

LaterInv ==
  /\ PlansApart
  /\ \A n \in Ordinary, c \in Clients : Decided(c, n)
  /\ LatesDecided

(* The server's part of a step: a note stays, or is replaced by a later one. *)
RowsAdvance ==
  \A n \in Ordinary' : row[n] # Absent => row'[n] # Absent /\ (row'[n] = row[n] \/ timeOf[row[n]] < timeOf[row'[n]])

(* The step of OnlyLaterEditsReplace.                                       *)
OnlyLater ==
  \A n \in Notes \ (DeletedByUsers' \cup forced') :
    /\ Replaced(row[n], row'[n]) => timeOf[row[n]] < timeOf[row'[n]]
    /\ \A c \in Clients :
         Replaced(local[c][n], local'[c][n]) /\ edits' = edits => timeOf[local[c][n]] < timeOf[local'[c][n]]

LocalsAdvance ==
  \A n \in Ordinary', c \in Clients :
    Replaced(local[c][n], local'[c][n]) /\ edits' = edits => timeOf[local[c][n]] < timeOf[local'[c][n]]

LEMMA Advance == RowsAdvance /\ LocalsAdvance => OnlyLater
BY DEF RowsAdvance, LocalsAdvance, OnlyLater, Ordinary, Replaced

Right == LaterInv' /\ RowsAdvance /\ LocalsAdvance

LEMMA InitLater == Init => LaterInv
<1>1. ASSUME Init PROVE PlansApart
  BY <1>1, NoPlanFacts DEF Init, PlansApart, NoSyncPlan
<1>2. ASSUME Init, NEW n \in Notes, NEW c \in Clients PROVE Decided(c, n)
  <2>1. seen[c][n] = Absent /\ plan[c] = NoPlan
    BY <1>2 DEF Init, NoNotes
  <2>. QED  BY <2>1, NoPlanFacts DEF Decided
<1>. QED  BY <1>1, <1>2 DEF Init, LaterInv, LatesDecided, Ordinary

(* The times of versions are numbers.                                       *)
LEMMA TimeType ==
  ASSUME TypeOK, NEW v \in Version, v # Absent
  PROVE  timeOf[v] \in Nat
BY ContentConstants DEF TypeOK, Version

(* What a step that leaves a client alone needs for Decided.                *)
LEMMA StillDecided ==
  ASSUME TypeOK, LaterInv, TypeOK', RowsAdvance, timeOf' = timeOf, NEW c \in Clients, NEW n \in Ordinary',
         n \in Ordinary, seen'[c] = seen[c], plan'[c] = plan[c], pc'[c] = pc[c], local'[c] = local[c]
  PROVE  Decided(c, n)'
<1>1. Decided(c, n) /\ n \in Notes
  BY DEF LaterInv, Ordinary
<1>2. seen[c][n] # Absent => timeOf[seen[c][n]] \in Nat /\ timeOf[row[n]] \in Nat /\ timeOf[row'[n]] \in Nat
  <2>1. seen[c][n] \in Version /\ row[n] \in Version /\ row'[n] \in Version
    BY <1>1 DEF TypeOK
  <2>2. seen[c][n] # Absent => row[n] # Absent /\ row'[n] # Absent
    BY <1>1 DEF Decided, RowsAdvance
  <2>. QED  BY <2>1, <2>2, TimeType
<1>. QED  BY <1>1, <1>2 DEF Decided, RowsAdvance

(* Storing versions of which each is new, the same or later.                *)
LEMMA StoreAdvances ==
  ASSUME TypeOK, NEW versions \in [Notes -> Version], StoreNotes(versions),
         \A n \in Ordinary' : versions[n] # Absent =>
           row[n] \in {Absent, versions[n]} \/ timeOf[row[n]] < timeOf[versions[n]]
  PROVE  RowsAdvance
BY DEF StoreNotes, RowsAdvance, Ordinary, TypeOK

LEMMA DeleteAdvances ==
  ASSUME TypeOK, NEW notes \in SUBSET Notes, notes \subseteq DeletedByUsers', DeleteNotes(notes)
  PROVE  RowsAdvance
BY DEF DeleteNotes, RowsAdvance, Ordinary, TypeOK

(* The end of a pass.                                                       *)
LEMMA EndPassDecided ==
  ASSUME TypeOK, LaterInv, NEW c \in Clients, EndPass(c)
  PROVE  /\ PlansApart'
         /\ \A n \in Notes : Decided(c, n)'
         /\ \A d \in Clients \ {c} : seen'[d] = seen[d] /\ plan'[d] = plan[d] /\ pc'[d] = pc[d]
<1>1. plan'[c] = NoPlan /\ seen'[c] = NoNotes /\ \A d \in Clients \ {c} : seen'[d] = seen[d] /\ plan'[d] = plan[d] /\ pc'[d] = pc[d]
  BY DEF EndPass, Goto, TypeOK
<1>2. \A n \in Notes : seen'[c][n] = Absent
  BY <1>1 DEF NoNotes
<1>3. PlansApart'
  BY <1>1, NoPlanFacts DEF LaterInv, PlansApart, NoSyncPlan
<1>. QED  BY <1>1, <1>2, <1>3, NoPlanFacts DEF Decided

(* A step of one client.                                                    *)
LEMMA OneClientLater ==
  ASSUME TypeOK, TypeOK', LaterInv, RowsAdvance, NEW c \in Clients,
         Ordinary' \subseteq Ordinary, timeOf' = timeOf, LatesDecided',
         \A d \in Clients \ {c} : seen'[d] = seen[d] /\ plan'[d] = plan[d] /\ pc'[d] = pc[d] /\ local'[d] = local[d],
         pc'[c] \in {"idle", "stones", "apply", "delete", "refresh", "plan"} => NoSyncPlan(c)',
         plan'[c].pull \cap (plan'[c].push \cup plan'[c].lookup) = {},
         \A n \in Ordinary' : Decided(c, n)'
  PROVE  LaterInv'
<1>1. PlansApart'
  BY DEF LaterInv, PlansApart, NoSyncPlan
<1>2. ASSUME NEW n \in Ordinary', NEW d \in Clients PROVE Decided(d, n)'
  <2>1. CASE d = c
    BY <2>1
  <2>2. CASE d # c
    BY <1>2, <2>2, StillDecided
  <2>. QED  BY <2>1, <2>2
<1>. QED  BY <1>1, <1>2 DEF LaterInv

LEMMA RowsStay == UNCHANGED <<row, timeOf>> => RowsAdvance
BY DEF RowsAdvance

LEMMA LocalsStay == UNCHANGED local => LocalsAdvance
BY DEF LocalsAdvance, Replaced

LEMMA EndPassLater ==
  ASSUME TypeOK, TypeOK', LaterInv, RowsAdvance, NEW c \in Clients, EndPass(c), local' = local,
         Ordinary' \subseteq Ordinary, timeOf' = timeOf, LatesDecided'
  PROVE  LaterInv'
<1>1. plan'[c] = NoPlan /\ \A d \in Clients \ {c} : seen'[d] = seen[d] /\ plan'[d] = plan[d] /\ pc'[d] = pc[d]
  BY DEF EndPass, Goto, TypeOK
<1>2. NoSyncPlan(c)' /\ plan'[c].pull \cap (plan'[c].push \cup plan'[c].lookup) = {}
  BY <1>1, NoPlanFacts DEF NoSyncPlan
<1>3. \A n \in Ordinary' : Decided(c, n)'
  BY EndPassDecided DEF Ordinary
<1>. QED  BY <1>1, <1>2, <1>3, OneClientLater

LEMMA PassLater ==
  ASSUME TypeOK, TypeOK', DeletionInv, LaterInv, NEW c \in Clients, Pass(c)
  PROVE  Right
<1>0. Ordinary' = Ordinary /\ timeOf' = timeOf /\ latePushes' = latePushes /\ edits' = edits
  BY DEF Pass, ReadNotes, ReadTombstones, apply_tombstones, PushLocalDeletes, Refresh, PlanNotes, LookUp, PullNotes, PushNotes,
         save_state, userVars, lateVars, Ordinary, DeletedByUsers
<1>01. LatesDecided'
  BY <1>0 DEF LaterInv, LatesDecided
<1>00. Ordinary \subseteq Notes /\ \A n \in Ordinary : Decided(c, n)
  BY DEF Ordinary, LaterInv
<1>1. CASE ReadNotes(c)
  <2>1. RowsAdvance /\ LocalsAdvance
    BY <1>0, <1>1, RowsStay, LocalsStay DEF ReadNotes, serverVars
  <2>2. NoSyncPlan(c) /\ plan' = plan
    BY <1>1 DEF ReadNotes, LaterInv, PlansApart
  <2>3. \A n \in Ordinary' : Decided(c, n)'
    BY <1>0, <1>1, <2>2 DEF ReadNotes, Decided, NoSyncPlan, serverVars, TypeOK
  <2>4. \A d \in Clients \ {c} : seen'[d] = seen[d] /\ plan'[d] = plan[d] /\ pc'[d] = pc[d] /\ local'[d] = local[d]
    BY <1>1 DEF ReadNotes, Goto, TypeOK
  <2>. QED  BY <1>0, <1>01, <2>1, <2>2, <2>3, <2>4, OneClientLater DEF Right, NoSyncPlan
<1>2. CASE ReadTombstones(c)
  <2>1. RowsAdvance /\ LocalsAdvance
    BY <1>0, <1>2, RowsStay, LocalsStay DEF ReadTombstones, serverVars
  <2>2. NoSyncPlan(c) /\ plan' = plan
    BY <1>2 DEF ReadTombstones, LaterInv, PlansApart
  <2>3. \A n \in Ordinary' : Decided(c, n)'
    BY <1>0, <1>00, <1>2, <2>2 DEF ReadTombstones, Decided, NoSyncPlan, serverVars, TypeOK
  <2>4. \A d \in Clients \ {c} : seen'[d] = seen[d] /\ plan'[d] = plan[d] /\ pc'[d] = pc[d] /\ local'[d] = local[d]
    BY <1>2 DEF ReadTombstones, Goto, TypeOK
  <2>. QED  BY <1>0, <1>01, <2>1, <2>2, <2>3, <2>4, OneClientLater DEF Right, NoSyncPlan
<1>3. CASE apply_tombstones(c)
  <2>1. RowsAdvance
    BY <1>0, <1>3, RowsStay DEF apply_tombstones, serverVars
  <2>2. LocalsAdvance
    BY <1>3 DEF apply_tombstones, LocalsAdvance, Replaced, Ordinary, TypeOK
  <2>3. NoSyncPlan(c)
    BY <1>3 DEF apply_tombstones, LaterInv, PlansApart
  <2>4. /\ NoSyncPlan(c)'
        /\ \A d \in Clients \ {c} : plan'[d] = plan[d]
    <3>1. CASE UNCHANGED plan
      BY <2>3, <3>1 DEF NoSyncPlan
    <3>2. CASE plan' = [plan EXCEPT ![c].delete = compute_local_deletes(c)]
      <4>1. plan' = [plan EXCEPT ![c] = Deleting(plan[c], compute_local_deletes(c))]
        BY <3>2 DEF Deleting
      <4>2. compute_local_deletes(c) \in SUBSET Notes /\ plan[c] \in Plans
        BY DEF compute_local_deletes, Present, TypeOK
      <4>3. plan'[c] = Deleting(plan[c], compute_local_deletes(c)) /\ \A d \in Clients \ {c} : plan'[d] = plan[d]
        BY <4>1 DEF TypeOK
      <4>. QED  BY <2>3, <4>2, <4>3, PlanFacts DEF NoSyncPlan
    <3>. QED  BY <1>3, <3>1, <3>2 DEF apply_tombstones
  <2>5. \A n \in Ordinary' : Decided(c, n)'
    BY <1>0, <1>00, <1>3, <2>4 DEF apply_tombstones, Decided, NoSyncPlan, serverVars
  <2>6. \A d \in Clients \ {c} : seen'[d] = seen[d] /\ pc'[d] = pc[d] /\ local'[d] = local[d]
    BY <1>3 DEF apply_tombstones, Goto, TypeOK
  <2>. QED  BY <1>0, <1>01, <2>1, <2>2, <2>4, <2>5, <2>6, OneClientLater DEF Right, NoSyncPlan
<1>5. CASE Refresh(c)
  <2>1. RowsAdvance /\ LocalsAdvance
    BY <1>0, <1>5, RowsStay, LocalsStay DEF Refresh, serverVars
  <2>2. NoSyncPlan(c) /\ plan' = plan
    BY <1>5 DEF Refresh, LaterInv, PlansApart
  <2>3. \A n \in Ordinary' : Decided(c, n)'
    BY <1>0, <1>5, <2>2 DEF Refresh, Decided, NoSyncPlan, serverVars, TypeOK
  <2>4. \A d \in Clients \ {c} : seen'[d] = seen[d] /\ plan'[d] = plan[d] /\ pc'[d] = pc[d] /\ local'[d] = local[d]
    BY <1>5 DEF Refresh, Goto, TypeOK
  <2>. QED  BY <1>0, <1>01, <2>1, <2>2, <2>3, <2>4, OneClientLater DEF Right, NoSyncPlan
<1>6. CASE PlanNotes(c)
  <2>. DEFINE new == Planned(NotesToPull(c), NotesToPush(c), Winner(c, "none"))
  <2>1. RowsAdvance /\ LocalsAdvance
    BY <1>0, <1>6, RowsStay, LocalsStay DEF PlanNotes, serverVars
  <2>2. plan' = [plan EXCEPT ![c] = new]
    BY <1>6 DEF PlanNotes, Planned
  <2>3. plan'[c].pull = NotesToPull(c) /\ plan'[c].push = NotesToPush(c) /\ plan'[c].lookup = Winner(c, "none")
    BY <2>2 DEF Planned, NoPlan, TypeOK
  <2>4. \A n \in Differing(c) : timeOf[local[c][n]] \in Nat /\ timeOf[seen[c][n]] \in Nat
    BY TimeType DEF Differing, Present, TypeOK
  <2>5. NotesToPull(c) \cap (NotesToPush(c) \cup Winner(c, "none")) = {}
    BY <2>4 DEF NotesToPull, NotesToPush, Winner, newest_side, Differing, Present
  <2>6. \A n \in Ordinary' : Decided(c, n)'
    BY <1>0, <1>00, <1>6, <2>3, <2>4
       DEF PlanNotes, Decided, NotesToPull, NotesToPush, Winner, newest_side, Differing, Present, serverVars
  <2>7. \A d \in Clients \ {c} : seen'[d] = seen[d] /\ plan'[d] = plan[d] /\ pc'[d] = pc[d] /\ local'[d] = local[d]
    BY <1>6, <2>2 DEF PlanNotes, Goto, TypeOK
  <2>8. pc'[c] \in {"lookup", "pull"}
    BY <1>6 DEF PlanNotes, Goto, TypeOK
  <2>. HIDE DEF new
  <2>. QED  BY <1>0, <1>01, <2>1, <2>3, <2>5, <2>6, <2>7, <2>8, OneClientLater DEF Right
<1>7. CASE LookUp(c)
  <2>. DEFINE same == {n \in plan[c].lookup : row[n] = local[c][n]}
              new == LookedUp(plan[c], same)
  <2>1. RowsAdvance /\ LocalsAdvance
    BY <1>0, <1>7, RowsStay, LocalsStay DEF LookUp, serverVars
  <2>2. plan' = [plan EXCEPT ![c] = new]
    BY <1>7 DEF LookUp, LookedUp
  <2>3. plan'[c].pull = plan[c].pull /\ plan'[c].push = plan[c].push \cup same /\ plan'[c].lookup = {}
    <3>1. plan[c] \in Plans /\ same \in SUBSET Notes
      BY DEF TypeOK, Plans
    <3>2. plan'[c] = new
      BY <2>2 DEF TypeOK
    <3>. QED  BY <3>1, <3>2, PlanFacts
  <2>4. plan'[c].pull \cap (plan'[c].push \cup plan'[c].lookup) = {}
    BY <2>3 DEF LaterInv, PlansApart
  <2>5. pc'[c] = "pull" /\ pc[c] = "lookup"
    BY <1>7 DEF LookUp, Goto, TypeOK
  <2>6. ASSUME NEW n \in Ordinary' PROVE Decided(c, n)'
    <3>1. row' = row /\ local' = local /\ seen' = seen /\ timeOf' = timeOf
      BY <1>0, <1>7 DEF LookUp, serverVars
    <3>2. Decided(c, n)
      BY <1>0, <1>00, <2>6
    <3>3. n \in same /\ seen[c][n] # Absent => timeOf[seen[c][n]] < timeOf[local[c][n]]
      BY <3>2 DEF Decided
    <3>. HIDE DEF same
    <3>. QED  BY <2>3, <2>5, <3>1, <3>2, <3>3 DEF Decided
  <2>7. \A d \in Clients \ {c} : seen'[d] = seen[d] /\ plan'[d] = plan[d] /\ pc'[d] = pc[d] /\ local'[d] = local[d]
    <3>1. UNCHANGED <<seen, local>> /\ pc' = [pc EXCEPT ![c] = "pull"]
      BY <1>7 DEF LookUp, Goto
    <3>. HIDE DEF new
    <3>. QED  BY <2>2, <3>1 DEF TypeOK
  <2>. HIDE DEF new, same
  <2>. QED  BY <1>0, <1>01, <2>1, <2>4, <2>5, <2>6, <2>7, OneClientLater DEF Right
<1>4. CASE PushLocalDeletes(c)
  <2>1. RowsAdvance
    <3>1. plan[c].delete \in SUBSET Notes /\ plan[c].delete \subseteq DeletedByUsers'
      BY <1>4 DEF TypeOK, Plans, DeletionInv, PushLocalDeletes, userVars, DeletedByUsers
    <3>. QED  BY <1>4, <3>1, DeleteAdvances DEF PushLocalDeletes
  <2>2. LocalsAdvance
    BY <1>4, LocalsStay DEF PushLocalDeletes
  <2>3. NoSyncPlan(c)
    BY <1>4 DEF PushLocalDeletes, LaterInv, PlansApart
  <2>4. NoSyncPlan(c)' /\ \A d \in Clients \ {c} : plan'[d] = plan[d]
    <3>1. plan' = [plan EXCEPT ![c] = Deleting(plan[c], {})]
      BY <1>4 DEF PushLocalDeletes, Deleting
    <3>2. plan'[c] = Deleting(plan[c], {}) /\ \A d \in Clients \ {c} : plan'[d] = plan[d]
      BY <3>1 DEF TypeOK
    <3>3. plan[c] \in Plans
      BY DEF TypeOK
    <3>. QED  BY <2>3, <3>2, <3>3, PlanFacts DEF NoSyncPlan
  <2>5. \A d \in Clients \ {c} : seen'[d] = seen[d] /\ pc'[d] = pc[d] /\ local'[d] = local[d]
    BY <1>4 DEF PushLocalDeletes, Goto, TypeOK
  <2>6. ASSUME NEW n \in Ordinary' PROVE Decided(c, n)'
    <3>1. row[n] # Absent => row'[n] = row[n]
      BY <1>0, <1>00, <1>4, <2>6 DEF PushLocalDeletes, DeleteNotes, DeletionInv, Ordinary
    <3>. QED  BY <1>0, <1>00, <1>4, <2>4, <2>6, <3>1 DEF PushLocalDeletes, Decided, NoSyncPlan
  <2>. QED  BY <1>0, <1>01, <2>1, <2>2, <2>4, <2>5, <2>6, OneClientLater DEF Right, NoSyncPlan
<1>8. CASE PullNotes(c)
  <2>1. RowsAdvance
    BY <1>0, <1>8, RowsStay DEF PullNotes, serverVars
  <2>2. \A n \in Notes : \/ local'[c][n] = local[c][n]
                         \/ n \in plan[c].pull /\ row[n] # Absent /\ local'[c][n] = row[n]
    BY <1>8 DEF PullNotes, TypeOK
  <2>3. \A d \in Clients \ {c} : seen'[d] = seen[d] /\ plan'[d] = plan[d] /\ pc'[d] = pc[d] /\ local'[d] = local[d]
    BY <1>8 DEF PullNotes, Goto, TypeOK
  <2>4. ASSUME NEW n \in Ordinary', NEW d \in Clients, Replaced(local[d][n], local'[d][n])
        PROVE  timeOf[local[d][n]] < timeOf[local'[d][n]]
    <3>1. d = c /\ n \in Notes /\ n \in Ordinary
      BY <1>0, <1>00, <2>3, <2>4 DEF Replaced
    <3>2. n \in plan[c].pull /\ row[n] # Absent /\ local'[c][n] = row[n] /\ local[c][n] # Absent
      BY <2>2, <2>4, <3>1 DEF Replaced
    <3>3. seen[c][n] # Absent /\ timeOf[local[c][n]] < timeOf[seen[c][n]]
      BY <1>00, <1>8, <3>1, <3>2 DEF PullNotes, Decided
    <3>4. row[n] = seen[c][n] \/ timeOf[seen[c][n]] < timeOf[row[n]]
      BY <1>00, <3>1, <3>3 DEF Decided
    <3>5. timeOf[local[c][n]] \in Nat /\ timeOf[seen[c][n]] \in Nat /\ timeOf[row[n]] \in Nat
      BY <3>1, <3>2, <3>3, TimeType DEF TypeOK
    <3>. QED  BY <3>1, <3>2, <3>3, <3>4, <3>5
  <2>5. LocalsAdvance
    BY <2>4 DEF LocalsAdvance
  <2>6. pc'[c] = "push" /\ plan'[c] = plan[c] /\ seen'[c] = seen[c]
    BY <1>8 DEF PullNotes, Goto, TypeOK
  <2>7. plan[c].pull \cap (plan[c].push \cup plan[c].lookup) = {}
    BY DEF LaterInv, PlansApart
  <2>8. ASSUME NEW n \in Ordinary' PROVE Decided(c, n)'
    <3>1. n \in Notes /\ Decided(c, n)
      BY <1>0, <1>00, <2>8
    <3>2. n \in plan[c].push \cup plan[c].lookup => local'[c][n] = local[c][n]
      BY <2>2, <2>7, <3>1
    <3>. QED  BY <1>0, <1>8, <2>6, <3>1, <3>2 DEF PullNotes, Decided, serverVars
  <2>. QED  BY <1>0, <1>01, <2>1, <2>3, <2>5, <2>6, <2>7, <2>8, OneClientLater DEF Right
<1>9. CASE PushNotes(c)
  <2>. DEFINE stored == [n \in Notes |-> IF n \in plan[c].push \ Refused(c) THEN local[c][n] ELSE Absent]
  <2>1. RowsAdvance
    <3>1. stored \in [Notes -> Version] /\ StoreNotes(stored)
      BY <1>9, EditsFacts DEF PushNotes, TypeOK
    <3>2. ASSUME NEW n \in Ordinary', stored[n] # Absent, row[n] \notin {Absent, stored[n]}
          PROVE  timeOf[row[n]] < timeOf[stored[n]]
      <4>1. n \in Notes /\ Decided(c, n) /\ n \in plan[c].push /\ n \notin Refused(c) /\ stored[n] = local[c][n]
        BY <1>0, <1>00, <3>2
      <4>2. row[n] = seen[c][n]
        BY <3>2, <4>1 DEF Refused, Accepts
      <4>. QED  BY <3>2, <4>1, <4>2 DEF Decided
    <3>. HIDE DEF stored
    <3>. QED  BY <3>1, <3>2, StoreAdvances
  <2>2. LocalsAdvance
    BY <1>9, LocalsStay DEF PushNotes
  <2>3. CASE Goto(c, "rest") /\ UNCHANGED <<seen, gone, plan, conflicted>>
    <3>1. pc'[c] = "rest" /\ \A d \in Clients \ {c} : seen'[d] = seen[d] /\ plan'[d] = plan[d] /\ pc'[d] = pc[d] /\ local'[d] = local[d]
      BY <1>9, <2>3 DEF PushNotes, Goto, TypeOK
    <3>2. ASSUME NEW n \in Ordinary' PROVE Decided(c, n)'
      <4>1. n \in Notes /\ Decided(c, n) /\ seen' = seen /\ plan' = plan /\ local' = local
        BY <1>0, <1>00, <1>9, <2>3, <3>2 DEF PushNotes
      <4>2. row[n] # Absent => row'[n] # Absent /\ (row'[n] = row[n] \/ timeOf[row[n]] < timeOf[row'[n]])
        BY <2>1, <3>2 DEF RowsAdvance
      <4>3. seen[c][n] # Absent => timeOf[seen[c][n]] \in Nat /\ timeOf[row[n]] \in Nat /\ timeOf[row'[n]] \in Nat
        <5>1. seen[c][n] # Absent => row[n] # Absent /\ row'[n] # Absent
          BY <4>1, <4>2 DEF Decided
        <5>2. seen[c][n] \in Version /\ row[n] \in Version /\ row'[n] \in Version
          BY <4>1 DEF TypeOK
        <5>. QED  BY <5>1, <5>2, TimeType
      <4>. QED  BY <1>0, <3>1, <4>1, <4>2, <4>3 DEF Decided
    <3>3. plan'[c].pull \cap (plan'[c].push \cup plan'[c].lookup) = {}
      BY <2>3 DEF LaterInv, PlansApart
    <3>. QED  BY <1>0, <1>01, <2>1, <2>2, <3>1, <3>2, <3>3, OneClientLater DEF Right
  <2>4. CASE EndPass(c)
    BY <1>0, <1>01, <1>9, <2>1, <2>2, <2>4, EndPassLater DEF PushNotes, Right
  <2>. QED  BY <1>9, <2>3, <2>4 DEF PushNotes
<1>10. CASE save_state(c)
  BY <1>0, <1>01, <1>10, RowsStay, LocalsStay, EndPassLater DEF save_state, Right, serverVars
<1>. QED  BY <1>1, <1>2, <1>3, <1>4, <1>5, <1>6, <1>7, <1>8, <1>9, <1>10 DEF Pass

LEMMA UserLater ==
  ASSUME TypeOK, TypeOK', LaterInv, NEW c \in Clients, User(c)
  PROVE  Right
<1>1. PICK n \in Notes :
        Create(c, n) \/ Edit(c, n) \/ Delete(c, n) \/ force_local_note(c, n) \/ accept_server_note(c, n)
  BY DEF User
<1>2. /\ NoSyncPlan(c) /\ UNCHANGED <<seen, plan, pc, latePushes, timeOf>>
      /\ Ordinary' \subseteq Ordinary
      /\ \A d \in Clients \ {c} : local'[d] = local[d]
  <2>1. pc[c] = "idle"
    BY <1>1 DEF Create, Edit, Delete, force_local_note, accept_server_note
  <2>2. /\ UNCHANGED <<seen, plan, pc, latePushes, timeOf>>
        /\ \A d \in Clients \ {c} : local'[d] = local[d]
    BY <1>1 DEF Create, Edit, Delete, force_local_note, accept_server_note, Write, passVars, lateVars, TypeOK
  <2>3. \A d \in Clients : userDeleted[d] \subseteq userDeleted'[d]
    <3>1. CASE Delete(c, n)
      BY <3>1 DEF Delete, TypeOK
    <3>2. CASE ~Delete(c, n)
      BY <1>1, <3>2 DEF Create, Edit, force_local_note, accept_server_note
    <3>. QED  BY <3>1, <3>2
  <2>4. DeletedByUsers \subseteq DeletedByUsers'
    BY <2>3 DEF DeletedByUsers
  <2>5. forced \subseteq forced'
    BY <1>1 DEF Create, Edit, Delete, force_local_note, accept_server_note
  <2>. QED  BY <2>1, <2>2, <2>4, <2>5 DEF LaterInv, PlansApart, Ordinary
<1>3. RowsAdvance
  <2>1. CASE force_local_note(c, n)
    <3>1. [NoNotes EXCEPT ![n] = local[c][n]] \in [Notes -> Version] /\ \A m \in Ordinary' : [NoNotes EXCEPT ![n] = local[c][n]][m] = Absent
      BY <2>1, EditsFacts DEF force_local_note, NoNotes, Ordinary, TypeOK
    <3>. QED  BY <2>1, <3>1, StoreAdvances DEF force_local_note
  <2>2. CASE ~force_local_note(c, n)
    BY <1>1, <1>2, <2>2, RowsStay DEF Create, Edit, Delete, accept_server_note, serverVars
  <2>. QED  BY <2>1, <2>2
<1>4. LocalsAdvance
  <2>1. CASE Create(c, n) \/ Edit(c, n) \/ Delete(c, n)
    BY <2>1 DEF Create, Edit, Delete, Write, LocalsAdvance, TypeOK, Edits
  <2>2. CASE force_local_note(c, n)
    BY <2>2, LocalsStay DEF force_local_note
  <2>3. CASE accept_server_note(c, n)
    BY <2>3 DEF accept_server_note, LocalsAdvance, Replaced, Ordinary, TypeOK
  <2>. QED  BY <1>1, <2>1, <2>2, <2>3
<1>5. ASSUME NEW m \in Ordinary' PROVE Decided(c, m)'
  <2>1. m \in Notes /\ Decided(c, m)
    BY <1>2, <1>5 DEF LaterInv, Ordinary
  <2>2. row[m] # Absent => row'[m] # Absent /\ (row'[m] = row[m] \/ timeOf[row[m]] < timeOf[row'[m]])
    BY <1>3, <1>5 DEF RowsAdvance
  <2>3. seen[c][m] # Absent => timeOf[seen[c][m]] \in Nat /\ timeOf[row[m]] \in Nat /\ timeOf[row'[m]] \in Nat
    <3>1. seen[c][m] # Absent => row[m] # Absent /\ row'[m] # Absent
      BY <2>1, <2>2 DEF Decided
    <3>2. seen[c][m] \in Version /\ row[m] \in Version /\ row'[m] \in Version
      BY <2>1 DEF TypeOK
    <3>. QED  BY <1>2, <3>1, <3>2, TimeType
  <2>. QED  BY <1>2, <2>1, <2>2, <2>3 DEF Decided, NoSyncPlan
<1>6. LatesDecided'
  BY <1>2 DEF LaterInv, LatesDecided
<1>. QED  BY <1>2, <1>3, <1>4, <1>5, <1>6, OneClientLater DEF Right, NoSyncPlan

LEMMA FailureLater ==
  ASSUME TypeOK, TypeOK', DeletionInv, LaterInv,
         \/ \E c \in Clients : DeletionSafetyError(c) \/ Fail(c) \/ LoseSnapshot(c)
         \/ \E push \in latePushes : LatePush(push)
         \/ \E notes \in lateDeletes : LateDelete(notes)
         \/ Lose
  PROVE  Right
<1>0. Ordinary' = Ordinary /\ timeOf' = timeOf /\ edits' = edits /\ UNCHANGED local
  BY DEF DeletionSafetyError, Fail, LoseSnapshot, LatePush, LateDelete, Lose, userVars, Ordinary, DeletedByUsers
<1>00. Ordinary \subseteq Notes /\ LocalsAdvance
  BY <1>0, LocalsStay DEF Ordinary
<1>1. ASSUME NEW c \in Clients, DeletionSafetyError(c) PROVE Right
  <2>1. LatesDecided'
    BY <1>0, <1>1 DEF DeletionSafetyError, lateVars, LaterInv, LatesDecided
  <2>. QED  BY <1>0, <1>00, <1>1, <2>1, RowsStay, EndPassLater DEF DeletionSafetyError, Right, serverVars
<1>2. ASSUME NEW c \in Clients, Fail(c) PROVE Right
  <2>1. ASSUME NEW p \in latePushes', p[1] \in Ordinary, p[3] # Absent
        PROVE  timeOf[p[3]] < timeOf[p[2]]
    <3>1. CASE p \in latePushes
      BY <2>1, <3>1 DEF LaterInv, LatesDecided
    <3>2. CASE p \notin latePushes
      <4>1. PICK n \in plan[c].push : p = <<n, local[c][n], seen[c][n]>>
        BY <1>2, <3>2 DEF Fail
      <4>2. n \in Ordinary /\ seen[c][n] # Absent /\ p[2] = local[c][n] /\ p[3] = seen[c][n]
        BY <2>1, <4>1
      <4>. QED  BY <4>1, <4>2 DEF LaterInv, Decided
    <3>. QED  BY <3>1, <3>2
  <2>2. LatesDecided'
    BY <1>0, <2>1 DEF LatesDecided
  <2>. QED  BY <1>0, <1>00, <1>2, <2>2, RowsStay, EndPassLater DEF Fail, Right, serverVars
<1>3. ASSUME RowsAdvance, LatesDecided', UNCHANGED <<seen, plan, pc>>
      PROVE  Right
  <2>1. PlansApart'
    BY <1>3 DEF LaterInv, PlansApart, NoSyncPlan
  <2>2. \A n \in Ordinary', c \in Clients : Decided(c, n)'
    BY <1>0, <1>3, StillDecided
  <2>. QED  BY <1>00, <1>3, <2>1, <2>2 DEF Right, LaterInv
<1>4. ASSUME NEW c \in Clients, LoseSnapshot(c) PROVE Right
  BY <1>0, <1>3, <1>4, RowsStay DEF LoseSnapshot, serverVars, lateVars, passVars, LaterInv, LatesDecided
<1>5. ASSUME NEW push \in latePushes, LatePush(push) PROVE Right
  <2>1. LatesDecided' /\ UNCHANGED <<seen, plan, pc>>
    BY <1>0, <1>5 DEF LatePush, passVars, LaterInv, LatesDecided
  <2>2. RowsAdvance
    <3>1. CASE Accepts(push[1], push[2], push[3])
      <4>. DEFINE stored == [NoNotes EXCEPT ![push[1]] = push[2]]
      <4>1. push[1] \in Notes /\ push[2] \in Version /\ stored \in [Notes -> Version] /\ StoreNotes(stored)
        BY <1>5, <3>1, EditsFacts DEF LatePush, TypeOK, NoNotes
      <4>2. \A n \in Notes \ {push[1]} : stored[n] = Absent
        BY DEF NoNotes
      <4>3. stored[push[1]] = push[2]
        BY <4>1 DEF NoNotes
      <4>4. push[1] \in Ordinary /\ row[push[1]] \notin {Absent, push[2]} => timeOf[row[push[1]]] < timeOf[push[2]]
        BY <3>1 DEF Accepts, LaterInv, LatesDecided
      <4>. HIDE DEF stored
      <4>5. ASSUME NEW n \in Ordinary', stored[n] # Absent PROVE row[n] \in {Absent, stored[n]} \/ timeOf[row[n]] < timeOf[stored[n]]
        BY <1>0, <1>00, <4>2, <4>3, <4>4, <4>5
      <4>. QED  BY <4>1, <4>5, StoreAdvances
    <3>2. CASE UNCHANGED serverVars
      BY <1>0, <3>2, RowsStay DEF serverVars
    <3>. QED  BY <1>5, <3>1, <3>2 DEF LatePush
  <2>. QED  BY <1>3, <2>1, <2>2
<1>6. ASSUME NEW notes \in lateDeletes, LateDelete(notes) PROVE Right
  <2>1. LatesDecided' /\ UNCHANGED <<seen, plan, pc>>
    BY <1>0, <1>6 DEF LateDelete, passVars, LaterInv, LatesDecided
  <2>2. RowsAdvance
    <3>1. notes \in SUBSET Notes /\ notes \subseteq DeletedByUsers'
      BY <1>6 DEF DeletionInv, LateDelete, TypeOK, userVars, DeletedByUsers
    <3>. QED  BY <1>6, <3>1, DeleteAdvances DEF LateDelete
  <2>. QED  BY <1>3, <2>1, <2>2
<1>7. CASE Lose
  BY <1>0, <1>3, <1>7, RowsStay DEF Lose, serverVars, passVars, LaterInv, LatesDecided
<1>. QED  BY <1>1, <1>2, <1>4, <1>5, <1>6, <1>7

LEMMA StepLater == TypeOK /\ DeletionInv /\ LaterInv /\ Next => Right
BY StepTyped, UserLater, PassLater, FailureLater DEF Next

LEMMA StutterLater == LaterInv /\ UNCHANGED vars => LaterInv'
BY DEF LaterInv, PlansApart, NoSyncPlan, Decided, LatesDecided, Ordinary, DeletedByUsers, vars, serverVars, lateVars, passVars, userVars

(* Synchronisation replaces an edit only by one with a later time, whatever  *)
(* the server received since the manifest was read.                        *)
THEOREM OnlyLaterEditsReplaceHolds == Spec => OnlyLaterEditsReplace
<1>1. TypeOK /\ DeletionInv /\ [Next]_vars => DeletionInv'
  BY StepDeletes, StutterDeletes DEF Good
<1>2. TypeOK /\ DeletionInv /\ LaterInv /\ [Next]_vars => LaterInv'
  BY StepLater, StutterLater DEF Right
<1>3. TypeOK /\ DeletionInv /\ LaterInv /\ [Next]_vars => [OnlyLater]_vars
  BY StepLater, Advance DEF Right
<1>4. Spec => [](DeletionInv /\ LaterInv)
  BY <1>1, <1>2, InitDeletions, InitLater, TypeCorrect, PTL DEF Spec
<1>5. Spec => [][OnlyLater]_vars
  BY <1>3, <1>4, TypeCorrect, PTL DEF Spec
<1>. QED  BY <1>5 DEF OnlyLaterEditsReplace, OnlyLater
=============================================================================
