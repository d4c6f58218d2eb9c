-------------------------- MODULE MediaSync_proofs --------------------------
(***************************************************************************)
(* Theorems about media files, for every set of files, devices and         *)
(* contents, either store, and any number of edits, deletions, late        *)
(* requests and failures.                                                  *)
(***************************************************************************)
EXTENDS MediaSync, TLAPS

-----------------------------------------------------------------------------
(* Types.                                                                   *)

LEMMA InitTyped == Init => TypeOK
BY MediaConstants DEF Init, TypeOK, MaybeData, Nothing, NoTries

LEMMA BusyTyped ==
  ASSUME TypeOK, NEW s \in Slots, Busy(s)
  PROVE  /\ request[s] \in Request
         /\ request[s].file \in Files /\ request[s].data \in MaybeData
BY DEF TypeOK, Busy, Request

LEMMA AnsweredTyped ==
  ASSUME TypeOK, NEW s \in Slots,
         Succeeded(s) \/ Failed(s)
  PROVE  /\ task' \in [Devices -> [Files -> {"none", "up", "down", "error"}]]
         /\ tries' \in [Devices -> [Files -> 0..(MaxTries - 1)]]
         /\ \A d \in Devices, f \in Files : task'[d][f] = "up" => task[d][f] = "up"
<1>1. ASSUME NEW result, NEW count \in 0..(MaxTries - 1), Answered(s, result, count),
             \/ result \in {"none", "error"}
             \/ \E d \in Devices, f \in Files : s = <<d, f>> /\ result = task[d][f]
      PROVE  /\ task' \in [Devices -> [Files -> {"none", "up", "down", "error"}]]
             /\ tries' \in [Devices -> [Files -> 0..(MaxTries - 1)]]
             /\ \A d \in Devices, f \in Files : task'[d][f] = "up" => task[d][f] = "up"
  <2>1. \/ result \in {"none", "error"}
        \/ result \in {"none", "up", "down", "error"} /\ \A d \in Devices, f \in Files : s = <<d, f>> => result = task[d][f]
    BY <1>1 DEF TypeOK
  <2>2. task' = [d \in Devices |-> [f \in Files |-> IF s = <<d, f>> THEN result ELSE task[d][f]]]
    BY <1>1 DEF Answered
  <2>3. tries' = [d \in Devices |-> [f \in Files |-> IF s = <<d, f>> THEN count ELSE tries[d][f]]]
    BY <1>1 DEF Answered
  <2>4. /\ task' \in [Devices -> [Files -> {"none", "up", "down", "error"}]]
        /\ \A d \in Devices, f \in Files : task'[d][f] = "up" => task[d][f] = "up"
    BY <2>1, <2>2 DEF TypeOK
  <2>5. tries' \in [Devices -> [Files -> 0..(MaxTries - 1)]]
    BY <2>3 DEF TypeOK
  <2>. QED  BY <2>4, <2>5
<1>2. CASE Succeeded(s)
  <2>1. 0 \in 0..(MaxTries - 1)
    BY MediaConstants
  <2>. QED  BY <1>1, <1>2, <2>1 DEF Succeeded
<1>3. CASE Failed(s) /\ s \in Late
  BY <1>3 DEF Failed, TypeOK
<1>4. CASE Failed(s) /\ s \notin Late
  <2>1. PICK d \in Devices, f \in Files : s = <<d, f>>
    BY <1>4 DEF Slots, Own
  <2>2. /\ s[1] = d /\ s[2] = f
        /\ tries[d][f] \in 0..(MaxTries - 1)
    BY <2>1 DEF TypeOK
  <2>3. CASE tries[d][f] + 1 < MaxTries
    <3>1. Answered(s, task[d][f], tries[d][f] + 1)
      BY <1>4, <2>2, <2>3 DEF Failed
    <3>2. tries[d][f] + 1 \in 0..(MaxTries - 1)
      BY <2>2, <2>3, MediaConstants
    <3>. QED  BY <1>1, <2>1, <3>1, <3>2
  <2>4. CASE ~(tries[d][f] + 1 < MaxTries)
    <3>1. Answered(s, "error", 0)
      BY <1>4, <2>2, <2>4 DEF Failed
    <3>2. 0 \in 0..(MaxTries - 1)
      BY MediaConstants
    <3>. QED  BY <1>1, <3>1, <3>2
  <2>. QED  BY <2>3, <2>4
<1>. QED  BY <1>2, <1>3, <1>4

LEMMA RequestsTyped ==
  ASSUME TypeOK, NEW s \in Slots, NEW f \in Files, NEW from,
         NEW to \in {"temp", "blob", "lost"}
  PROVE  Moved(s, f, from, to) \in Request \cup {Free}
<1>1. request[s] \in Request \cup {Free}
  BY DEF TypeOK
<1>2. CASE Busy(s)
  <2>1. request[s] \in Request
    BY <1>1, <1>2 DEF Busy
  <2>2. [request[s] EXCEPT !.handle = to] \in Request
    BY <2>1 DEF Request
  <2>. QED  BY <2>1, <2>2 DEF Moved
<1>3. CASE ~Busy(s)
  BY <1>1, <1>3 DEF Moved
<1>. QED  BY <1>2, <1>3

(* Of a request whose file was moved, the handle alone changes.             *)
LEMMA MovedFacts ==
  ASSUME TypeOK, NEW t \in Slots, NEW f \in Files, NEW from, NEW to \in {"temp", "blob", "lost"}
  PROVE  /\ ~Busy(t) \/ request[t].file # f => Moved(t, f, from, to) = request[t]
         /\ Busy(t) => /\ Moved(t, f, from, to) # Free
                       /\ Moved(t, f, from, to).file = request[t].file
                       /\ Moved(t, f, from, to).data = request[t].data
                       /\ Moved(t, f, from, to).step = request[t].step
<1>1. ~Busy(t) \/ request[t].file # f => Moved(t, f, from, to) = request[t]
  BY DEF Moved
<1>2. ASSUME Busy(t)
      PROVE  /\ Moved(t, f, from, to) # Free
             /\ Moved(t, f, from, to).file = request[t].file
             /\ Moved(t, f, from, to).data = request[t].data
             /\ Moved(t, f, from, to).step = request[t].step
  <2>1. request[t] \in Request /\ request[t] # Free
    BY <1>2, BusyTyped DEF Busy
  <2>2. CASE Moved(t, f, from, to) = request[t]
    BY <2>1, <2>2
  <2>3. CASE Moved(t, f, from, to) = [request[t] EXCEPT !.handle = to]
    <3>1. [request[t] EXCEPT !.handle = to] \in Request
      BY <2>1 DEF Request
    <3>2. /\ [request[t] EXCEPT !.handle = to].file = request[t].file
          /\ [request[t] EXCEPT !.handle = to].data = request[t].data
          /\ [request[t] EXCEPT !.handle = to].step = request[t].step
      BY <2>1 DEF Request
    <3>. QED  BY <2>3, <3>1, <3>2, FreeIsNoRequest
  <2>. QED  BY <2>2, <2>3 DEF Moved
<1>. QED  BY <1>1, <1>2

LEMMA StepTyped ==
  ASSUME TypeOK, NEW s \in Slots, Busy(s), NEW step \in PutSteps \cup DeleteSteps \cup GetSteps
  PROVE  /\ [request[s] EXCEPT !.step = step] \in Request
         /\ \A handle \in {"temp", "blob", "lost"} :
              [request[s] EXCEPT !.step = step, !.handle = handle] \in Request
BY BusyTyped DEF Request

LEMMA GoToTyped ==
  ASSUME TypeOK, NEW s \in Slots, Busy(s), NEW step \in PutSteps \cup DeleteSteps \cup GetSteps,
         GoTo(s, step)
  PROVE  request' \in [Slots -> Request \cup {Free}]
BY StepTyped DEF GoTo, TypeOK

LEMMA EndTyped ==
  ASSUME TypeOK, NEW s \in Slots, End(s)
  PROVE  request' \in [Slots -> Request \cup {Free}]
BY DEF End, TypeOK

LEMMA ArriveTyped ==
  ASSUME TypeOK, NEW s \in Slots, NEW f \in Files, NEW data \in MaybeData,
         NEW step \in PutSteps \cup DeleteSteps \cup GetSteps, Arrive(s, f, data, step)
  PROVE  /\ request' \in [Slots -> Request \cup {Free}]
         /\ overlapped' \subseteq Files
<1>1. [file |-> f, data |-> data, handle |-> "lost", step |-> step] \in Request
  BY DEF Request
<1>. QED  BY <1>1 DEF Arrive, TypeOK

LEMMA FailsTyped ==
  ASSUME TypeOK, Fails
  PROVE  failures' \in 0..MaxFailures
BY MediaConstants DEF TypeOK, Fails

LEMMA PutTyped ==
  ASSUME TypeOK, NEW s \in Slots,
         \/ RejectLarge(s) \/ PutObject(s) \/ CreateTemp(s) \/ CopyData(s) \/ RenameTemp(s)
         \/ RenameFails(s) \/ UpsertRow(s) \/ ClearTombstone(s)
  PROVE  TypeOK'
<1>. USE DEF PutSteps
<1>0. Busy(s)
  BY DEF RejectLarge, PutObject, CreateTemp, CopyData, RenameTemp, RenameFails, UpsertRow, ClearTombstone, At
<1>1. request[s] \in Request /\ request[s].file \in Files /\ request[s].data \in MaybeData
  BY <1>0, BusyTyped
<1>2. CASE RejectLarge(s)
  BY <1>2, EndTyped, AnsweredTyped DEF RejectLarge, TypeOK, serverVars, storeVars, passVars, boundVars
<1>3. CASE PutObject(s)
  BY <1>0, <1>1, <1>3, GoToTyped DEF PutObject, TypeOK, serverVars, storeVars, passVars, boundVars
<1>4. CASE CreateTemp(s)
  <2>1. [request[s] EXCEPT !.handle = "temp", !.step = "copy"] \in Request
    BY <1>1 DEF Request
  <2>2. request' \in [Slots -> Request \cup {Free}]
    BY <1>4, <2>1 DEF CreateTemp, TypeOK
  <2>3. temp' \in [Files -> MaybeData]
    BY <1>4 DEF CreateTemp, TypeOK, MaybeData, Data, Damaged
  <2>. QED  BY <1>4, <2>2, <2>3 DEF CreateTemp, TypeOK, serverVars, storeVars, passVars, boundVars
<1>5. CASE CopyData(s)
  <2>1. \A old : Overwritten(old, request[s].data) \subseteq MaybeData
    BY <1>1 DEF Overwritten, MaybeData, Data, Damaged
  <2>2. temp' \in [Files -> MaybeData] /\ blob' \in [Files -> MaybeData]
    <3>1. request[s].handle \in {"temp", "blob", "lost"}
      BY <1>1 DEF Request
    <3>2. CASE request[s].handle = "temp"
      <4>1. PICK new \in Overwritten(temp[request[s].file], request[s].data) :
              temp' = [temp EXCEPT ![request[s].file] = new] /\ blob' = blob
        BY <1>5, <3>2 DEF CopyData
      <4>. QED  BY <2>1, <4>1 DEF TypeOK
    <3>3. CASE request[s].handle = "blob"
      <4>1. PICK new \in Overwritten(blob[request[s].file], request[s].data) :
              blob' = [blob EXCEPT ![request[s].file] = new] /\ temp' = temp
        BY <1>5, <3>3 DEF CopyData
      <4>. QED  BY <2>1, <4>1 DEF TypeOK
    <3>4. CASE request[s].handle = "lost"
      BY <1>5, <3>4 DEF CopyData, TypeOK, storeVars
    <3>. QED  BY <3>1, <3>2, <3>3, <3>4
  <2>. QED  BY <1>0, <1>5, <2>2, GoToTyped DEF CopyData, TypeOK, serverVars, storeVars, passVars, boundVars
<1>6. CASE RenameTemp(s)
  <2>1. [request[s] EXCEPT !.handle = "lost", !.step = "row"] \in Request
    BY <1>1 DEF Request
  <2>2. \A t \in Slots : /\ Moved(t, request[s].file, "temp", "blob") \in Request \cup {Free}
                         /\ Moved(t, request[s].file, "blob", "lost") \in Request \cup {Free}
    BY <1>1, RequestsTyped
  <2>3. request' \in [Slots -> Request \cup {Free}]
    BY <1>6, <2>1, <2>2 DEF RenameTemp
  <2>4. temp' \in [Files -> MaybeData] /\ blob' \in [Files -> MaybeData]
    BY <1>1, <1>6 DEF RenameTemp, TypeOK, MaybeData
  <2>. QED  BY <1>6, <2>3, <2>4 DEF RenameTemp, TypeOK, serverVars, storeVars, passVars, boundVars
<1>7. CASE RenameFails(s)
  BY <1>7, EndTyped, AnsweredTyped DEF RenameFails, TypeOK, serverVars, storeVars, passVars, boundVars
<1>8. CASE UpsertRow(s)
  BY <1>0, <1>1, <1>8, GoToTyped DEF UpsertRow, TypeOK, serverVars, storeVars, passVars, boundVars
<1>9. CASE ClearTombstone(s)
  BY <1>9, EndTyped, AnsweredTyped DEF ClearTombstone, TypeOK, serverVars, storeVars, passVars, boundVars
<1>. QED  BY <1>2, <1>3, <1>4, <1>5, <1>6, <1>7, <1>8, <1>9

LEMMA DeleteTyped ==
  ASSUME TypeOK, NEW s \in Slots, TakeRow(s) \/ RemoveBlob(s) \/ WriteTombstone(s)
  PROVE  TypeOK'
<1>0. Busy(s)
  BY DEF TakeRow, RemoveBlob, WriteTombstone, At
<1>1. request[s] \in Request /\ request[s].file \in Files
  BY <1>0, BusyTyped
<1>2. CASE TakeRow(s)
  <2>1. request' \in [Slots -> Request \cup {Free}]
    <3>1. PICK step \in DeleteSteps : GoTo(s, step)
      BY <1>2 DEF TakeRow, DeleteSteps
    <3>. QED  BY <1>0, <3>1, GoToTyped
  <2>. QED  BY <1>2, <2>1 DEF TakeRow, TypeOK, serverVars, storeVars, passVars, boundVars
<1>3. CASE RemoveBlob(s)
  <2>1. [request[s] EXCEPT !.step = "stone"] \in Request
    BY <1>1 DEF Request, DeleteSteps
  <2>2. \A t \in Slots : Moved(t, request[s].file, "blob", "lost") \in Request \cup {Free}
    BY <1>1, RequestsTyped
  <2>3. request' \in [Slots -> Request \cup {Free}]
    BY <1>3, <2>1, <2>2 DEF RemoveBlob
  <2>. QED  BY <1>3, <2>3 DEF RemoveBlob, TypeOK, MaybeData, serverVars, storeVars, passVars, boundVars
<1>4. CASE WriteTombstone(s)
  BY <1>1, <1>4, EndTyped DEF WriteTombstone, TypeOK, serverVars, storeVars, passVars, boundVars
<1>. QED  BY <1>2, <1>3, <1>4

LEMMA GetTyped ==
  ASSUME TypeOK, NEW s \in Slots, FindRow(s) \/ OpenBlob(s)
  PROVE  TypeOK'
<1>0. Busy(s)
  BY DEF FindRow, OpenBlob, At
<1>1. request[s] \in Request /\ request[s].file \in Files
  BY <1>0, BusyTyped
<1>2. CASE FindRow(s)
  <2>1. CASE request[s].file \in listed
    BY <1>0, <1>2, <2>1, GoToTyped DEF FindRow, TypeOK, GetSteps, serverVars, storeVars, passVars, boundVars
  <2>2. CASE request[s].file \notin listed
    BY <1>2, <2>2, EndTyped, AnsweredTyped DEF FindRow, TypeOK, serverVars, storeVars, passVars, boundVars
  <2>. QED  BY <2>1, <2>2
<1>3. CASE OpenBlob(s)
  <2>1. local' \in [Devices -> [Files -> MaybeData]]
    <3>1. blob[request[s].file] \in MaybeData
      BY <1>1 DEF TypeOK
    <3>. QED  BY <1>1, <1>3, <3>1 DEF OpenBlob, TypeOK
  <2>. QED  BY <1>3, <2>1, EndTyped, AnsweredTyped DEF OpenBlob, TypeOK, serverVars, storeVars, passVars, boundVars
<1>. QED  BY <1>2, <1>3

LEMMA FailureTyped ==
  ASSUME TypeOK, Failure
  PROVE  TypeOK'
<1>1. ASSUME NEW s \in Slots, LeaveTombstone(s)
      PROVE  TypeOK'
  BY <1>1, EndTyped, AnsweredTyped, FailsTyped DEF LeaveTombstone, TypeOK, serverVars, storeVars, passVars, boundVars
<1>2. ASSUME NEW s \in Slots, LeaveBlob(s)
      PROVE  TypeOK'
  <2>1. request' \in [Slots -> Request \cup {Free}]
    BY <1>2, GoToTyped DEF LeaveBlob, At, DeleteSteps
  <2>. QED  BY <1>2, <2>1, FailsTyped DEF LeaveBlob, TypeOK, serverVars, storeVars, passVars, boundVars
<1>3. ASSUME NEW s \in Slots, Fail(s)
      PROVE  TypeOK'
  BY <1>3, EndTyped, AnsweredTyped, FailsTyped DEF Fail, TypeOK, serverVars, storeVars, passVars, boundVars
<1>4. ASSUME NEW s \in Slots, FailCopy(s)
      PROVE  TypeOK'
  <2>1. request[s].file \in Files
    BY <1>4, BusyTyped DEF FailCopy, At
  <2>2. \A t \in Slots : Moved(t, request[s].file, "temp", "lost") \in Request \cup {Free}
    BY <2>1, RequestsTyped
  <2>3. request' \in [Slots -> Request \cup {Free}] /\ temp' \in [Files -> MaybeData]
    BY <1>4, <2>2 DEF FailCopy, TypeOK, MaybeData
  <2>. QED  BY <1>4, <2>3, AnsweredTyped, FailsTyped DEF FailCopy, TypeOK, serverVars, storeVars, passVars, boundVars
<1>5. ASSUME NEW s \in Own, NEW late \in Late, GiveUp(s, late)
      PROVE  TypeOK'
  <2>1. s \in Slots /\ late \in Slots
    BY DEF Slots
  <2>2. request' \in [Slots -> Request \cup {Free}]
    BY <1>5, <2>1 DEF GiveUp, TypeOK
  <2>. QED  BY <1>5, <2>1, <2>2, AnsweredTyped, FailsTyped DEF GiveUp, TypeOK, serverVars, storeVars, passVars, boundVars
<1>6. ASSUME NEW d \in Devices, Stop(d)
      PROVE  TypeOK'
  BY <1>6, FailsTyped, MediaConstants DEF Stop, TypeOK, Nothing, NoTries, serverVars, storeVars, passVars, boundVars
<1>. QED  BY <1>1, <1>2, <1>3, <1>4, <1>5, <1>6 DEF Failure

LEMMA PhaseTyped ==
  ASSUME NEW tasks
  PROVE  Phase(tasks) \in {"idle", "upload", "download"}
BY DEF Phase

LEMMA PassTyped ==
  ASSUME TypeOK, NEW d \in Devices, PassStep(d)
  PROVE  TypeOK'
<1>1. CASE BeginPass(d)
  <2>1. [f \in Files |-> Plan(d, f)] \in [Files -> {"none", "up", "down", "error"}]
    BY DEF Plan
  <2>. QED  BY <1>1, <2>1, PhaseTyped DEF BeginPass, TypeOK, serverVars, storeVars, passVars, boundVars
<1>2. CASE EndPhase(d)
  BY <1>2, PhaseTyped DEF EndPhase, TypeOK, Nothing, serverVars, storeVars, passVars, boundVars
<1>3. ASSUME NEW f \in Files, Upload(d, f)
      PROVE  TypeOK'
  <2>1. <<d, f>> \in Slots /\ local[d][f] \in MaybeData
    BY DEF Slots, Own, TypeOK
  <2>. QED  BY <1>3, <2>1, ArriveTyped DEF Upload, TypeOK, PutSteps, serverVars, storeVars, passVars, boundVars
<1>4. ASSUME NEW f \in Files, Download(d, f)
      PROVE  TypeOK'
  <2>1. <<d, f>> \in Slots /\ NoFile \in MaybeData
    BY DEF Slots, Own, MaybeData
  <2>. QED  BY <1>4, <2>1, ArriveTyped DEF Download, TypeOK, GetSteps, serverVars, storeVars, passVars, boundVars
<1>. QED  BY <1>1, <1>2, <1>3, <1>4 DEF PassStep

LEMMA NextTyped == TypeOK /\ [Next]_vars => TypeOK'
<1>. SUFFICES ASSUME TypeOK, [Next]_vars
              PROVE  TypeOK'
  OBVIOUS
<1>1. ASSUME NEW s \in Slots, Statement(s)
      PROVE  TypeOK'
  BY <1>1, PutTyped, DeleteTyped, GetTyped DEF Statement
<1>2. ASSUME NEW d \in Devices, NEW f \in Files, NEW data \in Contents, ChangeFile(d, f, data)
      PROVE  TypeOK'
  <2>1. edits' \in 0..MaxEdits
    BY <1>2, MediaConstants DEF ChangeFile, TypeOK
  <2>. QED  BY <1>2, <2>1 DEF ChangeFile, TypeOK, MaybeData, Data, serverVars, storeVars, passVars, boundVars
<1>3. ASSUME NEW s \in Late, NEW f \in Files, RequestDelete(s, f)
      PROVE  TypeOK'
  <2>1. deletes' \in 0..MaxDeletes
    BY <1>3, MediaConstants DEF RequestDelete, TypeOK
  <2>2. s \in Slots /\ NoFile \in MaybeData
    BY DEF Slots, MaybeData
  <2>. QED  BY <1>3, <2>1, <2>2, ArriveTyped DEF RequestDelete, TypeOK, DeleteSteps, serverVars, storeVars, passVars, boundVars
<1>4. CASE UNCHANGED vars
  BY <1>4 DEF vars, TypeOK, serverVars, storeVars, passVars, boundVars
<1>. QED  BY <1>1, <1>2, <1>3, <1>4, PassTyped, FailureTyped DEF Next

(* The type invariant of MediaSync.                                         *)
THEOREM TypeCorrect == Spec => []TypeOK
<1>. QED  BY InitTyped, NextTyped, PTL DEF Spec

-----------------------------------------------------------------------------
(* The inductive invariant.  Of a file that no two requests have changed at *)
(* once, at most one is changing it now, and how far that one is tells what *)
(* the store holds.                                                         *)

OneWriter ==
  \A s, t \in Slots :
    s # t /\ Writes(s) /\ Writes(t) /\ request[s].file = request[t].file =>
      request[s].file \in overlapped

InHand(r) ==
  /\ r.step \in PutSteps => r.data \in Contents
  /\ r.step \in DeleteSteps => r.data = NoFile
  /\ r.step = "copy" => r.handle = "temp" /\ temp[r.file] = Empty
  /\ r.step = "rename" => temp[r.file] = r.data
  /\ r.step = "row" => blob[r.file] = r.data
  /\ r.step = "remove" => r.file \notin listed

LoneWriter == \A s \in Slots : Writes(s) /\ request[s].file \notin overlapped => InHand(request[s])

PlannedIsHere == \A d \in Devices, f \in Files : task[d][f] = "up" => local[d][f] # NoFile

IInv == TypeOK /\ OneWriter /\ LoneWriter /\ PlannedIsHere /\ ListedIsStored /\ OnlyWholeFiles

LEMMA ContentFacts ==
  /\ Contents \subseteq MaybeData
  /\ \A x \in Contents : x # NoFile /\ x \notin Damaged /\ x # Empty
  /\ \A x \in MaybeData : x # NoFile /\ x \notin Damaged => x \in Contents
  /\ Empty # NoFile /\ Broken # NoFile
BY MediaConstants DEF MaybeData, Data, Damaged

LEMMA InitSafe == Init => IInv
<1>. SUFFICES ASSUME Init
              PROVE  IInv
  OBVIOUS
<1>1. \A s \in Slots : ~Busy(s)
  BY DEF Init, Busy
<1>2. OneWriter /\ LoneWriter
  BY <1>1 DEF OneWriter, LoneWriter, Writes
<1>3. PlannedIsHere /\ ListedIsStored
  BY DEF Init, PlannedIsHere, ListedIsStored, Nothing
<1>4. OnlyWholeFiles
  BY ContentFacts DEF Init, OnlyWholeFiles, Damaged
<1>. QED  BY <1>2, <1>3, <1>4, InitTyped DEF IInv

(* A step that changes neither the store nor what any writer has in hand.   *)
LEMMA QuietStep ==
  ASSUME IInv, UNCHANGED <<listed, blob, temp, overlapped>>,
         \A t \in Slots : Writes(t)' => Writes(t) /\ request'[t] = request[t]
  PROVE  OneWriter' /\ LoneWriter' /\ ListedIsStored'
<1>1. OneWriter'
  BY DEF IInv, OneWriter
<1>2. LoneWriter'
  BY DEF IInv, LoneWriter, InHand
<1>3. ListedIsStored'
  BY DEF IInv, ListedIsStored
<1>. QED  BY <1>1, <1>2, <1>3

(* What the folders and the plans of the devices may become.                *)
LEMMA DeviceStep ==
  ASSUME IInv, TypeOK', UNCHANGED <<blob, overlapped>>,
         \A d \in Devices, f \in Files :
           \/ local'[d][f] = local[d][f]
           \/ local'[d][f] \in Contents
           \/ local[d][f] = NoFile /\ local'[d][f] = blob[f],
         \A d \in Devices, f \in Files : task'[d][f] = "up" => task[d][f] = "up"
  PROVE  PlannedIsHere' /\ OnlyWholeFiles'
<1>1. \A d \in Devices, f \in Files : local[d][f] # NoFile => local'[d][f] # NoFile
  BY ContentFacts
<1>2. PlannedIsHere'
  BY <1>1 DEF IInv, PlannedIsHere
<1>3. OnlyWholeFiles'
  BY ContentFacts DEF IInv, OnlyWholeFiles
<1>. QED  BY <1>2, <1>3

(* A step of the request that changes a file.                               *)
LEMMA WriterStep ==
  ASSUME IInv, TypeOK', NEW s \in Slots, Writes(s), NEW f \in Files, f = request[s].file,
         UNCHANGED <<overlapped, local>>,
         \A g \in Files \ {f} : blob'[g] = blob[g] /\ temp'[g] = temp[g] /\ (g \in listed' => g \in listed),
         \A t \in Slots \ {s} : Writes(t)' => /\ Writes(t) /\ request'[t].file = request[t].file
                                              /\ request[t].file # f => request'[t] = request[t],
         Writes(s)' => request'[s].file = f,
         f \notin overlapped /\ Writes(s)' => InHand(request[s])',
         f \notin overlapped => blob'[f] \notin Damaged /\ (f \in listed' => blob'[f] # NoFile),
         \A d \in Devices, g \in Files : task'[d][g] = "up" => task[d][g] = "up"
  PROVE  IInv'
<1>1. OneWriter'
  <2>1. SUFFICES ASSUME NEW t \in Slots, NEW u \in Slots, t # u, Writes(t)', Writes(u)',
                        request'[t].file = request'[u].file
                 PROVE  request'[t].file \in overlapped
    BY DEF OneWriter
  <2>2. Writes(t) /\ Writes(u) /\ request'[t].file = request[t].file /\ request'[u].file = request[u].file
    BY <2>1
  <2>. QED  BY <2>1, <2>2 DEF IInv, OneWriter
<1>2. LoneWriter'
  <2>1. SUFFICES ASSUME NEW t \in Slots, t # s, Writes(t)', request'[t].file \notin overlapped
                 PROVE  InHand(request[t])'
    BY DEF LoneWriter
  <2>2. Writes(t) /\ request'[t].file = request[t].file
    BY <2>1
  <2>3. request[t].file # f
    BY <2>1, <2>2 DEF IInv, OneWriter
  <2>4. request'[t] = request[t] /\ request[t].file \in Files \ {f}
    BY <2>1, <2>2, <2>3, BusyTyped DEF Writes, IInv
  <2>5. InHand(request[t])
    BY <2>1, <2>2 DEF IInv, LoneWriter
  <2>. QED  BY <2>4, <2>5 DEF InHand
<1>3. ListedIsStored' /\ OnlyWholeFiles'
  <2>1. ListedIsStored'
    BY DEF IInv, ListedIsStored, TypeOK
  <2>2. OnlyWholeFiles'
    BY DEF IInv, OnlyWholeFiles
  <2>. QED  BY <2>1, <2>2
<1>4. PlannedIsHere'
  BY DEF IInv, PlannedIsHere
<1>. QED  BY <1>1, <1>2, <1>3, <1>4 DEF IInv

(* A request arrives in a free slot: another one that changes the file      *)
(* makes them overlap.                                                      *)
LEMMA ArriveStep ==
  ASSUME IInv, TypeOK', NEW s \in Slots, NEW f \in Files, NEW data, NEW step \in {"receive", "take", "find"},
         Arrive(s, f, data, step),
         step = "receive" /\ f \notin overlapped => data \in Contents,
         step = "take" => data = NoFile,
         UNCHANGED <<listed, blob, temp, local>>,
         \A d \in Devices, g \in Files : task'[d][g] = "up" => task[d][g] = "up"
  PROVE  IInv'
<1>1. /\ \A t \in Slots \ {s} : request'[t] = request[t]
      /\ request'[s] = [file |-> f, data |-> data, handle |-> "lost", step |-> step]
      /\ overlapped \subseteq overlapped'
  BY DEF Arrive, IInv, TypeOK
<1>2. \A t \in Slots \ {s} : Writes(t)' <=> Writes(t)
  BY <1>1 DEF Writes, Busy
<1>3. \A t \in Slots : Writes(t) /\ request[t].file = f /\ step # "find" => f \in overlapped'
  BY DEF Arrive, GetSteps
<1>4. Writes(s)' => step # "find"
  BY <1>1 DEF Writes, GetSteps
<1>5. OneWriter'
  <2>1. SUFFICES ASSUME NEW t \in Slots, NEW u \in Slots, t # u, Writes(t)', Writes(u)',
                        request'[t].file = request'[u].file
                 PROVE  request'[t].file \in overlapped'
    BY DEF OneWriter
  <2>2. CASE t # s /\ u # s
    BY <1>1, <1>2, <2>1, <2>2 DEF IInv, OneWriter
  <2>3. CASE t = s
    BY <1>1, <1>2, <1>3, <1>4, <2>1, <2>3
  <2>4. CASE u = s
    BY <1>1, <1>2, <1>3, <1>4, <2>1, <2>4
  <2>. QED  BY <2>2, <2>3, <2>4
<1>6. LoneWriter'
  <2>1. SUFFICES ASSUME NEW t \in Slots, Writes(t)', request'[t].file \notin overlapped'
                 PROVE  InHand(request[t])'
    BY DEF LoneWriter
  <2>2. CASE t = s
    BY <1>1, <2>1, <2>2 DEF InHand, PutSteps, DeleteSteps
  <2>3. CASE t # s
    <3>1. InHand(request[t])
      BY <1>1, <1>2, <2>1, <2>3 DEF IInv, LoneWriter
    <3>. QED  BY <1>1, <2>3, <3>1 DEF InHand
  <2>. QED  BY <2>2, <2>3
<1>7. ListedIsStored' /\ OnlyWholeFiles' /\ PlannedIsHere'
  BY <1>1 DEF IInv, ListedIsStored, OnlyWholeFiles, PlannedIsHere
<1>. QED  BY <1>5, <1>6, <1>7 DEF IInv

LEMMA PutSafe ==
  ASSUME IInv, TypeOK', NEW s \in Slots,
         PutObject(s) \/ CreateTemp(s) \/ CopyData(s) \/ RenameTemp(s) \/ UpsertRow(s)
  PROVE  IInv'
<1>. DEFINE f == request[s].file
<1>0. Busy(s) /\ Writes(s) /\ f \in Files /\ request[s] \in Request
  BY BusyTyped DEF PutObject, CreateTemp, CopyData, RenameTemp, UpsertRow, At, Writes, GetSteps, IInv
<1>1. f \notin overlapped => InHand(request[s]) /\ blob[f] \notin Damaged /\ (f \in listed => blob[f] # NoFile)
  BY <1>0 DEF IInv, LoneWriter, ListedIsStored, OnlyWholeFiles
<1>2. UNCHANGED <<overlapped, local, task>>
  BY DEF PutObject, CreateTemp, CopyData, RenameTemp, UpsertRow, serverVars, storeVars, passVars, boundVars
<1>3. CASE PutObject(s)
  <2>1. request' = [request EXCEPT ![s].step = "row"] /\ blob' = [blob EXCEPT ![f] = request[s].data]
        /\ temp' = temp /\ listed' = listed /\ request[s].step = "receive"
    BY <1>3 DEF PutObject, GoTo, At, serverVars, storeVars, passVars, boundVars
  <2>2. request'[s] = [request[s] EXCEPT !.step = "row"] /\ \A t \in Slots \ {s} : request'[t] = request[t]
    BY <2>1 DEF IInv, TypeOK
  <2>3. f \notin overlapped => blob'[f] = request[s].data /\ blob'[f] \in Contents
    BY <1>0, <1>1, <2>1 DEF InHand, PutSteps, DeleteSteps, IInv, TypeOK
  <2>4. f \notin overlapped => InHand(request[s])'
    BY <1>0, <1>1, <2>1, <2>2, <2>3, ContentFacts DEF InHand, Request, PutSteps, DeleteSteps
  <2>5. \A g \in Files \ {f} : blob'[g] = blob[g] /\ temp'[g] = temp[g] /\ (g \in listed' => g \in listed)
    BY <2>1 DEF IInv, TypeOK
  <2>6. Writes(s)' => request'[s].file = f
    BY <1>0, <2>2 DEF Request
  <2>7. f \notin overlapped => blob'[f] \notin Damaged /\ blob'[f] # NoFile
    BY <2>3, ContentFacts
  <2>8. \A t \in Slots \ {s} : Writes(t)' => Writes(t) /\ request'[t] = request[t]
    BY <2>2 DEF Writes, Busy
  <2>. QED  BY <1>0, <1>2, <2>4, <2>5, <2>6, <2>7, <2>8, WriterStep
<1>4. CASE CreateTemp(s)
  <2>1. request' = [request EXCEPT ![s].handle = "temp", ![s].step = "copy"] /\ temp' = [temp EXCEPT ![f] = Empty]
        /\ blob' = blob /\ listed' = listed /\ request[s].step = "receive"
    BY <1>4 DEF CreateTemp, At, serverVars, storeVars, passVars, boundVars
  <2>2. request'[s] = [request[s] EXCEPT !.handle = "temp", !.step = "copy"] /\ \A t \in Slots \ {s} : request'[t] = request[t]
    BY <2>1 DEF IInv, TypeOK
  <2>3. f \notin overlapped => InHand(request[s])'
    BY <1>0, <1>1, <2>1, <2>2 DEF InHand, Request, PutSteps, DeleteSteps, IInv, TypeOK
  <2>4. \A g \in Files \ {f} : blob'[g] = blob[g] /\ temp'[g] = temp[g] /\ (g \in listed' => g \in listed)
    BY <2>1 DEF IInv, TypeOK
  <2>5. Writes(s)' => request'[s].file = f
    BY <1>0, <2>2 DEF Request
  <2>6. \A t \in Slots \ {s} : Writes(t)' => Writes(t) /\ request'[t] = request[t]
    BY <2>2 DEF Writes, Busy
  <2>7. f \notin overlapped => blob'[f] \notin Damaged /\ (f \in listed' => blob'[f] # NoFile)
    BY <1>1, <2>1
  <2>. QED  BY <1>0, <1>2, <2>3, <2>4, <2>5, <2>6, <2>7, WriterStep
<1>5. CASE CopyData(s)
  <2>1. request' = [request EXCEPT ![s].step = "rename"] /\ listed' = listed /\ request[s].step = "copy"
    BY <1>5 DEF CopyData, GoTo, At, serverVars, storeVars, passVars, boundVars
  <2>2. request'[s] = [request[s] EXCEPT !.step = "rename"] /\ \A t \in Slots \ {s} : request'[t] = request[t]
    BY <2>1 DEF IInv, TypeOK
  <2>3. \A g \in Files \ {f} : blob'[g] = blob[g] /\ temp'[g] = temp[g]
    <3>1. request[s].handle \in {"temp", "blob", "lost"}
      BY <1>0 DEF Request
    <3>. QED  BY <1>0, <1>5, <3>1 DEF CopyData, IInv, TypeOK, storeVars
  <2>4. f \notin overlapped => temp'[f] = request[s].data /\ blob' = blob
    <3>1. SUFFICES ASSUME f \notin overlapped
                   PROVE  temp'[f] = request[s].data /\ blob' = blob
      OBVIOUS
    <3>2. request[s].handle = "temp" /\ temp[f] = Empty /\ request[s].data \in Contents
      BY <1>1, <2>1, <3>1 DEF InHand, PutSteps, DeleteSteps
    <3>3. PICK new \in Overwritten(temp[f], request[s].data) : temp' = [temp EXCEPT ![f] = new] /\ blob' = blob
      BY <1>5, <3>2 DEF CopyData
    <3>. QED  BY <1>0, <3>2, <3>3 DEF Overwritten, IInv, TypeOK
  <2>5. f \notin overlapped => InHand(request[s])'
    BY <1>0, <1>1, <2>1, <2>2, <2>4 DEF InHand, Request, PutSteps, DeleteSteps
  <2>. QED  BY <1>0, <1>1, <1>2, <2>1, <2>2, <2>3, <2>4, <2>5, WriterStep DEF Writes, Busy, Request
<1>6. CASE RenameTemp(s)
  <2>1. /\ blob' = [blob EXCEPT ![f] = temp[f]] /\ temp' = [temp EXCEPT ![f] = NoFile]
        /\ temp[f] # NoFile /\ listed' = listed /\ request[s].step = "rename"
    BY <1>6 DEF RenameTemp, At, serverVars, storeVars, passVars, boundVars
  <2>2. /\ request'[s] = [request[s] EXCEPT !.handle = "lost", !.step = "row"]
        /\ \A t \in Slots \ {s} : request'[t] = IF Moved(t, f, "temp", "blob") # request[t]
                                               THEN Moved(t, f, "temp", "blob")
                                               ELSE Moved(t, f, "blob", "lost")
    BY <1>6 DEF RenameTemp
  <2>3. \A t \in Slots \ {s} : Writes(t)' => /\ Writes(t) /\ request'[t].file = request[t].file
                                             /\ request[t].file # f => request'[t] = request[t]
    <3>. SUFFICES ASSUME NEW t \in Slots \ {s}
                  PROVE  Writes(t)' => /\ Writes(t) /\ request'[t].file = request[t].file
                                       /\ request[t].file # f => request'[t] = request[t]
      OBVIOUS
    <3>1. CASE ~Busy(t) \/ request[t].file # f
      <4>1. request'[t] = request[t]
        BY <2>2, <3>1 DEF Moved
      <4>. QED  BY <4>1 DEF Writes, Busy
    <3>2. CASE Busy(t) /\ request[t].file = f
      <4>1. request[t] \in Request
        BY <3>2 DEF Busy, IInv, TypeOK
      <4>2. request'[t] = request[t] \/ \E to \in {"blob", "lost"} : request'[t] = [request[t] EXCEPT !.handle = to]
        BY <2>2 DEF Moved
      <4>3. request'[t].file = request[t].file /\ request'[t].step = request[t].step
        BY <4>1, <4>2 DEF Request
      <4>. QED  BY <3>2, <4>3 DEF Writes, Busy
    <3>. QED  BY <3>1, <3>2
  <2>4. f \notin overlapped => InHand(request[s])'
    BY <1>0, <1>1, <2>1, <2>2 DEF InHand, Request, PutSteps, DeleteSteps, IInv, TypeOK
  <2>5. f \notin overlapped => blob'[f] \notin Damaged /\ blob'[f] # NoFile
    <3>1. f \notin overlapped => temp[f] \in Contents
      BY <1>1, <2>1 DEF InHand, PutSteps
    <3>2. blob'[f] = temp[f]
      BY <1>0, <2>1 DEF IInv, TypeOK
    <3>. QED  BY <3>1, <3>2, ContentFacts
  <2>6. \A g \in Files \ {f} : blob'[g] = blob[g] /\ temp'[g] = temp[g] /\ (g \in listed' => g \in listed)
    BY <2>1 DEF IInv, TypeOK
  <2>7. Writes(s)' => request'[s].file = f
    BY <1>0, <2>2 DEF Request
  <2>. QED  BY <1>0, <1>2, <2>3, <2>4, <2>5, <2>6, <2>7, WriterStep
<1>7. CASE UpsertRow(s)
  <2>1. request' = [request EXCEPT ![s].step = "clear"] /\ listed' = listed \cup {f} /\ request[s].step = "row"
        /\ blob' = blob /\ temp' = temp
    BY <1>7 DEF UpsertRow, GoTo, At, serverVars, storeVars, passVars, boundVars
  <2>2. request'[s] = [request[s] EXCEPT !.step = "clear"] /\ \A t \in Slots \ {s} : request'[t] = request[t]
    BY <2>1 DEF IInv, TypeOK
  <2>3. f \notin overlapped => InHand(request[s])' /\ blob'[f] # NoFile
    BY <1>0, <1>1, <2>1, <2>2, ContentFacts DEF InHand, Request, PutSteps, DeleteSteps
  <2>. QED  BY <1>0, <1>1, <1>2, <2>1, <2>2, <2>3, WriterStep DEF Writes, Busy, Request
<1>. QED  BY <1>3, <1>4, <1>5, <1>6, <1>7

LEMMA DeleteSafe ==
  ASSUME IInv, TypeOK', NEW s \in Slots, TakeRow(s) \/ RemoveBlob(s) \/ LeaveBlob(s) \/ FailCopy(s)
  PROVE  IInv'
<1>. DEFINE f == request[s].file
<1>0. Busy(s) /\ Writes(s) /\ f \in Files /\ request[s] \in Request
  BY BusyTyped DEF TakeRow, RemoveBlob, LeaveBlob, FailCopy, At, Writes, GetSteps, IInv
<1>1. f \notin overlapped => InHand(request[s]) /\ blob[f] \notin Damaged /\ (f \in listed => blob[f] # NoFile)
  BY <1>0 DEF IInv, LoneWriter, ListedIsStored, OnlyWholeFiles
<1>2. CASE TakeRow(s)
  <2>1. PICK step \in {"remove", "stone"} : request' = [request EXCEPT ![s].step = step] /\ request[s].step = "take"
    BY <1>2 DEF TakeRow, GoTo, At
  <2>2. request'[s] = [request[s] EXCEPT !.step = step] /\ \A t \in Slots \ {s} : request'[t] = request[t]
    BY <2>1 DEF IInv, TypeOK
  <2>3. listed' = listed \ {f} /\ UNCHANGED <<blob, temp, overlapped, local, task>>
    BY <1>2 DEF TakeRow, serverVars, storeVars, passVars, boundVars
  <2>4. f \notin overlapped => InHand(request[s])'
    BY <1>0, <1>1, <2>1, <2>2, <2>3 DEF InHand, Request, PutSteps, DeleteSteps
  <2>. QED  BY <1>0, <1>1, <2>2, <2>3, <2>4, WriterStep DEF Writes, Busy, Request
<1>3. CASE RemoveBlob(s)
  <2>1. request[s].step = "remove" /\ blob' = [blob EXCEPT ![f] = NoFile]
        /\ UNCHANGED <<listed, temp, overlapped, local, task>>
    BY <1>3 DEF RemoveBlob, At, serverVars, storeVars, passVars, boundVars
  <2>2. request'[s] = [request[s] EXCEPT !.step = "stone"] /\ \A t \in Slots \ {s} : request'[t] = Moved(t, f, "blob", "lost")
    BY <1>3 DEF RemoveBlob
  <2>3. \A t \in Slots \ {s} : Writes(t)' => /\ Writes(t) /\ request'[t].file = request[t].file
                                             /\ request[t].file # f => request'[t] = request[t]
    BY <1>0, <2>2, MovedFacts DEF Writes, Busy, IInv
  <2>4. f \notin overlapped => InHand(request[s])'
    BY <1>0, <1>1, <2>1, <2>2 DEF InHand, Request, PutSteps, DeleteSteps
  <2>5. f \notin overlapped => f \notin listed /\ blob'[f] \notin Damaged
    BY <1>0, <1>1, <2>1, ContentFacts, MediaConstants DEF InHand, IInv, TypeOK, Data
  <2>6. \A g \in Files \ {f} : blob'[g] = blob[g] /\ temp'[g] = temp[g] /\ (g \in listed' => g \in listed)
    BY <2>1 DEF IInv, TypeOK
  <2>7. Writes(s)' => request'[s].file = f
    BY <1>0, <2>2 DEF Request
  <2>. QED  BY <1>0, <2>1, <2>3, <2>4, <2>5, <2>6, <2>7, WriterStep
<1>4. CASE LeaveBlob(s)
  <2>1. request[s].step = "remove" /\ request' = [request EXCEPT ![s].step = "stone"]
        /\ UNCHANGED <<listed, blob, temp, overlapped, local, task>>
    BY <1>4 DEF LeaveBlob, GoTo, At, serverVars, storeVars, passVars, boundVars
  <2>2. request'[s] = [request[s] EXCEPT !.step = "stone"] /\ \A t \in Slots \ {s} : request'[t] = request[t]
    BY <2>1 DEF IInv, TypeOK
  <2>3. f \notin overlapped => InHand(request[s])'
    BY <1>0, <1>1, <2>1, <2>2 DEF InHand, Request, PutSteps, DeleteSteps
  <2>. QED  BY <1>0, <1>1, <2>1, <2>2, <2>3, WriterStep DEF Writes, Busy, Request
<1>5. CASE FailCopy(s)
  <2>1. temp' = [temp EXCEPT ![f] = NoFile] /\ UNCHANGED <<listed, blob, overlapped, local>>
    BY <1>5 DEF FailCopy, serverVars, storeVars, passVars, boundVars
  <2>2. request'[s] = Free /\ \A t \in Slots \ {s} : request'[t] = Moved(t, f, "temp", "lost")
    BY <1>5 DEF FailCopy
  <2>3. \A t \in Slots \ {s} : Writes(t)' => /\ Writes(t) /\ request'[t].file = request[t].file
                                             /\ request[t].file # f => request'[t] = request[t]
    BY <1>0, <2>2, MovedFacts DEF Writes, Busy, IInv
  <2>4. \A d \in Devices, g \in Files : task'[d][g] = "up" => task[d][g] = "up"
    BY <1>5, AnsweredTyped DEF FailCopy, IInv
  <2>5. \A g \in Files \ {f} : blob'[g] = blob[g] /\ temp'[g] = temp[g] /\ (g \in listed' => g \in listed)
    BY <2>1 DEF IInv, TypeOK
  <2>6. ~Writes(s)'
    BY <2>2 DEF Writes, Busy
  <2>. QED  BY <1>0, <1>1, <2>1, <2>3, <2>4, <2>5, <2>6, WriterStep
<1>. QED  BY <1>2, <1>3, <1>4, <1>5

(* The steps that end a request, or read.                                   *)
LEMMA EndSafe ==
  ASSUME IInv, TypeOK', NEW s \in Slots,
         \/ RejectLarge(s) \/ RenameFails(s) \/ ClearTombstone(s) \/ LeaveTombstone(s)
         \/ WriteTombstone(s) \/ FindRow(s) \/ OpenBlob(s) \/ Fail(s)
  PROVE  IInv'
<1>. USE DEF RejectLarge, RenameFails, ClearTombstone, LeaveTombstone, WriteTombstone, FindRow, OpenBlob, Fail
<1>1. UNCHANGED <<listed, blob, temp, overlapped>>
  BY DEF serverVars, storeVars, passVars, boundVars
<1>2. End(s) \/ GoTo(s, "open")
  OBVIOUS
<1>3. \A t \in Slots : Writes(t)' => Writes(t) /\ request'[t] = request[t]
  <2>1. CASE End(s)
    BY <2>1 DEF End, Writes, Busy, IInv, TypeOK
  <2>2. CASE GoTo(s, "open")
    <3>1. FindRow(s) \/ OpenBlob(s) \/ End(s)
      BY <2>2
    <3>2. CASE Busy(s)
      <4>1. request'[s] = [request[s] EXCEPT !.step = "open"] /\ request[s] \in Request
            /\ \A t \in Slots \ {s} : request'[t] = request[t]
        BY <2>2, <3>2, BusyTyped DEF GoTo, IInv, TypeOK
      <4>2. ~Writes(s)'
        BY <4>1 DEF Writes, Request, GetSteps
      <4>. QED  BY <4>1, <4>2 DEF Writes, Busy
    <3>3. CASE ~Busy(s)
      BY <3>3 DEF At
    <3>. QED  BY <3>2, <3>3
  <2>. QED  BY <1>2, <2>1, <2>2
<1>4. \A d \in Devices, f \in Files :
        \/ local'[d][f] = local[d][f]
        \/ local[d][f] = NoFile /\ local'[d][f] = blob[f]
  BY DEF IInv, TypeOK, serverVars, storeVars, passVars, boundVars
<1>5. \A d \in Devices, f \in Files : task'[d][f] = "up" => task[d][f] = "up"
  BY AnsweredTyped DEF IInv, serverVars, storeVars, passVars, boundVars
<1>. QED  BY <1>1, <1>3, <1>4, <1>5, QuietStep, DeviceStep DEF IInv

(* A timed out call goes on in another slot.                                *)
LEMMA GiveUpSafe ==
  ASSUME IInv, TypeOK', NEW s \in Own, NEW late \in Late, GiveUp(s, late)
  PROVE  IInv'
<1>0. s \in Slots /\ late \in Slots /\ s # late
  BY MediaConstants DEF Slots
<1>1. /\ request'[s] = Free /\ request'[late] = request[s]
      /\ \A t \in Slots \ {s, late} : request'[t] = request[t]
      /\ Writes(s) /\ ~Busy(late)
  BY <1>0 DEF GiveUp, IInv, TypeOK
<1>2. UNCHANGED <<listed, blob, temp, overlapped, local>>
  BY DEF GiveUp, serverVars, storeVars, passVars, boundVars
<1>3. DEFINE From(t) == IF t = late THEN s ELSE t
<1>4. \A t \in Slots : Writes(t)' => From(t) \in Slots /\ Writes(From(t)) /\ request'[t] = request[From(t)] /\ t # s
  BY <1>0, <1>1 DEF Writes, Busy
<1>5. OneWriter'
  <2>1. SUFFICES ASSUME NEW t \in Slots, NEW u \in Slots, t # u, Writes(t)', Writes(u)',
                        request'[t].file = request'[u].file
                 PROVE  request'[t].file \in overlapped'
    BY DEF OneWriter
  <2>2. From(t) # From(u)
    BY <1>4, <2>1
  <2>. QED  BY <1>2, <1>4, <2>1, <2>2 DEF IInv, OneWriter
<1>6. LoneWriter'
  <2>1. SUFFICES ASSUME NEW t \in Slots, Writes(t)', request'[t].file \notin overlapped
                 PROVE  InHand(request[t])'
    BY <1>2 DEF LoneWriter
  <2>2. InHand(request[From(t)]) /\ request'[t] = request[From(t)]
    BY <1>4, <2>1 DEF IInv, LoneWriter
  <2>. QED  BY <1>2, <2>2 DEF InHand
<1>7. \A d \in Devices, f \in Files : task'[d][f] = "up" => task[d][f] = "up"
  BY <1>0, AnsweredTyped DEF GiveUp, IInv
<1>8. ListedIsStored' /\ OnlyWholeFiles' /\ PlannedIsHere'
  BY <1>2, <1>7 DEF IInv, ListedIsStored, OnlyWholeFiles, PlannedIsHere
<1>. QED  BY <1>5, <1>6, <1>8 DEF IInv

LEMMA FailureSafe ==
  ASSUME IInv, TypeOK', Failure
  PROVE  IInv'
<1>1. ASSUME NEW d \in Devices, Stop(d)
      PROVE  IInv'
  <2>1. UNCHANGED <<listed, blob, temp, overlapped, local, request>>
    BY <1>1 DEF Stop, serverVars, storeVars, passVars, boundVars
  <2>2. \A e \in Devices, f \in Files : task'[e][f] = "up" => task[e][f] = "up"
    BY <1>1 DEF Stop, Nothing, IInv, TypeOK
  <2>3. \A t \in Slots : Writes(t)' => Writes(t) /\ request'[t] = request[t]
    BY <2>1 DEF Writes, Busy
  <2>. QED  BY <2>1, <2>2, <2>3, QuietStep, DeviceStep DEF IInv
<1>. QED  BY <1>1, EndSafe, DeleteSafe, GiveUpSafe DEF Failure

LEMMA PassSafe ==
  ASSUME IInv, TypeOK', NEW d \in Devices, PassStep(d)
  PROVE  IInv'
<1>1. CASE BeginPass(d)
  <2>1. UNCHANGED <<listed, blob, temp, overlapped, local, request>>
    BY <1>1 DEF BeginPass, serverVars, storeVars, passVars, boundVars
  <2>2. \A t \in Slots : Writes(t)' => Writes(t) /\ request'[t] = request[t]
    BY <2>1 DEF Writes, Busy
  <2>3. \A f \in Files : Plan(d, f) = "up" => local[d][f] # NoFile
    BY DEF Plan
  <2>4. PlannedIsHere'
    BY <1>1, <2>1, <2>3 DEF BeginPass, PlannedIsHere, IInv, TypeOK
  <2>5. OnlyWholeFiles'
    BY <2>1 DEF IInv, OnlyWholeFiles
  <2>. QED  BY <2>1, <2>2, <2>4, <2>5, QuietStep DEF IInv
<1>2. CASE EndPhase(d)
  <2>1. UNCHANGED <<listed, blob, temp, overlapped, local, request>>
    BY <1>2 DEF EndPhase, serverVars, storeVars, passVars, boundVars
  <2>2. \A t \in Slots : Writes(t)' => Writes(t) /\ request'[t] = request[t]
    BY <2>1 DEF Writes, Busy
  <2>3. \A e \in Devices, f \in Files : task'[e][f] = "up" => task[e][f] = "up"
    BY <1>2 DEF EndPhase, Nothing, IInv, TypeOK
  <2>. QED  BY <2>1, <2>2, <2>3, QuietStep, DeviceStep DEF IInv
<1>3. ASSUME NEW f \in Files, Upload(d, f)
      PROVE  IInv'
  <2>1. <<d, f>> \in Slots
    BY DEF Slots, Own
  <2>2. f \notin overlapped => local[d][f] \in Contents
    <3>1. local[d][f] \in MaybeData /\ local[d][f] # NoFile
      BY <1>3 DEF Upload, IInv, TypeOK, PlannedIsHere
    <3>. QED  BY <3>1, ContentFacts DEF IInv, OnlyWholeFiles
  <2>. QED  BY <1>3, <2>1, <2>2, ArriveStep DEF Upload, serverVars, storeVars, passVars, boundVars
<1>4. ASSUME NEW f \in Files, Download(d, f)
      PROVE  IInv'
  <2>1. <<d, f>> \in Slots
    BY DEF Slots, Own
  <2>. QED  BY <1>4, <2>1, ArriveStep DEF Download, serverVars, storeVars, passVars, boundVars
<1>. QED  BY <1>1, <1>2, <1>3, <1>4 DEF PassStep

LEMMA UserSafe ==
  ASSUME IInv, TypeOK', NEW d \in Devices, NEW f \in Files, NEW data \in Contents, ChangeFile(d, f, data)
  PROVE  IInv'
<1>1. UNCHANGED <<listed, blob, temp, overlapped, request, task>> /\ local' = [local EXCEPT ![d][f] = data]
  BY DEF ChangeFile, serverVars, storeVars, passVars, boundVars
<1>2. \A t \in Slots : Writes(t)' => Writes(t) /\ request'[t] = request[t]
  BY <1>1 DEF Writes, Busy
<1>3. \A e \in Devices, g \in Files : local'[e][g] = local[e][g] \/ local'[e][g] \in Contents
  BY <1>1 DEF IInv, TypeOK
<1>. QED  BY <1>1, <1>2, <1>3, QuietStep, DeviceStep DEF IInv

LEMMA NextSafe == IInv /\ [Next]_vars => IInv'
<1>. SUFFICES ASSUME IInv, [Next]_vars
              PROVE  IInv'
  OBVIOUS
<1>0. TypeOK'
  BY NextTyped DEF IInv
<1>1. ASSUME NEW s \in Slots, Statement(s)
      PROVE  IInv'
  BY <1>0, <1>1, PutSafe, DeleteSafe, EndSafe DEF Statement
<1>2. ASSUME NEW s \in Late, NEW f \in Files, RequestDelete(s, f)
      PROVE  IInv'
  <2>1. s \in Slots
    BY DEF Slots
  <2>. QED  BY <1>0, <1>2, <2>1, ArriveStep DEF RequestDelete, serverVars, storeVars, passVars, boundVars
<1>3. CASE UNCHANGED vars
  <2>1. UNCHANGED <<listed, blob, temp, overlapped, request, task, local>>
    BY <1>3 DEF vars, serverVars, storeVars, passVars, boundVars
  <2>2. \A t \in Slots : Writes(t)' => Writes(t) /\ request'[t] = request[t]
    BY <2>1 DEF Writes, Busy
  <2>. QED  BY <1>0, <2>1, <2>2, QuietStep, DeviceStep DEF IInv
<1>. QED  BY <1>0, <1>1, <1>2, <1>3, PassSafe, UserSafe, FailureSafe DEF Next

LEMMA Inductive == Spec => []IInv
<1>. QED  BY InitSafe, NextSafe, PTL DEF Spec

(* No row of the media table is left without its object, unless two         *)
(* requests changed the file at once.                                       *)
THEOREM ListedIsStoredHolds == Spec => []ListedIsStored
<1>1. IInv => ListedIsStored
  BY DEF IInv
<1>. QED  BY Inductive, <1>1, PTL

(* No half written file is ever stored or copied to a device, unless two    *)
(* requests changed the file at once.                                       *)
THEOREM OnlyWholeFilesHolds == Spec => []OnlyWholeFiles
<1>1. IInv => OnlyWholeFiles
  BY DEF IInv
<1>. QED  BY Inductive, <1>1, PTL

-----------------------------------------------------------------------------
(* The statements of the server implement a store of whole files.  What the *)
(* store promises of a file, it promises while at most one request changes  *)
(* it; of the others there is nothing to show.                              *)

LEMMA ChangeFacts ==
  ASSUME TypeOK, NEW s \in Slots
  PROVE  /\ Writes(s) <=> Changes[s] # Free
         /\ Writes(s) => Changes[s].file = request[s].file /\ Changes[s].data = request[s].data
<1>1. CASE Writes(s)
  <2>1. request[s].file \in Files /\ request[s].data \in MaybeData
    BY <1>1, BusyTyped DEF Writes
  <2>2. Changes[s] = [file |-> request[s].file, data |-> request[s].data]
    BY <1>1 DEF Changes
  <2>3. Changes[s] # Free
    BY <2>1, <2>2, FreeIsNoRequest
  <2>. QED  BY <1>1, <2>2, <2>3
<1>2. CASE ~Writes(s)
  BY <1>2 DEF Changes
<1>. QED  BY <1>1, <1>2

LEMMA NextChangeFacts ==
  ASSUME TypeOK', NEW s \in Slots
  PROVE  /\ Writes(s)' <=> Changes'[s] # Free
         /\ Writes(s)' => Changes'[s].file = request'[s].file /\ Changes'[s].data = request'[s].data
<1>1. CASE Writes(s)'
  <2>1. request'[s].file \in Files /\ request'[s].data \in MaybeData
    BY <1>1 DEF Writes, Busy, TypeOK, Request
  <2>2. Changes'[s] = [file |-> request'[s].file, data |-> request'[s].data]
    BY <1>1 DEF Changes
  <2>3. Changes'[s] # Free
    BY <2>1, <2>2, FreeIsNoRequest
  <2>. QED  BY <1>1, <2>2, <2>3
<1>2. CASE ~Writes(s)'
  BY <1>2 DEF Changes
<1>. QED  BY <1>1, <1>2

LEMMA AskedIsWrites ==
  ASSUME TypeOK, NEW s \in Slots
  PROVE  /\ Store!Asked(s) <=> Writes(s)
         /\ Store!Undone(s) <=> Writes(s) /\ (Unfinished(s) \/ request[s].file \in overlapped)
         /\ Store!Done(s) <=> Writes(s) /\ (~Unfinished(s) \/ request[s].file \in overlapped)
BY ChangeFacts DEF Store!Asked, Store!Undone, Store!Done, Pending

(* It is enough to know what is pending of the files that are not mixed.    *)
LEMMA PendingKnown ==
  ASSUME TypeOK', NEW S,
         \A t \in Slots : Writes(t)' /\ request'[t].file \notin overlapped' =>
           (t \in Pending' <=> t \in S)
  PROVE  Store!PendingBecomes(S)
BY NextChangeFacts DEF Store!PendingBecomes

(* The request goes on with the same change, at the same point of it.       *)
Continues(t) ==
  /\ Writes(t)' <=> Writes(t)
  /\ Writes(t) => /\ request'[t].file = request[t].file
                  /\ request'[t].data = request[t].data
                  /\ request'[t].step = request[t].step

LEMMA ContinuesChanges ==
  ASSUME NEW t \in Slots, Continues(t)
  PROVE  Changes'[t] = Changes[t]
BY DEF Continues, Changes

(* A step about one file: the other requests and files are as they were.    *)
AboutFile(s, f) ==
  /\ Writes(s) /\ f = request[s].file
  /\ UNCHANGED overlapped
  /\ \A g \in Files \ {f} : blob'[g] = blob[g] /\ (g \in listed' <=> g \in listed)
  /\ \A t \in Slots \ {s} : Continues(t)

LEMMA OthersAsBefore ==
  ASSUME IInv, TypeOK', NEW s \in Slots, NEW f \in Files, AboutFile(s, f)
  PROVE  /\ \A t \in Slots \ {s} : Changes'[t] = Changes[t]
         /\ \A t \in Slots \ {s} : Writes(t)' /\ request'[t].file \notin overlapped' =>
              (t \in Pending' <=> t \in Pending)
         /\ \A g \in Files \ {f} : Served'[g] = Served[g]
<1>1. \A t \in Slots \ {s} : Changes'[t] = Changes[t]
  BY ContinuesChanges DEF AboutFile
<1>2. ASSUME NEW t \in Slots \ {s}, Writes(t)', request'[t].file \notin overlapped'
      PROVE  t \in Pending' <=> t \in Pending
  <2>1. /\ Writes(t) /\ request'[t].file = request[t].file /\ request'[t].step = request[t].step
        /\ request[t].file \notin overlapped
    BY <1>2 DEF AboutFile, Continues
  <2>2. request[t].file \in Files \ {f}
    BY <2>1, BusyTyped DEF IInv, OneWriter, AboutFile, Writes
  <2>3. request[t].file \in listed' <=> request[t].file \in listed
    BY <2>2 DEF AboutFile
  <2>. QED  BY <1>2, <2>1, <2>3 DEF Pending, Unfinished
<1>3. \A g \in Files \ {f} : Served'[g] = Served[g]
  BY DEF AboutFile, Served
<1>. QED  BY <1>1, <1>2, <1>3

(* The step of a request at which its change is seen.                       *)
LEMMA EffectStep ==
  ASSUME IInv, TypeOK', NEW s \in Slots, NEW f \in Files, AboutFile(s, f),
         Writes(s)', request'[s].file = f, request'[s].data = request[s].data,
         Unfinished(s),
         f \notin overlapped => ~Unfinished(s)' /\ Served'[f] = request[s].data
  PROVE  Store!TakeEffect(s)
<1>1. Changes'[s] = Changes[s] /\ Writes(s) /\ f = request[s].file /\ overlapped' = overlapped
  BY DEF Changes, AboutFile
<1>2. Changes' = Changes
  BY <1>1, OthersAsBefore DEF Changes
<1>3. Store!Undone(s)
  BY <1>1, AskedIsWrites DEF IInv
<1>4. Changes[s].file = f /\ Changes[s].data = request[s].data
  BY <1>1, ChangeFacts DEF IInv
<1>5. \A g \in Files \ overlapped' : Served'[g] = [Served EXCEPT ![f] = request[s].data][g]
  BY <1>1, OthersAsBefore DEF Served
<1>6. Store!ServedBecomes([Served EXCEPT ![f] = request[s].data])
  BY <1>5 DEF Store!ServedBecomes
<1>7. Store!PendingBecomes(Pending \ {s})
  <2>1. ASSUME NEW t \in Slots, Writes(t)', request'[t].file \notin overlapped'
        PROVE  t \in Pending' <=> t \in Pending \ {s}
    <3>1. CASE t = s
      BY <1>1, <2>1, <3>1 DEF Pending
    <3>2. CASE t # s
      BY <2>1, <3>2, OthersAsBefore
    <3>. QED  BY <3>1, <3>2
  <2>. QED  BY <2>1, PendingKnown
<1>. QED  BY <1>1, <1>2, <1>3, <1>4, <1>6, <1>7 DEF Store!TakeEffect

(* A step of a request at which nothing is seen.                            *)
LEMMA DriftStep ==
  ASSUME IInv, TypeOK', NEW s \in Slots, NEW f \in Files, AboutFile(s, f),
         Writes(s)', request'[s].file = f, request'[s].data = request[s].data,
         f \notin overlapped => (Unfinished(s)' <=> Unfinished(s)) /\ Served'[f] = Served[f]
  PROVE  Store!Drift
<1>1. Changes'[s] = Changes[s] /\ Writes(s) /\ f = request[s].file /\ overlapped' = overlapped
  BY DEF Changes, AboutFile
<1>2. Changes' = Changes
  BY <1>1, OthersAsBefore DEF Changes
<1>3. Store!ServedBecomes(Served)
  <2>1. \A g \in Files \ overlapped' : Served'[g] = Served[g]
    BY <1>1, OthersAsBefore
  <2>. QED  BY <2>1 DEF Store!ServedBecomes
<1>4. Store!PendingBecomes(Pending)
  <2>1. ASSUME NEW t \in Slots, Writes(t)', request'[t].file \notin overlapped'
        PROVE  t \in Pending' <=> t \in Pending
    <3>1. CASE t = s
      BY <1>1, <2>1, <3>1 DEF Pending
    <3>2. CASE t # s
      BY <2>1, <3>2, OthersAsBefore
    <3>. QED  BY <3>1, <3>2
  <2>. QED  BY <2>1, PendingKnown
<1>. QED  BY <1>1, <1>2, <1>3, <1>4 DEF Store!Drift

(* The step that ends a request, which no longer changes anything.          *)
LEMMA LeaveStep ==
  ASSUME IInv, TypeOK', NEW s \in Slots, NEW f \in Files, AboutFile(s, f),
         ~Writes(s)', Served' = Served
  PROVE  Store!Leaves(s) /\ UNCHANGED overlapped
<1>1. overlapped' = overlapped
  BY DEF AboutFile
<1>2. Changes' = [Changes EXCEPT ![s] = Free]
  BY OthersAsBefore DEF Changes
<1>3. Store!ServedBecomes(Served)
  BY DEF Store!ServedBecomes
<1>4. Store!PendingBecomes(Pending)
  <2>1. ASSUME NEW t \in Slots, Writes(t)', request'[t].file \notin overlapped'
        PROVE  t \in Pending' <=> t \in Pending
    BY <2>1, OthersAsBefore
  <2>. QED  BY <2>1, PendingKnown
<1>. QED  BY <1>1, <1>2, <1>3, <1>4 DEF Store!Leaves

(* A step that has nothing to do with the store.                            *)
LEMMA OutsideStep ==
  ASSUME IInv, TypeOK', UNCHANGED <<listed, blob, overlapped>>, \A t \in Slots : Continues(t)
  PROVE  Store!Drift
<1>1. Changes' = Changes
  BY ContinuesChanges DEF Changes
<1>2. Served' = Served
  BY DEF Served
<1>3. Pending' = Pending
  BY DEF Pending, Unfinished, Continues
<1>. QED  BY <1>1, <1>2, <1>3 DEF Store!Drift, Store!ServedBecomes, Store!PendingBecomes

LEMMA StepFacts ==
  ASSUME NEW r \in Request, NEW step \in PutSteps \cup DeleteSteps \cup GetSteps,
         NEW new, new = [r EXCEPT !.step = step]
  PROVE  new \in Request /\ new.file = r.file /\ new.data = r.data /\ new.step = step
BY DEF Request

LEMMA HandleFacts ==
  ASSUME NEW r \in Request, NEW handle \in {"temp", "blob", "lost"},
         NEW new, new = [r EXCEPT !.handle = handle]
  PROVE  new \in Request /\ new.file = r.file /\ new.data = r.data
BY DEF Request

LEMMA NeverFree == ASSUME NEW r \in Request PROVE r # Free
BY FreeIsNoRequest

LEMMA GoesTo ==
  ASSUME TypeOK, NEW s \in Slots, Busy(s), NEW step \in PutSteps \cup DeleteSteps \cup GetSteps,
         GoTo(s, step)
  PROVE  /\ request'[s].file = request[s].file /\ request'[s].data = request[s].data
         /\ request'[s].step = step /\ request'[s] # Free
         /\ \A t \in Slots \ {s} : Continues(t)
<1>1. /\ request'[s] = [request[s] EXCEPT !.step = step] /\ request[s] \in Request
      /\ \A t \in Slots \ {s} : request'[t] = request[t]
  BY BusyTyped DEF GoTo, TypeOK
<1>2. /\ request'[s].file = request[s].file /\ request'[s].data = request[s].data
      /\ request'[s].step = step /\ request'[s] \in Request
  BY <1>1, StepFacts
<1>3. request'[s] # Free
  BY <1>2, NeverFree
<1>4. \A t \in Slots \ {s} : Continues(t)
  BY <1>1 DEF Continues, Writes, Busy
<1>. QED  BY <1>2, <1>3, <1>4

(* The requests whose file was moved under them continue.                   *)
LEMMA MovedContinues ==
  ASSUME TypeOK, NEW t \in Slots, NEW f \in Files, NEW from, NEW to \in {"temp", "blob", "lost"},
         request'[t] = Moved(t, f, from, to)
  PROVE  Continues(t)
<1>1. CASE Busy(t)
  BY <1>1, MovedFacts DEF Continues, Writes, Busy
<1>2. CASE ~Busy(t)
  <2>1. request'[t] = request[t]
    BY <1>2, MovedFacts
  <2>. QED  BY <2>1 DEF Continues, Writes, Busy
<1>. QED  BY <1>1, <1>2

(* An upload is seen with its object if the file has a row, and else with   *)
(* its row.                                                                 *)
LEMMA PutImplements ==
  ASSUME IInv, TypeOK', NEW s \in Slots,
         PutObject(s) \/ CreateTemp(s) \/ CopyData(s) \/ RenameTemp(s) \/ UpsertRow(s)
  PROVE  Store!TakeEffect(s) \/ Store!Drift
<1>. DEFINE f == request[s].file
<1>0. Busy(s) /\ Writes(s) /\ f \in Files /\ request[s] \in Request /\ TypeOK
  BY BusyTyped DEF PutObject, CreateTemp, CopyData, RenameTemp, UpsertRow, At, Writes, GetSteps, IInv
<1>1. f \notin overlapped => InHand(request[s])
  BY <1>0 DEF IInv, LoneWriter
<1>2. overlapped' = overlapped
  BY DEF PutObject, CreateTemp, CopyData, RenameTemp, UpsertRow
<1>3. CASE PutObject(s)
  <2>1. /\ request[s].step = "receive" /\ GoTo(s, "row")
        /\ blob' = [blob EXCEPT ![f] = request[s].data] /\ listed' = listed
    BY <1>3 DEF PutObject, At
  <2>2. /\ request'[s].file = f /\ request'[s].data = request[s].data
        /\ request'[s].step = "row" /\ request'[s] # Free
        /\ \A t \in Slots \ {s} : Continues(t)
    BY <1>0, <2>1, GoesTo DEF PutSteps
  <2>3. blob'[f] = request[s].data /\ \A g \in Files \ {f} : blob'[g] = blob[g]
    BY <1>0, <2>1 DEF TypeOK
  <2>4. AboutFile(s, f) /\ Writes(s)'
    BY <1>0, <1>2, <2>1, <2>2, <2>3 DEF AboutFile, Writes, Busy, GetSteps
  <2>5. CASE f \in listed
    <3>1. f \notin overlapped => Served'[f] = request[s].data
      BY <1>0, <1>1, <2>1, <2>3, <2>5, ContentFacts DEF Served, InHand, PutSteps
    <3>2. Unfinished(s) /\ ~Unfinished(s)'
      BY <2>1, <2>2, <2>5 DEF Unfinished
    <3>. QED  BY <1>0, <2>2, <2>4, <3>1, <3>2, EffectStep
  <2>6. CASE f \notin listed
    <3>1. Served'[f] = Served[f]
      BY <1>0, <2>1, <2>6 DEF Served
    <3>2. Unfinished(s) /\ Unfinished(s)'
      BY <2>1, <2>2, <2>6 DEF Unfinished
    <3>. QED  BY <1>0, <2>2, <2>4, <3>1, <3>2, DriftStep
  <2>. QED  BY <2>5, <2>6
<1>4. CASE CreateTemp(s)
  <2>1. /\ request[s].step = "receive" /\ blob' = blob /\ listed' = listed
        /\ request' = [request EXCEPT ![s].handle = "temp", ![s].step = "copy"]
    BY <1>4 DEF CreateTemp, At
  <2>2. /\ request'[s] = [request[s] EXCEPT !.handle = "temp", !.step = "copy"]
        /\ \A t \in Slots \ {s} : request'[t] = request[t]
    BY <2>1 DEF IInv, TypeOK
  <2>3. request'[s].file = f /\ request'[s].data = request[s].data /\ request'[s].step = "copy"
        /\ request'[s] \in Request
    <3>1. "copy" \in PutSteps \cup DeleteSteps \cup GetSteps /\ "temp" \in {"temp", "blob", "lost"}
      BY DEF PutSteps
    <3>. DEFINE opened == [request[s] EXCEPT !.handle = "temp"]
    <3>2. opened \in Request /\ opened.file = f /\ opened.data = request[s].data
      BY <1>0, <3>1, HandleFacts
    <3>3. request'[s] = [opened EXCEPT !.step = "copy"]
      BY <2>2
    <3>. HIDE DEF opened
    <3>. QED  BY <3>1, <3>2, <3>3, StepFacts
  <2>4. request'[s] # Free
    BY <2>3, NeverFree
  <2>5. AboutFile(s, f) /\ Writes(s)'
    BY <1>0, <1>2, <2>1, <2>2, <2>3, <2>4 DEF AboutFile, Continues, Writes, Busy, GetSteps
  <2>6. Unfinished(s) /\ Unfinished(s)' /\ Served'[f] = Served[f]
    BY <2>1, <2>3 DEF Unfinished, Served
  <2>. QED  BY <1>0, <2>3, <2>5, <2>6, DriftStep
<1>5. CASE CopyData(s)
  <2>1. request[s].step = "copy" /\ GoTo(s, "rename") /\ listed' = listed
    BY <1>5 DEF CopyData, At
  <2>2. /\ request'[s].file = f /\ request'[s].data = request[s].data
        /\ request'[s].step = "rename" /\ request'[s] # Free
        /\ \A t \in Slots \ {s} : Continues(t)
    BY <1>0, <2>1, GoesTo DEF PutSteps
  <2>3. \A g \in Files \ {f} : blob'[g] = blob[g]
    <3>1. request[s].handle \in {"temp", "blob", "lost"}
      BY <1>0 DEF Request
    <3>. QED  BY <1>0, <1>5, <3>1 DEF CopyData, TypeOK, storeVars
  <2>4. f \notin overlapped => blob' = blob
    BY <1>1, <1>5, <2>1 DEF InHand, CopyData
  <2>5. AboutFile(s, f) /\ Writes(s)'
    BY <1>0, <1>2, <2>1, <2>2, <2>3 DEF AboutFile, Writes, Busy, GetSteps
  <2>6. Unfinished(s) /\ Unfinished(s)' /\ (f \notin overlapped => Served'[f] = Served[f])
    BY <2>1, <2>2, <2>4 DEF Unfinished, Served
  <2>. QED  BY <1>0, <2>2, <2>5, <2>6, DriftStep
<1>6. CASE RenameTemp(s)
  <2>1. /\ request[s].step = "rename" /\ temp[f] # NoFile
        /\ blob' = [blob EXCEPT ![f] = temp[f]] /\ listed' = listed
    BY <1>6 DEF RenameTemp, At
  <2>2. /\ request'[s] = [request[s] EXCEPT !.handle = "lost", !.step = "row"]
        /\ \A t \in Slots \ {s} : \/ request'[t] = Moved(t, f, "temp", "blob")
                                 \/ request'[t] = Moved(t, f, "blob", "lost")
    BY <1>6 DEF RenameTemp
  <2>3. request'[s].file = f /\ request'[s].data = request[s].data /\ request'[s].step = "row"
        /\ request'[s] \in Request
    <3>1. "row" \in PutSteps \cup DeleteSteps \cup GetSteps /\ "lost" \in {"temp", "blob", "lost"}
      BY DEF PutSteps
    <3>. DEFINE opened == [request[s] EXCEPT !.handle = "lost"]
    <3>2. opened \in Request /\ opened.file = f /\ opened.data = request[s].data
      BY <1>0, <3>1, HandleFacts
    <3>3. request'[s] = [opened EXCEPT !.step = "row"]
      BY <2>2
    <3>. HIDE DEF opened
    <3>. QED  BY <3>1, <3>2, <3>3, StepFacts
  <2>4. request'[s] # Free
    BY <2>3, NeverFree
  <2>5. blob'[f] = temp[f] /\ \A g \in Files \ {f} : blob'[g] = blob[g]
    BY <1>0, <2>1 DEF TypeOK
  <2>6. \A t \in Slots \ {s} : Continues(t)
    BY <1>0, <2>2, MovedContinues
  <2>7. AboutFile(s, f) /\ Writes(s)'
    BY <1>0, <1>2, <2>1, <2>3, <2>4, <2>5, <2>6 DEF AboutFile, Writes, Busy, GetSteps
  <2>8. CASE f \in listed
    <3>1. f \notin overlapped => Served'[f] = request[s].data
      BY <1>0, <1>1, <2>1, <2>5, <2>8 DEF Served, InHand
    <3>2. Unfinished(s) /\ ~Unfinished(s)'
      BY <2>1, <2>3, <2>8 DEF Unfinished
    <3>. QED  BY <1>0, <2>3, <2>7, <3>1, <3>2, EffectStep
  <2>9. CASE f \notin listed
    <3>1. Served'[f] = Served[f]
      BY <1>0, <2>1, <2>9 DEF Served
    <3>2. Unfinished(s) /\ Unfinished(s)'
      BY <2>1, <2>3, <2>9 DEF Unfinished
    <3>. QED  BY <1>0, <2>3, <2>7, <3>1, <3>2, DriftStep
  <2>. QED  BY <2>8, <2>9
<1>7. CASE UpsertRow(s)
  <2>1. /\ request[s].step = "row" /\ GoTo(s, "clear")
        /\ listed' = listed \cup {f} /\ blob' = blob
    BY <1>7 DEF UpsertRow, At, storeVars
  <2>2. /\ request'[s].file = f /\ request'[s].data = request[s].data
        /\ request'[s].step = "clear" /\ request'[s] # Free
        /\ \A t \in Slots \ {s} : Continues(t)
    BY <1>0, <2>1, GoesTo DEF PutSteps
  <2>3. AboutFile(s, f) /\ Writes(s)'
    BY <1>0, <1>2, <2>1, <2>2 DEF AboutFile, Writes, Busy, GetSteps
  <2>4. ~Unfinished(s)'
    BY <2>2 DEF Unfinished
  <2>5. CASE f \notin listed
    <3>1. f \notin overlapped => Served'[f] = request[s].data
      BY <1>0, <1>1, <2>1, ContentFacts DEF Served, InHand, PutSteps
    <3>2. Unfinished(s)
      BY <2>1, <2>5 DEF Unfinished
    <3>. QED  BY <1>0, <2>2, <2>3, <2>4, <3>1, <3>2, EffectStep
  <2>6. CASE f \in listed
    <3>1. Served'[f] = Served[f] /\ ~Unfinished(s)
      BY <1>0, <2>1, <2>6 DEF Served, Unfinished
    <3>. QED  BY <1>0, <2>2, <2>3, <2>4, <3>1, DriftStep
  <2>. QED  BY <2>5, <2>6
<1>. QED  BY <1>3, <1>4, <1>5, <1>6, <1>7

(* A deletion is seen with the row.                                         *)
LEMMA DeleteImplements ==
  ASSUME IInv, TypeOK', NEW s \in Slots, TakeRow(s) \/ RemoveBlob(s) \/ LeaveBlob(s)
  PROVE  Store!TakeEffect(s) \/ Store!Drift
<1>. DEFINE f == request[s].file
<1>0. Busy(s) /\ Writes(s) /\ f \in Files /\ request[s] \in Request /\ TypeOK
  BY BusyTyped DEF TakeRow, RemoveBlob, LeaveBlob, At, Writes, GetSteps, IInv
<1>1. f \notin overlapped => InHand(request[s])
  BY <1>0 DEF IInv, LoneWriter
<1>2. overlapped' = overlapped
  BY DEF TakeRow, RemoveBlob, LeaveBlob
<1>3. CASE TakeRow(s)
  <2>1. request[s].step = "take" /\ listed' = listed \ {f} /\ blob' = blob
    BY <1>3 DEF TakeRow, At, storeVars
  <2>2. PICK step \in {"remove", "stone"} : GoTo(s, step)
    BY <1>3 DEF TakeRow
  <2>3. /\ request'[s].file = f /\ request'[s].data = request[s].data
        /\ request'[s].step = step /\ request'[s] # Free
        /\ \A t \in Slots \ {s} : Continues(t)
    <3>1. step \in PutSteps \cup DeleteSteps \cup GetSteps
      BY DEF DeleteSteps
    <3>. QED  BY <1>0, <2>2, <3>1, GoesTo
  <2>4. AboutFile(s, f) /\ Writes(s)'
    BY <1>0, <1>2, <2>1, <2>3 DEF AboutFile, Writes, Busy, GetSteps
  <2>5. Unfinished(s) /\ ~Unfinished(s)'
    BY <2>1, <2>3 DEF Unfinished
  <2>6. f \notin overlapped => Served'[f] = request[s].data
    <3>1. f \notin overlapped => request[s].data = NoFile
      BY <1>1, <2>1 DEF InHand, DeleteSteps
    <3>2. Served'[f] = NoFile
      BY <1>0, <2>1 DEF Served
    <3>. QED  BY <3>1, <3>2
  <2>. QED  BY <1>0, <2>3, <2>4, <2>5, <2>6, EffectStep
<1>4. CASE RemoveBlob(s)
  <2>1. /\ request[s].step = "remove" /\ listed' = listed /\ blob' = [blob EXCEPT ![f] = NoFile]
        /\ request'[s] = [request[s] EXCEPT !.step = "stone"]
        /\ \A t \in Slots \ {s} : request'[t] = Moved(t, f, "blob", "lost")
    BY <1>4 DEF RemoveBlob, At
  <2>2. "stone" \in PutSteps \cup DeleteSteps \cup GetSteps
    BY DEF DeleteSteps
  <2>3. request'[s] \in Request /\ request'[s].file = f /\ request'[s].data = request[s].data
        /\ request'[s].step = "stone"
    BY <1>0, <2>1, <2>2, StepFacts
  <2>4. request'[s] # Free
    BY <2>3, NeverFree
  <2>5. \A t \in Slots \ {s} : Continues(t)
    BY <1>0, <2>1, MovedContinues
  <2>6. \A g \in Files \ {f} : blob'[g] = blob[g]
    BY <2>1 DEF IInv, TypeOK
  <2>7. AboutFile(s, f) /\ Writes(s)'
    BY <1>0, <1>2, <2>1, <2>3, <2>4, <2>5, <2>6 DEF AboutFile, Writes, Busy, GetSteps
  <2>8. ~Unfinished(s) /\ ~Unfinished(s)'
    BY <2>1, <2>3 DEF Unfinished
  <2>9. f \notin overlapped => Served'[f] = Served[f]
    <3>1. f \notin overlapped => f \notin listed
      BY <1>1, <2>1 DEF InHand
    <3>. QED  BY <1>0, <2>1, <3>1 DEF Served
  <2>. QED  BY <1>0, <2>3, <2>7, <2>8, <2>9, DriftStep
<1>5. CASE LeaveBlob(s)
  <2>1. request[s].step = "remove" /\ listed' = listed /\ blob' = blob /\ GoTo(s, "stone")
    BY <1>5 DEF LeaveBlob, At, serverVars, storeVars
  <2>2. "stone" \in PutSteps \cup DeleteSteps \cup GetSteps
    BY DEF DeleteSteps
  <2>3. /\ request'[s].file = f /\ request'[s].data = request[s].data
        /\ request'[s].step = "stone" /\ request'[s] # Free
        /\ \A t \in Slots \ {s} : Continues(t)
    BY <1>0, <2>1, <2>2, GoesTo
  <2>4. AboutFile(s, f) /\ Writes(s)'
    BY <1>0, <1>2, <2>1, <2>3 DEF AboutFile, Writes, Busy, GetSteps
  <2>5. ~Unfinished(s) /\ ~Unfinished(s)' /\ Served'[f] = Served[f]
    BY <2>1, <2>3 DEF Unfinished, Served
  <2>. QED  BY <1>0, <2>3, <2>4, <2>5, DriftStep
<1>. QED  BY <1>3, <1>4, <1>5

LEMMA EndContinues ==
  ASSUME TypeOK, NEW s \in Slots, End(s)
  PROVE  /\ request'[s] = Free
         /\ \A t \in Slots \ {s} : Continues(t)
BY DEF End, TypeOK, Continues, Writes, Busy

(* A success is answered after the change was seen, whatever else fails.    *)
LEMMA EndImplements ==
  ASSUME IInv, TypeOK', NEW s \in Slots, Writes(s),
         \/ RejectLarge(s) \/ RenameFails(s) \/ ClearTombstone(s) \/ LeaveTombstone(s)
         \/ WriteTombstone(s) \/ Fail(s) \/ FailCopy(s)
  PROVE  Store!Answer(s) \/ Store!Refuse(s) \/ Store!Fail(s)
<1>. DEFINE f == request[s].file
<1>0. Busy(s) /\ f \in Files /\ request[s] \in Request /\ TypeOK
  BY BusyTyped DEF Writes, IInv
<1>1. listed' = listed /\ blob' = blob /\ overlapped' = overlapped
  BY DEF RejectLarge, RenameFails, ClearTombstone, LeaveTombstone, WriteTombstone, Fail, FailCopy, serverVars, storeVars
<1>2. request'[s] = Free /\ \A t \in Slots \ {s} : Continues(t)
  <2>1. CASE FailCopy(s)
    <3>1. request' = [t \in Slots |-> IF t = s THEN Free ELSE Moved(t, f, "temp", "lost")]
      BY <2>1 DEF FailCopy
    <3>. QED  BY <1>0, <3>1, MovedContinues
  <2>2. CASE ~FailCopy(s)
    <3>1. End(s)
      BY <2>2 DEF RejectLarge, RenameFails, ClearTombstone, LeaveTombstone, WriteTombstone, Fail
    <3>. QED  BY <1>0, <3>1, EndContinues
  <2>. QED  BY <2>1, <2>2
<1>3. AboutFile(s, f) /\ ~Writes(s)' /\ Served' = Served
  BY <1>1, <1>2 DEF AboutFile, Writes, Busy, Served
<1>4. Store!Leaves(s) /\ UNCHANGED overlapped
  BY <1>0, <1>3, LeaveStep
<1>5. ASSUME ~Unfinished(s) \/ f \in overlapped
      PROVE  Store!Answer(s)
  <2>1. Store!Done(s)
    BY <1>0, <1>5, AskedIsWrites
  <2>. QED  BY <1>4, <2>1 DEF Store!Answer
<1>6. Unfinished(s) => Store!Undone(s)
  BY <1>0, AskedIsWrites
<1>7. CASE RejectLarge(s)
  <2>1. request[s].step = "receive" /\ f \in Large
    BY <1>7 DEF RejectLarge, At
  <2>2. Store!Undone(s)
    BY <1>6, <2>1 DEF Unfinished
  <2>3. Changes[s].file \in Large
    BY <1>0, <2>1, ChangeFacts
  <2>. QED  BY <1>4, <2>2, <2>3 DEF Store!Refuse
<1>8. CASE RenameFails(s)
  <2>1. request[s].step = "rename" /\ temp[f] = NoFile
    BY <1>8 DEF RenameFails, At
  <2>2. f \notin overlapped => temp[f] \in Contents
    BY <1>0, <2>1 DEF IInv, LoneWriter, InHand, PutSteps
  <2>3. f \in overlapped
    BY <2>1, <2>2, ContentFacts
  <2>. QED  BY <1>5, <2>3
<1>9. CASE ClearTombstone(s) \/ LeaveTombstone(s) \/ WriteTombstone(s)
  <2>1. ~Unfinished(s)
    BY <1>9 DEF ClearTombstone, LeaveTombstone, WriteTombstone, At, Unfinished
  <2>. QED  BY <1>5, <2>1
<1>10. CASE Fail(s) \/ FailCopy(s)
  <2>1. failures' = failures + 1 /\ failures \in Nat
    BY <1>0, <1>10, MediaConstants DEF Fail, FailCopy, Fails, TypeOK
  <2>2. failures' > failures
    BY <2>1
  <2>3. CASE Unfinished(s)
    BY <1>4, <1>6, <2>2, <2>3 DEF Store!Fail
  <2>. QED  BY <1>5, <2>3
<1>. QED  BY <1>7, <1>8, <1>9, <1>10

LEMMA GetImplements ==
  ASSUME IInv, TypeOK', NEW s \in Slots, FindRow(s) \/ OpenBlob(s) \/ (Fail(s) /\ ~Writes(s))
  PROVE  Store!Drift
<1>0. TypeOK /\ UNCHANGED <<listed, blob, overlapped>>
  BY DEF IInv, FindRow, OpenBlob, Fail, serverVars, storeVars
<1>1. Busy(s) /\ ~Writes(s)
  BY DEF FindRow, OpenBlob, Fail, At, Writes, GetSteps
<1>2. ~Writes(s)' /\ \A t \in Slots \ {s} : Continues(t)
  <2>1. CASE End(s)
    BY <1>0, <2>1, EndContinues DEF Writes, Busy
  <2>2. CASE GoTo(s, "open")
    <3>1. "open" \in PutSteps \cup DeleteSteps \cup GetSteps
      BY DEF GetSteps
    <3>2. request'[s].step = "open" /\ \A t \in Slots \ {s} : Continues(t)
      BY <1>0, <1>1, <2>2, <3>1, GoesTo
    <3>. QED  BY <3>2 DEF Writes, GetSteps
  <2>. QED  BY <2>1, <2>2 DEF FindRow, OpenBlob, Fail
<1>3. Continues(s)
  BY <1>1, <1>2 DEF Continues
<1>. QED  BY <1>0, <1>2, <1>3, OutsideStep

(* The change of a timed out call is made all the same.                     *)
LEMMA GiveUpImplements ==
  ASSUME IInv, TypeOK', NEW s \in Own, NEW late \in Late, GiveUp(s, late)
  PROVE  Store!GoOnAlone(s, late)
<1>0. s \in Slots /\ late \in Slots /\ s # late /\ TypeOK
  BY MediaConstants DEF Slots, IInv
<1>1. /\ request'[s] = Free /\ request'[late] = request[s]
      /\ \A t \in Slots \ {s, late} : request'[t] = request[t]
      /\ Writes(s) /\ ~Busy(late) /\ ~Writes(late)
  BY <1>0 DEF GiveUp, TypeOK, Writes
<1>2. UNCHANGED <<listed, blob, overlapped>>
  BY DEF GiveUp, serverVars, storeVars
<1>3. /\ Changes'[s] = Free /\ Changes'[late] = Changes[s]
      /\ \A t \in Slots \ {s, late} : Changes'[t] = Changes[t]
  BY <1>0, <1>1 DEF Changes, Writes, Busy
<1>4. Changes' = [Changes EXCEPT ![s] = Free, ![late] = Changes[s]]
  BY <1>0, <1>3 DEF Changes
<1>5. Store!Asked(s) /\ ~Store!Asked(late)
  BY <1>0, <1>1, AskedIsWrites
<1>6. Store!ServedBecomes(Served)
  BY <1>2 DEF Served, Store!ServedBecomes
<1>7. Store!PendingBecomes({IF t = s THEN late ELSE t : t \in Pending})
  <2>1. ASSUME NEW t \in Slots, Writes(t)'
        PROVE  t \in Pending' <=> t \in {IF u = s THEN late ELSE u : u \in Pending}
    <3>1. t # s
      BY <1>1, <2>1 DEF Writes, Busy
    <3>2. CASE t = late
      <4>1. t \in Pending' <=> s \in Pending
        BY <1>0, <1>1, <1>2, <2>1, <3>2 DEF Pending, Unfinished
      <4>2. late \notin Pending
        BY <1>1 DEF Pending
      <4>. QED  BY <3>2, <4>1, <4>2
    <3>3. CASE t # late
      <4>1. t \in Pending' <=> t \in Pending
        BY <1>1, <1>2, <2>1, <3>1, <3>3 DEF Pending, Unfinished, Writes, Busy
      <4>. QED  BY <3>1, <3>3, <4>1
    <3>. QED  BY <3>2, <3>3
  <2>. QED  BY <2>1, PendingKnown
<1>. QED  BY <1>2, <1>4, <1>5, <1>6, <1>7 DEF Store!GoOnAlone

LEMMA AskImplements ==
  ASSUME IInv, TypeOK', NEW s \in Slots, NEW f \in Files, NEW data \in MaybeData,
         NEW step \in {"receive", "take"}, Arrive(s, f, data, step),
         f \notin overlapped => data \in Contents \cup {NoFile},
         UNCHANGED <<listed, blob>>
  PROVE  Store!Ask(s, f, data)
<1>0. TypeOK
  BY DEF IInv
<1>1. /\ request'[s] = [file |-> f, data |-> data, handle |-> "lost", step |-> step]
      /\ \A t \in Slots \ {s} : request'[t] = request[t]
      /\ ~Busy(s) /\ ~Writes(s)
  BY <1>0 DEF Arrive, TypeOK, Writes
<1>2. request'[s] # Free
  <2>1. request'[s] \in Request
    BY <1>1 DEF Request, PutSteps, DeleteSteps
  <2>. QED  BY <2>1, NeverFree
<1>3. Writes(s)' /\ Unfinished(s)'
  BY <1>1, <1>2 DEF Writes, Busy, Unfinished, GetSteps
<1>4. Changes' = [Changes EXCEPT ![s] = [file |-> f, data |-> data]]
  <2>1. Changes'[s] = [file |-> f, data |-> data]
    BY <1>1, <1>3 DEF Changes
  <2>2. \A t \in Slots \ {s} : Changes'[t] = Changes[t]
    BY <1>1 DEF Changes, Writes, Busy
  <2>. QED  BY <2>1, <2>2 DEF Changes
<1>5. overlapped' = overlapped \cup {g \in {f} : \E t \in Slots : Store!Asked(t) /\ Changes[t].file = f}
  <2>1. \A t \in Slots : Store!Asked(t) /\ Changes[t].file = f <=> Writes(t) /\ request[t].file = f
    BY <1>0, AskedIsWrites, ChangeFacts
  <2>2. step \notin GetSteps
    BY DEF GetSteps
  <2>3. overlapped' = overlapped \cup {g \in {f} : step \notin GetSteps /\ \E t \in Slots : Writes(t) /\ request[t].file = g}
    BY DEF Arrive
  <2>. QED  BY <2>1, <2>2, <2>3
<1>6. f \in overlapped' \/ data \in Contents \cup {NoFile}
  BY <1>5
<1>7. Store!ServedBecomes(Served)
  BY DEF Served, Store!ServedBecomes
<1>8. Store!PendingBecomes(Pending \cup {s})
  <2>1. ASSUME NEW t \in Slots, Writes(t)'
        PROVE  t \in Pending' <=> t \in Pending \cup {s}
    <3>1. CASE t = s
      BY <1>3, <3>1 DEF Pending
    <3>2. CASE t # s
      BY <1>1, <2>1, <3>2 DEF Pending, Unfinished, Writes, Busy
    <3>. QED  BY <3>1, <3>2
  <2>. QED  BY <2>1, PendingKnown
<1>9. ~Store!Asked(s)
  BY <1>0, <1>1, AskedIsWrites
<1>. QED  BY <1>4, <1>5, <1>6, <1>7, <1>8, <1>9 DEF Store!Ask

LEMMA SameRequests ==
  ASSUME UNCHANGED request
  PROVE  \A t \in Slots : Continues(t)
BY DEF Continues, Writes, Busy

LEMMA PassImplements ==
  ASSUME IInv, TypeOK', NEW d \in Devices, PassStep(d)
  PROVE  Store!Next
<1>1. CASE BeginPass(d) \/ EndPhase(d)
  <2>1. UNCHANGED <<listed, blob, overlapped, request>>
    BY <1>1 DEF BeginPass, EndPhase, serverVars, storeVars
  <2>2. Store!Drift
    BY <2>1, SameRequests, OutsideStep
  <2>. QED  BY <2>2 DEF Store!Next
<1>2. ASSUME NEW f \in Files, Upload(d, f)
      PROVE  Store!Next
  <2>1. <<d, f>> \in Slots
    BY DEF Slots, Own
  <2>2. local[d][f] \in MaybeData
    BY DEF IInv, TypeOK
  <2>3. f \notin overlapped => local[d][f] \in Contents \cup {NoFile}
    BY <2>2, ContentFacts DEF IInv, OnlyWholeFiles
  <2>4. Arrive(<<d, f>>, f, local[d][f], "receive") /\ UNCHANGED <<listed, blob>>
    BY <1>2 DEF Upload, serverVars, storeVars
  <2>5. Store!Ask(<<d, f>>, f, local[d][f])
    BY <2>1, <2>2, <2>3, <2>4, AskImplements
  <2>. QED  BY <2>1, <2>2, <2>5 DEF Store!Next
<1>3. ASSUME NEW f \in Files, Download(d, f)
      PROVE  Store!Next
  <2>1. <<d, f>> \in Slots
    BY DEF Slots, Own
  <2>2. Arrive(<<d, f>>, f, NoFile, "find") /\ UNCHANGED <<listed, blob>>
    BY <1>3 DEF Download, serverVars, storeVars
  <2>3. overlapped' = overlapped
    BY <2>2 DEF Arrive, GetSteps
  <2>4. /\ request'[<<d, f>>].step = "find" /\ ~Busy(<<d, f>>)
        /\ \A t \in Slots \ {<<d, f>>} : request'[t] = request[t]
    BY <2>1, <2>2 DEF Arrive, IInv, TypeOK
  <2>5. \A t \in Slots : Continues(t)
    BY <2>4 DEF Continues, Writes, Busy, GetSteps
  <2>6. Store!Drift
    BY <2>2, <2>3, <2>5, OutsideStep
  <2>. QED  BY <2>6 DEF Store!Next
<1>. QED  BY <1>1, <1>2, <1>3 DEF PassStep

LEMMA FailureImplements ==
  ASSUME IInv, TypeOK', Failure
  PROVE  Store!Next
<1>1. ASSUME NEW s \in Slots, LeaveTombstone(s) \/ Fail(s) \/ FailCopy(s)
      PROVE  Store!Next
  <2>1. CASE Writes(s)
    <3>1. Store!Answer(s) \/ Store!Refuse(s) \/ Store!Fail(s)
      BY <1>1, <2>1, EndImplements
    <3>. QED  BY <3>1 DEF Store!Next
  <2>2. CASE ~Writes(s)
    <3>1. Fail(s)
      BY <1>1, <2>2 DEF LeaveTombstone, FailCopy, At, Writes, GetSteps
    <3>2. Store!Drift
      BY <2>2, <3>1, GetImplements
    <3>. QED  BY <3>2 DEF Store!Next
  <2>. QED  BY <2>1, <2>2
<1>2. ASSUME NEW s \in Slots, LeaveBlob(s)
      PROVE  Store!Next
  <2>1. Store!TakeEffect(s) \/ Store!Drift
    BY <1>2, DeleteImplements
  <2>. QED  BY <2>1 DEF Store!Next
<1>3. ASSUME NEW s \in Own, NEW late \in Late, GiveUp(s, late)
      PROVE  Store!Next
  <2>1. Store!GoOnAlone(s, late) /\ s \in Slots /\ late \in Slots
    BY <1>3, GiveUpImplements DEF Slots
  <2>. QED  BY <2>1 DEF Store!Next
<1>4. ASSUME NEW d \in Devices, Stop(d)
      PROVE  Store!Next
  <2>1. UNCHANGED <<listed, blob, overlapped, request>>
    BY <1>4 DEF Stop, serverVars, storeVars
  <2>2. Store!Drift
    BY <2>1, SameRequests, OutsideStep
  <2>. QED  BY <2>2 DEF Store!Next
<1>. QED  BY <1>1, <1>2, <1>3, <1>4 DEF Failure

LEMMA StatementImplements ==
  ASSUME IInv, TypeOK', NEW s \in Slots, Statement(s)
  PROVE  Store!Next
<1>1. CASE FindRow(s) \/ OpenBlob(s)
  <2>1. Store!Drift
    BY <1>1, GetImplements
  <2>. QED  BY <2>1 DEF Store!Next
<1>2. CASE PutObject(s) \/ CreateTemp(s) \/ CopyData(s) \/ RenameTemp(s) \/ UpsertRow(s)
  <2>1. Store!TakeEffect(s) \/ Store!Drift
    BY <1>2, PutImplements
  <2>. QED  BY <2>1 DEF Store!Next
<1>3. CASE TakeRow(s) \/ RemoveBlob(s)
  <2>1. Store!TakeEffect(s) \/ Store!Drift
    BY <1>3, DeleteImplements
  <2>. QED  BY <2>1 DEF Store!Next
<1>4. CASE RejectLarge(s) \/ RenameFails(s) \/ ClearTombstone(s) \/ WriteTombstone(s)
  <2>1. Writes(s)
    BY <1>4 DEF RejectLarge, RenameFails, ClearTombstone, WriteTombstone, At, Writes, GetSteps
  <2>2. Store!Answer(s) \/ Store!Refuse(s) \/ Store!Fail(s)
    BY <1>4, <2>1, EndImplements
  <2>. QED  BY <2>2 DEF Store!Next
<1>. QED  BY <1>1, <1>2, <1>3, <1>4 DEF Statement

LEMMA StoreNext == IInv /\ [Next]_vars => [Store!Next]_(Store!vars)
<1>. SUFFICES ASSUME IInv, [Next]_vars
              PROVE  Store!Next
  OBVIOUS
<1>0. TypeOK'
  BY NextTyped DEF IInv
<1>1. ASSUME NEW d \in Devices, NEW f \in Files, NEW data \in Contents, ChangeFile(d, f, data)
      PROVE  Store!Next
  <2>1. UNCHANGED <<listed, blob, overlapped, request>>
    BY <1>1 DEF ChangeFile, serverVars, storeVars
  <2>2. Store!Drift
    BY <1>0, <2>1, SameRequests, OutsideStep
  <2>. QED  BY <2>2 DEF Store!Next
<1>2. ASSUME NEW s \in Late, NEW f \in Files, RequestDelete(s, f)
      PROVE  Store!Next
  <2>1. s \in Slots /\ NoFile \in MaybeData
    BY DEF Slots, MaybeData
  <2>2. Arrive(s, f, NoFile, "take") /\ UNCHANGED <<listed, blob>>
    BY <1>2 DEF RequestDelete, serverVars, storeVars
  <2>3. Store!Ask(s, f, NoFile)
    BY <1>0, <2>1, <2>2, AskImplements
  <2>. QED  BY <2>1, <2>3 DEF Store!Next
<1>3. CASE UNCHANGED vars
  <2>1. UNCHANGED <<listed, blob, overlapped, request>>
    BY <1>3 DEF vars, serverVars, storeVars
  <2>2. Store!Drift
    BY <1>0, <2>1, SameRequests, OutsideStep
  <2>. QED  BY <2>2 DEF Store!Next
<1>. QED  BY <1>0, <1>1, <1>2, <1>3, StatementImplements, PassImplements, FailureImplements DEF Next

LEMMA StoreInit == Init => Store!Init
<1>. SUFFICES ASSUME Init
              PROVE  Store!Init
  OBVIOUS
<1>1. \A s \in Slots : ~Writes(s)
  BY DEF Init, Writes, Busy
<1>2. Served = [f \in Files |-> NoFile]
  BY DEF Init, Served
<1>3. Changes = [s \in Slots |-> Free]
  BY <1>1 DEF Changes
<1>4. Pending = {}
  BY <1>1 DEF Pending
<1>. QED  BY <1>2, <1>3, <1>4 DEF Init, Store!Init

(* To its clients the server is a store of whole files: an upload or a      *)
(* deletion is seen at one moment between its request and its answer,       *)
(* whatever statement of media.go or fs.go stops, unless two requests       *)
(* changed the file at once.                                                *)
THEOREM FileRefinement == Spec => ImplementsFiles
<1>. QED  BY StoreInit, StoreNext, Inductive, PTL DEF Spec, ImplementsFiles, Store!Spec

=============================================================================
