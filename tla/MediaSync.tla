------------------------------ MODULE MediaSync ------------------------------
(***************************************************************************)
(* Media files: the server's media handlers (media.go), the object store   *)
(* behind them (storage) and the client's media pass (media_sync.py).      *)
(*                                                                         *)
(* A media file is a row of a table and an object of a store that no       *)
(* transaction spans.  An upload writes the object, then the row, then     *)
(* clears the tombstone; a deletion takes the row, then the object, then   *)
(* writes the tombstone; every statement is a step of its own.  The file   *)
(* system store gives all the uploads of a file one temporary file, which  *)
(* it renames over the stored one: a writer keeps its handle across the    *)
(* rename of another, so the handle may come to point at the stored file.  *)
(*                                                                         *)
(* A client goes by one manifest in a pass: what is not listed there is    *)
(* uploaded, what is listed and not here is downloaded, in two phases,     *)
(* with retries; a call that fails too often fails the pass after its      *)
(* phase.  A request whose client gave up is executed late.                *)
(*                                                                         *)
(* Abstracted: a content is a value; file names are those that differ in   *)
(* more than case; the files of a phase are all in flight at once (the     *)
(* client's pool holds 50).  The user touches the media folder between     *)
(* passes.                                                                 *)
(***************************************************************************)
EXTENDS Naturals

CONSTANTS
  Files,
  Devices,
  Large,        \* the files above the upload limit
  References,   \* the files the notes of each device refer to
  Contents,     \* what a user may put in a file
  Late,         \* slots of requests that nobody waits for (a bound)
  NoFile,
  Empty,        \* a file that was created and not yet written in full
  Broken,       \* the bytes of two writers
  Free,         \* an unused slot
  MaxTries,     \* the client's attempts at a file (3 in the code)
  MaxEdits,     \* bound on the users' changes
  MaxDeletes,   \* bound on DeleteMedia requests
  MaxFailures   \* bound on the failures of a behaviour

Damaged == {Empty, Broken}
Data == Contents \cup Damaged
MaybeData == Data \cup {NoFile}

(* A device waits for at most one request about a file.                     *)
Own == Devices \X Files
Slots == Own \cup Late

ASSUME MediaConstants ==
  /\ References \in [Devices -> SUBSET Files]
  /\ Large \subseteq Files
  /\ Damaged \cap Contents = {}
  /\ NoFile \notin Data
  /\ Late \cap Own = {}
  /\ MaxTries \in Nat \ {0}
  /\ MaxEdits \in Nat
  /\ MaxDeletes \in Nat
  /\ MaxFailures \in Nat

PutSteps == {"receive", "copy", "rename", "row", "clear"}
DeleteSteps == {"take", "remove", "stone"}
GetSteps == {"find", "open"}

(* handle is what an upload to the file system writes to.                   *)
Request ==
  [file : Files, data : MaybeData, handle : {"temp", "blob", "lost"},
   step : PutSteps \cup DeleteSteps \cup GetSteps]

ASSUME FreeIsNoRequest == Free \notin Request \cup [file : Files, data : MaybeData]

VARIABLES
  r2,          \* whether the server was started with the R2 store or the file system's
  listed,      \* the files with a row in the media table
  blob,        \* the object store
  temp,        \* the temporary file of each file, in the file system store
  stones,      \* the media tombstones
  request,     \* the request each slot executes
  local,       \* the media folder of each device
  pc,          \* where the device is in sync_media_once
  task,        \* what its pass has left to do
  tries,       \* failed attempts at it
  edits,       \* number of user changes so far
  deletes,     \* number of DeleteMedia requests so far
  failures,    \* number of failures so far
  overlapped   \* history: the files two requests were changing at once

storeVars == <<blob, temp>>
serverVars == <<r2, listed, storeVars, stones>>
passVars == <<pc, task, tries>>
boundVars == <<edits, deletes, failures>>
vars == <<serverVars, request, overlapped, local, passVars, boundVars>>

Nothing == [f \in Files |-> "none"]
NoTries == [f \in Files |-> 0]

Init ==
  /\ r2 \in BOOLEAN
  /\ listed = {}
  /\ blob = [f \in Files |-> NoFile]
  /\ temp = [f \in Files |-> NoFile]
  /\ stones = {}
  /\ request = [s \in Slots |-> Free]
  /\ local = [d \in Devices |-> [f \in Files |-> NoFile]]
  /\ pc = [d \in Devices |-> "idle"]
  /\ task = [d \in Devices |-> Nothing]
  /\ tries = [d \in Devices |-> NoTries]
  /\ edits = 0
  /\ deletes = 0
  /\ failures = 0
  /\ overlapped = {}

-----------------------------------------------------------------------------
(* Requests.                                                                *)

Busy(s) == request[s] # Free
Writes(s) == Busy(s) /\ request[s].step \notin GetSteps
At(s, step) == Busy(s) /\ request[s].step = step

Arrive(s, file, data, step) ==
  /\ ~Busy(s)
  /\ request' = [request EXCEPT ![s] =
       [file |-> file, data |-> data, handle |-> "lost", step |-> step]]
  /\ overlapped' = overlapped \cup
       {f \in {file} : step \notin GetSteps /\ \E t \in Slots : Writes(t) /\ request[t].file = f}

(* The files that were opened under another name than they now have.        *)
Moved(s, file, from, to) ==
  IF Busy(s) /\ request[s].file = file /\ request[s].handle = from
  THEN [request[s] EXCEPT !.handle = to]
  ELSE request[s]

GoTo(s, step) == request' = [request EXCEPT ![s].step = step]

Fails == failures < MaxFailures /\ failures' = failures + 1

(* The answer of a device's request; nobody hears that of a late one.       *)
Answered(s, result, count) ==
  /\ task' = [d \in Devices |-> [f \in Files |-> IF s = <<d, f>> THEN result ELSE task[d][f]]]
  /\ tries' = [d \in Devices |-> [f \in Files |-> IF s = <<d, f>> THEN count ELSE tries[d][f]]]

Succeeded(s) == Answered(s, "none", 0)

(* Mutant of Failed: an attempt that failed is always repeated.             *)
FailedWithoutLimit(s) ==
  IF s \in Late THEN UNCHANGED <<task, tries>>
  ELSE LET d == s[1]  f == s[2] IN Answered(s, task[d][f], tries[d][f] + 1)

(* The attempts at a file are counted until it succeeds or is an error.     *)
Failed(s) ==
  IF s \in Late THEN UNCHANGED <<task, tries>>
  ELSE LET d == s[1]  f == s[2] IN
       IF tries[d][f] + 1 < MaxTries
       THEN Answered(s, task[d][f], tries[d][f] + 1)
       ELSE Answered(s, "error", 0)

End(s) == request' = [request EXCEPT ![s] = Free]

-----------------------------------------------------------------------------
(* PutMedia.                                                                *)

(* The body exceeds maxMediaBytes.                                          *)
RejectLarge(s) ==
  /\ At(s, "receive")
  /\ request[s].file \in Large
  /\ End(s)
  /\ Failed(s)
  /\ UNCHANGED <<serverVars, overlapped, local, pc, boundVars>>

(* The R2 store replaces an object at once.                                 *)
PutObject(s) ==
  /\ r2
  /\ At(s, "receive")
  /\ request[s].file \notin Large
  /\ blob' = [blob EXCEPT ![request[s].file] = request[s].data]
  /\ GoTo(s, "row")
  /\ UNCHANGED <<r2, listed, temp, stones, overlapped, local, passVars, boundVars>>

(* Mutant of CreateTemp: the stored file itself is opened for writing.      *)
CreateInPlace(s) ==
  /\ ~r2
  /\ At(s, "receive")
  /\ request[s].file \notin Large
  /\ blob' = [blob EXCEPT ![request[s].file] = Empty]
  /\ request' = [request EXCEPT ![s].handle = "blob", ![s].step = "copy"]
  /\ UNCHANGED <<r2, listed, temp, stones, overlapped, local, passVars, boundVars>>

(* FS.Put creates the temporary file, or truncates the one that is there.   *)
CreateTemp(s) ==
  /\ ~r2
  /\ At(s, "receive")
  /\ request[s].file \notin Large
  /\ temp' = [temp EXCEPT ![request[s].file] = Empty]
  /\ request' = [request EXCEPT ![s].handle = "temp", ![s].step = "copy"]
  /\ UNCHANGED <<r2, listed, blob, stones, overlapped, local, passVars, boundVars>>

(* What a file holds once data was written over it from its start.          *)
Overwritten(old, data) == IF old \in {Empty, data} THEN {data} ELSE {data, Broken}

CopyData(s) ==
  LET r == request[s] IN
  /\ At(s, "copy")
  /\ CASE r.handle = "temp" ->
            \E new \in Overwritten(temp[r.file], r.data) :
              temp' = [temp EXCEPT ![r.file] = new] /\ blob' = blob
       [] r.handle = "blob" ->
            \E new \in Overwritten(blob[r.file], r.data) :
              blob' = [blob EXCEPT ![r.file] = new] /\ temp' = temp
       [] r.handle = "lost" -> UNCHANGED storeVars
  /\ GoTo(s, "rename")
  /\ UNCHANGED <<r2, listed, stones, overlapped, local, passVars, boundVars>>

(* Renaming works on the name, whatever this request wrote to.              *)
RenameTemp(s) ==
  LET f == request[s].file IN
  /\ At(s, "rename")
  /\ temp[f] # NoFile
  /\ blob' = [blob EXCEPT ![f] = temp[f]]
  /\ temp' = [temp EXCEPT ![f] = NoFile]
  /\ request' = [t \in Slots |->
       IF t = s THEN [request[s] EXCEPT !.handle = "lost", !.step = "row"]
       ELSE IF Moved(t, f, "temp", "blob") # request[t]
            THEN Moved(t, f, "temp", "blob")
            ELSE Moved(t, f, "blob", "lost")]
  /\ UNCHANGED <<r2, listed, stones, overlapped, local, passVars, boundVars>>

(* Another upload has renamed it, or removed it.                            *)
RenameFails(s) ==
  /\ At(s, "rename")
  /\ temp[request[s].file] = NoFile
  /\ End(s)
  /\ Failed(s)
  /\ UNCHANGED <<serverVars, overlapped, local, pc, boundVars>>

UpsertRow(s) ==
  /\ At(s, "row")
  /\ listed' = listed \cup {request[s].file}
  /\ GoTo(s, "clear")
  /\ UNCHANGED <<r2, storeVars, stones, overlapped, local, passVars, boundVars>>

ClearTombstone(s) ==
  /\ At(s, "clear")
  /\ stones' = stones \ {request[s].file}
  /\ End(s)
  /\ Succeeded(s)
  /\ UNCHANGED <<r2, listed, storeVars, overlapped, local, pc, boundVars>>

(* The error of clearing the tombstone is ignored.                          *)
LeaveTombstone(s) ==
  /\ At(s, "clear")
  /\ Fails
  /\ End(s)
  /\ Succeeded(s)
  /\ UNCHANGED <<serverVars, overlapped, local, pc, edits, deletes>>

-----------------------------------------------------------------------------
(* DeleteMedia, which the client offers and its passes never call.          *)

RequestDelete(s, f) ==
  /\ deletes < MaxDeletes
  /\ deletes' = deletes + 1
  /\ Arrive(s, f, NoFile, "take")
  /\ UNCHANGED <<serverVars, local, passVars, edits, failures>>

(* Mutant of TakeRow: the key is read and the row left.                     *)
TakeKeyOnly(s) ==
  /\ At(s, "take")
  /\ GoTo(s, IF request[s].file \in listed THEN "remove" ELSE "stone")
  /\ UNCHANGED <<serverVars, overlapped, local, passVars, boundVars>>

(* Without a row there is no key, and no object to delete.                  *)
TakeRow(s) ==
  LET f == request[s].file IN
  /\ At(s, "take")
  /\ listed' = listed \ {f}
  /\ GoTo(s, IF f \in listed THEN "remove" ELSE "stone")
  /\ UNCHANGED <<r2, storeVars, stones, overlapped, local, passVars, boundVars>>

RemoveBlob(s) ==
  LET f == request[s].file IN
  /\ At(s, "remove")
  /\ blob' = [blob EXCEPT ![f] = NoFile]
  /\ request' = [t \in Slots |->
       IF t = s THEN [request[s] EXCEPT !.step = "stone"] ELSE Moved(t, f, "blob", "lost")]
  /\ UNCHANGED <<r2, listed, temp, stones, overlapped, local, passVars, boundVars>>

(* The error of the store is ignored.                                       *)
LeaveBlob(s) ==
  /\ At(s, "remove")
  /\ Fails
  /\ GoTo(s, "stone")
  /\ UNCHANGED <<serverVars, overlapped, local, passVars, edits, deletes>>

WriteTombstone(s) ==
  /\ At(s, "stone")
  /\ stones' = stones \cup {request[s].file}
  /\ End(s)
  /\ UNCHANGED <<r2, listed, storeVars, overlapped, local, passVars, boundVars>>

-----------------------------------------------------------------------------
(* GetMedia, and what download_one does with its answer.                    *)

(* 404 without a row, which the client counts as skipped.                   *)
FindRow(s) ==
  /\ At(s, "find")
  /\ IF request[s].file \in listed
     THEN GoTo(s, "open") /\ UNCHANGED <<task, tries>>
     ELSE End(s) /\ Succeeded(s)
  /\ UNCHANGED <<serverVars, overlapped, local, pc, boundVars>>

(* 404 without an object too.  A file that is there by now is kept.         *)
OpenBlob(s) ==
  LET f == request[s].file IN
  /\ At(s, "open")
  /\ local' = [d \in Devices |-> IF s = <<d, f>> /\ local[d][f] = NoFile
                                 THEN [local[d] EXCEPT ![f] = blob[f]]
                                 ELSE local[d]]
  /\ End(s)
  /\ Succeeded(s)
  /\ UNCHANGED <<serverVars, overlapped, pc, boundVars>>

-----------------------------------------------------------------------------
(* What goes wrong.                                                         *)

(* The request fails or the server stops at any statement.                  *)
Fail(s) ==
  /\ Busy(s)
  /\ Fails
  /\ End(s)
  /\ Failed(s)
  /\ UNCHANGED <<serverVars, overlapped, local, pc, edits, deletes>>

(* FS.Put fails to write, and removes the temporary file by its name.       *)
FailCopy(s) ==
  LET f == request[s].file IN
  /\ At(s, "copy")
  /\ Fails
  /\ temp' = [temp EXCEPT ![f] = NoFile]
  /\ request' = [t \in Slots |-> IF t = s THEN Free ELSE Moved(t, f, "temp", "lost")]
  /\ Failed(s)
  /\ UNCHANGED <<r2, listed, blob, stones, overlapped, local, pc, edits, deletes>>

(* The client's call times out; the server goes on.  Of a download that     *)
(* makes no difference: it is as if it had failed.                          *)
GiveUp(s, late) ==
  /\ Writes(s)
  /\ ~Busy(late)
  /\ Fails
  /\ request' = [request EXCEPT ![s] = Free, ![late] = request[s]]
  /\ Failed(s)
  /\ UNCHANGED <<serverVars, overlapped, local, pc, edits, deletes>>

(* The client stops, having given up what it was waiting for.               *)
Stop(d) ==
  /\ pc[d] # "idle"
  /\ \A f \in Files : ~Busy(<<d, f>>)
  /\ Fails
  /\ pc' = [pc EXCEPT ![d] = "idle"]
  /\ task' = [task EXCEPT ![d] = Nothing]
  /\ tries' = [tries EXCEPT ![d] = NoTries]
  /\ UNCHANGED <<serverVars, request, overlapped, local, edits, deletes>>

-----------------------------------------------------------------------------
(* The user, and sync_media_once.                                           *)

(* A file that no note refers to plays no part in a pass.                   *)
ChangeFile(d, f, data) ==
  /\ f \in References[d]
  /\ pc[d] = "idle"
  /\ edits < MaxEdits
  /\ edits' = edits + 1
  /\ local' = [local EXCEPT ![d][f] = data]
  /\ UNCHANGED <<serverVars, request, overlapped, passVars, deletes, failures>>

(* Mutant of Plan: a deleted file is not uploaded again.                    *)
PlanKeepsDeleted(d, f) ==
  IF f \notin References[d] THEN "none"
  ELSE IF f \in listed
       THEN IF local[d][f] = NoFile THEN "down" ELSE "none"
       ELSE IF local[d][f] = NoFile \/ f \in stones THEN "none" ELSE "up"

(* What the manifest and the folder make of a referenced file: the listed   *)
(* is never uploaded, the local never downloaded.                           *)
Plan(d, f) ==
  IF f \notin References[d] THEN "none"
  ELSE IF f \in listed
       THEN IF local[d][f] = NoFile THEN "down" ELSE "none"
       ELSE IF local[d][f] = NoFile THEN "none" ELSE "up"

(* The first phase with something to do; a phase without ends at once.      *)
Phase(tasks) ==
  IF \E f \in Files : tasks[f] = "up" THEN "upload"
  ELSE IF \E f \in Files : tasks[f] = "down" THEN "download"
  ELSE "idle"

BeginPass(d) ==
  LET plan == [f \in Files |-> Plan(d, f)] IN
  /\ pc[d] = "idle"
  /\ pc' = [pc EXCEPT ![d] = Phase(plan)]
  /\ task' = [task EXCEPT ![d] = plan]
  /\ UNCHANGED <<serverVars, request, overlapped, local, tries, boundVars>>

Upload(d, f) ==
  /\ pc[d] = "upload"
  /\ task[d][f] = "up"
  /\ Arrive(<<d, f>>, f, local[d][f], "receive")
  /\ UNCHANGED <<serverVars, local, passVars, boundVars>>

Download(d, f) ==
  /\ pc[d] = "download"
  /\ task[d][f] = "down"
  /\ Arrive(<<d, f>>, f, NoFile, "find")
  /\ UNCHANGED <<serverVars, local, passVars, boundVars>>

(* The pool is drained before an error ends the pass.                       *)
EndPhase(d) ==
  LET failed == \E f \in Files : task[d][f] = "error" IN
  /\ pc[d] # "idle"
  /\ Phase(task[d]) # pc[d]
  /\ pc' = [pc EXCEPT ![d] = IF failed THEN "idle" ELSE Phase(task[d])]
  /\ task' = IF failed THEN [task EXCEPT ![d] = Nothing] ELSE task
  /\ UNCHANGED <<serverVars, request, overlapped, local, tries, boundVars>>

-----------------------------------------------------------------------------
Statement(s) ==
  \/ RejectLarge(s) \/ PutObject(s) \/ CreateTemp(s) \/ CopyData(s) \/ RenameTemp(s)
  \/ RenameFails(s) \/ UpsertRow(s) \/ ClearTombstone(s)
  \/ TakeRow(s) \/ RemoveBlob(s) \/ WriteTombstone(s)
  \/ FindRow(s) \/ OpenBlob(s)

Failure ==
  \/ \E s \in Slots : LeaveTombstone(s) \/ LeaveBlob(s) \/ Fail(s) \/ FailCopy(s)
  \/ \E s \in Own, late \in Late : GiveUp(s, late)
  \/ \E d \in Devices : Stop(d)

PassStep(d) ==
  \/ BeginPass(d) \/ EndPhase(d)
  \/ \E f \in Files : Upload(d, f) \/ Download(d, f)

Next ==
  \/ \E s \in Slots : Statement(s)
  \/ \E d \in Devices : PassStep(d)
  \/ \E d \in Devices, f \in Files, data \in Contents : ChangeFile(d, f, data)
  \/ \E s \in Late, f \in Files : RequestDelete(s, f)
  \/ Failure

Spec == Init /\ [][Next]_vars

(* The server works off its requests, and every device goes through its     *)
(* passes; the steps of a pass are enabled one kind at a time, those about  *)
(* several files until each is done.                                        *)
FairSpec ==
  /\ Spec
  /\ \A s \in Slots : WF_vars(Statement(s))
  /\ \A d \in Devices : WF_vars(PassStep(d))

-----------------------------------------------------------------------------
TypeOK ==
  /\ r2 \in BOOLEAN
  /\ listed \subseteq Files
  /\ blob \in [Files -> MaybeData]
  /\ temp \in [Files -> MaybeData]
  /\ stones \subseteq Files
  /\ request \in [Slots -> Request \cup {Free}]
  /\ local \in [Devices -> [Files -> MaybeData]]
  /\ pc \in [Devices -> {"idle", "upload", "download"}]
  /\ task \in [Devices -> [Files -> {"none", "up", "down", "error"}]]
  /\ tries \in [Devices -> [Files -> 0..(MaxTries - 1)]]
  /\ edits \in 0..MaxEdits
  /\ deletes \in 0..MaxDeletes
  /\ failures \in 0..MaxFailures
  /\ overlapped \subseteq Files

(* What the store does as its clients see it: a row without its object is no *)
(* better than a damaged file.  An upload of a listed file takes effect with *)
(* the object, of another with the row; a deletion with the row.            *)
Served ==
  [f \in Files |-> IF f \notin listed THEN NoFile ELSE IF blob[f] = NoFile THEN Broken ELSE blob[f]]

Changes ==
  [s \in Slots |-> IF Writes(s) THEN [file |-> request[s].file, data |-> request[s].data] ELSE Free]

Unfinished(s) ==
  \/ request[s].step \in {"receive", "copy", "rename", "take"}
  \/ request[s].step = "row" /\ request[s].file \notin listed

Pending == {s \in Slots : Writes(s) /\ Unfinished(s)}

Store == INSTANCE FileStore WITH
  served <- Served, req <- Changes, pending <- Pending, mixed <- overlapped,
  Data <- MaybeData, NoRequest <- Free

(* To its clients the server is a store of whole files: what is served of a  *)
(* file changes at one moment of an upload or a deletion, before a success   *)
(* is answered, and only then, whatever statement a request stops at         *)
(* (media.go, fs.go), unless two requests changed the file at once.          *)
ImplementsFiles == Store!Spec

(* A listed file can be downloaded: whatever statement a request stopped    *)
(* at, no row is left without its object (media.go writes the object first  *)
(* and deletes the row first), unless two requests changed the file at      *)
(* once.                                                                    *)
ListedIsStored == \A f \in listed : blob[f] # NoFile \/ f \in overlapped

(* Nobody ever reads half a file: an upload that stops leaves the stored    *)
(* object as it was, and every copy made by a pass is a user's content,     *)
(* unless two requests changed the file at once and shared the temporary    *)
(* file of fs.go.                                                           *)
OnlyWholeFiles ==
  \A f \in Files \ overlapped :
    /\ blob[f] \notin Damaged
    /\ \A d \in Devices : local[d][f] \notin Damaged

(* A file above the limit fails the uploads of every pass of its device,    *)
(* which therefore never comes to its downloads.                            *)
Blocked(d) ==
  \E f \in References[d] \cap Large : local[d][f] # NoFile

(* Every device ends up with a file that some device can upload, if its     *)
(* notes refer to it, also after failed passes, late requests and           *)
(* deletions; unless the device is blocked, or the file is listed without   *)
(* an object.                                                               *)
EventuallyShared ==
  <>[](\A f \in Files \ Large :
         (\E d \in Devices : f \in References[d] /\ local[d][f] # NoFile) =>
         \/ f \in listed /\ blob[f] = NoFile
         \/ \A d \in Devices : f \in References[d] => local[d][f] # NoFile \/ Blocked(d))

(* Of a file whose object is gone, media.go says that the client treats it  *)
(* as absent and re-uploads its copy.                                       *)
MissingIsUploadedAgain ==
  \A d \in Devices, f \in Files \ Large :
    (f \in listed /\ blob[f] = NoFile /\ f \in References[d] /\ local[d][f] # NoFile)
      ~> (blob[f] # NoFile)
=============================================================================
