----------------------------- MODULE PlannedSync -----------------------------
(***************************************************************************)
(* Planned sync (engine.py): a client compares its notes with a manifest,  *)
(* the whole one or what changed since the server_time of an earlier one,  *)
(* shows the differences, and pushes, forces or accepts the items its user *)
(* chooses.  The server compares and stamps a write and stores it later; a *)
(* manifest takes its server_time before it reads the rows.  Both go on    *)
(* while the other is between its steps, and a request whose client has    *)
(* given up is still served.  Rows and server_time are stamped by the      *)
(* server's clock (Go's time.Now()), tombstones by PostgreSQL's now(): two *)
(* clocks, and either may be ahead of the other.                           *)
(*                                                                         *)
(* Abstracted: a content stands for its checksum; a row and its tombstone  *)
(* are one (ContentStore has them apart); no two readings of a clock are   *)
(* equal.  Notetypes and decks take the same path as notes; cards, which   *)
(* are newest-wins, are in CardSync.                                       *)
(***************************************************************************)
EXTENDS Naturals

CONSTANTS
  Notes, Clients, Texts, NoNote,
  Elsewhere,    \* where the requests of the user's other programs come from
  MaxTime,      \* bound on the time of either clock
  MaxEvents     \* bound on what users do and on the failures of a behaviour

ASSUME PlanConstants == NoNote \notin Texts /\ Elsewhere \notin Clients /\ MaxTime \in Nat /\ MaxEvents \in Nat

VARIABLES
  clock,     \* the last reading of the server's clock, time.Now()
  dbClock,   \* the last reading of the database's, now()
  stored,    \* per note, its content and modified_at, or NoNote and deleted_at
  requests,  \* the writes the server has yet to serve; at = 0 until stamped
  local,     \* per client, its notes
  phase,     \* where the client is in build_plan or a push
  manifest,  \* the manifest it is given: since, server_time, rows
  plan,      \* its plan: contents here and of the server, items in conflict
  events,    \* number of users' acts and failures so far
  shown,     \* history: per client and note, the contents manifests showed it
  doubtful,  \* history: per client, the notes with a write its manifest overlapped
  overlapped, \* history: notes of which two admitted writes overlapped
  lagging    \* history: notes with a deletion stamped by a database clock behind

serverVars == <<clock, dbClock, stored, requests>>
clientVars == <<local, phase, manifest, plan>>
history == <<shown, doubtful, overlapped, lagging>>
planVars == <<serverVars, clientVars, events, history>>

Optional == Texts \cup {NoNote}
Row == [content : Optional, at : 0..MaxTime]
Write == [op : {"put", "batch", "delete"}, from : Clients \cup {Elsewhere}, note : Notes, content : Optional,
            base : Optional, force : BOOLEAN, at : 0..MaxTime, admitted : BOOLEAN, awaited : BOOLEAN]

NoRow == [content |-> NoNote, at |-> 0]
NoRows == [n \in Notes |-> NoRow]
NoNotes == [n \in Notes |-> NoNote]
NoPlan == [mine |-> NoNotes, server |-> NoNotes, conflicts |-> {}]

PlanInit ==
  /\ clock = 0
  /\ dbClock = 0
  /\ stored = NoRows
  /\ requests = {}
  /\ local = [c \in Clients |-> NoNotes]
  /\ phase = [c \in Clients |-> "idle"]
  /\ manifest = [c \in Clients |-> [since |-> 0, time |-> 0, rows |-> NoRows]]
  /\ plan = [c \in Clients |-> NoPlan]
  /\ events = 0
  /\ shown = [c \in Clients |-> [n \in Notes |-> {}]]
  /\ doubtful = [c \in Clients |-> {}]
  /\ overlapped = {}
  /\ lagging = {}

Enter(c, to) == phase' = [phase EXCEPT ![c] = to]

Tick == clock < MaxTime /\ clock' = clock + 1

Event == events < MaxEvents /\ events' = events + 1

(* A client sends a request and awaits its answer, or another program does.  *)
Post(from, n, op, content, base, force) ==
  requests' = requests \cup
    {[op |-> op, from |-> from, note |-> n, content |-> content, base |-> base, force |-> force,
      at |-> 0, admitted |-> FALSE, awaited |-> from # Elsewhere]}

-----------------------------------------------------------------------------
(* The user edits or deletes a note, also while a plan is on the screen.     *)
Edit(c, n, content) ==
  /\ local[c][n] # content
  /\ Event
  /\ local' = [local EXCEPT ![c][n] = content]
  /\ UNCHANGED <<serverVars, phase, manifest, plan, history>>

(* A content pass of another of the user's programs sends a batch: a push     *)
(* with the content it has just been told as its base, or a deletion.      *)
RequestBatch(n, content) ==
  /\ content # stored[n].content
  /\ Event
  /\ Post(Elsewhere, n, "batch", content, stored[n].content, FALSE)
  /\ UNCHANGED <<clock, dbClock, stored, clientVars, history>>

RequestDelete(n) ==
  /\ Event
  /\ Post(Elsewhere, n, "delete", NoNote, NoNote, TRUE)
  /\ UNCHANGED <<clock, dbClock, stored, clientVars, history>>

-----------------------------------------------------------------------------
(* build_plan: the local notes are read before the manifest is fetched,      *)
(* whole or since the last one.                                            *)
BeginPlan(c, whole) ==
  /\ phase[c] = "idle"
  /\ Tick
  /\ plan' = [plan EXCEPT ![c] = [NoPlan EXCEPT !.mine = local[c]]]
  /\ manifest' = [manifest EXCEPT ![c] =
       [since |-> IF whole THEN 0 ELSE @.time, time |-> clock', rows |-> NoRows]]
  /\ Enter(c, "read")
  /\ UNCHANGED <<dbClock, stored, requests, local, events, history>>

(* The rows as they are now; what the manifest lists of them is Changed.     *)
Stamped == {r \in requests : r.at > 0}

ReadNotes(c) ==
  /\ phase[c] = "read"
  /\ manifest' = [manifest EXCEPT ![c].rows = stored]
  /\ doubtful' = [doubtful EXCEPT ![c] = {r.note : r \in {q \in Stamped : q.at <= manifest[c].time}}]
  /\ Enter(c, "compare")
  /\ UNCHANGED <<serverVars, local, plan, events, shown, overlapped, lagging>>

Listed(m) == [n \in Notes |-> IF m.rows[n].at > m.since THEN m.rows[n].content ELSE NoNote]

(* Mutant: the time is taken when the answer is written.                    *)
TimeOfAnswer(c) == clock

(* The time that was taken before the rows were read.                       *)
ServerTime(c) == manifest[c].time

(* The answer is written, and _diff_keyed compares.                         *)
Compare(c) ==
  /\ phase[c] = "compare"
  /\ manifest' = [manifest EXCEPT ![c].time = ServerTime(c)]
  /\ plan' = [plan EXCEPT ![c].server = Listed(manifest[c])]
  /\ shown' = [shown EXCEPT ![c] = [n \in Notes |-> @[n] \cup ({Listed(manifest[c])[n]} \ {NoNote})]]
  /\ Enter(c, "idle")
  /\ UNCHANGED <<serverVars, local, events, doubtful, overlapped, lagging>>

(* The items that are not in sync, and those of them that are pushed: all but *)
(* the ones only the server has, conflicts once more.                      *)
Differing(c) == {n \in Notes : plan[c].mine[n] # plan[c].server[n]}
ToPush(c) == {n \in Differing(c) : plan[c].mine[n] # NoNote}

(* Mutant: a push without a base.                                           *)
NoBase(c, n) == NoNote

Base(c, n) == plan[c].server[n]

(* Mutant: the client does not wait for the answer to its last request.      *)
PutAtOnce(c, n, content, force) ==
  /\ Post(c, n, "put", content, Base(c, n), force)
  /\ Enter(c, "put")
  /\ UNCHANGED <<clock, dbClock, stored, local, manifest, plan, history>>

Send(c, n, content, force) ==
  /\ phase[c] = "idle"
  /\ Post(c, n, "put", content, Base(c, n), force)
  /\ Enter(c, "put")
  /\ UNCHANGED <<clock, dbClock, stored, local, manifest, plan, history>>

(* push_local sends the note as it is by now, if it is still here.           *)
push_local(c, n) ==
  /\ n \in ToPush(c) /\ local[c][n] # NoNote
  /\ Send(c, n, local[c][n], FALSE)
  /\ UNCHANGED events

force_local(c, n) ==
  /\ n \in Differing(c) /\ local[c][n] # NoNote
  /\ Event
  /\ Send(c, n, local[c][n], TRUE)

canonical_override(c, n, content) == n \in Differing(c) /\ Event /\ Send(c, n, content, TRUE)

(* The server's note as it is by now; the caller applies it.                 *)
accept_server(c, n) ==
  /\ phase[c] = "idle"
  /\ n \in Differing(c) /\ stored[n].content # NoNote
  /\ Event
  /\ local' = [local EXCEPT ![c][n] = stored[n].content]
  /\ UNCHANGED <<serverVars, phase, manifest, plan, history>>

-----------------------------------------------------------------------------
(* The server.                                                              *)

(* Mutant: nothing is compared.                                             *)
NeverRefused(r) == FALSE

(* Another content than the client's base, and not what it pushes.           *)
Refused(r) == ~r.force /\ stored[r.note].content \notin {NoNote, r.base, r.content}

(* The client that awaits the answer goes on.                               *)
Answer(r) == phase' = IF r.awaited THEN [phase EXCEPT ![r.from] = "idle"] ELSE phase

(* Two writes of a note overlap if both are admitted and not yet stored.     *)
Admitted == {r \in requests : r.admitted}

Overlap(r) == overlapped' = IF \E q \in Admitted : q.note = r.note THEN overlapped \cup {r.note} ELSE overlapped

(* BatchPush reads the clock before it compares anything.                    *)
Stamp(r) ==
  /\ r.op = "batch" /\ r.at = 0
  /\ Tick
  /\ requests' = (requests \ {r}) \cup {[r EXCEPT !.at = clock']}
  /\ UNCHANGED <<dbClock, stored, clientVars, events, history>>

AdmitBatch(r) ==
  /\ r.op = "batch" /\ r.at > 0 /\ ~r.admitted /\ ~Refused(r)
  /\ requests' = (requests \ {r}) \cup {[r EXCEPT !.admitted = TRUE]}
  /\ Overlap(r)
  /\ UNCHANGED <<clock, dbClock, stored, clientVars, events, shown, doubtful, lagging>>

(* PutNote compares, and then reads the clock.                               *)
AdmitPut(r) ==
  /\ r.op = "put" /\ ~r.admitted /\ ~Refused(r)
  /\ Tick
  /\ requests' = (requests \ {r}) \cup {[r EXCEPT !.at = clock', !.admitted = TRUE]}
  /\ Overlap(r)
  /\ UNCHANGED <<dbClock, stored, clientVars, events, shown, doubtful, lagging>>

(* A deletion compares nothing.  Its tombstone has the time at which its      *)
(* transaction begins, by the database's clock; that may be one the server *)
(* has long passed by its own.                                             *)
BeginDelete(r) ==
  /\ r.op = "delete" /\ ~r.admitted
  /\ \E now \in (dbClock + 1)..MaxTime :
       /\ dbClock' = now
       /\ requests' = (requests \ {r}) \cup {[r EXCEPT !.at = now, !.admitted = TRUE]}
       /\ lagging' = IF now <= clock THEN lagging \cup {r.note} ELSE lagging
  /\ Overlap(r)
  /\ UNCHANGED <<clock, stored, clientVars, events, shown, doubtful>>

Refuse(r) ==
  /\ ~r.admitted /\ (r.op = "batch" => r.at > 0) /\ Refused(r)
  /\ requests' = requests \ {r}
  /\ Answer(r)
  /\ plan' = IF r.awaited THEN [plan EXCEPT ![r.from].conflicts = @ \cup {r.note}] ELSE plan
  /\ UNCHANGED <<clock, dbClock, stored, local, manifest, events, history>>

Commit(r) ==
  /\ r.admitted
  /\ requests' = requests \ {r}
  /\ stored' = [stored EXCEPT ![r.note] = [content |-> r.content, at |-> r.at]]
  /\ Answer(r)
  /\ UNCHANGED <<clock, dbClock, local, manifest, plan, events, history>>

(* A request fails or the client stops; what it sent is served late, or lost. *)
(* A plan is still on the screen if only a push of its items has failed; the *)
(* next one may be since the same time as the one that has failed.         *)
Fail(c) ==
  /\ phase[c] # "idle"
  /\ Event
  /\ Enter(c, "idle")
  /\ \/ plan' = [plan EXCEPT ![c] = NoPlan]
     \/ phase[c] = "put" /\ UNCHANGED plan
  /\ requests' = {IF r.from = c THEN [r EXCEPT !.awaited = FALSE] ELSE r : r \in requests}
  /\ manifest' = IF phase[c] = "put" THEN manifest ELSE [manifest EXCEPT ![c].time = manifest[c].since, ![c].rows = NoRows]
  /\ doubtful' = IF phase[c] = "put" THEN doubtful ELSE [doubtful EXCEPT ![c] = Notes]
  /\ UNCHANGED <<clock, dbClock, stored, local, shown, overlapped, lagging>>

Lose(r) ==
  /\ ~r.awaited
  /\ Event
  /\ requests' = requests \ {r}
  /\ UNCHANGED <<clock, dbClock, stored, clientVars, history>>

Client(c) ==
  \/ BeginPlan(c, TRUE) \/ BeginPlan(c, FALSE) \/ ReadNotes(c) \/ Compare(c) \/ Fail(c)
  \/ \E n \in Notes :
       \/ push_local(c, n) \/ force_local(c, n) \/ accept_server(c, n)
       \/ \E content \in Optional : Edit(c, n, content)
       \/ \E content \in Texts : canonical_override(c, n, content)

OtherProgram == \E n \in Notes : RequestDelete(n) \/ \E content \in Texts : RequestBatch(n, content)

Handle(r) ==
  \/ Stamp(r) \/ AdmitBatch(r) \/ AdmitPut(r) \/ BeginDelete(r)
  \/ Refuse(r) \/ Commit(r) \/ Lose(r)

PlanNext == (\E c \in Clients : Client(c)) \/ OtherProgram \/ \E r \in requests : Handle(r)

PlanSpec == PlanInit /\ [][PlanNext]_planVars

-----------------------------------------------------------------------------
(* A client awaits the answer to one write at most, and only in a push.      *)
OneAwaited ==
  \A r, q \in requests :
    r.awaited => r.from \in Clients /\ phase[r.from] = "put" /\ (q.awaited /\ q.from = r.from => q = r)

(* The variables have their types, a client awaits one write at most and only *)
(* in a push, and only items that differ are in conflict.                  *)
PlanTypeOK ==
  /\ clock \in 0..MaxTime
  /\ dbClock \in 0..MaxTime
  /\ stored \in [Notes -> Row]
  /\ requests \subseteq Write
  /\ local \in [Clients -> [Notes -> Optional]]
  /\ phase \in [Clients -> {"idle", "read", "compare", "put"}]
  /\ manifest \in [Clients -> [since : 0..MaxTime, time : 0..MaxTime, rows : [Notes -> Row]]]
  /\ plan \in [Clients -> [mine : [Notes -> Optional], server : [Notes -> Optional], conflicts : SUBSET Notes]]
  /\ events \in 0..MaxEvents
  /\ shown \in [Clients -> [Notes -> SUBSET Texts]]
  /\ doubtful \in [Clients -> SUBSET Notes]
  /\ overlapped \subseteq Notes
  /\ lagging \subseteq Notes
  /\ OneAwaited
  /\ \A c \in Clients : plan[c].conflicts \subseteq ToPush(c)

(* Whatever has changed since a manifest was answered is in the manifest     *)
(* since its server_time, but for two kinds of changes, and nothing else:  *)
(* a write stamped by that time and not yet stored when the rows were read *)
(* (doubtful), and a deletion that the database's clock stamped with a     *)
(* time the server had passed (lagging).  API.md "use as `since`" names    *)
(* neither (manifest.go GetManifest, batch.go BatchPush and BatchDelete).  *)
DeltaComplete ==
  \A c \in Clients : phase[c] \in {"idle", "put"} =>
    \A n \in Notes \ doubtful[c] : stored[n] # manifest[c].rows[n] =>
      stored[n].at > manifest[c].time \/ (stored[n].content = NoNote /\ n \in lagging)

(* A push that is not forced replaces only a content that a manifest has     *)
(* shown this client, unless writes overlap (engine.py push_local,         *)
(* notes.go PutNote).                                                      *)
ReplacesOnlyShown ==
  [][\A r \in requests \ requests' :
       (stored' # stored /\ r.op = "put" /\ r.admitted /\ ~r.force /\ r.note \notin overlapped)
         => stored[r.note].content \in shown[r.from][r.note] \cup {NoNote, r.content}]_planVars

(* An item becomes a conflict only if its note was written or deleted after   *)
(* the plan's manifest was read, or had not changed since the time the     *)
(* manifest was asked for (engine.py push_all_non_conflicting).            *)
ConflictsAreNews ==
  [][\A c \in Clients : \A n \in plan'[c].conflicts \ plan[c].conflicts :
       \/ stored[n] # manifest[c].rows[n]
       \/ stored[n].at <= manifest[c].since]_planVars
=============================================================================
