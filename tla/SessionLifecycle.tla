-------------------------- MODULE SessionLifecycle --------------------------
(***************************************************************************)
(* The life of the session folders on disk (session.rs): a recording is    *)
(* started, stopped and finalized step by step, any of those steps may     *)
(* fail or be cut off by a crash, and the next launch sweeps the sessions  *)
(* root for folders that still carry the ".recording" extension.           *)
(*                                                                         *)
(* Each step below is one durable effect of start, stop or                 *)
(* recover_incomplete_sessions; a crash may fall between any two of them.  *)
(* All three run on the recorder worker's thread, one at a time, so one pc *)
(* is enough.                                                              *)
(*                                                                         *)
(* A folder name is [stamp, kind, copy]: the local second of the start,    *)
(*   "recording"  SESSION_<stamp>.recording                                *)
(*   "final"      SESSION_<stamp>                                          *)
(*   "recovered"  SESSION_<stamp>_RECOVERED                                *)
(* and the _<copy> that unique_session_path appends (none for copy 1).     *)
(***************************************************************************)
EXTENDS Naturals, FiniteSets

CONSTANTS
    Sessions,       \* session ids
    Stamps,         \* local date and time to the second; it may repeat
    MaxCopies,      \* 9999 in unique_session_path
    MaxFaults,      \* bound on crashes and failing calls
    NoSession,      \* no session is being worked on
    NoName          \* a session that has no folder yet

Copies == 1..MaxCopies
Names == [stamp : Stamps, kind : {"recording", "final", "recovered"},
          copy : Copies]

ASSUME LifecycleAssumption ==
    /\ MaxCopies \in Nat \ {0}
    /\ MaxFaults \in Nat
    /\ NoSession \notin Sessions
    /\ NoName \notin Names

VARIABLES
    dir,            \* per session: its folder's name, or NoName
    db,             \* per session: what session.sqlite says
    manifest,       \* per session: state and output_directory in manifest.json
    exported,       \* sessions whose report has been generated
    marks,          \* per session: 'recovery' bookmarks in its database
    outcome,        \* per session: what stop returned to the worker
    pc,             \* what the process is doing
    cur,            \* the session it is doing it to
    todo,           \* recovery: the folders the sweep has still to visit
    found,          \* recovery: what the sweep of this launch has to visit
    swept,          \* recovery: the sweep of this launch returned Ok
    calm,           \* history: no fault has been injected since the launch
    faults          \* faults left

vars == <<dir, db, manifest, exported, marks, outcome, pc, cur, todo, found,
          swept, calm, faults>>

diskVars == <<dir, db, manifest, exported, marks>>
sweepVars == <<todo, found, swept>>

StartPcs == {"s_manifest", "s_open", "s_row", "s_spawn"}
StopPcs == {"q_collect", "q_stuck", "q_mark", "q_manifest", "q_export",
            "q_rename", "q_outdir"}
RecoverPcs == {"r_open", "r_mark", "r_export", "r_rename"}
Pcs == {"down", "sweep", "idle", "recording"}
           \cup StartPcs \cup StopPcs \cup RecoverPcs

NoManifest == [state |-> "none", dir |-> NoName]
Manifests == [state : {"none", "recording", "complete"},
              dir : Names \cup {NoName}]

-----------------------------------------------------------------------------
(* Folder names.                                                            *)

Free(n) == \A s \in Sessions : dir[s] # n

\* A mutant of FirstFree: an existing folder is taken.
FirstTaken(n) == n.copy = 1

\* unique_session_path: the requested name, or the first free numbered copy.
FirstFree(n) ==
    /\ Free(n)
    /\ \A k \in 1..(n.copy - 1) : ~Free([n EXCEPT !.copy = k])

\* A mutant of HasRecordingExtension: every folder not renamed by stop is taken for unfinished.
HasUnfinishedName(n) == n # NoName /\ n.kind # "final"

\* Path::extension() == "recording": a numbered copy has ".recording_2".
HasRecordingExtension(n) == n # NoName /\ n.kind = "recording" /\ n.copy = 1

\* final_path_for strips the suffix ".recording" if it is there.
FinalName(n) ==
    IF HasRecordingExtension(n) THEN [n EXCEPT !.kind = "final"] ELSE n

-----------------------------------------------------------------------------
Init ==
    /\ dir = [s \in Sessions |-> NoName]
    /\ db = [s \in Sessions |-> "none"]
    /\ manifest = [s \in Sessions |-> NoManifest]
    /\ exported = {}
    /\ marks = [s \in Sessions |-> 0]
    /\ outcome = [s \in Sessions |-> "none"]
    /\ pc = "down"
    /\ cur = NoSession
    /\ todo = {}
    /\ found = {}
    /\ swept = FALSE
    /\ calm = TRUE
    /\ faults = MaxFaults

-----------------------------------------------------------------------------
(* recover_incomplete_sessions, called once per launch.                     *)

\* The launch: read_dir will meet every folder with the extension.
Boot ==
    /\ pc = "down"
    /\ pc' = "sweep"
    /\ found' = {s \in Sessions : HasRecordingExtension(dir[s])}
    /\ todo' = found'
    /\ swept' = FALSE
    /\ calm' = TRUE
    /\ cur' = NoSession
    /\ UNCHANGED <<diskVars, outcome, faults>>

\* The next directory entry; without a database there is only the rename.
Visit(s) ==
    /\ pc = "sweep"
    /\ s \in todo
    /\ cur' = s
    /\ pc' = IF db[s] = "none" THEN "r_rename" ELSE "r_open"
    /\ UNCHANGED <<diskVars, outcome, sweepVars, calm, faults>>

\* A mutant of NoSessionsRow: a database without a row is passed over.
NoSessionsRowSkips ==
    /\ pc = "r_open"
    /\ db[cur] = "schema"
    /\ pc' = "r_rename"
    /\ UNCHANGED <<diskVars, outcome, cur, sweepVars, calm, faults>>

\* The `?` on the query of the sessions row: a database without a row ends
\* the whole sweep with an error.
NoSessionsRow ==
    /\ pc = "r_open"
    /\ db[cur] = "schema"
    /\ pc' = "idle"
    /\ cur' = NoSession
    /\ UNCHANGED <<diskVars, outcome, sweepVars, calm, faults>>

\* The 'recovery' bookmark is inserted, on every attempt.
RecoveryBookmark ==
    /\ pc = "r_open"
    /\ db[cur] # "schema"
    /\ marks' = [marks EXCEPT ![cur] = @ + 1]
    /\ pc' = "r_mark"
    /\ UNCHANGED <<dir, db, manifest, exported, outcome, cur, sweepVars, calm,
                   faults>>

\* A mutant of MarkRecovered: another state is written.
MarkRecoveredAs ==
    /\ pc = "r_mark"
    /\ db' = [db EXCEPT ![cur] = "finished"]
    /\ pc' = "r_export"
    /\ UNCHANGED <<dir, manifest, exported, marks, outcome, cur, sweepVars,
                   calm, faults>>

\* append_recovery_events, then mark_session_finished(.., "recovered").
MarkRecovered ==
    /\ pc = "r_mark"
    /\ db' = [db EXCEPT ![cur] = "recovered"]
    /\ pc' = "r_export"
    /\ UNCHANGED <<dir, manifest, exported, marks, outcome, cur, sweepVars,
                   calm, faults>>

\* A mutant of ExportRecovered: a failed export ends the sweep.
ExportRecoveredOrFail ==
    /\ pc = "r_export"
    /\ \/ exported' = exported \cup {cur} /\ pc' = "r_rename" /\ UNCHANGED cur
       \/ pc' = "idle" /\ cur' = NoSession /\ UNCHANGED exported
    /\ UNCHANGED <<dir, db, manifest, marks, outcome, sweepVars, calm, faults>>

\* The result of export::generate_all is ignored.
ExportRecovered ==
    /\ pc = "r_export"
    /\ exported' \in {exported, exported \cup {cur}}
    /\ pc' = "r_rename"
    /\ UNCHANGED <<dir, db, manifest, marks, outcome, cur, sweepVars, calm,
                   faults>>

\* The folder becomes SESSION_<stamp>_RECOVERED, or its first free copy.
RenameRecovered ==
    /\ pc = "r_rename"
    /\ \E c \in Copies :
          LET n == [stamp |-> dir[cur].stamp, kind |-> "recovered", copy |-> c]
          IN  FirstFree(n) /\ dir' = [dir EXCEPT ![cur] = n]
    /\ todo' = todo \ {cur}
    /\ cur' = NoSession
    /\ pc' = "sweep"
    /\ UNCHANGED <<db, manifest, exported, marks, outcome, found, swept, calm,
                   faults>>

SweepDone ==
    /\ pc = "sweep"
    /\ todo = {}
    /\ swept' = TRUE
    /\ pc' = "idle"
    /\ UNCHANGED <<diskVars, outcome, cur, todo, found, calm, faults>>

\* A mutant of SweepFails: the error is logged and the sweep returns Ok.
SweepFailsSilently ==
    /\ pc \in {"sweep", "r_open", "r_mark", "r_rename"}
    /\ faults > 0
    /\ faults' = faults - 1
    /\ calm' = FALSE
    /\ pc' = "idle"
    /\ cur' = NoSession
    /\ swept' = TRUE
    /\ UNCHANGED <<diskVars, outcome, todo, found>>

\* Any other `?`: read_dir, opening or writing the database, the rename.
SweepFails ==
    /\ pc \in {"sweep", "r_open", "r_mark", "r_rename"}
    /\ faults > 0
    /\ faults' = faults - 1
    /\ calm' = FALSE
    /\ pc' = "idle"
    /\ cur' = NoSession
    /\ UNCHANGED <<diskVars, outcome, sweepVars>>

-----------------------------------------------------------------------------
(* RecordingSession::start.                                                 *)

\* A folder is created for the second s starts in.
CreateFolder(s) ==
    /\ pc = "idle"
    /\ dir[s] = NoName
    /\ \E t \in Stamps, c \in Copies :
          LET n == [stamp |-> t, kind |-> "recording", copy |-> c]
          IN  FirstFree(n) /\ dir' = [dir EXCEPT ![s] = n]
    /\ cur' = s
    /\ pc' = "s_manifest"
    /\ UNCHANGED <<db, manifest, exported, marks, outcome, sweepVars, calm,
                   faults>>

StartManifest ==
    /\ pc = "s_manifest"
    /\ manifest' = [manifest EXCEPT
                        ![cur] = [state |-> "recording", dir |-> dir[cur]]]
    /\ pc' = "s_open"
    /\ UNCHANGED <<dir, db, exported, marks, outcome, cur, sweepVars, calm,
                   faults>>

\* open_database creates session.sqlite with its tables ...
CreateSchema ==
    /\ pc = "s_open"
    /\ db' = [db EXCEPT ![cur] = "schema"]
    /\ pc' = "s_row"
    /\ UNCHANGED <<dir, manifest, exported, marks, outcome, cur, sweepVars,
                   calm, faults>>

\* ... and spawn_database_writer inserts the sessions row.
InsertSession ==
    /\ pc = "s_row"
    /\ db' = [db EXCEPT ![cur] = "recording"]
    /\ pc' = "s_spawn"
    /\ UNCHANGED <<dir, manifest, exported, marks, outcome, cur, sweepVars,
                   calm, faults>>

\* The writer and the collectors run; start returns Ok.
StartDone ==
    /\ pc = "s_spawn"
    /\ pc' = "recording"
    /\ UNCHANGED <<diskVars, outcome, cur, sweepVars, calm, faults>>

\* A `?` in start: whatever has been created stays.
StartFails ==
    /\ pc \in StartPcs
    /\ faults > 0
    /\ faults' = faults - 1
    /\ calm' = FALSE
    /\ pc' = "idle"
    /\ cur' = NoSession
    /\ UNCHANGED <<diskVars, outcome, sweepVars>>

-----------------------------------------------------------------------------
(* RecordingSession::stop.                                                  *)

StopBegins ==
    /\ pc = "recording"
    /\ pc' = "q_collect"
    /\ UNCHANGED <<diskVars, outcome, cur, sweepVars, calm, faults>>

\* A mutant of WriterJoined: the folder is renamed before it is finalized.
WriterJoinedRename ==
    /\ pc = "q_collect"
    /\ pc' = "q_rename"
    /\ UNCHANGED <<diskVars, outcome, cur, sweepVars, calm, faults>>

\* Collectors joined, final records sent, the writer joined (RecordPipeline).
WriterJoined ==
    /\ pc = "q_collect"
    /\ pc' = "q_mark"
    /\ UNCHANGED <<diskVars, outcome, cur, sweepVars, calm, faults>>

\* A CSV reader that PresentMon's collector left behind when it failed still
\* holds a Sender (presentmon.rs:93-97): the join of the writer waits for it.
WriterWaits ==
    /\ pc = "q_collect"
    /\ faults > 0
    /\ faults' = faults - 1
    /\ calm' = FALSE
    /\ pc' = "q_stuck"
    /\ UNCHANGED <<diskVars, outcome, cur, sweepVars>>

\* That reader ends after all, which nothing in the program makes it do.
WaitEnds ==
    /\ pc = "q_stuck"
    /\ pc' = "q_collect"
    /\ UNCHANGED <<diskVars, outcome, cur, sweepVars, calm, faults>>

MarkComplete ==
    /\ pc = "q_mark"
    /\ db' = [db EXCEPT ![cur] = "complete"]
    /\ pc' = "q_manifest"
    /\ UNCHANGED <<dir, manifest, exported, marks, outcome, cur, sweepVars,
                   calm, faults>>

StopManifest ==
    /\ pc = "q_manifest"
    /\ manifest' = [manifest EXCEPT
                        ![cur] = [state |-> "complete", dir |-> dir[cur]]]
    /\ pc' = "q_export"
    /\ UNCHANGED <<dir, db, exported, marks, outcome, cur, sweepVars, calm,
                   faults>>

ExportReport ==
    /\ pc = "q_export"
    /\ exported' = exported \cup {cur}
    /\ pc' = "q_rename"
    /\ UNCHANGED <<dir, db, manifest, marks, outcome, cur, sweepVars, calm,
                   faults>>

RenameFinal ==
    /\ pc = "q_rename"
    /\ LET n == FinalName(dir[cur])
       IN  /\ n = dir[cur] \/ Free(n)
           /\ dir' = [dir EXCEPT ![cur] = n]
    /\ pc' = "q_outdir"
    /\ UNCHANGED <<db, manifest, exported, marks, outcome, cur, sweepVars,
                   calm, faults>>

\* A mutant of ReturnErr: the error is dropped on the way.
ReturnNothing ==
    /\ pc' = "idle"
    /\ cur' = NoSession
    /\ UNCHANGED <<diskVars, outcome, sweepVars>>

\* stop returns Err to the worker.
ReturnErr ==
    /\ outcome' = [outcome EXCEPT ![cur] = "err"]
    /\ pc' = "idle"
    /\ cur' = NoSession
    /\ UNCHANGED <<diskVars, sweepVars>>

\* The final name is taken by an older session: rename fails.
RenameBlocked ==
    /\ pc = "q_rename"
    /\ FinalName(dir[cur]) # dir[cur]
    /\ ~Free(FinalName(dir[cur]))
    /\ ReturnErr
    /\ UNCHANGED <<calm, faults>>

\* A mutant of StopDone: the manifest is not rewritten after the rename.
StopDoneOldManifest ==
    /\ pc = "q_outdir"
    /\ outcome' = [outcome EXCEPT ![cur] = "ok"]
    /\ pc' = "idle"
    /\ cur' = NoSession
    /\ UNCHANGED <<dir, db, manifest, exported, marks, sweepVars, calm, faults>>

\* The manifest is rewritten with the final path; stop returns Ok.
StopDone ==
    /\ pc = "q_outdir"
    /\ manifest' = [manifest EXCEPT ![cur].dir = dir[cur]]
    /\ outcome' = [outcome EXCEPT ![cur] = "ok"]
    /\ pc' = "idle"
    /\ cur' = NoSession
    /\ UNCHANGED <<dir, db, exported, marks, sweepVars, calm, faults>>

\* Any other `?` in stop, once it does not wait.
StopFails ==
    /\ pc \in StopPcs \ {"q_stuck"}
    /\ faults > 0
    /\ faults' = faults - 1
    /\ calm' = FALSE
    /\ ReturnErr

\* mark_session_finished, called by stop and by the sweep, fails at its WAL
\* checkpoint: the state is written, its caller ends with an error.
CheckpointFails ==
    /\ pc \in {"r_mark", "q_mark"}
    /\ faults > 0
    /\ faults' = faults - 1
    /\ calm' = FALSE
    /\ \/ /\ pc = "r_mark"
          /\ db' = [db EXCEPT ![cur] = "recovered"]
          /\ UNCHANGED outcome
       \/ /\ pc = "q_mark"
          /\ db' = [db EXCEPT ![cur] = "complete"]
          /\ outcome' = [outcome EXCEPT ![cur] = "err"]
    /\ pc' = "idle"
    /\ cur' = NoSession
    /\ UNCHANGED <<dir, manifest, exported, marks, sweepVars>>

-----------------------------------------------------------------------------
\* The user exits while nothing is recorded (Shutdown stops a session first).
Exit ==
    /\ pc = "idle"
    /\ pc' = "down"
    /\ UNCHANGED <<diskVars, outcome, cur, sweepVars, calm, faults>>

\* The process or the machine dies between two steps.
Crash ==
    /\ pc # "down"
    /\ faults > 0
    /\ faults' = faults - 1
    /\ calm' = FALSE
    /\ pc' = "down"
    /\ cur' = NoSession
    /\ UNCHANGED <<diskVars, outcome, sweepVars>>

Sweep ==
    \/ Boot
    \/ \E s \in Sessions : Visit(s)
    \/ NoSessionsRow \/ RecoveryBookmark \/ MarkRecovered \/ ExportRecovered
    \/ RenameRecovered \/ SweepDone \/ SweepFails

Starting ==
    \/ \E s \in Sessions : CreateFolder(s)
    \/ StartManifest \/ CreateSchema \/ InsertSession \/ StartDone
    \/ StartFails

Stopping ==
    \/ StopBegins \/ WriterJoined \/ WriterWaits \/ WaitEnds
    \/ MarkComplete \/ StopManifest \/ ExportReport
    \/ RenameFinal \/ RenameBlocked \/ StopDone \/ StopFails

Next == Sweep \/ Starting \/ Stopping \/ CheckpointFails \/ Exit \/ Crash

Spec == Init /\ [][Next]_vars

(* The worker thread is scheduled: a sweep, a start or a stop that has begun *)
(* goes on.  Launching, starting, stopping and exiting are up to the user, and *)
(* nothing makes a reader that was left behind end: WaitEnds has no fairness. *)
Fairness ==
    /\ \A s \in Sessions : WF_vars(Visit(s))
    /\ WF_vars(NoSessionsRow) /\ WF_vars(RecoveryBookmark)
    /\ WF_vars(MarkRecovered) /\ WF_vars(ExportRecovered)
    /\ WF_vars(RenameRecovered) /\ WF_vars(SweepDone)
    /\ WF_vars(WriterJoined) /\ WF_vars(MarkComplete)
    /\ WF_vars(StopManifest) /\ WF_vars(ExportReport)
    /\ WF_vars(RenameFinal) /\ WF_vars(RenameBlocked) /\ WF_vars(StopDone)

FairSpec == Spec /\ Fairness

-----------------------------------------------------------------------------
(* Properties.                                                              *)

\* Every variable stays in its type.
TypeOK ==
    /\ dir \in [Sessions -> Names \cup {NoName}]
    /\ db \in [Sessions -> {"none", "schema", "recording", "complete", "recovered"}]
    /\ manifest \in [Sessions -> Manifests]
    /\ exported \in SUBSET Sessions
    /\ marks \in [Sessions -> Nat]
    /\ outcome \in [Sessions -> {"none", "ok", "err"}]
    /\ pc \in Pcs
    /\ cur \in Sessions \cup {NoSession}
    /\ todo \in SUBSET Sessions
    /\ found \in SUBSET Sessions
    /\ swept \in BOOLEAN
    /\ calm \in BOOLEAN
    /\ faults \in Nat

\* No two sessions ever share a folder, whatever clock, crash, failed start
\* or renaming by a recovery brings their names together.
DistinctFolders ==
    \A s, t \in Sessions :
        s # t /\ dir[s] # NoName => dir[s] # dir[t]

\* A session whose stop returned Ok is whole and stays so through every later
\* launch: complete in its database, reported, never marked as recovered, and
\* its manifest names the folder it is in.
FinishedIsWhole ==
    \A s \in Sessions :
        outcome[s] = "ok" =>
            /\ db[s] = "complete"
            /\ s \in exported
            /\ marks[s] = 0
            /\ manifest[s] = [state |-> "complete", dir |-> dir[s]]

\* A folder named _RECOVERED says so inside: if it has a database, the state
\* is "recovered" and at least one recovery bookmark is in it.
RecoveredIsMarked ==
    \A s \in Sessions :
        dir[s] # NoName /\ dir[s].kind = "recovered" =>
            \/ db[s] = "none" /\ marks[s] = 0
            \/ db[s] = "recovered" /\ marks[s] > 0

\* When the sweep of a launch returned Ok, every folder it had to visit is
\* recovered, and it keeps being so while the process runs.
SweepIsComplete ==
    swept => \A s \in found : dir[s].kind = "recovered"

\* A folder without the recording extension that was renamed by stop holds a
\* complete, reported session even if the process died before stop returned.
RenamedIsComplete ==
    \A s \in Sessions :
        dir[s] # NoName /\ dir[s].kind = "final" =>
            db[s] = "complete" /\ s \in exported /\ marks[s] = 0

\* Every folder a sweep finds ends up recovered, unless the sweep meets a
\* fault of its own or a database without a sessions row.
FoundIsRecovered ==
    \A s \in Sessions :
        pc = "sweep" /\ s \in todo ~>
            \/ dir[s] # NoName /\ dir[s].kind = "recovered"
            \/ ~calm
            \/ \E t \in found : db[t] = "schema"

\* A stop that has begun gives the worker an answer, unless the process dies
\* or the stop waits for good for a reader that was left behind.
StopAnswers ==
    \A s \in Sessions :
        pc = "q_collect" /\ cur = s ~>
            \/ outcome[s] # "none"
            \/ pc = "down"
            \/ [](pc = "q_stuck")

(* The abstract store.                                                      *)
StoreState(s) ==
    IF dir[s] = NoName THEN "absent"
    ELSE IF dir[s].kind = "recovered" THEN "recovered"
    ELSE IF dir[s].kind = "final" \/ outcome[s] = "ok" THEN "finished"
    ELSE "open"

Store == INSTANCE SessionStore WITH
    Folders <- Names,
    NoFolder <- NoName,
    folder <- dir,
    state <- [s \in Sessions |-> StoreState(s)]

\* Sessions are finished or recovered at most once and then never renamed.
ImplementsStore == Store!StoreSpec

(* A sentence of the design document the code does not keep.                *)

\* "On startup, recover unfinished SQLite/WAL data": a launch without any
\* fault of its own recovers every folder it finds.
SweepSucceeds == pc = "idle" /\ calm /\ ~swept => found = {}

=============================================================================
