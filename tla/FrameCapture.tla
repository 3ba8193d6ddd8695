---------------------------- MODULE FrameCapture ----------------------------
(***************************************************************************)
(* The PresentMon collector (presentmon.rs): the collector thread that     *)
(* starts the capture process, polls it and shuts it down; the CSV reader  *)
(* thread that follows the growing output file and queues its rows; and    *)
(* the stopping session that joins the collector and then waits for the    *)
(* database writer, which ends when no thread holds a Sender any more.     *)
(*                                                                         *)
(* Rows are counted; what is in them only matters as well formed or not.   *)
(* Init, Next and pc have names of their own here, because                 *)
(* CollectorThreadProofs has this module beside ProcessWatch.              *)
(*                                                                         *)
(* Every step that runs `?` may return early, and then leaves behind what  *)
(* was started before it.  External: the capture process, the file system. *)
(***************************************************************************)
EXTENDS Naturals, FiniteSets

CONSTANTS
    MaxRows,        \* bound on the rows the capture process writes
    MaxFaults       \* bound on the failures of system calls

ASSUME CaptureAssumption == MaxRows \in Nat /\ MaxFaults \in Nat

VARIABLES
    child,          \* the capture process
    asked,          \* the trace session was told to terminate
    exists,         \* the CSV file was created
    file,           \* rows in it
    runPc,          \* where run() is
    unexpected,     \* unexpected_status.is_some()
    captureDone,    \* capture_done
    reader,         \* where the CSV reader thread is
    pos,            \* rows read from the file
    headerSeen, rows, malformed, drops,     \* ParseStats
    skipped,        \* history: rows read up to and including the header
    receiver,       \* the database writer still receives
    health,         \* the last presentmon health status sent
    stopFlag,       \* CollectorGroup.stop
    session,        \* where RecordingSession::stop is
    faults          \* failures so far

childVars == <<child, asked, exists, file>>
runVars == <<runPc, unexpected, captureDone, health>>
readerVars == <<reader, pos, headerSeen, rows, malformed, drops, skipped>>
captureVars == <<childVars, runVars, readerVars, receiver, stopFlag, session, faults>>

CaptureInit ==
    /\ child = "absent" /\ asked = FALSE /\ exists = FALSE /\ file = 0
    /\ runPc = "prepare" /\ unexpected = FALSE
    /\ captureDone = FALSE
    /\ health = "none"
    /\ reader = "absent" /\ pos = 0
    /\ headerSeen = FALSE /\ rows = 0 /\ malformed = 0 /\ drops = 0
    /\ skipped = 0
    /\ receiver = TRUE
    /\ stopFlag = FALSE
    /\ session = "recording"
    /\ faults = 0

Fault == faults < MaxFaults /\ faults' = faults + 1

-----------------------------------------------------------------------------
(* The capture process: it creates its file, writes rows, and exits when   *)
(* its trace session is terminated, or by itself.  A terminated process    *)
(* still writes what it had buffered.                                      *)

CreateFile ==
    /\ child = "running"
    /\ ~exists
    /\ exists' = TRUE
    /\ UNCHANGED <<child, asked, file, runVars, readerVars, receiver, stopFlag,
                   session, faults>>

WriteRow ==
    /\ child = "running"
    /\ exists
    /\ file < MaxRows
    /\ file' = file + 1
    /\ UNCHANGED <<child, asked, exists, runVars, readerVars, receiver, stopFlag,
                   session, faults>>

ChildExits ==
    /\ child = "running"
    /\ asked
    /\ child' = "exited"
    /\ UNCHANGED <<asked, exists, file, runVars, readerVars, receiver, stopFlag,
                   session, faults>>

ChildCrashes ==
    /\ child = "running"
    /\ Fault
    /\ child' = "exited"
    /\ UNCHANGED <<asked, exists, file, runVars, readerVars, receiver, stopFlag,
                   session>>

-----------------------------------------------------------------------------
(* run(): the collector thread.                                            *)

Goto(label) == runPc' = label /\ UNCHANGED <<unexpected, captureDone, health>>
RunOnly == UNCHANGED <<childVars, readerVars, receiver, stopFlag, session>>

\* ensure_runtime_binary and spawn_capture; then the "running" health record.
SpawnCapture ==
    /\ runPc = "prepare"
    /\ child' = "running"
    /\ health' = "running"
    /\ runPc' = "spawn_reader"
    /\ UNCHANGED <<asked, exists, file, unexpected, captureDone, readerVars, receiver,
                   stopFlag, session, faults>>

SpawnReader ==
    /\ runPc = "spawn_reader"
    /\ reader' = "opening"
    /\ Goto("spawn_stderr")
    /\ UNCHANGED <<childVars, pos, headerSeen, rows, malformed, drops, skipped,
                   receiver, stopFlag, session, faults>>

SpawnStderrReader ==
    /\ runPc = "spawn_stderr"
    /\ Goto("check_stop")
    /\ RunOnly /\ UNCHANGED faults

\* Any of the three, a poll of the child, or the wait for its exit may return
\* an error with `?`: run() is over, whatever it started goes on.
ReturnsEarly ==
    /\ runPc \in {"prepare", "spawn_reader", "spawn_stderr", "poll", "wait_exit"}
    /\ Fault
    /\ Goto("error")
    /\ RunOnly

\* One turn of the loop looks at the stop flag, and only then polls the child:
\* an exit the poll finds is unexpected, also when stop was asked for between.
CheckStop ==
    /\ runPc = "check_stop"
    /\ ~stopFlag
    /\ Goto("poll")
    /\ RunOnly /\ UNCHANGED faults

PollAgain ==
    /\ runPc = "poll"
    /\ child = "running"
    /\ Goto("check_stop")
    /\ RunOnly /\ UNCHANGED faults

PollFindsExit ==
    /\ runPc = "poll"
    /\ child = "exited"
    /\ unexpected' = TRUE
    /\ runPc' = "capture_done"
    /\ UNCHANGED <<captureDone, health, faults>> /\ RunOnly

\* A mutant of FlagSeen: capture_done is set before the child has exited.
FlagSeenDone ==
    /\ runPc = "check_stop"
    /\ stopFlag
    /\ runPc' = "wait_exit"
    /\ captureDone' = TRUE
    /\ asked' = TRUE
    /\ UNCHANGED <<child, exists, file, unexpected, health, readerVars, receiver,
                   stopFlag, session, faults>>

\* stop_capture: asks the trace session to terminate; its failure is ignored.
FlagSeen ==
    /\ runPc = "check_stop"
    /\ stopFlag
    /\ Goto("wait_exit")
    /\ \/ asked' = TRUE /\ UNCHANGED faults
       \/ Fault /\ UNCHANGED asked
    /\ UNCHANGED <<child, exists, file, readerVars, receiver, stopFlag, session>>

ExitSeen ==
    /\ runPc = "wait_exit"
    /\ child = "exited"
    /\ Goto("capture_done")
    /\ RunOnly /\ UNCHANGED faults

\* Five seconds without an exit: the child is killed and waited for.
ExitTimesOut ==
    /\ runPc = "wait_exit"
    /\ child = "running"
    /\ child' = "exited"
    /\ runPc' = "capture_done"
    /\ UNCHANGED <<asked, exists, file, unexpected, captureDone, health, readerVars, receiver,
                   stopFlag, session, faults>>

\* A mutant of SetCaptureDone: the reader is joined without being told.
NoCaptureDone ==
    /\ runPc = "capture_done"
    /\ Goto("join")
    /\ RunOnly /\ UNCHANGED faults

SetCaptureDone ==
    /\ runPc = "capture_done"
    /\ captureDone' = TRUE
    /\ runPc' = "join"
    /\ UNCHANGED <<unexpected, health, faults>> /\ RunOnly

\* The CSV reader is joined (the stderr reader ended with the child), and the
\* last health record tells how it went.
Outcome ==
    IF reader = "failed" \/ unexpected THEN "failed"
    ELSE IF ~headerSeen THEN "unavailable"
    ELSE IF malformed = 0 /\ drops = 0 THEN "stopped" ELSE "degraded"

JoinReader ==
    /\ runPc = "join"
    /\ reader \in {"done", "cut_off", "failed"}
    /\ health' = Outcome
    /\ runPc' = "returned"
    /\ UNCHANGED <<unexpected, captureDone, faults>> /\ RunOnly

-----------------------------------------------------------------------------
(* parse_growing_file, FollowFile and parse_stream: the reader thread.     *)

ReaderOnly == UNCHANGED <<childVars, runVars, receiver, stopFlag, session>>
Parsed == UNCHANGED <<pos, headerSeen, rows, malformed, drops, skipped>>

OpenFile ==
    /\ reader = "opening"
    /\ exists
    /\ \/ reader' = "reading" /\ UNCHANGED faults
       \/ reader' = "failed" /\ Fault
    /\ ReaderOnly /\ Parsed

\* No file: over when the capture is done, else tried again later.
NothingToOpen ==
    /\ reader = "opening"
    /\ ~exists
    /\ reader' = "checking_open"
    /\ ReaderOnly /\ Parsed /\ UNCHANGED faults

CheckedOpen ==
    /\ reader = "checking_open"
    /\ reader' = IF captureDone THEN "done" ELSE "opening"
    /\ ReaderOnly /\ Parsed /\ UNCHANGED faults

\* The next row.  One that does not parse is counted as malformed, wherever it
\* is; others up to a compatible header are skipped.  A frame is refused by a
\* full queue; without a receiver parsing ends, and the frame is in no count.
SkipRow ==
    /\ ~headerSeen
    /\ headerSeen' \in BOOLEAN
    /\ skipped' = skipped + 1
    /\ UNCHANGED <<reader, rows, malformed, drops>>

MalformedRow ==
    /\ malformed' = malformed + 1
    /\ UNCHANGED <<reader, headerSeen, rows, drops, skipped>>

QueueFrame ==
    /\ headerSeen
    /\ receiver
    /\ rows' = rows + 1
    /\ UNCHANGED <<reader, headerSeen, malformed, drops, skipped>>

\* A mutant of RefuseFrame: the refusal is not counted.
RefuseFrameUncounted ==
    /\ headerSeen
    /\ receiver
    /\ UNCHANGED <<reader, headerSeen, rows, malformed, drops, skipped>>

RefuseFrame ==
    /\ headerSeen
    /\ receiver
    /\ drops' = drops + 1
    /\ UNCHANGED <<reader, headerSeen, rows, malformed, skipped>>

NoReceiver ==
    /\ headerSeen
    /\ ~receiver
    /\ reader' = "done"
    /\ UNCHANGED <<headerSeen, rows, malformed, drops, skipped>>

ReadRow ==
    /\ reader = "reading"
    /\ pos < file
    /\ pos' = pos + 1
    /\ SkipRow \/ MalformedRow \/ QueueFrame \/ RefuseFrame \/ NoReceiver
    /\ ReaderOnly /\ UNCHANGED faults

\* file.read fails: the iterator over the rows yields one error, which counts
\* as a malformed row, and ends.  The reader returns Ok as after the last row
\* ("cut_off" tells the two apart here), whatever the child does.
ReadFails ==
    /\ reader = "reading"
    /\ Fault
    /\ malformed' = malformed + 1
    /\ reader' = "cut_off"
    /\ UNCHANGED <<pos, headerSeen, rows, drops, skipped>>
    /\ ReaderOnly

\* file.read returned nothing; capture_done is only looked at after that.
ReadNothing ==
    /\ reader = "reading"
    /\ pos = file
    /\ reader' = "checking"
    /\ ReaderOnly /\ Parsed /\ UNCHANGED faults

CheckedDone ==
    /\ reader = "checking"
    /\ reader' = IF captureDone THEN "done" ELSE "reading"
    /\ ReaderOnly /\ Parsed /\ UNCHANGED faults

-----------------------------------------------------------------------------
(* RecordingSession::stop, as far as this collector can hold it up.        *)

\* The threads that were given a Sender and still run.
CollectorHolds == runPc \notin {"returned", "error"}
ReaderHolds == reader \notin {"absent", "done", "cut_off", "failed"}

RaiseStop ==
    /\ session = "recording"
    /\ stopFlag' = TRUE
    /\ session' = "joining"
    /\ UNCHANGED <<childVars, runVars, readerVars, receiver, faults>>

CollectorJoined ==
    /\ session = "joining"
    /\ ~CollectorHolds
    /\ session' = "writer"
    /\ UNCHANGED <<childVars, runVars, readerVars, receiver, stopFlag, faults>>

\* The database writer fails: its Receiver is gone.
WriterFails ==
    /\ receiver
    /\ Fault
    /\ receiver' = FALSE
    /\ UNCHANGED <<childVars, runVars, readerVars, stopFlag, session>>

\* The writer sees its channel disconnected, drains it and returns; one that
\* failed has already returned.
WriterJoined ==
    /\ session = "writer"
    /\ ~receiver \/ (~CollectorHolds /\ ~ReaderHolds)
    /\ session' = "stopped"
    /\ UNCHANGED <<childVars, runVars, readerVars, receiver, stopFlag, faults>>

Stopped ==
    /\ session = "stopped"
    /\ UNCHANGED captureVars

Child == CreateFile \/ WriteRow \/ ChildExits \/ ChildCrashes
Run ==
    \/ SpawnCapture \/ SpawnReader \/ SpawnStderrReader
    \/ CheckStop \/ PollAgain \/ PollFindsExit \/ FlagSeen
    \/ ExitSeen \/ ExitTimesOut
    \/ SetCaptureDone \/ JoinReader
Reader ==
    \/ OpenFile \/ NothingToOpen \/ CheckedOpen
    \/ ReadRow \/ ReadFails \/ ReadNothing \/ CheckedDone
Stopper == RaiseStop \/ CollectorJoined \/ WriterJoined

CaptureNext == Child \/ Run \/ ReturnsEarly \/ Reader \/ WriterFails \/ Stopper \/ Stopped

CaptureSpec == CaptureInit /\ [][CaptureNext]_captureVars

\* The operating system schedules every thread; nothing is assumed of the
\* capture process or of the user.
FairSpec ==
    /\ CaptureSpec
    /\ WF_captureVars(Run)
    /\ WF_captureVars(Reader)
    /\ WF_captureVars(CollectorJoined \/ WriterJoined)

-----------------------------------------------------------------------------
(* Properties.                                                             *)

\* As long as the writer receives, the reader ends before the capture process
\* only on an error: it failed on opening the file, or a failing read cut it
\* off, and then it has a malformed row on its account, so that the capture it
\* was to follow cannot end as "stopped".
ReaderOutlivesChild ==
    /\ reader = "done" /\ receiver => child = "exited" /\ captureDone
    /\ reader = "cut_off" => malformed > 0 /\ health # "stopped"

\* What the last health record says of the end of the capture, as far as the
\* writer could take it.  "stopped" and "degraded" say that stop was asked for,
\* that no poll had found the child gone, and that each row read was queued or
\* is in the counts of the record, which are zero for "stopped".  "failed", if
\* the reader did not fail, is an exit that this recorder had not asked for,
\* and an exit a poll has found is never called anything else.  (A child that
\* exits between the last poll and the look at the flag, presentmon.rs:96,
\* passes for one that was stopped, and rows it wrote after the reader's last
\* look at the file, presentmon.rs:276, are in no count.)
HealthTellsTheEnd ==
    /\ health \in {"stopped", "degraded"} /\ receiver =>
          /\ stopFlag /\ child = "exited" /\ ~unexpected /\ headerSeen
          /\ pos <= skipped + rows + malformed + drops
    /\ health = "stopped" => malformed + drops = 0
    /\ health = "failed" /\ reader # "failed" => ~asked /\ child = "exited"
    /\ unexpected /\ runPc = "returned" => health = "failed"

\* Stopping gets past this collector, or the collector had returned early
\* with an error and its reader thread keeps a Sender for ever.
StopPassesOrLeaks ==
    stopFlag ~> session = "stopped" \/ [](runPc = "error" /\ ReaderHolds)
=============================================================================
