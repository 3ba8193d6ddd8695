--------------------------- MODULE CollectorGroup ---------------------------
(***************************************************************************)
(* The collectors of a launch: the recorder thread starts the sessions one *)
(* after the other (worker.rs, session.rs), CollectorGroup spawns the four *)
(* collector threads of each and joins them (collector.rs), and the ADLX   *)
(* collector's life and error limiter (adlx.rs) are followed in detail.    *)
(* The windows_event_log, system and presentmon loops are other modules'.  *)
(*                                                                         *)
(* A start that fails half way drops the group without setting its stop    *)
(* flag: threads that run then go on beside those of later sessions.  A    *)
(* database writer ends when no thread holds a Sender of its session.      *)
(*                                                                         *)
(* Health records are what is told of a collector beyond "running" and     *)
(* "stopped".  External: threads, the GPU driver, exits of the process.    *)
(***************************************************************************)
EXTENDS Naturals

CONSTANTS
    MaxSessions,    \* bound on the sessions of the launch
    MaxFaults       \* bound on failing calls, panics and refused records

ASSUME GroupAssumption == MaxSessions \in Nat /\ MaxFaults \in Nat

Sessions == 1..MaxSessions

\* Collectors are numbered in the order CollectorGroup::start spawns and joins
\* them: system, ADLX, PresentMon, Windows Event Log.
Collectors == 1..4
Adlx == 2
PresentMon == 3

VARIABLES
    wpc,            \* where the recorder thread is
    cur,            \* the latest session
    next,           \* the next collector to spawn or to join
    errors,         \* CollectorGroup::stop's vector: the collectors it names
    flag,           \* sessions whose CollectorGroup.stop is set
    thread,         \* each session's collector threads
    limiter,        \* the ADLX collector: opening, then last_error
    leaked,         \* those with a PresentMon reader left behind with its Sender
    held,           \* those that hold their own DatabaseWriter.sender
    writer,         \* the database writer
    verdict,        \* what RecordingSession::start or stop returned
    told, refused,  \* collectors a health record was queued / refused for
    gap,            \* history: collectors that did not deliver all they should
    faults          \* failures so far

recorderVars == <<wpc, cur, next, errors, flag, held, verdict>>
healthVars == <<told, refused, gap>>
vars == <<recorderVars, thread, limiter, leaked, writer, healthVars, faults>>

Over == {"startFailed", "stopped", "stopFailed"}

Init ==
    /\ wpc = "idle" /\ cur = 0 /\ next = 1 /\ errors = {}
    /\ thread = [s \in Sessions |-> [c \in Collectors |-> "absent"]]
    /\ limiter = [s \in Sessions |-> "opening"]
    /\ flag = {} /\ leaked = {} /\ held = {}
    /\ writer = [s \in Sessions |-> "absent"]
    /\ verdict = [s \in Sessions |-> "none"]
    /\ told = [s \in Sessions |-> {}]
    /\ refused = [s \in Sessions |-> {}]
    /\ gap = [s \in Sessions |-> {}]
    /\ faults = 0

Fault == faults < MaxFaults /\ faults' = faults + 1

Running(s, c) == thread[s][c] = "running"
Becomes(s, c, state) == thread' = [thread EXCEPT ![s][c] = state]

\* No thread can send to the writer of s any more.
Disconnected(s) ==
    s \notin held \cup leaked /\ \A c \in Collectors : ~Running(s, c)

\* send_health: try_send may find the queue full, or the writer gone.
Tell(s, c) ==
    \/ /\ writer[s] = "running"
       /\ told' = [told EXCEPT ![s] = @ \cup {c}]
       /\ UNCHANGED <<refused, faults>>
    \/ /\ IF writer[s] = "running" THEN Fault ELSE UNCHANGED faults
       /\ refused' = [refused EXCEPT ![s] = @ \cup {c}]
       /\ UNCHANGED told

Miss(s, c) == gap' = [gap EXCEPT ![s] = @ \cup {c}]

-----------------------------------------------------------------------------
(* RecordingSession::start and CollectorGroup::start.                      *)

RecorderOnly == UNCHANGED <<leaked, healthVars>>

BeginStart ==
    /\ wpc = "idle"
    /\ cur < MaxSessions
    /\ cur' = cur + 1
    /\ writer' = [writer EXCEPT ![cur + 1] = "running"]
    /\ held' = held \cup {cur + 1}
    /\ wpc' = "spawning" /\ next' = 1
    /\ UNCHANGED <<errors, flag, verdict, thread, limiter, faults>> /\ RecorderOnly

Spawn ==
    /\ wpc = "spawning"
    /\ next <= 4
    /\ Becomes(cur, next, "running")
    /\ next' = next + 1
    /\ UNCHANGED <<wpc, cur, errors, flag, held, verdict, limiter, writer, faults>>
    /\ RecorderOnly

\* The `?` of a spawn: the handles so far are dropped, which detaches their
\* threads, and so is the session's DatabaseWriter.
SpawnFails ==
    /\ wpc = "spawning"
    /\ next <= 4
    /\ Fault
    /\ held' = held \ {cur}
    /\ verdict' = [verdict EXCEPT ![cur] = "startFailed"]
    /\ wpc' = "idle"
    /\ UNCHANGED <<cur, next, errors, flag, thread, limiter, writer>> /\ RecorderOnly

Started ==
    /\ wpc = "spawning"
    /\ next = 5
    /\ wpc' = "recording"
    /\ UNCHANGED <<cur, next, errors, flag, held, verdict, thread, limiter, writer, faults>>
    /\ RecorderOnly

-----------------------------------------------------------------------------
(* The collector threads.                                                  *)

\* The loop sees the stop flag and the collector returns Ok.
StopSeen(s, c) ==
    /\ Running(s, c)
    /\ s \in flag
    /\ c = Adlx => limiter[s] # "opening"
    /\ Becomes(s, c, "ok")
    /\ UNCHANGED <<recorderVars, limiter, leaked, writer, healthVars, faults>>

\* AdlxCollector::new fails or finds no GPU: the collector reports that and
\* returns Ok at once.
AdlxUnavailable(s) ==
    /\ Running(s, Adlx)
    /\ limiter[s] = "opening"
    /\ Miss(s, Adlx) /\ Tell(s, Adlx)
    /\ Becomes(s, Adlx, "ok")
    /\ UNCHANGED <<recorderVars, limiter, leaked, writer>>

\* A mutant of AdlxOpens: last_error is the present, as if an error was told.
AdlxOpensQuiet(s) ==
    /\ Running(s, Adlx)
    /\ limiter[s] = "opening"
    /\ limiter' = [limiter EXCEPT ![s] = "quiet"]
    /\ UNCHANGED <<recorderVars, thread, leaked, writer, healthVars, faults>>

\* last_error starts thirty seconds ago: the first failing sample is told.
AdlxOpens(s) ==
    /\ Running(s, Adlx)
    /\ limiter[s] = "opening"
    /\ limiter' = [limiter EXCEPT ![s] = "clear"]
    /\ UNCHANGED <<recorderVars, thread, leaked, writer, healthVars, faults>>

\* A GPU cannot be sampled.  One limiter serves all GPUs.
SampleFails(s) ==
    /\ Running(s, Adlx)
    /\ limiter[s] # "opening"
    /\ Miss(s, Adlx)
    /\ \/ limiter[s] = "clear" /\ Tell(s, Adlx)
       \/ limiter[s] = "quiet" /\ UNCHANGED <<told, refused, faults>>
    /\ limiter' = [limiter EXCEPT ![s] = "quiet"]
    /\ UNCHANGED <<recorderVars, thread, leaked, writer>>

\* Thirty seconds have passed since the last error told.
QuietEnds(s) ==
    /\ Running(s, Adlx)
    /\ limiter[s] = "quiet"
    /\ limiter' = [limiter EXCEPT ![s] = "clear"]
    /\ UNCHANGED <<recorderVars, thread, leaked, writer, healthVars, faults>>

\* Only presentmon::run ever returns Err; its CSV reader may be left behind.
PresentMonErrs(s) ==
    /\ Running(s, PresentMon)
    /\ Fault
    /\ Becomes(s, PresentMon, "error")
    /\ Miss(s, PresentMon)
    /\ leaked' \in {leaked, leaked \cup {s}}
    /\ UNCHANGED <<recorderVars, limiter, writer, told, refused>>

Panics(s, c) ==
    /\ Running(s, c)
    /\ Fault
    /\ Becomes(s, c, "panicked")
    /\ Miss(s, c)
    /\ UNCHANGED <<recorderVars, limiter, leaked, writer, told, refused>>

Collector(s) ==
    \/ \E c \in Collectors : StopSeen(s, c)
    \/ AdlxUnavailable(s) \/ AdlxOpens(s)

Mishap(s) ==
    \/ SampleFails(s) \/ QuietEnds(s) \/ PresentMonErrs(s)
    \/ \E c \in Collectors : Panics(s, c)

-----------------------------------------------------------------------------
(* The database writer.                                                    *)

WriterEnds(s) ==
    /\ writer[s] = "running"
    /\ Disconnected(s)
    /\ writer' = [writer EXCEPT ![s] = "ended"]
    /\ UNCHANGED <<recorderVars, thread, limiter, leaked, healthVars, faults>>

WriterFails(s) ==
    /\ writer[s] = "running"
    /\ Fault
    /\ writer' = [writer EXCEPT ![s] = "failed"]
    /\ UNCHANGED <<recorderVars, thread, limiter, leaked, healthVars>>

-----------------------------------------------------------------------------
(* CollectorGroup::stop, and RecordingSession::stop around it.             *)

BeginStop ==
    /\ wpc = "recording"
    /\ flag' = flag \cup {cur}
    /\ wpc' = "joining" /\ next' = 1 /\ errors' = {}
    /\ UNCHANGED <<cur, held, verdict, thread, limiter, writer, faults>> /\ RecorderOnly

\* A mutant of Join: a collector that is still busy is not waited for.
JoinUnlessBusy ==
    /\ wpc = "joining"
    /\ next <= 4
    /\ next' = next + 1
    /\ errors' = IF thread[cur][next] \in {"error", "panicked"}
                   THEN errors \cup {next} ELSE errors
    /\ UNCHANGED <<wpc, cur, flag, held, verdict, thread, limiter, writer, faults>>
    /\ RecorderOnly

\* An error and a panic each leave their error in the vector.
Join ==
    /\ wpc = "joining"
    /\ next <= 4
    /\ ~Running(cur, next)
    /\ next' = next + 1
    /\ errors' = IF thread[cur][next] \in {"error", "panicked"}
                   THEN errors \cup {next} ELSE errors
    /\ UNCHANGED <<wpc, cur, flag, held, verdict, thread, limiter, writer, faults>>
    /\ RecorderOnly

\* Each error becomes a "collector_group" health record, by a blocking send
\* whose result is ignored.
ReportErrors ==
    /\ wpc = "joining"
    /\ next = 5
    /\ told' = IF writer[cur] = "running"
                 THEN [told EXCEPT ![cur] = @ \cup errors] ELSE told
    /\ wpc' = "finishing"
    /\ UNCHANGED <<cur, next, errors, flag, held, verdict, thread, limiter, leaked, writer,
                   refused, gap, faults>>

\* A `?` between the joins and the close of the channel: the session is
\* dropped, its writer detached.
FinishFails ==
    /\ wpc = "finishing"
    /\ Fault
    /\ held' = held \ {cur}
    /\ verdict' = [verdict EXCEPT ![cur] = "stopFailed"]
    /\ wpc' = "idle"
    /\ UNCHANGED <<cur, next, errors, flag, thread, limiter, writer>> /\ RecorderOnly

\* A mutant of CloseChannel: the writer is joined before its sender is dropped.
CloseChannelLate ==
    /\ wpc = "finishing"
    /\ wpc' = "waiting"
    /\ UNCHANGED <<cur, next, errors, flag, held, verdict, thread, limiter, writer, faults>>
    /\ RecorderOnly

CloseChannel ==
    /\ wpc = "finishing"
    /\ held' = held \ {cur}
    /\ wpc' = "waiting"
    /\ UNCHANGED <<cur, next, errors, flag, verdict, thread, limiter, writer, faults>>
    /\ RecorderOnly

WriterJoined ==
    /\ wpc = "waiting"
    /\ writer[cur] # "running"
    /\ verdict' = [verdict EXCEPT ![cur] =
                     IF writer[cur] = "ended" THEN "stopped" ELSE "stopFailed"]
    /\ wpc' = "idle"
    /\ UNCHANGED <<cur, next, errors, flag, held, thread, limiter, writer, faults>>
    /\ RecorderOnly

\* The process ends with the recorder idle, and every thread with it.
Exit ==
    /\ wpc = "idle"
    /\ wpc' = "exited"
    /\ thread' = [s \in Sessions |->
                    [c \in Collectors |-> IF Running(s, c) THEN "killed" ELSE thread[s][c]]]
    /\ writer' = [s \in Sessions |-> IF writer[s] = "running" THEN "killed" ELSE writer[s]]
    /\ UNCHANGED <<cur, next, errors, flag, held, verdict, limiter, faults>> /\ RecorderOnly

Exited == wpc = "exited" /\ UNCHANGED vars

Recorder ==
    \/ Spawn \/ Started \/ Join \/ ReportErrors \/ CloseChannel \/ WriterJoined

Next ==
    \/ BeginStart \/ SpawnFails \/ BeginStop \/ FinishFails \/ Recorder
    \/ \E s \in Sessions : Collector(s) \/ Mishap(s) \/ WriterEnds(s) \/ WriterFails(s)
    \/ Exit \/ Exited

Spec == Init /\ [][Next]_vars

\* Threads are scheduled and each loop polls its flag; nothing is assumed of
\* the user, of failures or of the GPU driver beyond its returning.
FairSpec ==
    /\ Spec
    /\ WF_vars(Recorder)
    /\ \A s \in Sessions :
          /\ WF_vars(WriterEnds(s))
          /\ WF_vars(AdlxUnavailable(s) \/ AdlxOpens(s))
          /\ \A c \in Collectors : WF_vars(StopSeen(s, c))

-----------------------------------------------------------------------------
(* Properties.                                                             *)

\* Names a session whose threads nobody will ever ask to stop.
Orphaned(s) ==
    s \in leaked \/ (verdict[s] = "startFailed" /\ \E c \in Collectors : Running(s, c))

\* It was left behind by a start that failed, or is on its way to its join.
MayRun(s, c) ==
    \/ verdict[s] = "startFailed"
    \/ /\ s = cur
       /\ \/ wpc = "spawning" /\ c < next
          \/ wpc = "recording"
          \/ wpc = "joining" /\ c >= next

\* A collector runs only for the session being recorded, up to its join, or
\* was left behind by a start that failed: a stop leaves none, also when it
\* fails, so that the next session has the GPU and the trace for itself.
RunningIsAccounted ==
    \A s \in Sessions, c \in Collectors : Running(s, c) => MayRun(s, c)

\* A session that stopped in full explains its gaps: each collector that was
\* missing, broke down or failed to sample has a health record, or a full
\* queue had no room for it (the summary's collector_issues counts those).
EveryGapIsExplained ==
    \A s \in Sessions :
        verdict[s] = "stopped" => gap[s] \subseteq told[s] \cup refused[s]

\* A session that was asked to stop, or failed to start, releases its
\* database: its writer returns, unless a thread that nobody can stop any more
\* keeps a Sender.
DatabaseIsReleased ==
    \A s \in Sessions :
        s \in flag \/ verdict[s] = "startFailed" ~> writer[s] # "running" \/ Orphaned(s)
=============================================================================
