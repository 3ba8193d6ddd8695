# A verification project for gpu-crash-recorder

The program is a Windows tray application that records a session around a GPU
crash: a recorder worker runs at most one session, four collectors feed a
bounded queue, a database-writer thread turns the queue into SQLite
transactions, and stop turns the session folder into a finished report. It is
built to be running when the machine hangs, so most of what matters is what is
left after a crash, what a stop does while everything else is still busy, and
whether the report shows the hang it was made for.

The TLA+ modules here are translated from the Rust source (`src/src/*.rs`); the
line ranges every definition stands for are in `PROJECT.json` under `map`.
Design sentences are quoted from `src/plan.md` and `src/README.md` only where a
run compares the code with them.

Contents: [Inventory](#inventory) · [Modules](#modules) · [Runs](#runs) ·
[Fairness](#fairness) · [Proofs](#proofs) · [Divergences](#divergences) ·
[Not modelled](#not-modelled) · [Plan](#plan)

## Inventory

| Component | Source | State it keeps | Operations |
|---|---|---|---|
| Tray | `main.rs` | recording and its start time, latest folder, status text, enabled menu items | `handle_events`: clicks, hotkeys, worker events, timer refresh |
| Recorder worker | `worker.rs` | `Option<RecordingSession>` | recover once, then Toggle, Mark, Shutdown |
| Recording session | `session.rs` | folder, manifest, baseline, collector group, writer handle | `start`, `add_marker`, `stop`, `recover_incomplete_sessions` |
| Record queue and database writer | `database.rs` | bounded channel, batch, `last_commit`, SQLite file | `try_send`/`send`, `writer_loop`, `flush_batch`, `mark_session_finished`, `append_recovery_events` |
| Collector group | `collector.rs` | stop flag, join handles, errors | `start`, `stop` |
| System collector | `collector.rs` | `known`, `recently_foreground`, `foreground_pid`, `first_snapshot` | one loop: refresh, foreground, process differences, metrics |
| ADLX collector | `collector.rs`, `adlx.rs`, `native/` | the native library's handle, `last_error` | open, sample every GPU, tell of errors at most twice a minute |
| Windows event collector | `collector.rs`, `events.rs` | `query_from`, `seen` | overlapping polls, a final pass; the backfill of stop and recovery share the query |
| PresentMon collector | `presentmon.rs` | capture process, CSV reader thread, `capture_done`, `ParseStats` | spawn, poll, terminate, follow the growing file |
| Session clock | `timestamp.rs` | origin in UTC, monotonic and QPC time | conversions, clamping |
| Crash artifacts | `artifacts.rs` | baseline of files | scan, compare, copy, find signals of GPU hangs |
| Reports | `export.rs` | – | crash windows, findings, CSV and HTML |
| Configuration, system information, data model | `config.rs`, `system_info.rs`, `model.rs` | – | load, read, types |

**Interaction.** The tray and the worker exchange commands and events over two
unbounded channels. The worker calls start and stop of the session on its own
thread and serves nothing else meanwhile. A session owns the collectors, which
share one atomic stop flag, and a `Sender` of the record queue; every collector
thread, and the CSV reader thread of PresentMon, owns a clone. The writer ends
when the last clone is dropped, which is what stop waits for. Between launches
the only state is the session folders: their names, `manifest.json` and
`session.sqlite`. PresentMon, the Event Log service, Windows Error Reporting and
the GPU driver are external, seen through files, command output and a library.
The report is computed from the rows alone, which several parts have placed on
one time axis by different clocks.

**What is hard.** Four collectors and a session race for a bounded queue whose
refusals are ignored; a transaction may fail while all of them run; stop joins
threads in an order that decides which records are last and whether it returns
at all; a start may fail with some of its threads running; the process may die
between any two durable steps of start, stop and recovery; folder names repeat
within a second; the capture process, its reader and the thread that polls it
end in any order; polls of the Event Log see an event late, twice or not at all;
an old hang is reported again as if it were new; evidence of one hang arrives
along three ways and is placed by three times; the wall clock is set while a
session runs; PIDs are reused between snapshots; files change while they are
walked; and the tray acts on a view that lags behind the worker by two queues.
`PROJECT.json` lists each of these as a hazard at its line with the properties
that would catch it going wrong.

**What makes each component correct.**

- Queue and writer: what was accepted is committed in order and without holes;
  a crash costs at most the channel and a batch; a stop that reports success
  lost nothing; stop returns, unless a thread was left behind with a `Sender`.
- Session: folders never collide; a folder's name, its manifest and its
  database agree, whatever was cut off; recovery treats every interrupted
  session and no finished one.
- Collector group: no collector outlives its session's stop; a session explains
  the gaps in what it recorded; its database is released.
- Worker: its events are a true story of its sessions; Shutdown completes.
- Tray: its view agrees with the worker once everything has been said; Exit
  does not leave a session running.
- Event Log: consecutive polls leave no gap, overlapping ones no duplicates.
- PresentMon: reading ends after the capture did, or on an error that shows;
  nothing is left running; the health record is true.
- Crash artifacts: what changed during the session is recorded, what did not is
  not, and a walk that could not look everywhere says so.
- Process watch: each process, as far as its PID and the second of its creation
  tell it from others, is announced, and its end is, at the right time; a
  bookmark of an exit names a process that was in the foreground.
- Clock and report: evidence is where the samples of its moment are, up to a
  known error; a hang of the session is in a crash window and in the findings;
  a hang from before the session is not.

## Modules

| Module | Models | How it corresponds |
|---|---|---|
| `DurableLog` | abstract | what the record path promises: accept, persist a longer prefix, close with nothing missing, or lose the rest |
| `RecordPipeline` | `database.rs` queue and `writer_loop`; the sends of `collector.rs`, `session.rs` and `presentmon.rs`; the joins of stop | `queue`, `batch`, `committed` are channel, `Vec` and rows; `holders` and `Readers` the live `Sender` clones: of each producer, and of the CSV reader thread, which an early return of its collector leaves behind (`Leaked`); `writer` the place in the loop; each `try_send`, `recv_timeout` outcome, transaction and join is an action |
| `SessionStore` | abstract | absent → open → finished or recovered, each session in a folder of its own, never renamed afterwards |
| `SessionLifecycle` | `session.rs` start, stop, recovery; `mark_session_finished` | one action per durable effect, on one `pc` because all run on the worker's thread; `Crash` between any two; `CheckpointFails` is the call that fails after its effect; a stop whose writer a reader keeps waiting is in `q_stuck`; `faults` bounds crashes, failing calls and such waits |
| `CollectorGroup` | `CollectorGroup::start` and `stop` over the sessions of a launch, with the writer each session opens and the ADLX loop | `wpc` is the recorder thread, `thread[s][c]` the collector threads of every session, so that those a failed start left behind run beside later ones; `limiter` is `last_error`; health records are the collectors they name |
| `RecorderWorker` | `worker.rs` | the loop with both channels; starts and stops that succeed or fail, stops that wait for a reader left behind |
| `Tray` | `main.rs` `handle_events` | extends `RecorderWorker`: the composition of the icon's view with the real worker; `taken` counts the events the window has read |
| `EventLog` | `run_windows_event_collector`, `collect_relevant_events_since`, the backfill in stop | a pass is `StartQuery`, one answer per channel, one step per event; time in seconds on a wall clock that only moves forward, an event visible up to `MaxLag` late |
| `FrameCapture` | `presentmon.rs` `run`, `stop_capture`, `parse_growing_file`, `FollowFile`, `parse_stream`; the part of stop that waits for it | three threads and the capture process; the look at the stop flag and the poll of the child are two steps, and so are the empty read and the test of `capture_done`; a read may fail, which the CSV parser counts as one malformed row and the end of the file |
| `ProcessWatch` | the process half of `run_system_collector` | Windows creates, fronts and ends processes between every two steps of the loop; the code's identity of a process is its PID and the whole second of its creation (`Identity`), so processes are told apart here by one number more (`nth`) |
| `ArtifactScan` | `artifacts.rs` `scan_roots`, `capture`, `collect` | two walks over a tree other programs change between any two visits; `files` is the map of the walk, then what is left of it to compare and copy |
| `CrashReport` | a GPU hang from the dump to the report: `timestamp.rs`, the filter of `events.rs`, the signals of `artifacts.rs`, the cross-check and backfill of `session.rs`, `append_recovery_events`, windows and timeout finding of `export.rs` | a hang has the instant it happened and the minute in its dump's name, a report the instant it was logged; `now` is `Instant::now()`, `now + shift` is `Utc::now()`; `rows` and `marks` are the tables with their time axis; the report is operators on them |
| `MC*` | – | TLC instances of the modules above |
| `RecordPipelineProofs`, `SessionLifecycleProofs`, `CollectorGroupProofs`, `TrayProofs`, `EventLogProofs`, `ArtifactScanProofs`, `CrashReportProofs` | – | the theorems about the module each is named after; `TrayProofs` has those of `RecorderWorker` too |
| `CollectorThreadProofs` | – | the theorems about `ProcessWatch` and `FrameCapture`, whose names are distinct so that one module can extend both |

Abstractions that run through all of them: a record is its producer and number,
not its columns; a row of the CSV is only well formed or not; a file name is
its stamp, kind and copy number. A `?` is an action of its own that leaves
behind exactly what ran before it. The `_2`, `_3` suffixes of folder names are
kept, because start, stop and recovery disagree about them. `EventLog` is exact
about what a poll sees and `CrashReport` about where it is placed; there a poll
sees what was logged since the last one, a tick is longer than the second or two
by which queries overlap or a batch waits, and a crash takes a tail of what was
recorded in its tick.

Definitions introduced by "A mutant of ..." are not part of the model: each is
a plausible mistake in the definition that follows it, and shows that a property
would notice. `PROJECT.json` pairs them.

## Runs

| Run | Instance | States | Question |
|---|---|---|---|
| `pipeline` | two collectors, one with a reader thread that an early return leaves behind; channel 2, batch 2; one sample each besides the closing record | 176 thousand | Does any interleaving with failing transactions and crashes lose, duplicate or reorder an accepted record other than by cutting off a bounded tail? Does stop return unless a reader was left behind? Does anybody but such a reader and the session speak after the joins? Does what was accepted become durable? Does it implement `DurableLog`? |
| `lifecycle` | three sessions in the same second, three crashes, failing calls or waits for a reader left behind | 894 thousand | Do folders, names, databases and manifests agree after any crash; is everything the sweep found recovered; is a stop answered unless it waits for ever; is it a `SessionStore`? |
| `lifecycle_norow` | two sessions, one fault | violation | Does a launch without a fault of its own recover what it finds? |
| `group` | two sessions of a launch, three failing calls, panics or refused records | 778 thousand | Does a collector ever run outside its session; does a stopped session explain every gap; is every database released? |
| `tray` | any five inputs | 122 thousand | Do the worker's events tell a consistent story; does the view agree with it whenever all has been said; does Exit stop the session and end the program, unless a stop never returns? |
| `eventlog` | two events, four seconds, lag 1, overlap 1, one failing query | 8.5 million | Gaps, duplicates, last moments and order of what is recorded |
| `frames` | three rows, two failing calls or reads | 12 thousand | Does the reader outlive the capture or show why not, is the last health record true of exit and rows, does stop get past this collector? |
| `processes` | two PIDs, three processes, two seconds | 1.0 million | Is every process announced, and its end, and no end too early, under PID reuse across seconds and within one? |
| `processes_reuse` | the same | violation | Is a bookmarked exit that of a process that was in front? |
| `artifacts` | three files, one of them in the session's folder, two writes, one failing call, two files per walk | 1.1 million | Is nothing old recorded and no change missed unless a warning says so; do copies stay within their limit? |
| `report` | two hangs, three ticks, a minute of two, one marker, one refused record, the clock set once, room for three windows | 7.9 million | Does a stopped session show the hangs its scan found and count them once or nearly; is evidence where its samples are; is an old hang kept out? |
| `report_recovered` | the same | violation | Does a recovered session show a hang it has in evidence? |

**Why the bounds are enough.** *pipeline*: a channel of two and a batch of two
are the smallest in which a record can be in the transaction, in the batch and
in the channel at once and both limits bind; two collectors are what it takes
for one to hold a `Sender` while the other is gone, and for one to leave a
reader behind while the other ends as it should. The theorems drop all of these
bounds for the safety properties. *lifecycle*: three sessions in one second give
the names copy 1, 2 and 3 and a collision of a final or recovered name with an
older one; three faults let a start, a stop and the sweep itself be cut off in
one behaviour. The liveness half asks of any one session. *group*: two sessions
are a failed start and one that runs beside what it left; three faults are a
spawn that fails, a collector that breaks down and a record that is refused. The
theorems drop both. *tray*: five inputs are a start, a stop, another start, a
marker and an exit, in every order; every event of two sessions fits.
*eventlog*: with a poll every two seconds four seconds hold two passes, the
final pass and the backfill; overlap and slack are the source's one and two
seconds, the lag is the largest the overlap can bridge, and the poll interval
only has to exceed the overlap; two events are enough to be in different
channels, out of order, or the same one twice. *frames*: the reader
distinguishes rows before the header, a header, and rows after it; two faults
are a read that fails and a child that crashes, or a writer that does.
*processes*: two PIDs and three processes allow one reuse, and an exit of
another process besides; with two seconds the reuse is either in the same
second, where the code sees one process, or in the next. *artifacts*: with three
files and a limit of two the first walk may be cut short; one nested file sits
exactly at the depth limit; two writes are a change before the second walk and
one during it; of the two sizes one is too large to copy and a second copy of
the other no longer fits. *report*: two hangs let the event of one stand for the
signal of the other; three ticks exceed the reach of a window backwards and the
tolerance of the cross-check; a minute of two ticks makes the rounding of a name
matter; one tick of drift moves the wall clock either way before, during and
after the poll that would have seen an event; with a limit of three both fitting
and overflowing bookmarks occur. Only orders between these numbers matter, and
those the code has are `CrashReportAssumption` (a minute is no longer than a
window reaches forward or the tolerance, the cross-check no longer than a window
reaches back). The theorems drop all bounds.

`CHECK_DEADLOCK FALSE` is given where the system may really stop: after a crash
or stop in the pipeline, after the worker has left and the program ended in the
tray, and in the group where stop waits for ever for a writer whose `Sender` a
reader was left with.

## Fairness

Safety needs none. The liveness properties assume only that threads are
scheduled and calls return:

- `pipeline`: weak fairness of each step of the writer, of each collector's
  answer to the stop flag (every loop polls it), of the spawn of a reader, of
  the joins, and of time passing. Nothing makes a reader end whose collector is
  gone: `StopReturns` names it as the exception. The blocking send of stop
  (`StopBookmark`) is strongly fair, since the collectors sleep between samples
  and do not win every free slot for ever. Nothing makes the user press stop, a
  transaction fail or a crash occur.
- `lifecycle`: a sweep or a stop that has begun goes on, except that a stop
  which waits for a reader left behind (`q_stuck`) need never leave that wait,
  the exception in `StopAnswers`. Launching, starting, stopping and exiting are
  the user's.
- `group`: the recorder thread goes on with a start or stop it has begun, each
  collector sees its stop flag, the ADLX library answers when it is opened, and
  a disconnected writer returns. No failure, panic or error is assumed to
  happen, nor that a leaked reader ever ends.
- `tray`: the window loop keeps running, and so does the worker thread, whose
  calls return, unless a stop waits for a reader left behind (`stuck`): then
  nothing is assumed, and `ExitCompletes` states the exception.
- `frames`: the collector thread, the reader thread and the joins. Nothing is
  assumed of the capture process: it need not exit when told to, and the five
  seconds after which it is killed are a step of the collector.
- The other runs check safety only.

## Proofs

Every invariant, action property and refinement that a passing run checks is
proved: for every number of collectors, sessions, commands, events, files,
hangs, PIDs and rows, every capacity, batch size, overlap, tolerance, limit and
number of faults, under the named assumptions of the modules. These are
`PipelineAssumption` (the session is not a collector, capacity and batch size
are positive), `LifecycleAssumption` (at least one copy number, the two "none"
values are not sessions or names), `GroupAssumption` and `CaptureAssumption`
(the bounds are numbers), `ProcessAssumption` (finitely many PIDs, none of them
the one that stands for no window, and the bounds are positive numbers),
`EventLogAssumption` (finitely many events; overlap, slack, lag and bounds are
numbers, the poll interval is positive), `ArtifactAssumption` (finitely many
folders, no file is a folder, what a path is in is a folder) and
`CrashReportAssumption` (finitely many hangs, and the orders between the
constants of the source named above). The theorems about `Tray` assume nothing.
TLC evaluates all of the assumptions.

**RecordPipelineProofs.** None of the properties is inductive alone. That no
record is lost in flight needs the types and the fact that the pieces are
sequences; that a finished stop committed everything also needs to know what
the writer had before it returned, and who could still add a record. `IInv`
therefore joins `TypeOK`, `NothingLostInFlight`, `DurablePrefix` and `LossBound`
with

- `BufferBound`: the channel and the batch are within their limits, which with
  the conservation of records bounds what a crash can cost;
- `WriterEnd`: a writer that has returned left batch and channel empty, and one
  that returned Ok or is about to flush for the last time has nobody left who
  holds a `Sender`, collector, session or reader. `StaysDisconnected` says that
  this does not change again: only who runs can spawn a reader;
- `PhaseHolders`: which handles can be alive in which phase of stop, those of
  readers left behind excepted.

`NothingLostInFlight` is the concatenation `committed ∘ batch ∘ queue`; each
action moves records across one of its seams, and the lemmas `FlowMove`,
`FlowOfRecords` and `PrefixConcat` say once what such a move does.
`StepKinds` sorts the actions by what they do to those variables. The proof has
a lemma per conjunct and a step per action. From `IInv` follow `TypeCorrect`,
`FlowSafe`, `PrefixSafe`, `BoundSafe`, `CleanStopSafe` (a reader left behind
keeps a stop from succeeding, so that it cannot falsify one that did), the
action property `JoinedStaySilentSafe` (after the collectors are joined only the
session speaks, and the readers left behind), and `LogRefinement`: every step is
a step of `DurableLog` or leaves it alone.

**SessionLifecycleProofs.** `IInv` is `TypeOK`, `DistinctFolders` and
`Progress`, which says what stands on disk at each `pc`: what an absent session
cannot have, which database states the steps of start, stop and recovery have
behind them, that the current session is in a recording folder, that a finished
session has left the names a sweep looks for or is hidden from it. With it
`DistinctSafe`, `FinishedSafe`, `RecoveredSafe`, `SweepSafe` and `RenamedSafe`
are short; `StoreRefinement` maps each renaming and each answer of stop to a
step of `SessionStore`.

**CollectorGroupProofs.** `IInv` joins the types and the two properties with
`Order` (sessions after the latest have left no trace), `Phase` (what the
recorder's place says about its session's flag, `Sender` and writer),
`NotYetSpawned` and `Explained`, which follows what a collector owes its session
from the thread's result through the join into the vector of errors and from
there into the queue. Without it a gap could be lost between the join that saw
it and the record of it. `AccountedSafe` and `GapsSafe` follow.

**TrayProofs.** `EventsTellTheStory` speaks of the whole log of events and the
worker's actions only of its end, so the invariant says what the end is worth:
a session is active exactly when the last `Recording` has no `Finalizing` after
it (`ActiveIsLogged`); a `Stopped` stands between its `Finalizing` and an `Idle`
or is the last word (`StoppedInPlace`); a worker without a session that is not
about to announce it has said `Idle` since its last start (`IdleSince`). Every
step of the worker either says one of nine things or nothing (`Sentence`,
`Silence`), and each conjunct is kept by each of them. For the icon,
`SaysWhereItIs` ties the worker at rest to the last event that is not a failed
marker, and `View` and `Latest` tie the icon to the last event it has taken that
decides on a field; when both queues are empty these are the same event, which
is `ViewSafe`. `Leaving` follows the command of Exit through the queue, for
`ExitSafe`. `StorySafe` is stated for the composition, where the commands are
those a tray can send.

**EventLogProofs.** Three times matter: when an event was stamped, when it can
be found, and the window a query asks for. `Clock` says that an event nobody can
find yet is at most `MaxLag` old, which is where the premise that the lag does
not exceed the overlap enters `Polls`: between two passes everything older than
the next query was handled, in a pass everything is handled, found, or in a
channel still to be asked. `Once` distinguishes what only the poller can have
recorded, what only the backfill can, and the seam `finalFrom` at which both
can; `Order` says how much younger than the window anything recorded may be, and
that, once both channels have answered, what is left to record is no older than
what was recorded; `Backfill` is `Polls` for the last query. From these follow
`PollsSafe`, `RecordedOnceSafe`, `LastMomentsSafe` and the action property
`DisorderSafe`.

**ArtifactScanProofs.** The walk keeps no set of what it visited, and the files
change under it; nothing in a state says that it missed nothing. The invariant
says that there is such a set (`FirstWalk`, `SecondWalk`): it has the roots and,
of every folder in it that may be entered, what is in there, unless that is
still pending (`Closed`). Only files the walk cannot miss count: for the
baseline those nobody has touched, for the second walk those written after the
baseline and left alone since the collection began. Other programs can only take
files out of these two sets (`SetsShrink`), because a write is dated later than
everything there is. `OldSafe` follows, since whatever old file the second walk
gets to, the first one has visited and the comparison passes over;
`ChangesSafe`, since a way from a root to a settled file has no first step that
is missing in the set (`WayVisited`, the one induction in these proofs, on the
smallest number that would contradict it; TLC can check this invariant when
a history variable holds the visited paths). `CopiesSafe` needs only what is
counted and what is stored.

**CrashReportProofs.** `SkewBounded` and `HistoryIsNotEvidence` compare rows
with instants of the past, so the first invariant keeps what is known of those:
`Clocks` bounds, by what the wall clock was set in the session, how far each
report and each dump's name is off the clock's own difference between UTC and
monotonic time, and `Placement` which origin each row was placed from and which
filter it passed. `SkewSafe` and `HistorySafe` are then arithmetic (`Clamping`:
cutting times off at an origin brings them no further apart). `HangIsShown`
needs in addition how signals, backfill and bookmarks hang together (`JInv`):
every hang of the session has a signal of its minute (`Scan`), and every signal
has a bookmark of its own or one of an event near it that was logged after the
collectors were joined (`Told`). The dump's bookmark shows the hang because a
window reaches a minute forward; the event's because it is late by at most
tolerance and start, which must not exceed the reach backwards: the premise of
the property is what the proof needs. `CountSafe` counts the kinds of evidence
there are.

**CollectorThreadProofs.** The process watch knows identities, which two
processes may share, while what it tells is judged by the processes. The
invariant follows a process through the iteration: what was met is announced,
and known, visited or ended (`Announced`); one that runs or is in the snapshot
is still known (`StillKnown`); an identity that has ended, or is about to be told to
have, has a process that was met and does not run (`Ended`), which cannot come
back because a process is created once (`Past`); and an identity announced twice
is that of two processes (`TwoForTwo`). `AccountSafe` follows for any PIDs, any
number of processes and any number of them in a second.

For the frame capture `RunEnds` says what the collector thread has found by
the time it is where it is: the flag, an exit nobody asked for, or a child that
is gone before the reader is told. `ReaderEnds` says what each end of the reader
leaves behind, a malformed row where a failing read cut it off, and what the
health record rests on; `RowsCounted` that each row read is in a count as long
as the writer receives. `ReaderSafe` and `HealthSafe` follow.

**Only model-checked.** The liveness properties (`StopReturns`,
`EventuallyDurable`, `FoundIsRecovered`, `StopAnswers`, `DatabaseIsReleased`,
`ExitCompletes`, `StopPassesOrLeaks`): liveness under fairness and `ENABLED`
are beyond the provers. So are `RECURSIVE` operators, of which the modules have
none, and what a recursive function computes for every input: `Below`, the
folders under a folder, is left opaque in the proofs, which hold whatever set of
paths it is. The three runs that end in a counterexample have no theorems.

## Divergences

Three runs end in a counterexample; each compares the code with a sentence of
its own documents (`findings` in `PROJECT.json` quotes it).

- `lifecycle_norow`: `create_schema` commits before the sessions row is
  inserted. A crash between leaves a database whose query ends the sweep with
  an error, at every launch, for this folder and all that follow it.
- `processes_reuse`: recently fronted processes are remembered by PID alone.
- `report_recovered`: recovery adds events without bookmarks, and its own
  bookmark is at the start of the session, so a hang that only recovery learns
  of is in no crash window unless it followed the start within a minute.

Seen while modelling, without a run of their own. Records and folders:

- `collector.rs:662`: a full queue refuses a record and nothing says so
  (`plan.md:241`); only PresentMon counts what was refused.
- `database.rs:17`, `database.rs:316`: a crash costs whatever was accepted and
  not committed, the batch of up to 10,000 records and the 100,000 of the
  channel (a failed transaction likewise); `plan.md:263` wants "no loss of more
  than the current one-second uncommitted batch", which the code keeps only
  while the writer keeps up with the collectors. `LossBound` states what it
  guarantees.
- `database.rs:316`: a bookmark waits in the batch like any other record;
  `plan.md:237` wants it flushed at once.
- `session.rs:415`: the second session of a second is in
  `SESSION_x.recording_2`, whose extension recovery does not look for
  (`plan.md:236`) and stop does not replace (`plan.md:177`).
- `collector.rs:63`: a spawn that fails ends the whole start (`plan.md:242`: "A
  collector failure must not terminate other collectors.") and leaves the
  threads spawned before it running, with their `Sender`, until the program
  ends; `RunningIsAccounted` and `DatabaseIsReleased` state the exception.

Time and evidence:

- `session.rs:164`: the final backfill starts when the last collector is joined,
  not with the session (`plan.md:130`). What was raised after the event
  collector's final pass and before that instant is in neither; the property
  `LastMomentsRecorded` says what is covered. A hang that follows the join by
  longer than a window reaches may be in no window (`BeforeJoin` in
  `HangIsShown`).
- `session.rs:218`, `session.rs:347`: backfill and recovery count time from
  `started_utc`, the poller and all samples from the clock made after the
  baseline: what they add is late by the time the start took. `SkewBounded` has
  the exact error.
- `database.rs:67`: recovery takes in everything logged up to the launch that
  recovers, also what followed the crash.
- `collector.rs:152`: a wall clock set back between polls moves events out of
  the order of the samples (`plan.md:52` speaks of monotonic ordering), and it
  costs events: `query_from` stays a second before the earlier reading of the
  clock, and what is raised between the setting back and the start of the next
  poll is stamped before it and in no query. `EventLog` has a clock that only
  moves forward; its properties are about such a clock.
- `collector.rs:295`: `start_time()` is in whole seconds. Two processes that had
  one PID within a second are one to the code: no stop of the first, no start of
  the second (`plan.md:89` wants reuse told apart). `EveryProcessAccounted`
  excepts exactly these.
- `export.rs:457`: the timeout finding adds rows and bookmarks, so that one hang
  counts up to five times, and calls all of them newly collected artifact
  bookmarks. `export.rs:312`: bookmarks after the first hundred get no window.
- `collector.rs:197`, `export.rs:467`: a LiveKernelEvent of another code than
  141 gets a bookmark and no finding; the Rust and the SQL classifier of 141
  accept different spellings.

Collectors and tray:

- `presentmon.rs:97`: a `?` after the reader was spawned leaves it running with
  a `Sender`. It goes on queueing frames after the collectors are joined, and
  stop waits for the writer for ever; then the worker serves no command, and
  Exit does not end. `StopPassesOrLeaks`, `StopReturns`, `StopAnswers` and
  `ExitCompletes` state progress, and `JoinedStaySilent` silence, with exactly
  this exception.
- `presentmon.rs:275`: a read of the CSV file that fails ends the reader, which
  counts one malformed row, while PresentMon runs on; the rest of the session
  has no frames, and no health record tells of it before the end.
- `presentmon.rs:96`: the stop flag is looked at before the child. A capture that
  crashed since the last poll, up to a tenth of a second before stop, is
  reported as stopped.
- `presentmon.rs:276`: rows written between an empty read and the test of
  `capture_done` are not read, although the capture may be reported as stopped
  cleanly (`plan.md:266`).
- `collector.rs:515`: all GPUs share one limiter of error records; metrics the
  library marks invalid are left out without one (`plan.md:266`). `last_error`
  starts as `Instant::now()` minus thirty seconds, which panics where the
  monotonic clock is younger than that.
- `main.rs:236` and `main.rs:293`: an error is a status text that the next
  `Idle` event or the timer overwrites in the same tick; `plan.md:36` speaks of
  notifications. A recovered folder becomes the latest one without enabling the
  menu item that opens it.

## Not modelled

- Contents of metrics, samples and foreground records: offered to the queue,
  and nothing depends on them. The C++ bridge of ADLX wraps a vendor library.
- The QPC conversion of frame times: floating-point arithmetic without state.
- Events whose time stamp does not parse: `events.rs:110` gives them the time of
  the query, so that each overlapping query stores them again. Windows writes
  them in one format.
- A change of the offset of local time (`artifacts.rs:177` takes the earlier of
  two instants a dump's name may stand for): `CrashReport` has one axis of UTC.
- Findings other than the GPU timeout: counts of one table against a threshold.
- Export layout, configuration, system information, data types, build script:
  no state or pure input and output; where they can fail inside start or stop
  they are failing steps of `SessionLifecycle`.
- In the tray: opening folders, the single-instance lock, hotkey registration
  and the smoke mode.
- Torn SQLite transactions and reordered file-system writes: a transaction is
  atomic, and a rename or manifest write that returned is durable.

## Plan

Done, in this order: the record path and its abstract log; the session folders
and their abstract store; worker and tray; the three collectors with state of
their own; the artifact walks; the collector group over several sessions; the
way of a hang into the report; proofs of every safety property and of both
refinements.

1. Theorems about compositions the runs do not have: that `FrameCapture` is one
   of the collectors of `RecordPipeline`, and that its reader is the one
   exception `CollectorGroup` knows.
2. The findings that combine several tables, once the code gives them more than
   one condition.
