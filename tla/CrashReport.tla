---------------------------- MODULE CrashReport ----------------------------
(***************************************************************************)
(* From a GPU hang to the report.  Windows writes a watchdog dump named    *)
(* after the local time of the hang, to the minute, and some time later    *)
(* Windows Error Reporting logs an event and leaves a Report.wer.  The     *)
(* recorder learns of it by polling (collector.rs), by the artifact scan   *)
(* and the backfill of a stop (artifacts.rs, session.rs), or by the        *)
(* recovery of the next launch (session.rs, database.rs); export.rs builds *)
(* the crash windows and the findings from the rows that are left.         *)
(*                                                                         *)
(* Samples carry the monotonic time since the SessionClock was made;       *)
(* events, bookmarks and dumps are placed on that axis from UTC time       *)
(* (timestamp.rs), from one of two origins: the clock's, or the earlier    *)
(* started_utc of the session.  Time counts in ticks far longer than the   *)
(* one and two seconds by which queries overlap; what queries, queues and  *)
(* walks may miss besides is the subject of EventLog and ArtifactScan.     *)
(* Local time is UTC here: no session spans a change of its offset, at     *)
(* which a dump's name stands for two instants and artifacts.rs:177 takes  *)
(* the earlier one.                                                        *)
(***************************************************************************)
EXTENDS Integers, FiniteSets

CONSTANTS
    Hangs,          \* identities of GPU hangs
    Minute,         \* ticks per minute
    Before, After,  \* export.rs: a window's reach (5 minutes, 1 minute)
    Grace,          \* tolerance for dumps from before the start (2 minutes)
    Match,          \* session.rs: an event repeats a signal (120 seconds)
    Limit,          \* export.rs: bookmarks that get a window (100)
    MaxMarkers,     \* bound on manual markers
    MaxRefused,     \* bound on what one pass offers in vain
    MaxTime,        \* bound on time
    MaxDrift        \* bound on how far the wall clock is set

ASSUME CrashReportAssumption ==
    /\ IsFiniteSet(Hangs)
    /\ Minute \in Nat \ {0} /\ Before \in Nat /\ After \in Nat
    /\ Grace \in Nat /\ Match \in Nat /\ Limit \in Nat
    /\ MaxMarkers \in Nat /\ MaxRefused \in Nat /\ MaxTime \in Nat /\ MaxDrift \in Nat
    /\ Minute <= After /\ Minute <= Grace /\ Match <= Before

VARIABLES
    now,            \* Instant::now()
    shift,          \* what Utc::now() is ahead of it
    drift,          \* history: how far the wall clock was set in the session
    hangs,          \* external: when a GPU hung, and the time in the dump's name
    reports,        \* external: when Windows Error Reporting logged it
    phase,          \* of the session
    started,        \* RecordingSession.started_utc
    baseline,       \* reports whose Report.wer the artifact baseline has
    origin, clock,  \* SessionClock: origin and origin_utc
    cutOff,         \* history: when the session was cut off
    queryFrom,      \* the poller's query_from
    seen,           \* the poller's seen
    finalFrom,      \* final_event_query_from
    scanned,        \* history: reports whose file the final scan read
    signals,        \* artifact_signals
    rows,           \* diagnostic_events
    marks,          \* bookmarks with the trigger live_kernel_event_141
    others          \* times of the other bookmarks

timeVars == <<now, shift, drift>>
windows == <<hangs, reports>>
startVars == <<started, baseline, origin, clock, cutOff>>
pollVars == <<queryFrom, seen>>
stopVars == <<finalFrom, scanned, signals>>
dbVars == <<rows, marks, others>>
vars == <<timeVars, windows, phase, startVars, pollVars, stopVars, dbVars>>

Wall == now + shift
Over == {"complete", "recovered"}
Distance(a, b) == IF a < b THEN b - a ELSE a - b
With(f, x, v) == [y \in DOMAIN f \cup {x} |-> IF y = x THEN v ELSE f[y]]

Init ==
    /\ now = 0 /\ shift = 0 /\ drift = 0
    /\ hangs = << >> /\ reports = << >>
    /\ phase = "idle"
    /\ started = 0 /\ baseline = {} /\ origin = 0 /\ clock = 0 /\ cutOff = 0
    /\ queryFrom = 0 /\ seen = {}
    /\ finalFrom = 0 /\ scanned = {} /\ signals = {}
    /\ rows = {} /\ marks = {} /\ others = {}

-----------------------------------------------------------------------------
(* The world.                                                              *)

\* The poll interval is much shorter than a tick.
Tick ==
    /\ now < MaxTime
    /\ phase = "recording" => queryFrom = Wall
    /\ now' = now + 1
    /\ UNCHANGED <<shift, drift, windows, phase, startVars, pollVars, stopVars, dbVars>>

\* The user, or synchronization, sets the wall clock.
SetClock(d) ==
    /\ phase # "idle"
    /\ drift + Distance(d, 0) <= MaxDrift
    /\ shift' = shift + d
    /\ drift' = drift + Distance(d, 0)
    /\ UNCHANGED <<now, windows, phase, startVars, pollVars, stopVars, dbVars>>

\* The file is named WATCHDOG-yyyymmdd-hhmm.dmp.
MinuteOf(t) == (t \div Minute) * Minute

Hang(h) ==
    /\ h \notin DOMAIN hangs
    /\ hangs' = With(hangs, h, [at |-> now, dump |-> MinuteOf(Wall)])
    /\ UNCHANGED <<timeVars, reports, phase, startVars, pollVars, stopVars, dbVars>>

Report(h) ==
    /\ h \in DOMAIN hangs \ DOMAIN reports
    /\ reports' = With(reports, h, [at |-> now, utc |-> Wall])
    /\ UNCHANGED <<timeVars, hangs, phase, startVars, pollVars, stopVars, dbVars>>

World ==
    \/ Tick
    \/ \E d \in (-MaxDrift..MaxDrift) \ {0} : SetClock(d)
    \/ \E h \in Hangs : Hang(h) \/ Report(h)

-----------------------------------------------------------------------------
(* Times and events.                                                       *)

\* Durations before the origin are clamped to zero.
Since(base, utc) == IF utc < base THEN 0 ELSE utc - base

\* A mutant of Historical: every report is current.
NeverHistorical(h, base) == FALSE

\* is_historical_reprocessed_wer: an old hang that is reported again.
Historical(h, base) == hangs[h].dump < base - Grace

\* collect_relevant_events_since(from, base, ..).
Collected(from, base) ==
    {h \in DOMAIN reports : from <= reports[h].utc /\ reports[h].utc <= Wall
                            /\ ~Historical(h, base)}

\* The event, or its bookmark, on the session's time axis.
At(h, base, by) == [hang |-> h, ns |-> Since(base, reports[h].utc), by |-> by]

-----------------------------------------------------------------------------
(* The session.                                                            *)

\* started_utc, then the artifact baseline.
StartSession ==
    /\ phase = "idle"
    /\ started' = Wall
    /\ baseline' = DOMAIN reports
    /\ phase' = "starting"
    /\ UNCHANGED <<timeVars, windows, origin, clock, cutOff, pollVars, stopVars, dbVars>>

\* SessionClock::new, after the baseline, the snapshot and the database; the
\* collectors are started at once.
StartCollectors ==
    /\ phase = "starting"
    /\ origin' = now /\ clock' = Wall
    /\ queryFrom' = Wall
    /\ phase' = "recording"
    /\ UNCHANGED <<timeVars, windows, started, baseline, cutOff, seen, stopVars, dbVars>>

\* One pass of the poller; a full queue may refuse each row and each bookmark.
PassFrom(base) ==
    LET new == Collected(queryFrom, clock) \ seen
    IN  /\ \E stored, marked \in SUBSET new :
             /\ Cardinality(new \ stored) + Cardinality(new \ marked) <= MaxRefused
             /\ rows' = rows \cup {At(h, base, "poll") : h \in stored}
             /\ marks' = marks \cup {At(h, base, "poll") : h \in marked}
        /\ seen' = seen \cup new
        /\ queryFrom' = Wall
        /\ UNCHANGED <<timeVars, windows, startVars, stopVars, others>>

\* A mutant of Pass: times count from the start of the query.
PassFromQuery == PassFrom(queryFrom)

Pass == PassFrom(clock)

Poll == phase = "recording" /\ Pass /\ UNCHANGED phase

Remark == others' = others \cup {now - origin}

AddMarker ==
    /\ phase = "recording"
    /\ Cardinality(others) < MaxMarkers
    /\ Remark
    /\ UNCHANGED <<timeVars, windows, phase, startVars, pollVars, stopVars, rows, marks>>

-----------------------------------------------------------------------------
(* RecordingSession::stop.                                                 *)

\* The manual_stop bookmark; the collectors are told.
Stop ==
    /\ phase = "recording"
    /\ Remark
    /\ phase' = "stopping"
    /\ UNCHANGED <<timeVars, windows, startVars, pollVars, stopVars, rows, marks>>

FinalPass == phase = "stopping" /\ Pass /\ phase' = "joining"

CollectorsJoined ==
    /\ phase = "joining"
    /\ finalFrom' = Wall
    /\ phase' = "joined"
    /\ UNCHANGED <<timeVars, windows, startVars, pollVars, scanned, signals, dbVars>>

\* live_kernel_signal: the report is new and its dump of this session.
HasSignal(h) == clock - Grace <= hangs[h].dump /\ hangs[h].dump <= Wall + Grace

\* ArtifactBaseline::collect: one signal for the dumps of a minute.
CollectArtifacts ==
    /\ phase = "joined"
    /\ LET new == DOMAIN reports \ baseline
           hits == {h \in new : HasSignal(h)}
       IN  /\ scanned' = new
           /\ signals' \in {S \in SUBSET hits :
                 \A h \in hits : Cardinality({s \in S : hangs[s].dump = hangs[h].dump}) = 1}
    /\ phase' = "collected"
    /\ UNCHANGED <<timeVars, windows, startVars, pollVars, finalFrom, dbVars>>

\* No baseline, or the collection fails: a health record, and no signals.
CollectionFails ==
    /\ phase = "joined"
    /\ phase' = "collected"
    /\ UNCHANGED <<timeVars, windows, startVars, pollVars, stopVars, dbVars>>

\* A mutant of Repeats: every signal is kept.
NothingRepeats(s, events) == FALSE

\* duplicate_event: only the events of the backfill are looked at.
Repeats(s, events) ==
    \E e \in events : Distance(reports[e].utc, hangs[s].dump) <= Match

\* The backfill, whose records wait for room, and the signals it leaves over.
Backfill ==
    /\ phase = "collected"
    /\ LET events == Collected(finalFrom, started)
           found == {At(h, started, "backfill") : h \in events}
       IN  /\ rows' = rows \cup found
           /\ marks' = marks \cup found \cup
                 {[hang |-> s, ns |-> Since(clock, hangs[s].dump), by |-> "artifact"] :
                     s \in {x \in signals : ~Repeats(x, events)}}
    /\ phase' = "complete"
    /\ UNCHANGED <<timeVars, windows, startVars, pollVars, stopVars, others>>

-----------------------------------------------------------------------------
(* The session is cut off, and recovered by the next launch.               *)

\* Events a pass may have queued so lately that they are not committed.
Fresh == {h \in DOMAIN reports : reports[h].at = now}
Polled(S, hs) == {r \in S : r.by = "poll" /\ r.hang \in hs}

\* The tail of the queue is lost; an event's bookmark is ahead of its row.
Crash ==
    /\ phase \in {"recording", "stopping", "joining", "joined", "collected"}
    /\ \E lost \in SUBSET Fresh : \E both \in SUBSET lost :
         /\ rows' = rows \ Polled(rows, lost)
         /\ marks' = marks \ Polled(marks, both)
    /\ phase' = "crashed"
    /\ cutOff' = now
    /\ UNCHANGED <<timeVars, windows, started, baseline, origin, clock, pollVars, stopVars,
                   others>>

\* append_recovery_events: rows the database has already are skipped, and no
\* bookmark is made of the others.
Recover ==
    /\ phase = "crashed"
    /\ others' = others \cup {0}
    /\ rows' = rows \cup {At(h, started, "recovery") :
                            h \in Collected(started, started) \ {r.hang : r \in rows}}
    /\ phase' = "recovered"
    /\ UNCHANGED <<timeVars, windows, startVars, pollVars, stopVars, marks>>

Done == phase \in Over /\ UNCHANGED vars

Next ==
    \/ phase \notin Over /\ World
    \/ StartSession \/ StartCollectors \/ Poll \/ AddMarker
    \/ Stop \/ FinalPass \/ CollectorsJoined \/ CollectArtifacts \/ CollectionFails \/ Backfill
    \/ Crash \/ Recover
    \/ Done

Spec == Init /\ [][Next]_vars

-----------------------------------------------------------------------------
(* export.rs.                                                              *)

\* ORDER BY monotonic_ns LIMIT 100; ties count as lost.
Listed(n) ==
    Cardinality({m \in marks : m.ns <= n}) + Cardinality({k \in others : k <= n}) <= Limit

\* A mutant of Window: it ends at the bookmark.
WindowBefore(n) == Since(Before, n)..n

\* export_crash_windows.
Window(n) == Since(Before, n)..(n + After)

CrashWindows == {Window(n) : n \in {k \in {m.ns : m \in marks} \cup others : Listed(k)}}

\* build_findings: live_kernel_141_events + live_kernel_141_artifacts, of one
\* hang and in all.
CountOf(h) == Cardinality({r \in rows : r.hang = h}) + Cardinality({m \in marks : m.hang = h})
Evidence == Cardinality(rows) + Cardinality(marks)

-----------------------------------------------------------------------------
(* Properties.                                                             *)

\* Where the samples of an instant are.
OnAxis(t) == Since(origin, t)
InSession(h) == hangs[h].at >= origin
BeforeJoin(h) == hangs[h].at - origin <= finalFrom - clock
Shown(h) == \E w \in CrashWindows : OnAxis(hangs[h].at) \in w
StartUp == Distance(clock, started)
Steady == drift = 0

\* The report of a stopped session has a window around every GPU hang its
\* collectors lived through and Windows reported by the final scan, also when
\* the queue refused everything the poller offered and another hang's event
\* replaced the signal: as long as the clock was not set, the bookmarks are no
\* more than get windows, and the start took no longer than a window reaches
\* back beyond the cross-check.
HangIsShown ==
    phase = "complete" /\ Steady /\ Match + StartUp <= Before
        /\ Cardinality(marks) + Cardinality(others) <= Limit
    => \A h \in scanned : InSession(h) /\ BeforeJoin(h) => Shown(h)

\* Evidence and samples share one time axis up to a known error: what the
\* poller recorded is where its samples are, what the backfill and the
\* recovery added is late by the time the start took, and a dump is early by
\* what its name leaves out of the minute; all of it moves with the wall clock.
SkewBounded ==
    \A r \in rows \cup marks :
        LET late == IF r.by \in {"backfill", "recovery"} THEN StartUp ELSE 0
        IN  IF r.by = "artifact"
              THEN Distance(r.ns, OnAxis(hangs[r.hang].at)) < Minute + drift
              ELSE Distance(r.ns, OnAxis(reports[r.hang].at)) <= late + drift

\* A hang from before the session that Windows reports during it is no
\* evidence: nothing recorded goes back further before the start than the
\* tolerance, and what the wall clock was set.
HistoryIsNotEvidence ==
    \A r \in rows \cup marks : hangs[r.hang].at >= origin - StartUp - Grace - drift

\* The timeout finding of a stopped session appears whenever the final scan
\* saw a hang of the session, and none counts for more than five: a row and a
\* bookmark of the poller, the same of the backfill at the seam, and the
\* artifact's, which an event near the dump's time in the backfill replaces.
HangIsCounted ==
    phase = "complete" =>
        /\ Steady /\ (\E h \in scanned : InSession(h)) => Evidence > 0
        /\ \A h \in DOMAIN reports :
              CountOf(h) <= IF Distance(reports[h].utc, hangs[h].dump) <= Match THEN 4 ELSE 5

\* plan.md: "For each automatic or manual bookmark, generate a detailed window
\* covering five minutes before and one minute after", and critical events are
\* bookmarked.  A recovered session has a window around each hang of its own
\* that it has in evidence.
CrashHasItsWindow ==
    phase = "recovered" /\ Steady /\ Cardinality(marks) + Cardinality(others) <= Limit
    => \A r \in rows :
         InSession(r.hang) /\ hangs[r.hang].at <= cutOff => Shown(r.hang)
=============================================================================
