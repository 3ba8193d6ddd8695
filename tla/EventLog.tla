------------------------------ MODULE EventLog ------------------------------
(***************************************************************************)
(* The Windows Event Log source: the polling collector                     *)
(* (collector.rs run_windows_event_collector), the query it shares with    *)
(* finalization (events.rs collect_relevant_events_since) and the final    *)
(* backfill of RecordingSession::stop (session.rs).                        *)
(*                                                                         *)
(* Time is counted in seconds since the session started.  A Windows event  *)
(* gets its time stamp when it is raised and can be found by a query some  *)
(* time later, at most MaxLag.  Only events the XPath queries select are   *)
(* modelled; what they say, and the historical filter, is in CrashReport.  *)
(*                                                                         *)
(* The wall clock only moves forward here.  One that is set back between   *)
(* two polls (both take their times from Utc::now(), collector.rs:122)     *)
(* leaves query_from ahead of the stamps that follow, and what is raised   *)
(* from then to the next poll is in no query.  Nor has an event here a     *)
(* time stamp that does not parse: events.rs:110 would give it the time of *)
(* the query, and so another key in each.                                  *)
(***************************************************************************)
EXTENDS Integers, FiniteSets, Sequences

CONSTANTS
    Events,         \* identities (channel, record id, event id, time stamp)
    Notable,        \* events for which event_bookmark returns a bookmark
    Overlap,        \* how far a query reaches back before the previous one
    Slack,          \* how far a query reaches past the present
    MaxLag,         \* external: delay from raising an event to finding it
    PollSeconds,    \* poll_interval
    MaxTime,        \* bound on time
    MaxFails        \* bound on the channel queries that fail

Channels == <<"System", "Application">>

ASSUME EventLogAssumption ==
    /\ IsFiniteSet(Events) /\ Notable \subseteq Events
    /\ Overlap \in Nat /\ Slack \in Nat /\ MaxLag \in Nat
    /\ PollSeconds \in Nat \ {0}
    /\ MaxTime \in Nat /\ MaxFails \in Nat

VARIABLES
    now,            \* Utc::now()
    raised,         \* the Windows logs: time stamp and channel of an event
    visible,        \* the events a query can find
    stopFlag,       \* CollectorGroup.stop
    pc,             \* where run_windows_event_collector is
    finalPass,      \* local of the same name
    queryStarted,   \* local of the same name
    queryFrom,      \* local query_from
    wakeAt,         \* when the poll interval is over
    seen,           \* local of the same name
    phase,          \* where RecordingSession::stop is
    finalFrom,      \* final_event_query_from
    todo, from, until, found,   \* the query in progress, by either
    stored,         \* times an event entered the record queue
    marked,         \* times its bookmark did
    lost,           \* events a full queue refused
    failures        \* history: the channel queries that failed, with their windows

timeVars == <<now, raised, visible>>
pollVars == <<pc, finalPass, queryStarted, queryFrom, wakeAt, seen>>
stopVars == <<stopFlag, phase, finalFrom>>
queryVars == <<todo, from, until, found>>
sinkVars == <<stored, marked, lost>>
vars == <<timeVars, pollVars, stopVars, queryVars, sinkVars, failures>>

Raised == DOMAIN raised
Recorded(e) == stored[e] > 0

Init ==
    /\ now = 0
    /\ raised = << >>
    /\ visible = {}
    /\ stopFlag = FALSE
    /\ pc = "top"
    /\ finalPass = FALSE
    /\ queryStarted = 0
    /\ queryFrom = 0
    /\ wakeAt = 0
    /\ seen = {}
    /\ phase = "recording"
    /\ finalFrom = 0
    /\ todo = << >> /\ from = 0 /\ until = 0 /\ found = {}
    /\ stored = [e \in Events |-> 0]
    /\ marked = [e \in Events |-> 0]
    /\ lost = {}
    /\ failures = << >>

-----------------------------------------------------------------------------
(* Windows.                                                                *)

Raise(e, c) ==
    /\ e \notin Raised
    /\ raised' = [x \in Raised \cup {e} |->
                    IF x = e THEN [at |-> now, channel |-> c] ELSE raised[x]]
    /\ UNCHANGED <<now, visible, pollVars, stopVars, queryVars, sinkVars, failures>>

Publish(e) ==
    /\ e \in Raised \ visible
    /\ visible' = visible \cup {e}
    /\ UNCHANGED <<now, raised, pollVars, stopVars, queryVars, sinkVars, failures>>

Tick ==
    /\ now < MaxTime
    /\ \A e \in Raised \ visible : now < raised[e].at + MaxLag
    /\ now' = now + 1
    /\ UNCHANGED <<raised, visible, pollVars, stopVars, queryVars, sinkVars, failures>>

-----------------------------------------------------------------------------
(* collect_relevant_events_since: the upper end is fixed when the call     *)
(* starts, then the two channels are queried one after the other.  What    *)
(* was found is handed on sorted by time stamp.  (The second filter of      *)
(* query_channel is a second wider than the query itself: it drops nothing.) *)

StartQuery(start) ==
    /\ todo' = Channels
    /\ from' = start
    /\ until' = now + Slack
    /\ found' = {}

InWindow(e) == from <= raised[e].at /\ raised[e].at <= until

Matches(c) == {e \in visible : raised[e].channel = c /\ InWindow(e)}

ChannelAnswers ==
    /\ todo # << >>
    /\ found' = found \cup Matches(Head(todo))
    /\ todo' = Tail(todo)
    /\ UNCHANGED <<timeVars, pollVars, stopVars, from, until, sinkVars, failures>>

\* wevtutil cannot be started or reports an error: a warning, and no events.
ChannelFails ==
    /\ todo # << >>
    /\ Len(failures) < MaxFails
    /\ failures' = Append(failures, [channel |-> Head(todo), from |-> from, until |-> until])
    /\ todo' = Tail(todo)
    /\ UNCHANGED <<timeVars, pollVars, stopVars, from, until, found, sinkVars>>

\* A mutant of HandOn: the events are not sorted.
HandOnUnsorted(e) ==
    /\ todo = << >>
    /\ e \in found
    /\ found' = found \ {e}
    /\ UNCHANGED <<todo, from, until>>

HandOn(e) ==
    /\ todo = << >>
    /\ e \in found
    /\ \A x \in found : raised[e].at <= raised[x].at
    /\ found' = found \ {e}
    /\ UNCHANGED <<todo, from, until>>

\* event_bookmark returns a bookmark for hardware, display driver, kernel and
\* application failures.
HasBookmark(e) == e \in Notable

Count(counts, e) == [counts EXCEPT ![e] = @ + 1]

-----------------------------------------------------------------------------
(* run_windows_event_collector.                                            *)

BeginPass ==
    /\ pc = "top"
    /\ finalPass' = stopFlag
    /\ queryStarted' = now
    /\ StartQuery(queryFrom)
    /\ pc' = "pass"
    /\ UNCHANGED <<timeVars, queryFrom, wakeAt, seen, stopVars, sinkVars, failures>>

\* A mutant of PassEvent: what was seen is not remembered.
PassEventUnseen(e) ==
    /\ pc = "pass"
    /\ HandOn(e)
    /\ stored' = Count(stored, e)
    /\ UNCHANGED <<timeVars, pollVars, stopVars, marked, lost, failures>>

\* An event of the pass: skipped when seen, else its bookmark and the event
\* are each offered to the queue, which may be full for either.
PassEvent(e) ==
    /\ pc = "pass"
    /\ HandOn(e)
    /\ seen' = seen \cup {e}
    /\ IF e \in seen
         THEN UNCHANGED sinkVars
         ELSE /\ \/ HasBookmark(e) /\ marked' = Count(marked, e)
                 \/ UNCHANGED marked
              /\ \/ stored' = Count(stored, e) /\ UNCHANGED lost
                 \/ lost' = lost \cup {e} /\ UNCHANGED stored
    /\ UNCHANGED <<timeVars, pc, finalPass, queryStarted, queryFrom, wakeAt,
                   stopVars, failures>>

\* A mutant of EndPass: the next query starts at the end of this pass.
EndPassNow ==
    /\ pc = "pass"
    /\ todo = << >> /\ found = {}
    /\ queryFrom' = now
    /\ pc' = IF finalPass THEN "exited" ELSE "waiting"
    /\ wakeAt' = now + PollSeconds
    /\ UNCHANGED <<timeVars, finalPass, queryStarted, seen, stopVars, queryVars,
                   sinkVars, failures>>

\* Every channel was asked and every event handled: query_from moves on, also
\* past the window of a channel that failed.
EndPass ==
    /\ pc = "pass"
    /\ todo = << >> /\ found = {}
    /\ queryFrom' = queryStarted - Overlap
    /\ pc' = IF finalPass THEN "exited" ELSE "waiting"
    /\ wakeAt' = now + PollSeconds
    /\ UNCHANGED <<timeVars, finalPass, queryStarted, seen, stopVars, queryVars,
                   sinkVars, failures>>

Wake ==
    /\ pc = "waiting"
    /\ now >= wakeAt \/ stopFlag
    /\ pc' = "top"
    /\ UNCHANGED <<timeVars, finalPass, queryStarted, queryFrom, wakeAt, seen,
                   stopVars, queryVars, sinkVars, failures>>

-----------------------------------------------------------------------------
(* RecordingSession::stop.                                                 *)

StopCollectors ==
    /\ phase = "recording"
    /\ stopFlag' = TRUE
    /\ phase' = "joining"
    /\ UNCHANGED <<timeVars, pollVars, finalFrom, queryVars, sinkVars, failures>>

\* All four collectors are joined; the others may take longer than this one.
CollectorsJoined ==
    /\ phase = "joining"
    /\ pc = "exited"
    /\ finalFrom' = now
    /\ phase' = "snapshots"
    /\ UNCHANGED <<timeVars, pollVars, stopFlag, queryVars, sinkVars, failures>>

\* A mutant of BeginBackfill: the backfill starts from the present.
BeginBackfillNow ==
    /\ phase = "snapshots"
    /\ StartQuery(now)
    /\ phase' = "backfill"
    /\ UNCHANGED <<timeVars, pollVars, stopFlag, finalFrom, sinkVars, failures>>

\* The snapshots and the artifact scan are over, or a snapshot failed and
\* stop returned with `?`.
BeginBackfill ==
    /\ phase = "snapshots"
    /\ StartQuery(finalFrom)
    /\ phase' = "backfill"
    /\ UNCHANGED <<timeVars, pollVars, stopFlag, finalFrom, sinkVars, failures>>

SnapshotFails ==
    /\ phase = "snapshots"
    /\ phase' = "failed"
    /\ UNCHANGED <<timeVars, pollVars, stopFlag, finalFrom, queryVars, sinkVars, failures>>

\* A backfilled event waits for room in the queue and is never refused.
BackfillEvent(e) ==
    /\ phase = "backfill"
    /\ HandOn(e)
    /\ stored' = Count(stored, e)
    /\ marked' = IF HasBookmark(e) THEN Count(marked, e) ELSE marked
    /\ UNCHANGED <<timeVars, pollVars, stopVars, lost, failures>>

EndBackfill ==
    /\ phase = "backfill"
    /\ todo = << >> /\ found = {}
    /\ phase' = "done"
    /\ UNCHANGED <<timeVars, pollVars, stopFlag, finalFrom, queryVars, sinkVars, failures>>

\* The session is over: nothing is left to observe.
Over ==
    /\ phase \in {"done", "failed"}
    /\ UNCHANGED vars

Windows ==
    \/ \E e \in Events, i \in 1..2 : Raise(e, Channels[i])
    \/ \E e \in Events : Publish(e)
    \/ Tick

Poller ==
    \/ BeginPass
    \/ \E e \in Events : PassEvent(e)
    \/ EndPass
    \/ Wake

Stopper ==
    \/ StopCollectors
    \/ CollectorsJoined
    \/ BeginBackfill
    \/ SnapshotFails
    \/ \E e \in Events : BackfillEvent(e)
    \/ EndBackfill

Next ==
    \/ phase \notin {"done", "failed"} /\ (Windows \/ Poller \/ Stopper)
    \/ ChannelAnswers
    \/ ChannelFails
    \/ Over

Spec == Init /\ [][Next]_vars

-----------------------------------------------------------------------------
(* Properties.                                                             *)

\* No query of its channel failed that looked for the time e is stamped with.
Healthy(e) ==
    \A i \in 1..Len(failures) :
        failures[i].channel = raised[e].channel
            => raised[e].at \notin failures[i].from..failures[i].until

\* Consecutive polls leave no gap: whatever was raised before the next query
\* begins to look has been handled, however late it became visible, as long
\* as the delay is within the overlap.  query_from also moves past a query that
\* failed: that costs the events of its channel and window, and no others.
PollsLeaveNoGap ==
    MaxLag <= Overlap /\ pc # "pass" =>
        \A e \in Raised : raised[e].at < queryFrom /\ Healthy(e) => e \in seen

\* Overlapping polls and the final backfill never record an event twice,
\* except at the seam: an event stamped at the very instant the backfill
\* starts from.
RecordedTwiceOnlyAtTheSeam ==
    \A e \in Raised :
        stored[e] > 1 \/ marked[e] > 1
            => phase \in {"backfill", "done"} /\ raised[e].at = finalFrom

\* A session that stopped in full has every event of its last moments: what
\* was raised from the start of the final backfill on, and could be found
\* when the backfill ran, is recorded or its channel failed.
LastMomentsRecorded ==
    phase = "done" =>
        \A e \in visible :
            finalFrom <= raised[e].at /\ raised[e].at + MaxLag < until - Slack /\ Healthy(e)
                => Recorded(e)

\* Polling delivers almost in order: a newly recorded event is never older
\* than one recorded before it by more than the overlap and the slack of the
\* queries together.
DisorderBounded ==
    [][\A e, x \in Raised :
          stored'[e] > stored[e] /\ Recorded(x)
              => raised[e].at >= raised[x].at - (Overlap + Slack)]_vars
=============================================================================
