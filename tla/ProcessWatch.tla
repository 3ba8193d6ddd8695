---------------------------- MODULE ProcessWatch ----------------------------
(***************************************************************************)
(* The process half of the system collector (collector.rs                  *)
(* run_system_collector): every interval it takes a snapshot of the        *)
(* running processes, asks for the foreground window, and turns the        *)
(* differences into start and stop records and bookmarks.                  *)
(*                                                                         *)
(* The code tells processes apart by PID and creation time, in whole       *)
(* seconds (collector.rs:228, 295).  Windows reuses a PID once its process *)
(* is gone, possibly within the second, so two processes may share an      *)
(* identity; nth tells them apart here and nowhere in the code.            *)
(*                                                                         *)
(* Records are offered to a bounded queue (try_send): one it refuses is    *)
(* simply gone, and no step of the loop asks, so the queue is not modelled *)
(* and the properties speak of what was offered.                           *)
(***************************************************************************)
EXTENDS Naturals, FiniteSets

CONSTANTS
    Pids,           \* process ids; NoPid, when no window is in front
    NoPid,
    MaxStarts,      \* bound on the processes created
    MaxSeconds      \* bound on the seconds that pass

ASSUME ProcessAssumption ==
    /\ NoPid \notin Pids
    /\ IsFiniteSet(Pids)
    /\ MaxStarts \in Nat \ {0}
    /\ MaxSeconds \in Nat \ {0}

Processes == [pid : Pids, started : 1..MaxSeconds, nth : 1..MaxStarts]

\* The key of the maps current and known, and what a record says of a process.
Identity(x) == <<x.pid, x.started>>
Identities(S) == {Identity(x) : x \in S}

VARIABLES
    running,        \* external: the processes that run now
    created,        \* external: processes created so far
    second,         \* external: the time, in whole seconds
    front,          \* external: the PID that owns the foreground window
    everFront,      \* history: processes that owned it at some time
    pc,             \* where run_system_collector is
    snapshot,       \* system.processes(), refreshed once per iteration
    foregroundPid,  \* local foreground_pid
    recent,         \* local recently_foreground: PIDs
    current,        \* the processes of the snapshot not yet visited
    known,          \* the identities in the local of the same name
    met,            \* history: the processes the loop has visited
    firstSnapshot,  \* local first_snapshot
    stop,           \* CollectorGroup.stop
    offered         \* history: the process records and exit bookmarks

outside == <<running, created, second, front, everFront>>
locals == <<pc, snapshot, foregroundPid, recent, current, known, met,
            firstSnapshot>>
vars == <<outside, locals, stop, offered>>

PidsOf(S) == {p.pid : p \in S}

Init ==
    /\ running \in {{}} \cup {{[pid |-> p, started |-> 1, nth |-> 1]} : p \in Pids}
    /\ created = 1
    /\ second = 1
    /\ front = NoPid
    /\ everFront = {}
    /\ pc = "refresh"
    /\ snapshot = {} /\ current = {} /\ known = {} /\ met = {}
    /\ foregroundPid = NoPid /\ recent = {}
    /\ firstSnapshot = TRUE
    /\ stop = FALSE
    /\ offered = {}

-----------------------------------------------------------------------------
(* External: processes start, come to the front and exit.                  *)

Create(p) ==
    /\ created < MaxStarts
    /\ p \notin PidsOf(running)
    /\ created' = created + 1
    /\ running' = running \cup
                    {[pid |-> p, started |-> second, nth |-> created + 1]}
    /\ UNCHANGED <<second, front, everFront, locals, stop, offered>>

NextSecond ==
    /\ second < MaxSeconds
    /\ second' = second + 1
    /\ UNCHANGED <<running, created, front, everFront, locals, stop, offered>>

ComeToFront(x) ==
    /\ x \in running
    /\ front # x.pid
    /\ front' = x.pid
    /\ everFront' = everFront \cup {x}
    /\ UNCHANGED <<running, created, second, locals, stop, offered>>

\* A process that exits gives its window up.
Exit(x) ==
    /\ x \in running
    /\ running' = running \ {x}
    /\ front' = IF front = x.pid THEN NoPid ELSE front
    /\ UNCHANGED <<created, second, everFront, locals, stop, offered>>

-----------------------------------------------------------------------------
(* One iteration of the loop.                                              *)

Record(kind, id) == [kind |-> kind, process |-> id]
Offered(kind) == {id \in Identities(Processes) : Record(kind, id) \in offered}

TrySend(S) == offered' = offered \cup S

Refresh ==
    /\ pc = "refresh"
    /\ ~stop
    /\ snapshot' = running
    /\ pc' = "foreground"
    /\ UNCHANGED <<outside, foregroundPid, recent, current, known, met,
                   firstSnapshot, stop, offered>>

\* foreground_process(): asked after the snapshot was taken.
AskForeground ==
    /\ pc = "foreground"
    /\ foregroundPid' = front
    /\ recent' = IF front # foregroundPid /\ front # NoPid
                   THEN recent \cup {front} ELSE recent
    /\ current' = snapshot
    /\ pc' = "visit"
    /\ UNCHANGED <<outside, snapshot, known, met, firstSnapshot, stop, offered>>

\* A mutant of Visit: a process is known by its PID alone.
VisitByPid(x) ==
    /\ pc = "visit"
    /\ x \in current
    /\ current' = current \ {x}
    /\ met' = met \cup {x}
    /\ TrySend(IF \E id \in known : id[1] = x.pid THEN {}
               ELSE {Record(IF firstSnapshot THEN "observed" ELSE "start", Identity(x))})
    /\ UNCHANGED <<outside, pc, snapshot, foregroundPid, recent, known,
                   firstSnapshot, stop>>

\* One process of the snapshot, in any order: a record when it is not known.
Visit(x) ==
    /\ pc = "visit"
    /\ x \in current
    /\ current' = current \ {x}
    /\ met' = met \cup {x}
    /\ TrySend(IF Identity(x) \in known THEN {}
               ELSE {Record(IF firstSnapshot THEN "observed" ELSE "start", Identity(x))})
    /\ UNCHANGED <<outside, pc, snapshot, foregroundPid, recent, known,
                   firstSnapshot, stop>>

Visited ==
    /\ pc = "visit"
    /\ current = {}
    /\ pc' = "drain"
    /\ UNCHANGED <<outside, snapshot, foregroundPid, recent, current, known,
                   met, firstSnapshot, stop, offered>>

\* One known identity the snapshot no longer has: a stop record, and a
\* bookmark if its PID was in front since a stop last used it up.
Gone(id) ==
    /\ pc = "drain"
    /\ id \in known \ Identities(snapshot)
    /\ known' = known \ {id}
    /\ recent' = recent \ {id[1]}
    /\ TrySend({Record("stop", id)}
               \cup IF id[1] \in recent THEN {Record("foreground_process_exit", id)}
                                        ELSE {})
    /\ UNCHANGED <<outside, pc, snapshot, foregroundPid, current, met,
                   firstSnapshot, stop>>

Drained ==
    /\ pc = "drain"
    /\ known \subseteq Identities(snapshot)
    /\ known' = Identities(snapshot)
    /\ firstSnapshot' = FALSE
    /\ pc' = "refresh"
    /\ UNCHANGED <<outside, snapshot, foregroundPid, recent, current, met, stop,
                   offered>>

\* The flag is looked at once per iteration.
StopSeen ==
    /\ pc = "refresh"
    /\ stop
    /\ pc' = "exited"
    /\ UNCHANGED <<outside, snapshot, foregroundPid, recent, current, known,
                   met, firstSnapshot, stop, offered>>

StopCollectors ==
    /\ ~stop
    /\ stop' = TRUE
    /\ UNCHANGED <<outside, locals, offered>>

Windows ==
    \/ \E p \in Pids : Create(p)
    \/ NextSecond
    \/ \E x \in running : ComeToFront(x) \/ Exit(x)

Collector ==
    \/ Refresh
    \/ AskForeground
    \/ \E x \in current : Visit(x)
    \/ Visited
    \/ \E id \in known : Gone(id)
    \/ Drained
    \/ StopSeen

Over == pc = "exited" /\ UNCHANGED vars

Next == (pc # "exited" /\ Windows) \/ Collector \/ StopCollectors \/ Over

Spec == Init /\ [][Next]_vars

-----------------------------------------------------------------------------
(* Properties.                                                             *)

\* The records account for every process the loop has met.  No stop record and
\* no exit bookmark is premature: a process of that identity was met and does
\* not run any more.  An identity is announced both as observed and as started
\* only when two processes had it.  And between two iterations every process
\* met was announced, and its stop was, unless the last snapshot holds it or a
\* process that reused its PID within the same second of time: these two the
\* code cannot tell apart.
EveryProcessAccounted ==
    /\ \A id \in Offered("stop") : \E x \in met \ running : Identity(x) = id
    /\ Offered("foreground_process_exit") \subseteq Offered("stop")
    /\ \A id \in Offered("observed") \cap Offered("start") :
          \E x, y \in met : x # y /\ Identity(x) = id /\ Identity(y) = id
    /\ pc = "refresh" => \A x \in met :
          /\ Identity(x) \in Offered("observed") \cup Offered("start")
          /\ Identity(x) \in Offered("stop") \cup Identities(snapshot)

\* plan.md: "Track PID plus creation time to prevent PID-reuse errors."  A
\* foreground_process_exit bookmark names a process that was in the
\* foreground at some time.
BookmarkedExitsWereInFront ==
    Offered("foreground_process_exit") \subseteq Identities(everFront)
=============================================================================
