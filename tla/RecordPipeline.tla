--------------------------- MODULE RecordPipeline ---------------------------
(***************************************************************************)
(* The path every record of a session takes: collector threads and the     *)
(* session push into a bounded channel, and the database-writer thread     *)
(* drains the channel into a batch it commits about once a second          *)
(* (database.rs: spawn_database_writer, writer_loop, flush_batch).         *)
(*                                                                         *)
(* Collectors use try_send and go on whatever it returns, so a full        *)
(* channel drops their record; the session uses the blocking send.  The    *)
(* writer ends when the last Sender handle is dropped, which is what       *)
(* RecordingSession::stop waits for after it has stopped and joined the    *)
(* collectors.  PresentMon has its CSV reader thread send its frames, over *)
(* a Sender clone of the reader's own (presentmon.rs:70-84): when run()    *)
(* returns early the reader stays behind, keeps sending, and keeps the     *)
(* channel open.  A failed transaction ends the writer with the batch and  *)
(* the channel; a crash of the process leaves only what was committed.     *)
(*                                                                         *)
(* A record is [from, n]: its producer, and the producer's attempt that    *)
(* made it.                                                                *)
(***************************************************************************)
EXTENDS Naturals, Sequences, FiniteSets, SequencesExt

CONSTANTS
    Collectors,     \* the collector threads, each with a Sender clone
    Following,      \* those whose records a reader thread sends (PresentMon)
    Session,        \* the session itself, on the recorder worker's thread
    Capacity,       \* DATABASE_QUEUE_CAPACITY
    MaxBatch,       \* MAX_BATCH
    MaxAttempts     \* bound on the records one producer offers

ASSUME PipelineAssumption ==
    /\ Following \subseteq Collectors
    /\ Session \notin Collectors
    /\ Capacity \in Nat \ {0}
    /\ MaxBatch \in Nat \ {0}
    /\ MaxAttempts \in Nat

Producers == Collectors \cup {Session}
Records == [from : Producers, n : Nat]

VARIABLES
    queue,          \* the bounded channel
    batch,          \* the writer's Vec of uncommitted records
    committed,      \* the rows a reader of the database finds, in insertion order
    accepted,       \* history: every record the channel took, in order
    writer,         \* where the writer thread is
    due,            \* last_commit.elapsed() >= COMMIT_INTERVAL
    holders,        \* the producers whose own Sender handle is alive
    reader,         \* per following collector, its CSV reader thread
    sent,           \* per producer, the records it has offered
    phase           \* how far the session's owner has got

vars == <<queue, batch, committed, accepted, writer, due, holders, reader,
          sent, phase>>

writerVars == <<batch, committed, writer, due>>

WriterPcs == {"recv", "drain", "flush", "last", "done", "failed", "dead"}
Phases == {"recording", "stopping", "joining", "finalizing", "closing",
           "ended", "failed", "abandoned", "dead"}

ReaderPcs == {"none", "running", "over"}

\* The reader threads that run, each with a Sender clone of its own, and those
\* of them whose collector has returned without joining them.
Readers == {c \in Following : reader[c] = "running"}
Leaked == Readers \ holders

\* Some Sender is alive.
Connected == holders \cup Readers # {}

\* The thread still owns the Receiver.
WriterRuns == writer \in {"recv", "drain", "flush", "last"}

Init ==
    /\ queue = <<>>
    /\ batch = <<>>
    /\ committed = <<>>
    /\ accepted = <<>>
    /\ writer = "recv"
    /\ due = FALSE
    /\ holders = Producers
    /\ reader = [c \in Following |-> "none"]
    /\ sent = [p \in Producers |-> 0]
    /\ phase = "recording"

-----------------------------------------------------------------------------
(* The producers' side of the channel.                                      *)

CanSend == WriterRuns /\ Len(queue) < Capacity

Enqueue(r) ==
    /\ CanSend
    /\ queue' = Append(queue, r)
    /\ accepted' = Append(accepted, r)

\* try_send returned Full or Disconnected, or send returned SendError.
Refuse == ~CanSend /\ UNCHANGED <<queue, accepted>>

Offer(p) ==
    /\ sent' = [sent EXCEPT ![p] = @ + 1]
    /\ Enqueue([from |-> p, n |-> sent[p] + 1]) \/ Refuse

\* A collector's sample, event, bookmark or health record, or a frame its
\* reader thread has parsed.
TrySend(c) ==
    /\ c \in holders \cup Readers
    /\ sent[c] < MaxAttempts
    /\ Offer(c)
    /\ UNCHANGED <<writerVars, holders, reader, phase>>

\* run() of PresentMon spawns the CSV reader with a clone of its Sender.
SpawnReader(c) ==
    /\ c \in holders
    /\ reader[c] = "none"
    /\ reader' = [reader EXCEPT ![c] = "running"]
    /\ UNCHANGED <<queue, accepted, writerVars, holders, sent, phase>>

\* A read error, a file that cannot be opened or a channel without a receiver:
\* the reader returns before its collector tells it that the capture is over.
ReaderEnds(c) ==
    /\ c \in Readers
    /\ reader' = [reader EXCEPT ![c] = "over"]
    /\ UNCHANGED <<queue, accepted, writerVars, holders, sent, phase>>

\* The collector saw the stop flag, tells its reader and joins it, sends its
\* closing health record and returns.
Finish(c) ==
    /\ c \in holders
    /\ phase = "joining"
    /\ c \in Following => reader[c] # "none"
    /\ Offer(c)
    /\ holders' = holders \ {c}
    /\ reader' = [f \in Following |-> IF f = c THEN "over" ELSE reader[f]]
    /\ UNCHANGED <<writerVars, phase>>

\* The collector returns early: no closing record, and nobody tells or joins
\* the reader it may have spawned.
Quit(c) ==
    /\ c \in holders
    /\ holders' = holders \ {c}
    /\ UNCHANGED <<queue, accepted, writerVars, reader, sent, phase>>

-----------------------------------------------------------------------------
(* The session, on the recorder worker's thread.  Its send blocks while the *)
(* channel is full and fails once the writer is gone.                       *)

BlockingSend ==
    /\ CanSend \/ ~WriterRuns
    /\ Offer(Session)
    /\ UNCHANGED <<writerVars, holders, reader>>

\* add_marker
AddMarker ==
    /\ phase = "recording"
    /\ sent[Session] < MaxAttempts
    /\ BlockingSend
    /\ UNCHANGED phase

\* stop begins: the manual_stop bookmark comes before the stop flag.
StopRequested ==
    /\ phase = "recording"
    /\ phase' = "stopping"
    /\ UNCHANGED <<queue, accepted, writerVars, holders, reader, sent>>

\* The bookmark is in (or refused by a dead writer); CollectorGroup::stop
\* raises the stop flag.
StopBookmark ==
    /\ phase = "stopping"
    /\ BlockingSend
    /\ phase' = "joining"

\* A mutant of CollectorsJoined: the stop flag is raised and nobody is joined.
CollectorsDetached ==
    /\ phase = "joining"
    /\ phase' = "finalizing"
    /\ UNCHANGED <<queue, accepted, writerVars, holders, reader, sent>>

\* Every collector thread has been joined.
CollectorsJoined ==
    /\ phase = "joining"
    /\ holders \cap Collectors = {}
    /\ phase' = "finalizing"
    /\ UNCHANGED <<queue, accepted, writerVars, holders, reader, sent>>

\* Artifacts, backfilled events, warnings and the last clock calibration.
FinalRecord ==
    /\ phase = "finalizing"
    /\ sent[Session] < MaxAttempts + 1
    /\ BlockingSend
    /\ UNCHANGED phase

\* A mutant of CloseChannel: the Sender is not dropped before the join.
CloseKeepsSender ==
    /\ phase = "finalizing"
    /\ phase' = "closing"
    /\ UNCHANGED <<queue, accepted, writerVars, holders, reader, sent>>

\* drop(database.sender), then join.
CloseChannel ==
    /\ phase = "finalizing"
    /\ holders' = holders \ {Session}
    /\ phase' = "closing"
    /\ UNCHANGED <<queue, accepted, writerVars, reader, sent>>

\* A mutant of WriterJoined: the Result of the join is ignored.
WriterJoinIgnored ==
    /\ phase = "closing"
    /\ writer \in {"done", "failed"}
    /\ phase' = "ended"
    /\ UNCHANGED <<queue, accepted, writerVars, holders, reader, sent>>

\* join returns the writer's Result.
WriterJoined ==
    /\ phase = "closing"
    /\ \/ writer = "done" /\ phase' = "ended"
       \/ writer = "failed" /\ phase' = "failed"
    /\ UNCHANGED <<queue, accepted, writerVars, holders, reader, sent>>

\* A `?` before the join returns early: the session is dropped, its Sender
\* with it, and nobody joins the writer.
StopFails ==
    /\ phase = "finalizing"
    /\ holders' = holders \ {Session}
    /\ phase' = "abandoned"
    /\ UNCHANGED <<queue, accepted, writerVars, reader, sent>>

-----------------------------------------------------------------------------
(* The database-writer thread.                                              *)

\* A mutant of Receive: the batch is made anew in every turn of the loop.
ReceiveAnew ==
    /\ writer = "recv"
    /\ queue # <<>>
    /\ batch' = <<Head(queue)>>
    /\ queue' = Tail(queue)
    /\ writer' = "drain"
    /\ UNCHANGED <<committed, accepted, due, holders, reader, sent, phase>>

\* recv_timeout got a record.
Receive ==
    /\ writer = "recv"
    /\ queue # <<>>
    /\ batch' = Append(batch, Head(queue))
    /\ queue' = Tail(queue)
    /\ writer' = "drain"
    /\ UNCHANGED <<committed, accepted, due, holders, reader, sent, phase>>

\* recv_timeout waited 100 ms in vain.
Timeout ==
    /\ writer = "recv"
    /\ queue = <<>>
    /\ Connected
    /\ writer' = "drain"
    /\ UNCHANGED <<queue, batch, committed, accepted, due, holders,
                   reader, sent, phase>>

\* A mutant of Disconnected: no flush after the disconnect.
DisconnectedReturns ==
    /\ writer = "recv"
    /\ queue = <<>>
    /\ ~Connected
    /\ writer' = "done"
    /\ UNCHANGED <<queue, batch, committed, accepted, due, holders,
                   reader, sent, phase>>

\* recv_timeout found the channel empty and every Sender dropped.
Disconnected ==
    /\ writer = "recv"
    /\ queue = <<>>
    /\ ~Connected
    /\ writer' = "last"
    /\ UNCHANGED <<queue, batch, committed, accepted, due, holders,
                   reader, sent, phase>>

\* A mutant of Drain: the inner loop does not look at the batch size.
DrainAll ==
    /\ writer = "drain"
    /\ queue # <<>>
    /\ batch' = Append(batch, Head(queue))
    /\ queue' = Tail(queue)
    /\ UNCHANGED <<committed, accepted, writer, due, holders,
                   reader, sent, phase>>

\* One turn of the inner try_recv loop.
Drain ==
    /\ writer = "drain"
    /\ Len(batch) < MaxBatch
    /\ queue # <<>>
    /\ batch' = Append(batch, Head(queue))
    /\ queue' = Tail(queue)
    /\ UNCHANGED <<committed, accepted, writer, due, holders,
                   reader, sent, phase>>

\* A mutant of FlushNow: the commit interval is not looked at.
FlushWhenFull == Len(batch) >= MaxBatch

FlushNow == batch # <<>> /\ (due \/ Len(batch) >= MaxBatch)

\* The inner loop ends; the batch is flushed if it is due or full.
DrainEnd ==
    /\ writer = "drain"
    /\ Len(batch) >= MaxBatch \/ queue = <<>>
    /\ writer' = IF FlushNow THEN "flush" ELSE "recv"
    /\ UNCHANGED <<queue, batch, committed, accepted, due, holders,
                   reader, sent, phase>>

Commit ==
    /\ committed' = committed \o batch
    /\ batch' = <<>>

\* flush_batch in the loop commits; last_commit is reset.
Flush ==
    /\ writer = "flush"
    /\ Commit
    /\ due' = FALSE
    /\ writer' = "recv"
    /\ UNCHANGED <<queue, accepted, holders, reader, sent, phase>>

\* flush_batch after the disconnect commits what is left; the thread returns Ok.
LastFlush ==
    /\ writer = "last"
    /\ Commit
    /\ writer' = "done"
    /\ UNCHANGED <<queue, accepted, due, holders, reader, sent, phase>>

\* A mutant of FlushFails: a failed transaction is skipped and the writer goes on.
FlushSkips ==
    /\ writer = "flush"
    /\ writer' = "recv"
    /\ batch' = <<>>
    /\ UNCHANGED <<queue, committed, accepted, due, holders,
                   reader, sent, phase>>

\* A failed transaction is rolled back, the thread returns Err, and the batch
\* and the Receiver with everything in the channel are dropped.
FlushFails ==
    /\ writer \in {"flush", "last"}
    /\ batch # <<>>
    /\ writer' = "failed"
    /\ batch' = <<>>
    /\ queue' = <<>>
    /\ UNCHANGED <<committed, accepted, due, holders, reader, sent, phase>>

\* COMMIT_INTERVAL has passed since the last commit.
Elapse ==
    /\ ~due
    /\ WriterRuns
    /\ due' = TRUE
    /\ UNCHANGED <<queue, batch, committed, accepted, writer, holders,
                   reader, sent, phase>>

-----------------------------------------------------------------------------
\* The process dies: only the committed transactions are left.
Crash ==
    /\ phase # "dead"
    /\ phase' = "dead"
    /\ writer' = IF WriterRuns THEN "dead" ELSE writer
    /\ queue' = <<>>
    /\ batch' = <<>>
    /\ holders' = {}
    /\ reader' = [c \in Following |-> "over"]
    /\ UNCHANGED <<committed, accepted, due, sent>>

CollectorStep(c) == TrySend(c) \/ Finish(c) \/ Quit(c)
ReaderStep(c) == SpawnReader(c) \/ ReaderEnds(c)

SessionStep ==
    \/ AddMarker \/ StopRequested \/ StopBookmark \/ CollectorsJoined
    \/ FinalRecord \/ CloseChannel \/ WriterJoined \/ StopFails

WriterStep ==
    \/ Receive \/ Timeout \/ Disconnected \/ Drain \/ DrainEnd
    \/ Flush \/ LastFlush \/ FlushFails

Next ==
    \/ \E c \in Collectors : CollectorStep(c)
    \/ \E c \in Following : ReaderStep(c)
    \/ SessionStep
    \/ WriterStep
    \/ Elapse
    \/ Crash

Spec == Init /\ [][Next]_vars

(* The threads are scheduled, time passes, and every collector loop polls   *)
(* the stop flag.  The user need not press stop (no fairness on             *)
(* StopRequested or AddMarker), a file system need not fail, the process    *)
(* need not crash, and a reader that nobody tells to end need not end (no   *)
(* fairness on ReaderEnds).  CloseChannel is reached because the final records are   *)
(* finitely many.  StopBookmark is strongly fair: the collectors sleep      *)
(* between samples, so they do not win every free slot of the channel from  *)
(* a blocked send.                                                          *)
Fairness ==
    /\ WF_vars(Receive) /\ WF_vars(Timeout) /\ WF_vars(Disconnected)
    /\ WF_vars(Drain) /\ WF_vars(DrainEnd) /\ WF_vars(Flush)
    /\ WF_vars(LastFlush) /\ WF_vars(Elapse)
    /\ \A c \in Collectors : WF_vars(Finish(c))
    /\ \A c \in Following : WF_vars(SpawnReader(c))
    /\ SF_vars(StopBookmark)
    /\ WF_vars(CollectorsJoined)
    /\ WF_vars(CloseChannel) /\ WF_vars(WriterJoined)

FairSpec == Spec /\ Fairness

-----------------------------------------------------------------------------
(* Properties.                                                              *)

\* Every variable stays in its type.
TypeOK ==
    /\ queue \in Seq(Records)
    /\ batch \in Seq(Records)
    /\ committed \in Seq(Records)
    /\ accepted \in Seq(Records)
    /\ writer \in WriterPcs
    /\ due \in BOOLEAN
    /\ holders \in SUBSET Producers
    /\ reader \in [Following -> ReaderPcs]
    /\ sent \in [Producers -> Nat]
    /\ phase \in Phases

\* As long as the writer has not failed, no record the channel accepted is
\* lost, duplicated or reordered anywhere between channel, batch and database
\* (writer_loop and the moves between receiver, batch and transaction).
NothingLostInFlight ==
    writer \notin {"failed", "dead"} => accepted = committed \o batch \o queue

\* Whatever happens, failed transaction and crash included, the database holds
\* a prefix of the accepted records in the order they were accepted: no hole
\* before the point of loss.
DurablePrefix == IsPrefix(committed, accepted)

\* When stop's join returns Ok every accepted record is in the database and no
\* Sender is left that could still add one, not even in a reader thread nobody
\* joined (the order in stop: join the collectors, send the final records, drop
\* the Sender, join the writer).
CleanStop ==
    phase = "ended" => committed = accepted /\ ~Connected

\* Whatever ends the recording, a failed transaction or a crash at any moment,
\* the records that were accepted and are in no database are at most a full
\* channel and a full batch.  (plan.md:263 speaks of the current one-second
\* batch only: what the channel held is lost with it.)
LossBound == Len(accepted) <= Len(committed) + Capacity + MaxBatch

\* A collector that stop has joined adds no record any more, so the session's
\* final records are the last ones, but for the frames of a reader thread that
\* a collector left behind when it returned early; after an Ok there are none
\* of these either.
JoinedStaySilent ==
    [][/\ phase \in {"finalizing", "closing"} =>
            \A i \in DOMAIN accepted' \ DOMAIN accepted :
                accepted'[i].from \in {Session} \cup Leaked
       /\ phase = "ended" => accepted' = accepted]_vars

\* Once stop has begun it returns, with Ok or with an error, and no full
\* channel, busy collector or failed writer keeps it waiting forever; the one
\* thing that does is a leaked reader, whose Sender keeps the writer alive.
StopReturns ==
    phase = "stopping" ~>
        \/ phase \in {"ended", "failed", "abandoned", "dead"}
        \/ [](Leaked # {})

\* A record the channel accepted becomes durable unless the writer fails or
\* the process dies: none waits forever in a batch below the flush threshold.
EventuallyDurable ==
    \A k \in 1..(Cardinality(Producers) * (MaxAttempts + 1)) :
        Len(accepted) >= k ~>
            (Len(committed) >= k \/ writer \in {"failed", "dead"})

(* The abstract log this pipeline implements.                               *)
Log == INSTANCE DurableLog WITH
    log <- accepted,
    disk <- committed,
    state <- CASE writer = "done" -> "closed"
               [] writer \in {"failed", "dead"} -> "lost"
               [] OTHER -> "open"

\* The pipeline is a durable log: it accepts only while open, commits only
\* prefixes, and closes only when everything accepted is durable.
ImplementsLog == Log!LogSpec

=============================================================================
