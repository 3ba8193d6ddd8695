----------------------------- MODULE DurableLog -----------------------------
(***************************************************************************)
(* What the record pipeline of one recording session promises, without     *)
(* queue, batch, threads or transactions: records are accepted into a log  *)
(* in some order, a prefix of the log is on disk and only ever grows, and  *)
(* the log is closed only when all of it is on disk.  A crash or a failed  *)
(* transaction loses the rest of the log, never the prefix.                *)
(*                                                                         *)
(* RecordPipeline implements this specification (see RecordPipeline!Log).  *)
(***************************************************************************)
EXTENDS Naturals, Sequences, SequencesExt

CONSTANT Records                \* every record a producer may offer

VARIABLES
    log,                        \* the records accepted so far, in order
    disk,                       \* the records that survive a crash
    state                       \* "open", "closed" or "lost"

logVars == <<log, disk, state>>

LogInit ==
    /\ log = <<>>
    /\ disk = <<>>
    /\ state = "open"

Accept ==
    /\ state = "open"
    /\ Len(log') = Len(log) + 1
    /\ log' = Append(log, log'[Len(log')])
    /\ log'[Len(log')] \in Records
    /\ UNCHANGED <<disk, state>>

\* A transaction makes a longer prefix of the log durable.
Persist ==
    /\ state = "open"
    /\ IsPrefix(disk, disk')
    /\ IsPrefix(disk', log)
    /\ UNCHANGED <<log, state>>

\* The last transaction leaves nothing behind.
Close ==
    /\ state = "open"
    /\ disk' = log
    /\ state' = "closed"
    /\ UNCHANGED log

Lose ==
    /\ state = "open"
    /\ state' = "lost"
    /\ UNCHANGED <<log, disk>>

LogNext == Accept \/ Persist \/ Close \/ Lose

LogSpec == LogInit /\ [][LogNext]_logVars
=============================================================================
