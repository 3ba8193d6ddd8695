--------------------------- MODULE RecorderWorker ---------------------------
(***************************************************************************)
(* The recorder-controller thread (worker.rs): it recovers interrupted     *)
(* sessions once, then serves commands one at a time and reports what it   *)
(* does as events.  Both channels are unbounded and first in, first out.   *)
(*                                                                         *)
(* A start or a stop may take long, and either may fail; commands queue up *)
(* meanwhile and each is served in the state the previous ones left.       *)
(*                                                                         *)
(* Sessions are numbered in the order they are started; an event carries   *)
(* the number of the session whose directory the code sends (0: none).     *)
(*                                                                         *)
(* Nothing in the program sends the commands Start and Stop, whose         *)
(* handlers are the two halves of Toggle's.                                *)
(***************************************************************************)
EXTENDS Naturals, Sequences

CONSTANT MaxCommands            \* bound on the commands sent to the worker

VARIABLES
    commands,       \* Sender<RecorderCommand> -> Receiver
    events,         \* Sender<RecorderEvent> -> Receiver: every event ever sent
    wpc,            \* where worker_loop is
    active,         \* session.is_some()
    leaving,        \* the Shutdown command is being served
    session,        \* the number of the latest session started
    stopped,        \* history: sessions whose stop returned Ok
    asked           \* how many commands have been sent

workerVars == <<commands, events, wpc, active, leaving, session, stopped>>
wvars == <<workerVars, asked>>

Event(kind, n) == [kind |-> kind, session |-> n]

WorkerInit ==
    /\ commands = <<>>
    /\ events = <<>>
    /\ wpc = "recovering"
    /\ active = FALSE
    /\ leaving = FALSE
    /\ session = 0
    /\ stopped = {}
    /\ asked = 0

-----------------------------------------------------------------------------
Emit(kind, n) == events' = Append(events, Event(kind, n))

\* recover_incomplete_sessions recovered something, failed, or found nothing.
Recover ==
    /\ wpc = "recovering"
    /\ \/ Emit("Recovered", 0)
       \/ Emit("Error", 0)
       \/ UNCHANGED events
    /\ wpc' = "announce"
    /\ UNCHANGED <<commands, active, leaving, session, stopped>>

\* A mutant of AnnounceIdle: the loop does not break after the last stop.
AnnounceIdleAndStay ==
    /\ wpc = "announce"
    /\ Emit("Idle", 0)
    /\ wpc' = "recv"
    /\ UNCHANGED <<commands, active, leaving, session, stopped>>

\* The Idle event that follows a recovery, a failed start and every stop.
AnnounceIdle ==
    /\ wpc = "announce"
    /\ Emit("Idle", 0)
    /\ wpc' = IF leaving THEN "leaving" ELSE "recv"
    /\ UNCHANGED <<commands, active, leaving, session, stopped>>

Receive(c) ==
    /\ wpc = "recv"
    /\ commands # <<>>
    /\ Head(commands) = c
    /\ commands' = Tail(commands)

\* start_session up to the call of RecordingSession::start.
BeginStart ==
    /\ Emit("Starting", 0)
    /\ wpc' = "starting"
    /\ UNCHANGED <<active, leaving, session, stopped>>

\* A mutant of BeginStop: the session is borrowed and not taken.
BeginStopBorrowed ==
    /\ Emit("Finalizing", 0)
    /\ wpc' = "stopping"
    /\ UNCHANGED <<active, session, stopped>>

\* stop_session up to the call of RecordingSession::stop: the session is taken.
BeginStop ==
    /\ Emit("Finalizing", 0)
    /\ active' = FALSE
    /\ wpc' = "stopping"
    /\ UNCHANGED <<session, stopped>>

ServeToggle ==
    /\ Receive("Toggle")
    /\ \/ active /\ BeginStop /\ UNCHANGED leaving
       \/ ~active /\ BeginStart

\* add_marker may find the database writer dead; without a session nothing
\* happens.
ServeMark ==
    /\ Receive("Mark")
    /\ \/ UNCHANGED events
       \/ active /\ Emit("Error", session)
    /\ UNCHANGED <<wpc, active, leaving, session, stopped>>

ServeShutdown ==
    /\ Receive("Shutdown")
    /\ leaving' = TRUE
    /\ \/ active /\ BeginStop
       \/ /\ ~active
          /\ wpc' = "leaving"
          /\ UNCHANGED <<events, active, session, stopped>>

StartOk ==
    /\ wpc = "starting"
    /\ active' = TRUE
    /\ session' = session + 1
    /\ Emit("Recording", session + 1)
    /\ wpc' = "recv"
    /\ UNCHANGED <<commands, leaving, stopped>>

StartErr ==
    /\ wpc = "starting"
    /\ Emit("Error", 0)
    /\ wpc' = "announce"
    /\ UNCHANGED <<commands, active, leaving, session, stopped>>

\* RecordingSession::stop waits for a CSV reader that the PresentMon collector
\* left behind when it failed (presentmon.rs:93-97, session.rs:273).
StopWaits ==
    /\ wpc = "stopping"
    /\ wpc' = "stuck"
    /\ UNCHANGED <<commands, events, active, leaving, session, stopped>>

StopOk ==
    /\ wpc \in {"stopping", "stuck"}
    /\ Emit("Stopped", session)
    /\ stopped' = stopped \cup {session}
    /\ wpc' = "announce"
    /\ UNCHANGED <<commands, active, leaving, session>>

StopErr ==
    /\ wpc \in {"stopping", "stuck"}
    /\ Emit("Error", session)
    /\ wpc' = "announce"
    /\ UNCHANGED <<commands, active, leaving, session, stopped>>

\* The loop breaks; the command channel is closed with what is still in it.
ShutdownDone ==
    /\ wpc = "leaving"
    /\ Emit("ShutdownComplete", 0)
    /\ wpc' = "gone"
    /\ commands' = <<>>
    /\ UNCHANGED <<active, leaving, session, stopped>>

WorkerStep ==
    \/ Recover \/ AnnounceIdle
    \/ ServeToggle \/ ServeMark \/ ServeShutdown
    \/ StartOk \/ StartErr \/ StopWaits \/ StopOk \/ StopErr
    \/ ShutdownDone

\* The user interface's end of the channel; a send to a worker that is gone
\* fails and the result is ignored.
Ask(c) ==
    /\ asked < MaxCommands
    /\ asked' = asked + 1
    /\ commands' = IF wpc = "gone" THEN commands ELSE Append(commands, c)

-----------------------------------------------------------------------------
(* What the worker may say.                                                 *)

\* The positions of a kind of event in everything the worker has emitted.
At(kind) == {i \in DOMAIN events : events[i].kind = kind}

\* The events tell the whole story: Recording and
\* Finalizing alternate, every Finalizing is answered before the next session
\* starts, the worker's own idea of being active agrees with the log, and a
\* ShutdownComplete is the last event and leaves no session behind.
EventsTellTheStory ==
    LET begun == At("Recording")
        ended == At("Finalizing")
        Between(S, i, j) == {k \in S : i < k /\ k < j}
    IN  /\ \A i, j \in begun :
              i < j => Between(ended, i, j) # {} /\ Between(At("Idle"), i, j) # {}
        /\ \A i, j \in ended : i < j => Between(begun, i, j) # {}
        /\ active <=> \E i \in begun : \A j \in ended : j < i
        /\ \A i \in At("Stopped") :
              /\ events[i - 1].kind = "Finalizing"
              /\ i < Len(events) => events[i + 1].kind = "Idle"
        /\ \A i \in At("ShutdownComplete") : i = Len(events) /\ ~active
=============================================================================
