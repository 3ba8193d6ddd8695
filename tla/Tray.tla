-------------------------------- MODULE Tray --------------------------------
(***************************************************************************)
(* The tray icon (main.rs, TrayState) on top of the recorder worker.  The  *)
(* winit loop calls handle_events about every 100 ms; it turns menu clicks *)
(* and hotkeys into commands, drains the worker's events into its own view *)
(* and refreshes the recording timer.                                      *)
(*                                                                         *)
(* A tick is split where other threads can interleave: input is handled in *)
(* "input", the worker's events one by one in "drain", and the refresh     *)
(* ends the tick.                                                          *)
(***************************************************************************)
EXTENDS RecorderWorker

VARIABLES
    taken,          \* how many of the worker's events have been received
    tick,           \* "input", "drain" or "ended" (the event loop has exited)
    recording,      \* recording_started and current_directory: a session or 0
    latest,         \* latest_directory: a session stopped since the launch, or 0
                    \*   (none, or a folder the recovery returned)
    status,         \* the text of the status item
    startOn,        \* start_stop is enabled
    markOn,         \* marker is enabled
    closing         \* the user has chosen Exit

trayVars == <<taken, tick, recording, latest, status, startOn, markOn, closing>>
vars == <<wvars, trayVars>>

Init ==
    /\ WorkerInit
    /\ taken = 0
    /\ tick = "input"
    /\ recording = 0
    /\ latest = 0
    /\ status = "Idle"
    /\ startOn = TRUE
    /\ markOn = FALSE
    /\ closing = FALSE

-----------------------------------------------------------------------------
(* Menu clicks and hotkeys.                                                 *)

Send(c) ==
    /\ tick = "input"
    /\ Ask(c)
    /\ UNCHANGED <<events, wpc, active, leaving, session, stopped>>

\* A disabled menu item cannot be clicked.
ClickToggle ==
    /\ startOn
    /\ Send("Toggle")
    /\ UNCHANGED trayVars

ClickMark ==
    /\ markOn
    /\ Send("Mark")
    /\ UNCHANGED trayVars

\* The toggle hotkey is not gated by anything.
HotkeyToggle ==
    /\ Send("Toggle")
    /\ UNCHANGED trayVars

HotkeyMark ==
    /\ recording # 0
    /\ Send("Mark")
    /\ UNCHANGED trayVars

\* A mutant of ClickExit: the loop exits without waiting for the worker.
ClickExitAtOnce ==
    /\ ~closing
    /\ Send("Shutdown")
    /\ closing' = TRUE
    /\ tick' = "ended"
    /\ UNCHANGED <<taken, recording, latest, status, startOn, markOn>>

ClickExit ==
    /\ ~closing
    /\ Send("Shutdown")
    /\ closing' = TRUE
    /\ status' = "ShuttingDown"
    /\ startOn' = FALSE
    /\ markOn' = FALSE
    /\ UNCHANGED <<taken, tick, recording, latest>>

-----------------------------------------------------------------------------
(* The worker's events.                                                     *)

\* The input queues are empty; the tick turns to the events.
InputDone ==
    /\ tick = "input"
    /\ tick' = "drain"
    /\ UNCHANGED <<wvars, taken, recording, latest, status, startOn, markOn, closing>>

\* try_recv would find an event.
Pending == taken < Len(events)

Take(kind) ==
    /\ tick = "drain"
    /\ Pending
    /\ events[taken + 1].kind = kind
    /\ taken' = taken + 1
    /\ UNCHANGED <<wvars, closing>>

\* A mutant of OnIdle: the timer keeps running.
OnIdleStillRecording ==
    /\ Take("Idle")
    /\ status' = "Idle"
    /\ startOn' = ~closing
    /\ markOn' = FALSE
    /\ UNCHANGED <<tick, recording, latest>>

OnIdle ==
    /\ Take("Idle")
    /\ recording' = 0
    /\ status' = "Idle"
    /\ startOn' = ~closing
    /\ markOn' = FALSE
    /\ UNCHANGED <<tick, latest>>

OnStarting ==
    /\ Take("Starting")
    /\ status' = "Starting"
    /\ startOn' = FALSE
    /\ UNCHANGED <<tick, recording, latest, markOn>>

OnRecording ==
    /\ Take("Recording")
    /\ recording' = events[taken + 1].session
    /\ status' = "Recording"
    /\ startOn' = TRUE
    /\ markOn' = TRUE
    /\ UNCHANGED <<tick, latest>>

OnFinalizing ==
    /\ Take("Finalizing")
    /\ status' = "Finalizing"
    /\ startOn' = FALSE
    /\ markOn' = FALSE
    /\ UNCHANGED <<tick, recording, latest>>

OnStopped ==
    /\ Take("Stopped")
    /\ latest' = events[taken + 1].session
    /\ UNCHANGED <<tick, recording, status, startOn, markOn>>

OnRecovered ==
    /\ Take("Recovered")
    /\ latest' = 0
    /\ UNCHANGED <<tick, recording, status, startOn, markOn>>

\* A mutant of OnError: the folder of a failed stop is offered as the latest report.
OnErrorOffersReport ==
    /\ Take("Error")
    /\ status' = "Error"
    /\ latest' = events[taken + 1].session
    /\ UNCHANGED <<tick, recording, startOn, markOn>>

OnError ==
    /\ Take("Error")
    /\ status' = "Error"
    /\ UNCHANGED <<tick, recording, latest, startOn, markOn>>

\* event_loop.exit() ends the loop once this call of handle_events is over;
\* ShutdownComplete is the worker's last event.
OnShutdownComplete ==
    /\ Take("ShutdownComplete")
    /\ tick' = "ended"
    /\ UNCHANGED <<recording, latest, status, startOn, markOn>>

\* try_recv found nothing; the timer text is refreshed and the tick ends.
Refresh ==
    /\ tick = "drain"
    /\ ~Pending
    /\ tick' = "input"
    /\ status' = IF recording # 0 THEN "Recording" ELSE status
    /\ UNCHANGED <<wvars, taken, recording, latest, startOn, markOn, closing>>

HandleEvent ==
    \/ OnIdle \/ OnStarting \/ OnRecording \/ OnFinalizing
    \/ OnStopped \/ OnRecovered \/ OnError \/ OnShutdownComplete

Worker == WorkerStep /\ UNCHANGED <<asked, trayVars>>

Next ==
    \/ ClickToggle \/ ClickMark \/ HotkeyToggle \/ HotkeyMark \/ ClickExit
    \/ InputDone \/ HandleEvent \/ Refresh
    \/ Worker

Spec == Init /\ [][Next]_vars

(* The winit loop keeps ticking and the worker thread is scheduled; nothing  *)
(* makes the user press anything, and nothing makes a stop that waits for a  *)
(* reader left behind return.                                                *)
FairSpec ==
    Spec /\ WF_vars(InputDone) /\ WF_vars(HandleEvent) /\ WF_vars(Refresh)
         /\ WF_vars(wpc # "stuck" /\ Worker)

-----------------------------------------------------------------------------
(* Properties.                                                              *)

\* The worker has nothing to do and nothing left to say.
Settled ==
    /\ tick = "input"
    /\ wpc = "recv"
    /\ commands = <<>>
    /\ ~Pending

\* Once everything has been said the icon agrees with the worker, whatever
\* was pressed meanwhile: it shows a recording exactly when there is one, and
\* that one, and offers a marker exactly then.
ViewConverges ==
    Settled => /\ recording = (IF active THEN session ELSE 0)
               /\ markOn = active
               /\ startOn
               /\ ~closing

\* "Open Latest Report" only ever opens the folder of a session whose stop
\* returned Ok (or a recovered one), and once everything has been said it is
\* the newest such session: a failed stop does not take its place.
LatestIsReported ==
    /\ latest \in stopped \cup {0}
    /\ Settled => \A n \in stopped : n <= latest

\* The loop exits only after the worker has stopped and said so.
ExitStopsSession == tick = "ended" => wpc = "gone" /\ ~active /\ ~Pending

\* After Exit the program ends, whatever was queued or failing at that time,
\* unless a stop waits for good for a reader left behind.
ExitCompletes == closing ~> tick = "ended" \/ [](wpc = "stuck")
=============================================================================
