------------------------ MODULE CollectorGroupProofs ------------------------
(***************************************************************************)
(* What RunningIsAccounted and EveryGapIsExplained rest on, and that every *)
(* step keeps it, for any number of sessions and of faults.                *)
(***************************************************************************)
EXTENDS CollectorGroup, TLAPS

Broken == {"error", "panicked"}
InSession == {"spawning", "recording", "joining", "finishing", "waiting"}

TypeOK ==
    /\ wpc \in InSession \cup {"idle", "exited"}
    /\ cur \in 0..MaxSessions /\ next \in 1..5 /\ errors \in SUBSET Collectors
    /\ thread \in [Sessions -> [Collectors ->
                     {"absent", "running", "ok", "killed"} \cup Broken]]
    /\ limiter \in [Sessions -> {"opening", "clear", "quiet"}]
    /\ flag \in SUBSET Sessions /\ leaked \in SUBSET Sessions /\ held \in SUBSET Sessions
    /\ writer \in [Sessions -> {"absent", "running", "failed", "ended", "killed"}]
    /\ verdict \in [Sessions -> Over \cup {"none"}]
    /\ told \in [Sessions -> SUBSET Collectors]
    /\ refused \in [Sessions -> SUBSET Collectors]
    /\ gap \in [Sessions -> SUBSET Collectors]
    /\ faults \in 0..MaxFaults

Untouched(s) ==
    /\ verdict[s] = "none" /\ gap[s] = {} /\ limiter[s] = "opening"
    /\ \A c \in Collectors : thread[s][c] = "absent"

\* Sessions before the current one are over, later ones untouched.
Placed(s) ==
    /\ s > cur => Untouched(s)
    /\ s < cur => verdict[s] \in Over

Order == \A s \in Sessions : Placed(s)

\* The current session holds its Sender until it closes the channel or fails,
\* and has a verdict when the recorder is back in its loop.
Phase ==
    /\ wpc \in InSession => cur \in Sessions /\ verdict[cur] = "none"
    /\ wpc \in InSession \ {"waiting"} => cur \in held /\ writer[cur] \in {"running", "failed"}
    /\ wpc \notin InSession /\ cur \in Sessions => verdict[cur] \in Over

NotYetSpawned ==
    wpc = "spawning" => \A c \in Collectors : c >= next => thread[cur][c] = "absent"

\* What c owes s is told, or refused, or still in the result of a thread to
\* join, in the vector of errors, or lost with a writer that failed.
Traced(s, c) ==
    /\ limiter[s] = "quiet" => Adlx \in told[s] \cup refused[s]
    /\ c \in gap[s] => c \in told[s] \cup refused[s] \/ thread[s][c] \in Broken
    /\ wpc = "joining" /\ s = cur /\ c < next /\ thread[s][c] \in Broken => c \in errors
    /\ wpc \in {"finishing", "waiting"} /\ s = cur /\ thread[s][c] \in Broken =>
          c \in told[s] \/ writer[s] = "failed"

Explained == \A s \in Sessions, c \in Collectors : Traced(s, c)

IInv == TypeOK /\ Order /\ Phase /\ NotYetSpawned /\ RunningIsAccounted /\ Explained
             /\ EveryGapIsExplained

-----------------------------------------------------------------------------
(* The counters and the health records.                                    *)

LEMMA FaultCounts ==
  ASSUME Fault, faults \in 0..MaxFaults
  PROVE  faults' \in 0..MaxFaults
  BY GroupAssumption DEF Fault

LEMMA CountersGrow ==
  /\ \A n \in 1..5 : n <= 4 => n + 1 \in 1..5 /\ n \in Collectors
  /\ \A n \in 0..MaxSessions : n < MaxSessions => n + 1 \in 0..MaxSessions /\ n + 1 \in Sessions
  /\ 1 \in 1..5 /\ Adlx \in Collectors /\ PresentMon \in Collectors
  BY GroupAssumption DEF Collectors, Sessions, Adlx, PresentMon

LEMMA TellTypes ==
  ASSUME TypeOK, NEW s \in Sessions, NEW c \in Collectors, Tell(s, c)
  PROVE  /\ told' \in [Sessions -> SUBSET Collectors]
         /\ refused' \in [Sessions -> SUBSET Collectors]
         /\ faults' \in 0..MaxFaults
<1>1. /\ told' = told \/ told' = [told EXCEPT ![s] = @ \cup {c}]
      /\ refused' = refused \/ refused' = [refused EXCEPT ![s] = @ \cup {c}]
  BY DEF Tell
<1>2. UNCHANGED faults \/ Fault
  BY DEF Tell
<1>3. faults \in 0..MaxFaults
  BY DEF TypeOK
<1>4. told' \in [Sessions -> SUBSET Collectors]
  BY <1>1 DEF TypeOK
<1>5. refused' \in [Sessions -> SUBSET Collectors]
  BY <1>1 DEF TypeOK
<1>6. faults' \in 0..MaxFaults
  <2>1. CASE UNCHANGED faults
    BY <2>1, <1>3
  <2>2. CASE Fault
    BY <2>2, <1>3, FaultCounts
  <2>. QED
    BY <1>2, <2>1, <2>2
<1>. QED
  BY <1>4, <1>5, <1>6

-----------------------------------------------------------------------------
(* The steps, by conjunct.                                                 *)

\* Types are kept.
LEMMA TypeStep ==
  ASSUME TypeOK, Phase,
         [Next]_vars
  PROVE  TypeOK'
<1>1. wpc \in InSession => cur \in Sessions
  BY DEF Phase
<1>2. CASE BeginStart
  BY <1>2, <1>1, CountersGrow DEF BeginStart, RecorderOnly, healthVars, TypeOK, Broken, InSession, Over
<1>3. CASE Spawn
  BY <1>3, <1>1, CountersGrow DEF Spawn, Becomes, RecorderOnly, healthVars, TypeOK, Broken, InSession, Over
<1>4. CASE SpawnFails
  BY <1>4, <1>1, CountersGrow, FaultCounts DEF SpawnFails, RecorderOnly, healthVars, TypeOK, Broken, InSession, Over
<1>5. CASE Started
  BY <1>5, <1>1, CountersGrow DEF Started, RecorderOnly, healthVars, TypeOK, Broken, InSession, Over
<1>6. CASE BeginStop
  BY <1>6, <1>1, CountersGrow DEF BeginStop, RecorderOnly, healthVars, TypeOK, Broken, InSession, Over
<1>7. CASE Join
  BY <1>7, <1>1, CountersGrow DEF Join, Running, RecorderOnly, healthVars, TypeOK, Broken, InSession, Over
<1>8. CASE ReportErrors
  BY <1>8, <1>1, CountersGrow DEF ReportErrors, RecorderOnly, healthVars, TypeOK, Broken, InSession, Over
<1>9. CASE FinishFails
  BY <1>9, <1>1, CountersGrow, FaultCounts DEF FinishFails, RecorderOnly, healthVars, TypeOK, Broken, InSession, Over
<1>10. CASE CloseChannel
  BY <1>10, <1>1, CountersGrow DEF CloseChannel, RecorderOnly, healthVars, TypeOK, Broken, InSession, Over
<1>11. CASE WriterJoined
  BY <1>11, <1>1, CountersGrow DEF WriterJoined, RecorderOnly, healthVars, TypeOK, Broken, InSession, Over
<1>12. ASSUME NEW t \in Sessions, NEW d \in Collectors, StopSeen(t, d) PROVE TypeOK'
  BY <1>12, <1>1, CountersGrow DEF StopSeen, Running, Becomes, recorderVars, healthVars, TypeOK, Broken, InSession, Over
<1>13. ASSUME NEW t \in Sessions, AdlxUnavailable(t) PROVE TypeOK'
  BY <1>13, <1>1, CountersGrow, FaultCounts, TellTypes DEF AdlxUnavailable, Running, Becomes, Miss, recorderVars, healthVars, TypeOK, Broken, InSession, Over
<1>14. ASSUME NEW t \in Sessions, AdlxOpens(t) PROVE TypeOK'
  BY <1>14, <1>1, CountersGrow DEF AdlxOpens, Running, MayRun, recorderVars, healthVars, TypeOK, Broken, InSession, Over
<1>15. ASSUME NEW t \in Sessions, SampleFails(t) PROVE TypeOK'
  BY <1>15, <1>1, CountersGrow, FaultCounts, TellTypes DEF SampleFails, Running, Miss, recorderVars, healthVars, TypeOK, Broken, InSession, Over
<1>16. ASSUME NEW t \in Sessions, QuietEnds(t) PROVE TypeOK'
  BY <1>16, <1>1, CountersGrow DEF QuietEnds, Running, MayRun, recorderVars, healthVars, TypeOK, Broken, InSession, Over
<1>17. ASSUME NEW t \in Sessions, PresentMonErrs(t) PROVE TypeOK'
  BY <1>17, <1>1, CountersGrow, FaultCounts DEF PresentMonErrs, Running, Becomes, Miss, recorderVars, healthVars, TypeOK, Broken, InSession, Over
<1>18. ASSUME NEW t \in Sessions, NEW d \in Collectors, Panics(t, d) PROVE TypeOK'
  BY <1>18, <1>1, CountersGrow, FaultCounts DEF Panics, Running, Becomes, Miss, recorderVars, healthVars, TypeOK, Broken, InSession, Over
<1>19. ASSUME NEW t \in Sessions, WriterEnds(t) PROVE TypeOK'
  BY <1>19, <1>1, CountersGrow DEF WriterEnds, Disconnected, recorderVars, healthVars, TypeOK, Broken, InSession, Over
<1>20. ASSUME NEW t \in Sessions, WriterFails(t) PROVE TypeOK'
  BY <1>20, <1>1, CountersGrow, FaultCounts DEF WriterFails, recorderVars, healthVars, TypeOK, Broken, InSession, Over
<1>21. CASE Exit
  BY <1>21, <1>1, CountersGrow DEF Exit, RecorderOnly, healthVars, Running, TypeOK, Broken, InSession, Over
<1>22. CASE UNCHANGED vars
  BY <1>22, <1>1, CountersGrow DEF vars, recorderVars, healthVars, TypeOK, Broken, InSession, Over
<1>. QED
  BY <1>2, <1>3, <1>4, <1>5, <1>6, <1>7, <1>8, <1>9, <1>10, <1>11, <1>12, <1>13, <1>14, <1>15, <1>16, <1>17, <1>18, <1>19, <1>20, <1>21, <1>22 DEF Next, Recorder, Collector, Mishap, Exited

\* No collector outlives its join.
LEMMA AccountedStep ==
  ASSUME TypeOK, Order, Phase, RunningIsAccounted,
         NEW s \in Sessions, NEW c \in Collectors,
         [Next]_vars,
         Running(s, c)'
  PROVE  MayRun(s, c)'
<1>1. /\ thread \in [Sessions -> [Collectors -> {"absent", "running", "ok", "killed"} \cup Broken]]
      /\ verdict \in [Sessions -> Over \cup {"none"}]
  BY DEF TypeOK
<1>2. Running(s, c) => MayRun(s, c)
  BY DEF RunningIsAccounted
<1>3. wpc # "idle" /\ wpc # "exited" => cur \in Sessions /\ verdict[cur] = "none"
  BY DEF Phase, TypeOK, InSession
<1>4. c \in Nat /\ next \in Nat /\ 1 <= c /\ c <= 4
  BY DEF TypeOK, Collectors
<1>5. s > cur => ~Running(s, c)
  BY DEF Order, Placed, Untouched, Running
<1>6. CASE BeginStart
  BY <1>6, <1>1, <1>2, <1>3, <1>4, <1>5 DEF BeginStart, RecorderOnly, healthVars, Running, MayRun
<1>7. CASE Spawn
  BY <1>7, <1>1, <1>2, <1>3, <1>4, <1>5 DEF Spawn, Becomes, RecorderOnly, healthVars, Running, MayRun
<1>8. CASE SpawnFails
  BY <1>8, <1>1, <1>2, <1>3, <1>4, <1>5 DEF SpawnFails, RecorderOnly, healthVars, Running, MayRun
<1>9. CASE Started
  BY <1>9, <1>1, <1>2, <1>3, <1>4, <1>5 DEF Started, RecorderOnly, healthVars, Running, MayRun
<1>10. CASE BeginStop
  BY <1>10, <1>1, <1>2, <1>3, <1>4, <1>5 DEF BeginStop, RecorderOnly, healthVars, Running, MayRun
<1>11. CASE Join
  BY <1>11, <1>1, <1>2, <1>3, <1>4, <1>5 DEF Join, Running, RecorderOnly, healthVars, MayRun
<1>12. CASE ReportErrors
  BY <1>12, <1>1, <1>2, <1>3, <1>4, <1>5 DEF ReportErrors, RecorderOnly, healthVars, Running, MayRun
<1>13. CASE FinishFails
  <2>1. verdict[s] = "startFailed"
    BY <1>13, <1>2 DEF FinishFails, Running, MayRun
  <2>2. cur \in Sessions /\ verdict[cur] = "none"
    BY <1>13, <1>3 DEF FinishFails
  <2>. QED
    BY <2>1, <2>2, <1>13, <1>1 DEF FinishFails, MayRun
<1>14. CASE CloseChannel
  BY <1>14, <1>1, <1>2, <1>3, <1>4, <1>5 DEF CloseChannel, RecorderOnly, healthVars, Running, MayRun
<1>15. CASE WriterJoined
  <2>1. verdict[s] = "startFailed"
    BY <1>15, <1>2 DEF WriterJoined, Running, MayRun
  <2>2. cur \in Sessions /\ verdict[cur] = "none"
    BY <1>15, <1>3 DEF WriterJoined
  <2>. QED
    BY <2>1, <2>2, <1>15, <1>1 DEF WriterJoined, MayRun
<1>16. ASSUME NEW t \in Sessions, NEW d \in Collectors, StopSeen(t, d) PROVE MayRun(s, c)'
  BY <1>16, <1>1, <1>2, <1>3, <1>4, <1>5 DEF StopSeen, Running, Becomes, recorderVars, healthVars, MayRun
<1>17. ASSUME NEW t \in Sessions, AdlxUnavailable(t) PROVE MayRun(s, c)'
  BY <1>17, <1>1, <1>2, <1>3, <1>4, <1>5 DEF AdlxUnavailable, Running, Becomes, Tell, Miss, recorderVars, healthVars, MayRun
<1>18. ASSUME NEW t \in Sessions, AdlxOpens(t) PROVE MayRun(s, c)'
  BY <1>18, <1>1, <1>2, <1>3, <1>4, <1>5 DEF AdlxOpens, Running, MayRun, recorderVars, healthVars
<1>19. ASSUME NEW t \in Sessions, SampleFails(t) PROVE MayRun(s, c)'
  BY <1>19, <1>1, <1>2, <1>3, <1>4, <1>5 DEF SampleFails, Running, Miss, Tell, recorderVars, healthVars, MayRun
<1>20. ASSUME NEW t \in Sessions, QuietEnds(t) PROVE MayRun(s, c)'
  BY <1>20, <1>1, <1>2, <1>3, <1>4, <1>5 DEF QuietEnds, Running, MayRun, recorderVars, healthVars
<1>21. ASSUME NEW t \in Sessions, PresentMonErrs(t) PROVE MayRun(s, c)'
  BY <1>21, <1>1, <1>2, <1>3, <1>4, <1>5 DEF PresentMonErrs, Running, Becomes, Miss, recorderVars, healthVars, MayRun
<1>22. ASSUME NEW t \in Sessions, NEW d \in Collectors, Panics(t, d) PROVE MayRun(s, c)'
  BY <1>22, <1>1, <1>2, <1>3, <1>4, <1>5 DEF Panics, Running, Becomes, Miss, recorderVars, healthVars, MayRun
<1>23. ASSUME NEW t \in Sessions, WriterEnds(t) PROVE MayRun(s, c)'
  BY <1>23, <1>1, <1>2, <1>3, <1>4, <1>5 DEF WriterEnds, Disconnected, recorderVars, healthVars, Running, MayRun
<1>24. ASSUME NEW t \in Sessions, WriterFails(t) PROVE MayRun(s, c)'
  BY <1>24, <1>1, <1>2, <1>3, <1>4, <1>5 DEF WriterFails, recorderVars, healthVars, Running, MayRun
<1>25. CASE Exit
  BY <1>25, <1>1, <1>2, <1>3, <1>4, <1>5 DEF Exit, RecorderOnly, healthVars, Running, MayRun
<1>26. CASE UNCHANGED vars
  BY <1>26, <1>1, <1>2, <1>3, <1>4, <1>5 DEF vars, recorderVars, healthVars, Running, MayRun
<1>. QED
  BY <1>6, <1>7, <1>8, <1>9, <1>10, <1>11, <1>12, <1>13, <1>14, <1>15, <1>16, <1>17, <1>18, <1>19, <1>20, <1>21, <1>22, <1>23, <1>24, <1>25, <1>26 DEF Next, Recorder, Collector, Mishap, Exited

\* Sessions come one after the other.
LEMMA OrderStep ==
  ASSUME TypeOK, Order, Phase,
         NEW s \in Sessions,
         [Next]_vars
  PROVE  Placed(s)'
<1>1. /\ thread \in [Sessions -> [Collectors -> {"absent", "running", "ok", "killed"} \cup Broken]]
      /\ verdict \in [Sessions -> Over \cup {"none"}]
      /\ s \in Nat /\ cur \in Nat
      /\ limiter \in [Sessions -> {"opening", "clear", "quiet"}]
      /\ gap \in [Sessions -> SUBSET Collectors]
  BY GroupAssumption DEF TypeOK, Sessions
<1>2. Placed(s)
  BY DEF Order
<1>3. /\ wpc # "idle" /\ wpc # "exited" => cur \in Sessions /\ verdict[cur] = "none"
      /\ wpc \in {"idle", "exited"} /\ cur \in Sessions => verdict[cur] \in Over
  BY DEF Phase, TypeOK, InSession
<1>4. CASE BeginStart
  BY <1>4, <1>1, <1>2, <1>3, CountersGrow DEF BeginStart, RecorderOnly, healthVars, Placed, Untouched, Running, Over
<1>5. CASE Spawn
  BY <1>5, <1>1, <1>2, <1>3, CountersGrow DEF Spawn, Becomes, RecorderOnly, healthVars, Placed, Untouched, Running, Over
<1>6. CASE SpawnFails
  BY <1>6, <1>1, <1>2, <1>3, CountersGrow DEF SpawnFails, RecorderOnly, healthVars, Placed, Untouched, Running, Over
<1>7. CASE Started
  BY <1>7, <1>1, <1>2, <1>3, CountersGrow DEF Started, RecorderOnly, healthVars, Placed, Untouched, Running, Over
<1>8. CASE BeginStop
  BY <1>8, <1>1, <1>2, <1>3, CountersGrow DEF BeginStop, RecorderOnly, healthVars, Placed, Untouched, Running, Over
<1>9. CASE Join
  BY <1>9, <1>1, <1>2, <1>3, CountersGrow DEF Join, Running, RecorderOnly, healthVars, Placed, Untouched, Over
<1>10. CASE ReportErrors
  BY <1>10, <1>1, <1>2, <1>3, CountersGrow DEF ReportErrors, RecorderOnly, healthVars, Placed, Untouched, Running, Over
<1>11. CASE FinishFails
  BY <1>11, <1>1, <1>2, <1>3, CountersGrow DEF FinishFails, RecorderOnly, healthVars, Placed, Untouched, Running, Over
<1>12. CASE CloseChannel
  BY <1>12, <1>1, <1>2, <1>3, CountersGrow DEF CloseChannel, RecorderOnly, healthVars, Placed, Untouched, Running, Over
<1>13. CASE WriterJoined
  BY <1>13, <1>1, <1>2, <1>3, CountersGrow DEF WriterJoined, RecorderOnly, healthVars, Placed, Untouched, Running, Over
<1>14. ASSUME NEW t \in Sessions, NEW d \in Collectors, StopSeen(t, d) PROVE Placed(s)'
  BY <1>14, <1>1, <1>2, <1>3, CountersGrow DEF StopSeen, Running, Becomes, recorderVars, healthVars, Placed, Untouched, Over
<1>15. ASSUME NEW t \in Sessions, AdlxUnavailable(t) PROVE Placed(s)'
  BY <1>15, <1>1, <1>2, <1>3, CountersGrow DEF AdlxUnavailable, Running, Becomes, Tell, Miss, recorderVars, healthVars, Placed, Untouched, Over
<1>16. ASSUME NEW t \in Sessions, AdlxOpens(t) PROVE Placed(s)'
  BY <1>16, <1>1, <1>2, <1>3, CountersGrow DEF AdlxOpens, Running, MayRun, recorderVars, healthVars, Placed, Untouched, Over
<1>17. ASSUME NEW t \in Sessions, SampleFails(t) PROVE Placed(s)'
  BY <1>17, <1>1, <1>2, <1>3, CountersGrow DEF SampleFails, Running, Miss, Tell, recorderVars, healthVars, Placed, Untouched, Over
<1>18. ASSUME NEW t \in Sessions, QuietEnds(t) PROVE Placed(s)'
  BY <1>18, <1>1, <1>2, <1>3, CountersGrow DEF QuietEnds, Running, MayRun, recorderVars, healthVars, Placed, Untouched, Over
<1>19. ASSUME NEW t \in Sessions, PresentMonErrs(t) PROVE Placed(s)'
  BY <1>19, <1>1, <1>2, <1>3, CountersGrow DEF PresentMonErrs, Running, Becomes, Miss, recorderVars, healthVars, Placed, Untouched, Over
<1>20. ASSUME NEW t \in Sessions, NEW d \in Collectors, Panics(t, d) PROVE Placed(s)'
  BY <1>20, <1>1, <1>2, <1>3, CountersGrow DEF Panics, Running, Becomes, Miss, recorderVars, healthVars, Placed, Untouched, Over
<1>21. ASSUME NEW t \in Sessions, WriterEnds(t) PROVE Placed(s)'
  BY <1>21, <1>1, <1>2, <1>3, CountersGrow DEF WriterEnds, Disconnected, recorderVars, healthVars, Placed, Untouched, Running, Over
<1>22. ASSUME NEW t \in Sessions, WriterFails(t) PROVE Placed(s)'
  BY <1>22, <1>1, <1>2, <1>3, CountersGrow DEF WriterFails, recorderVars, healthVars, Placed, Untouched, Running, Over
<1>23. CASE Exit
  BY <1>23, <1>1, <1>2, <1>3, CountersGrow DEF Exit, RecorderOnly, healthVars, Running, Placed, Untouched, Over
<1>24. CASE UNCHANGED vars
  BY <1>24, <1>1, <1>2, <1>3, CountersGrow DEF vars, recorderVars, healthVars, Placed, Untouched, Running, Over
<1>. QED
  BY <1>4, <1>5, <1>6, <1>7, <1>8, <1>9, <1>10, <1>11, <1>12, <1>13, <1>14, <1>15, <1>16, <1>17, <1>18, <1>19, <1>20, <1>21, <1>22, <1>23, <1>24 DEF Next, Recorder, Collector, Mishap, Exited

\* The recorder goes through its phases.
LEMMA PhaseStep ==
  ASSUME TypeOK, Order, Phase,
         [Next]_vars
  PROVE  Phase'
<1>1. /\ cur \in 0..MaxSessions /\ held \in SUBSET Sessions
      /\ verdict \in [Sessions -> Over \cup {"none"}]
      /\ writer \in [Sessions -> {"absent", "running", "failed", "ended", "killed"}]
  BY DEF TypeOK
<1>2. \A t \in Sessions : t > cur => verdict[t] = "none"
  BY DEF Order, Placed, Untouched
<1>3. CASE BeginStart
  BY <1>3, <1>1, <1>2, CountersGrow DEF BeginStart, RecorderOnly, healthVars, Phase, InSession, Over
<1>4. CASE Spawn
  BY <1>4, <1>1, <1>2, CountersGrow DEF Spawn, Becomes, RecorderOnly, healthVars, Phase, InSession, Over
<1>5. CASE SpawnFails
  BY <1>5, <1>1, <1>2, CountersGrow DEF SpawnFails, RecorderOnly, healthVars, Phase, InSession, Over
<1>6. CASE Started
  BY <1>6, <1>1, <1>2, CountersGrow DEF Started, RecorderOnly, healthVars, Phase, InSession, Over
<1>7. CASE BeginStop
  BY <1>7, <1>1, <1>2, CountersGrow DEF BeginStop, RecorderOnly, healthVars, Phase, InSession, Over
<1>8. CASE Join
  BY <1>8, <1>1, <1>2, CountersGrow DEF Join, Running, RecorderOnly, healthVars, Phase, InSession, Over
<1>9. CASE ReportErrors
  BY <1>9, <1>1, <1>2, CountersGrow DEF ReportErrors, RecorderOnly, healthVars, Phase, InSession, Over
<1>10. CASE FinishFails
  BY <1>10, <1>1, <1>2, CountersGrow DEF FinishFails, RecorderOnly, healthVars, Phase, InSession, Over
<1>11. CASE CloseChannel
  BY <1>11, <1>1, <1>2, CountersGrow DEF CloseChannel, RecorderOnly, healthVars, Phase, InSession, Over
<1>12. CASE WriterJoined
  BY <1>12, <1>1, <1>2, CountersGrow DEF WriterJoined, RecorderOnly, healthVars, Phase, InSession, Over
<1>13. ASSUME NEW t \in Sessions, NEW d \in Collectors, StopSeen(t, d) PROVE Phase'
  BY <1>13, <1>1, <1>2, CountersGrow DEF StopSeen, Running, Becomes, recorderVars, healthVars, Phase, InSession, Over
<1>14. ASSUME NEW t \in Sessions, AdlxUnavailable(t) PROVE Phase'
  BY <1>14, <1>1, <1>2, CountersGrow DEF AdlxUnavailable, Running, Becomes, Tell, Miss, recorderVars, healthVars, Phase, InSession, Over
<1>15. ASSUME NEW t \in Sessions, AdlxOpens(t) PROVE Phase'
  BY <1>15, <1>1, <1>2, CountersGrow DEF AdlxOpens, Running, MayRun, recorderVars, healthVars, Phase, InSession, Over
<1>16. ASSUME NEW t \in Sessions, SampleFails(t) PROVE Phase'
  BY <1>16, <1>1, <1>2, CountersGrow DEF SampleFails, Running, Miss, Tell, recorderVars, healthVars, Phase, InSession, Over
<1>17. ASSUME NEW t \in Sessions, QuietEnds(t) PROVE Phase'
  BY <1>17, <1>1, <1>2, CountersGrow DEF QuietEnds, Running, MayRun, recorderVars, healthVars, Phase, InSession, Over
<1>18. ASSUME NEW t \in Sessions, PresentMonErrs(t) PROVE Phase'
  BY <1>18, <1>1, <1>2, CountersGrow DEF PresentMonErrs, Running, Becomes, Miss, recorderVars, healthVars, Phase, InSession, Over
<1>19. ASSUME NEW t \in Sessions, NEW d \in Collectors, Panics(t, d) PROVE Phase'
  BY <1>19, <1>1, <1>2, CountersGrow DEF Panics, Running, Becomes, Miss, recorderVars, healthVars, Phase, InSession, Over
<1>20. ASSUME NEW t \in Sessions, WriterEnds(t) PROVE Phase'
  BY <1>20, <1>1, <1>2, CountersGrow DEF WriterEnds, Disconnected, recorderVars, healthVars, Phase, InSession, Over
<1>21. ASSUME NEW t \in Sessions, WriterFails(t) PROVE Phase'
  BY <1>21, <1>1, <1>2, CountersGrow DEF WriterFails, recorderVars, healthVars, Phase, InSession, Over
<1>22. CASE Exit
  BY <1>22, <1>1, <1>2, CountersGrow DEF Exit, RecorderOnly, healthVars, Running, Phase, InSession, Over
<1>23. CASE UNCHANGED vars
  BY <1>23, <1>1, <1>2, CountersGrow DEF vars, recorderVars, healthVars, Phase, InSession, Over
<1>. QED
  BY <1>3, <1>4, <1>5, <1>6, <1>7, <1>8, <1>9, <1>10, <1>11, <1>12, <1>13, <1>14, <1>15, <1>16, <1>17, <1>18, <1>19, <1>20, <1>21, <1>22, <1>23 DEF Next, Recorder, Collector, Mishap, Exited

\* Collectors are spawned in their order.
LEMMA SpawnStep ==
  ASSUME TypeOK, Order, Phase, NotYetSpawned,
         NEW c \in Collectors,
         [Next]_vars,
         wpc' = "spawning"
  PROVE  (c >= next => thread[cur][c] = "absent")'
<1>1. /\ thread \in [Sessions -> [Collectors -> {"absent", "running", "ok", "killed"} \cup Broken]]
      /\ c \in Nat /\ next \in Nat /\ cur \in 0..MaxSessions
  BY GroupAssumption DEF TypeOK, Collectors
<1>2. wpc = "spawning" /\ c >= next => thread[cur][c] = "absent"
  BY DEF NotYetSpawned
<1>3. /\ wpc # "idle" /\ wpc # "exited" => cur \in Sessions /\ verdict[cur] = "none"
      /\ \A t \in Sessions : t > cur => thread[t][c] = "absent"
  BY DEF Order, Placed, Untouched, Phase, TypeOK, InSession
<1>4. CASE BeginStart
  BY <1>4, <1>1, <1>2, <1>3, CountersGrow DEF BeginStart, RecorderOnly, healthVars, Running
<1>5. CASE Spawn
  BY <1>5, <1>1, <1>2, <1>3, CountersGrow DEF Spawn, Becomes, RecorderOnly, healthVars, Running
<1>6. CASE SpawnFails
  BY <1>6, <1>1, <1>2, <1>3, CountersGrow DEF SpawnFails, RecorderOnly, healthVars, Running
<1>7. CASE Started
  BY <1>7, <1>1, <1>2, <1>3, CountersGrow DEF Started, RecorderOnly, healthVars, Running
<1>8. CASE BeginStop
  BY <1>8, <1>1, <1>2, <1>3, CountersGrow DEF BeginStop, RecorderOnly, healthVars, Running
<1>9. CASE Join
  BY <1>9, <1>1, <1>2, <1>3, CountersGrow DEF Join, Running, RecorderOnly, healthVars
<1>10. CASE ReportErrors
  BY <1>10, <1>1, <1>2, <1>3, CountersGrow DEF ReportErrors, RecorderOnly, healthVars, Running
<1>11. CASE FinishFails
  BY <1>11, <1>1, <1>2, <1>3, CountersGrow DEF FinishFails, RecorderOnly, healthVars, Running
<1>12. CASE CloseChannel
  BY <1>12, <1>1, <1>2, <1>3, CountersGrow DEF CloseChannel, RecorderOnly, healthVars, Running
<1>13. CASE WriterJoined
  BY <1>13, <1>1, <1>2, <1>3, CountersGrow DEF WriterJoined, RecorderOnly, healthVars, Running
<1>14. ASSUME NEW t \in Sessions, NEW d \in Collectors, StopSeen(t, d) PROVE (c >= next => thread[cur][c] = "absent")'
  BY <1>14, <1>1, <1>2, <1>3, CountersGrow DEF StopSeen, Running, Becomes, recorderVars, healthVars
<1>15. ASSUME NEW t \in Sessions, AdlxUnavailable(t) PROVE (c >= next => thread[cur][c] = "absent")'
  BY <1>15, <1>1, <1>2, <1>3, CountersGrow DEF AdlxUnavailable, Running, Becomes, Tell, Miss, recorderVars, healthVars
<1>16. ASSUME NEW t \in Sessions, AdlxOpens(t) PROVE (c >= next => thread[cur][c] = "absent")'
  BY <1>16, <1>1, <1>2, <1>3, CountersGrow DEF AdlxOpens, Running, MayRun, recorderVars, healthVars
<1>17. ASSUME NEW t \in Sessions, SampleFails(t) PROVE (c >= next => thread[cur][c] = "absent")'
  BY <1>17, <1>1, <1>2, <1>3, CountersGrow DEF SampleFails, Running, Miss, Tell, recorderVars, healthVars
<1>18. ASSUME NEW t \in Sessions, QuietEnds(t) PROVE (c >= next => thread[cur][c] = "absent")'
  BY <1>18, <1>1, <1>2, <1>3, CountersGrow DEF QuietEnds, Running, MayRun, recorderVars, healthVars
<1>19. ASSUME NEW t \in Sessions, PresentMonErrs(t) PROVE (c >= next => thread[cur][c] = "absent")'
  BY <1>19, <1>1, <1>2, <1>3, CountersGrow DEF PresentMonErrs, Running, Becomes, Miss, recorderVars, healthVars
<1>20. ASSUME NEW t \in Sessions, NEW d \in Collectors, Panics(t, d) PROVE (c >= next => thread[cur][c] = "absent")'
  BY <1>20, <1>1, <1>2, <1>3, CountersGrow DEF Panics, Running, Becomes, Miss, recorderVars, healthVars
<1>21. ASSUME NEW t \in Sessions, WriterEnds(t) PROVE (c >= next => thread[cur][c] = "absent")'
  BY <1>21, <1>1, <1>2, <1>3, CountersGrow DEF WriterEnds, Disconnected, recorderVars, healthVars, Running
<1>22. ASSUME NEW t \in Sessions, WriterFails(t) PROVE (c >= next => thread[cur][c] = "absent")'
  BY <1>22, <1>1, <1>2, <1>3, CountersGrow DEF WriterFails, recorderVars, healthVars, Running
<1>23. CASE Exit
  BY <1>23, <1>1, <1>2, <1>3, CountersGrow DEF Exit, RecorderOnly, healthVars, Running
<1>24. CASE UNCHANGED vars
  BY <1>24, <1>1, <1>2, <1>3, CountersGrow DEF vars, recorderVars, healthVars, Running
<1>. QED
  BY <1>4, <1>5, <1>6, <1>7, <1>8, <1>9, <1>10, <1>11, <1>12, <1>13, <1>14, <1>15, <1>16, <1>17, <1>18, <1>19, <1>20, <1>21, <1>22, <1>23, <1>24 DEF Next, Recorder, Collector, Mishap, Exited

\* What is not told yet is on its way.
LEMMA TracedStep ==
  ASSUME TypeOK, Order, Phase, NotYetSpawned, RunningIsAccounted, Explained,
         NEW s \in Sessions, NEW c \in Collectors,
         [Next]_vars
  PROVE  Traced(s, c)'
<1>1. /\ thread \in [Sessions -> [Collectors -> {"absent", "running", "ok", "killed"} \cup Broken]]
      /\ told \in [Sessions -> SUBSET Collectors] /\ refused \in [Sessions -> SUBSET Collectors]
      /\ gap \in [Sessions -> SUBSET Collectors]
      /\ limiter \in [Sessions -> {"opening", "clear", "quiet"}]
      /\ writer \in [Sessions -> {"absent", "running", "failed", "ended", "killed"}]
      /\ c \in Nat /\ next \in Nat /\ cur \in Nat /\ 1 <= c /\ c <= 4
  BY GroupAssumption DEF TypeOK, Collectors
<1>2. Traced(s, c)
  BY DEF Explained
<1>3. wpc # "idle" /\ wpc # "exited" => cur \in Sessions /\ verdict[cur] = "none"
  BY DEF Phase, TypeOK, InSession
<1>4. wpc = "joining" => writer[cur] \in {"running", "failed"}
  BY DEF Phase, InSession
<1>5. wpc = "spawning" /\ next <= 4 => thread[cur][next] = "absent"
  BY DEF NotYetSpawned, TypeOK, Collectors
<1>6. Running(s, c) => MayRun(s, c)
  BY DEF RunningIsAccounted
<1>7. CASE BeginStart
  BY <1>7, <1>1, <1>2, <1>3, <1>4, <1>5, <1>6, CountersGrow DEF BeginStart, RecorderOnly, healthVars, Traced, Broken, Running, MayRun
<1>8. CASE Spawn
  BY <1>8, <1>1, <1>2, <1>3, <1>4, <1>5, <1>6, CountersGrow DEF Spawn, Becomes, RecorderOnly, healthVars, Traced, Broken, Running, MayRun
<1>9. CASE SpawnFails
  BY <1>9, <1>1, <1>2, <1>3, <1>4, <1>5, <1>6, CountersGrow DEF SpawnFails, RecorderOnly, healthVars, Traced, Broken, Running, MayRun
<1>10. CASE Started
  BY <1>10, <1>1, <1>2, <1>3, <1>4, <1>5, <1>6, CountersGrow DEF Started, RecorderOnly, healthVars, Traced, Broken, Running, MayRun
<1>11. CASE BeginStop
  BY <1>11, <1>1, <1>2, <1>3, <1>4, <1>5, <1>6, CountersGrow DEF BeginStop, RecorderOnly, healthVars, Traced, Broken, Running, MayRun
<1>12. CASE Join
  BY <1>12, <1>1, <1>2, <1>3, <1>4, <1>5, <1>6, CountersGrow DEF Join, Running, RecorderOnly, healthVars, Traced, Broken, MayRun
<1>13. CASE ReportErrors
  <2>1. CASE s = cur
    <3>1. thread[s][c] \in Broken => c \in errors
      BY <2>1, <1>13, <1>1, <1>2 DEF ReportErrors, Traced
    <3>2. \/ writer[s] = "running" /\ told'[s] = told[s] \cup errors
          \/ writer[s] = "failed" /\ told'[s] = told[s]
      BY <2>1, <1>13, <1>1, <1>4 DEF ReportErrors
    <3>. QED
      BY <2>1, <3>1, <3>2, <1>13, <1>2 DEF ReportErrors, Traced
  <2>2. CASE s # cur
    BY <2>2, <1>13, <1>1, <1>2 DEF ReportErrors, Traced
  <2>. QED
    BY <2>1, <2>2
<1>14. CASE FinishFails
  BY <1>14, <1>1, <1>2, <1>3, <1>4, <1>5, <1>6, CountersGrow DEF FinishFails, RecorderOnly, healthVars, Traced, Broken, Running, MayRun
<1>15. CASE CloseChannel
  BY <1>15, <1>1, <1>2, <1>3, <1>4, <1>5, <1>6, CountersGrow DEF CloseChannel, RecorderOnly, healthVars, Traced, Broken, Running, MayRun
<1>16. CASE WriterJoined
  BY <1>16, <1>1, <1>2, <1>3, <1>4, <1>5, <1>6, CountersGrow DEF WriterJoined, RecorderOnly, healthVars, Traced, Broken, Running, MayRun
<1>17. ASSUME NEW t \in Sessions, NEW d \in Collectors, StopSeen(t, d) PROVE Traced(s, c)'
  BY <1>17, <1>1, <1>2, <1>3, <1>4, <1>5, <1>6, CountersGrow DEF StopSeen, Running, Becomes, recorderVars, healthVars, Traced, Broken, MayRun
<1>18. ASSUME NEW t \in Sessions, AdlxUnavailable(t) PROVE Traced(s, c)'
  BY <1>18, <1>1, <1>2, <1>3, <1>4, <1>5, <1>6, CountersGrow DEF AdlxUnavailable, Running, Becomes, Tell, Miss, recorderVars, healthVars, Traced, Broken, MayRun
<1>19. ASSUME NEW t \in Sessions, AdlxOpens(t) PROVE Traced(s, c)'
  BY <1>19, <1>1, <1>2, <1>3, <1>4, <1>5, <1>6, CountersGrow DEF AdlxOpens, Running, MayRun, recorderVars, healthVars, Traced, Broken
<1>20. ASSUME NEW t \in Sessions, SampleFails(t) PROVE Traced(s, c)'
  BY <1>20, <1>1, <1>2, <1>3, <1>4, <1>5, <1>6, CountersGrow DEF SampleFails, Running, Miss, Tell, recorderVars, healthVars, Traced, Broken, MayRun
<1>21. ASSUME NEW t \in Sessions, QuietEnds(t) PROVE Traced(s, c)'
  BY <1>21, <1>1, <1>2, <1>3, <1>4, <1>5, <1>6, CountersGrow DEF QuietEnds, Running, MayRun, recorderVars, healthVars, Traced, Broken
<1>22. ASSUME NEW t \in Sessions, PresentMonErrs(t) PROVE Traced(s, c)'
  <2>1. CASE t = s /\ PresentMon = c
    <3>1. MayRun(s, c)
      BY <2>1, <1>22, <1>6 DEF PresentMonErrs
    <3>2. s = cur => ~(wpc = "joining" /\ c < next) /\ wpc # "finishing" /\ wpc # "waiting"
      BY <3>1, <1>1, <1>3 DEF MayRun
    <3>3. /\ wpc' = wpc /\ cur' = cur /\ next' = next /\ told' = told /\ refused' = refused
          /\ limiter' = limiter /\ thread'[s][c] \in Broken
      BY <2>1, <1>22, <1>1 DEF PresentMonErrs, Becomes, recorderVars, Broken
    <3>. QED
      BY <3>2, <3>3, <1>2 DEF Traced
  <2>2. CASE ~(t = s /\ PresentMon = c)
    BY <2>2, <1>22, <1>1, <1>2, CountersGrow
    DEF PresentMonErrs, Becomes, Miss, recorderVars, Traced
  <2>. QED
    BY <2>1, <2>2
<1>23. ASSUME NEW t \in Sessions, NEW d \in Collectors, Panics(t, d) PROVE Traced(s, c)'
  <2>1. CASE t = s /\ d = c
    <3>1. MayRun(s, c)
      BY <2>1, <1>23, <1>6 DEF Panics
    <3>2. s = cur => ~(wpc = "joining" /\ c < next) /\ wpc # "finishing" /\ wpc # "waiting"
      BY <3>1, <1>1, <1>3 DEF MayRun
    <3>3. /\ wpc' = wpc /\ cur' = cur /\ next' = next /\ told' = told /\ refused' = refused
          /\ limiter' = limiter /\ thread'[s][c] \in Broken
      BY <2>1, <1>23, <1>1 DEF Panics, Becomes, recorderVars, Broken
    <3>. QED
      BY <3>2, <3>3, <1>2 DEF Traced
  <2>2. CASE ~(t = s /\ d = c)
    BY <2>2, <1>23, <1>1, <1>2, CountersGrow
    DEF Panics, Becomes, Miss, recorderVars, Traced
  <2>. QED
    BY <2>1, <2>2
<1>24. ASSUME NEW t \in Sessions, WriterEnds(t) PROVE Traced(s, c)'
  BY <1>24, <1>1, <1>2, <1>3, <1>4, <1>5, <1>6, CountersGrow DEF WriterEnds, Disconnected, recorderVars, healthVars, Traced, Broken, Running, MayRun
<1>25. ASSUME NEW t \in Sessions, WriterFails(t) PROVE Traced(s, c)'
  BY <1>25, <1>1, <1>2, <1>3, <1>4, <1>5, <1>6, CountersGrow DEF WriterFails, recorderVars, healthVars, Traced, Broken, Running, MayRun
<1>26. CASE Exit
  BY <1>26, <1>1, <1>2, <1>3, <1>4, <1>5, <1>6, CountersGrow DEF Exit, RecorderOnly, healthVars, Running, Traced, Broken, MayRun
<1>27. CASE UNCHANGED vars
  BY <1>27, <1>1, <1>2, <1>3, <1>4, <1>5, <1>6, CountersGrow DEF vars, recorderVars, healthVars, Traced, Broken, Running, MayRun
<1>. QED
  BY <1>7, <1>8, <1>9, <1>10, <1>11, <1>12, <1>13, <1>14, <1>15, <1>16, <1>17, <1>18, <1>19, <1>20, <1>21, <1>22, <1>23, <1>24, <1>25, <1>26, <1>27 DEF Next, Recorder, Collector, Mishap, Exited

\* Who has stopped in full has explained its gaps.
LEMMA GapsStep ==
  ASSUME TypeOK, Phase, RunningIsAccounted, Explained, EveryGapIsExplained,
         NEW s \in Sessions, NEW c \in Collectors,
         [Next]_vars,
         verdict'[s] = "stopped"
  PROVE  (c \in gap[s] => c \in told[s] \cup refused[s])'
<1>1. /\ thread \in [Sessions -> [Collectors -> {"absent", "running", "ok", "killed"} \cup Broken]]
      /\ told \in [Sessions -> SUBSET Collectors] /\ refused \in [Sessions -> SUBSET Collectors]
      /\ gap \in [Sessions -> SUBSET Collectors]
      /\ limiter \in [Sessions -> {"opening", "clear", "quiet"}]
      /\ writer \in [Sessions -> {"absent", "running", "failed", "ended", "killed"}]
      /\ verdict \in [Sessions -> Over \cup {"none"}]
  BY DEF TypeOK
<1>2. Traced(s, c)
  BY DEF Explained
<1>3. verdict[s] = "stopped" /\ c \in gap[s] => c \in told[s] \cup refused[s]
  BY DEF EveryGapIsExplained
<1>4. wpc # "idle" /\ wpc # "exited" => cur \in Sessions /\ verdict[cur] = "none"
  BY DEF Phase, TypeOK, InSession
<1>5. \A d \in Collectors : Running(s, d) => MayRun(s, d)
  BY DEF RunningIsAccounted
<1>6. CASE BeginStart
  BY <1>6, <1>1, <1>2, <1>3, <1>4, <1>5 DEF BeginStart, RecorderOnly, healthVars, Running, MayRun, Broken
<1>7. CASE Spawn
  BY <1>7, <1>1, <1>2, <1>3, <1>4, <1>5 DEF Spawn, Becomes, RecorderOnly, healthVars, Running, MayRun, Broken
<1>8. CASE SpawnFails
  BY <1>8, <1>1, <1>2, <1>3, <1>4, <1>5 DEF SpawnFails, RecorderOnly, healthVars, Running, MayRun, Broken
<1>9. CASE Started
  BY <1>9, <1>1, <1>2, <1>3, <1>4, <1>5 DEF Started, RecorderOnly, healthVars, Running, MayRun, Broken
<1>10. CASE BeginStop
  BY <1>10, <1>1, <1>2, <1>3, <1>4, <1>5 DEF BeginStop, RecorderOnly, healthVars, Running, MayRun, Broken
<1>11. CASE Join
  BY <1>11, <1>1, <1>2, <1>3, <1>4, <1>5 DEF Join, Running, RecorderOnly, healthVars, MayRun, Broken
<1>12. CASE ReportErrors
  BY <1>12, <1>1, <1>2, <1>3, <1>4, <1>5 DEF ReportErrors, RecorderOnly, healthVars, Running, MayRun, Broken
<1>13. CASE FinishFails
  BY <1>13, <1>1, <1>2, <1>3, <1>4, <1>5 DEF FinishFails, RecorderOnly, healthVars, Running, MayRun, Broken
<1>14. CASE CloseChannel
  BY <1>14, <1>1, <1>2, <1>3, <1>4, <1>5 DEF CloseChannel, RecorderOnly, healthVars, Running, MayRun, Broken
<1>15. CASE WriterJoined
  <2>1. cur \in Sessions /\ (s = cur => writer[s] = "ended")
    BY <1>15, <1>1, <1>4 DEF WriterJoined
  <2>2. CASE s = cur
    BY <2>1, <2>2, <1>15, <1>2 DEF WriterJoined, Traced, Broken, RecorderOnly, healthVars
  <2>3. CASE s # cur
    BY <2>1, <2>3, <1>15, <1>1, <1>3 DEF WriterJoined, RecorderOnly, healthVars
  <2>. QED
    BY <2>2, <2>3
<1>16. ASSUME NEW t \in Sessions, NEW d \in Collectors, StopSeen(t, d) PROVE (c \in gap[s] => c \in told[s] \cup refused[s])'
  BY <1>16, <1>1, <1>2, <1>3, <1>4, <1>5 DEF StopSeen, Running, Becomes, recorderVars, healthVars, MayRun, Broken
<1>17. ASSUME NEW t \in Sessions, AdlxUnavailable(t) PROVE (c \in gap[s] => c \in told[s] \cup refused[s])'
  BY <1>17, <1>1, <1>2, <1>3, <1>4, <1>5 DEF AdlxUnavailable, Running, Becomes, Tell, Miss, recorderVars, healthVars, MayRun, Broken
<1>18. ASSUME NEW t \in Sessions, AdlxOpens(t) PROVE (c \in gap[s] => c \in told[s] \cup refused[s])'
  BY <1>18, <1>1, <1>2, <1>3, <1>4, <1>5 DEF AdlxOpens, Running, MayRun, recorderVars, healthVars, Broken
<1>19. ASSUME NEW t \in Sessions, SampleFails(t) PROVE (c \in gap[s] => c \in told[s] \cup refused[s])'
  BY <1>19, <1>1, <1>2, <1>3, <1>4, <1>5 DEF SampleFails, Running, Miss, Tell, recorderVars, healthVars, MayRun, Broken
<1>20. ASSUME NEW t \in Sessions, QuietEnds(t) PROVE (c \in gap[s] => c \in told[s] \cup refused[s])'
  BY <1>20, <1>1, <1>2, <1>3, <1>4, <1>5 DEF QuietEnds, Running, MayRun, recorderVars, healthVars, Broken
<1>21. ASSUME NEW t \in Sessions, PresentMonErrs(t) PROVE (c \in gap[s] => c \in told[s] \cup refused[s])'
  BY <1>21, <1>1, <1>2, <1>3, <1>4, <1>5 DEF PresentMonErrs, Running, Becomes, Miss, recorderVars, healthVars, MayRun, Broken
<1>22. ASSUME NEW t \in Sessions, NEW d \in Collectors, Panics(t, d) PROVE (c \in gap[s] => c \in told[s] \cup refused[s])'
  BY <1>22, <1>1, <1>2, <1>3, <1>4, <1>5 DEF Panics, Running, Becomes, Miss, recorderVars, healthVars, MayRun, Broken
<1>23. ASSUME NEW t \in Sessions, WriterEnds(t) PROVE (c \in gap[s] => c \in told[s] \cup refused[s])'
  BY <1>23, <1>1, <1>2, <1>3, <1>4, <1>5 DEF WriterEnds, Disconnected, recorderVars, healthVars, Running, MayRun, Broken
<1>24. ASSUME NEW t \in Sessions, WriterFails(t) PROVE (c \in gap[s] => c \in told[s] \cup refused[s])'
  BY <1>24, <1>1, <1>2, <1>3, <1>4, <1>5 DEF WriterFails, recorderVars, healthVars, Running, MayRun, Broken
<1>25. CASE Exit
  BY <1>25, <1>1, <1>2, <1>3, <1>4, <1>5 DEF Exit, RecorderOnly, healthVars, Running, MayRun, Broken
<1>26. CASE UNCHANGED vars
  BY <1>26, <1>1, <1>2, <1>3, <1>4, <1>5 DEF vars, recorderVars, healthVars, Running, MayRun, Broken
<1>. QED
  BY <1>6, <1>7, <1>8, <1>9, <1>10, <1>11, <1>12, <1>13, <1>14, <1>15, <1>16, <1>17, <1>18, <1>19, <1>20, <1>21, <1>22, <1>23, <1>24, <1>25, <1>26 DEF Next, Recorder, Collector, Mishap, Exited

-----------------------------------------------------------------------------
(* The theorems.                                                           *)

\* The inductive invariant holds in every reachable state.
THEOREM Inductive == Spec => []IInv
<1>1. Init => IInv
  BY GroupAssumption
  DEF Init, IInv, TypeOK, Order, Placed, Untouched, Phase, NotYetSpawned, RunningIsAccounted, Explained,
      Traced, EveryGapIsExplained, Broken, InSession, Over, Sessions, Running
<1>2. IInv /\ [Next]_vars => IInv'
  <2>. SUFFICES ASSUME IInv, [Next]_vars PROVE IInv'
    OBVIOUS
  <2>. USE DEF IInv
  <2>1. TypeOK' /\ Phase'
    BY TypeStep, PhaseStep
  <2>2. Order'
    BY OrderStep DEF Order
  <2>3. NotYetSpawned'
    BY SpawnStep DEF NotYetSpawned
  <2>4. RunningIsAccounted'
    BY AccountedStep DEF RunningIsAccounted
  <2>5. Explained'
    BY TracedStep DEF Explained
  <2>6. EveryGapIsExplained'
    BY <2>1, GapsStep DEF EveryGapIsExplained, TypeOK
  <2>. QED
    BY <2>1, <2>2, <2>3, <2>4, <2>5, <2>6
<1>. QED
  BY <1>1, <1>2, PTL DEF Spec

\* A stop leaves no collector running, whatever failed, in any number of
\* sessions (collector.rs CollectorGroup::stop).
THEOREM AccountedSafe == Spec => []RunningIsAccounted
  BY Inductive, PTL DEF IInv

\* A session that stopped in full has explained its gaps, whatever broke.
THEOREM GapsSafe == Spec => []EveryGapIsExplained
  BY Inductive, PTL DEF IInv
=============================================================================
