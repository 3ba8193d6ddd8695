----------------------- MODULE SessionLifecycleProofs -----------------------
(***************************************************************************)
(* Proofs about SessionLifecycle for every set of sessions, every set of   *)
(* local times and every number of faults.                                 *)
(***************************************************************************)
EXTENDS SessionLifecycle, TLAPS

Named(s) == dir[s] # NoName

\* A session that was never started left nothing on disk.
AbsentIsBlank ==
    \A s \in Sessions :
        ~Named(s) =>
            /\ db[s] = "none" /\ marks[s] = 0 /\ outcome[s] = "none"
            /\ s \notin found

\* Only a database can hold recovery bookmarks.
MarksNeedDatabase == \A s \in Sessions : db[s] = "none" => marks[s] = 0

\* Which session is being worked on, and by what.
CurrentSession ==
    /\ (pc \in {"down", "sweep", "idle"}) => cur = NoSession
    /\ (pc \notin {"down", "sweep", "idle"}) => cur \in Sessions /\ Named(cur)

\* A session being recorded is new to this launch, and no stop has answered.
RecordedIsNew ==
    (pc \in StartPcs \cup StopPcs \cup {"recording"}) =>
        /\ cur \notin found
        /\ outcome[cur] = "none"
        /\ marks[cur] = 0
        /\ (pc # "q_outdir") => dir[cur].kind = "recording"

\* What each step of stop has already made durable.
StopProgress ==
    /\ (pc \in {"q_manifest", "q_export", "q_rename", "q_outdir"}) =>
           db[cur] = "complete"
    /\ (pc \in {"q_export", "q_rename"}) =>
           manifest[cur] = [state |-> "complete", dir |-> dir[cur]]
    /\ (pc \in {"q_rename", "q_outdir"}) => cur \in exported
    /\ (pc = "q_outdir") =>
           /\ manifest[cur].state = "complete"
           /\ ~HasRecordingExtension(dir[cur])

\* What each step of a recovery has already made durable.
RecoveryProgress ==
    /\ (pc \in RecoverPcs) => cur \in todo
    /\ (pc = "r_open") => db[cur] # "none"
    /\ (pc = "r_mark") => db[cur] # "none" /\ marks[cur] > 0
    /\ (pc = "r_export") => db[cur] = "recovered" /\ marks[cur] > 0
    /\ (pc = "r_rename") =>
           \/ db[cur] = "none" /\ marks[cur] = 0
           \/ db[cur] = "recovered" /\ marks[cur] > 0

\* The sweep has recovered what it has visited and nothing else.
SweepProgress ==
    /\ todo \subseteq found
    /\ (pc \in RecoverPcs \cup {"sweep"}) =>
           /\ \A s \in todo : HasRecordingExtension(dir[s])
           /\ \A s \in found \ todo : Named(s) /\ dir[s].kind = "recovered"
           /\ ~swept

\* A session stop has answered Ok for no longer looks interrupted.
FinishedIsHidden ==
    \A s \in Sessions :
        outcome[s] = "ok" =>
            /\ Named(s) /\ ~HasRecordingExtension(dir[s])
            /\ dir[s].kind # "recovered"

\* What the steps keep true of the sessions, besides their folders' names.
Progress ==
    /\ FinishedIsWhole
    /\ RecoveredIsMarked
    /\ SweepIsComplete
    /\ RenamedIsComplete
    /\ AbsentIsBlank
    /\ MarksNeedDatabase
    /\ CurrentSession
    /\ RecordedIsNew
    /\ StopProgress
    /\ RecoveryProgress
    /\ SweepProgress
    /\ FinishedIsHidden

IInv == TypeOK /\ DistinctFolders /\ Progress

-----------------------------------------------------------------------------
(* Type correctness.                                                        *)

LEMMA FaultUsed == ASSUME faults \in Nat, faults > 0 PROVE faults - 1 \in Nat
OBVIOUS

\* The name a folder gets from its own stamp, a kind and a copy.
LEMMA NewName ==
    ASSUME NEW t \in Stamps, NEW c \in Copies,
           NEW k \in {"recording", "final", "recovered"}
    PROVE  [stamp |-> t, kind |-> k, copy |-> c] \in Names
BY DEF Names

LEMMA FinalNameType ==
    ASSUME NEW n \in Names
    PROVE  /\ FinalName(n) \in Names
           /\ n.stamp \in Stamps
           /\ LifecycleAssumption => n # NoName
BY DEF FinalName, Names, LifecycleAssumption

\* Every variable keeps its type.
LEMMA TypeStep == TypeOK /\ CurrentSession /\ [Next]_vars => TypeOK'
<1> SUFFICES ASSUME TypeOK /\ CurrentSession, [Next]_vars PROVE TypeOK'
  OBVIOUS
<1> USE LifecycleAssumption DEF TypeOK, CurrentSession, diskVars, sweepVars,
   Pcs, StartPcs, StopPcs, RecoverPcs, ReturnErr, Manifests, Named
<1>0. CASE UNCHANGED vars
  BY <1>0 DEF vars
<1>1. CASE NoSessionsRow
  BY <1>1 DEF NoSessionsRow, ReturnErr, Manifests, Named
<1>2. CASE RecoveryBookmark
  BY <1>2 DEF RecoveryBookmark, ReturnErr, Manifests, Named
<1>3. CASE MarkRecovered
  BY <1>3 DEF MarkRecovered, ReturnErr, Manifests, Named
<1>4. CASE ExportRecovered
  BY <1>4 DEF ExportRecovered, ReturnErr, Manifests, Named
<1>5. CASE SweepDone
  BY <1>5 DEF SweepDone, ReturnErr, Manifests, Named
<1>6. CASE SweepFails
  BY <1>6, FaultUsed DEF SweepFails, ReturnErr, Manifests, Named
<1>7. CASE StartManifest
  BY <1>7 DEF StartManifest, ReturnErr, Manifests, Named
<1>8. CASE CreateSchema
  BY <1>8 DEF CreateSchema, ReturnErr, Manifests, Named
<1>9. CASE InsertSession
  BY <1>9 DEF InsertSession, ReturnErr, Manifests, Named
<1>10. CASE StartDone
  BY <1>10 DEF StartDone, ReturnErr, Manifests, Named
<1>11. CASE StartFails
  BY <1>11, FaultUsed DEF StartFails, ReturnErr, Manifests, Named
<1>12. CASE StopBegins
  BY <1>12 DEF StopBegins, ReturnErr, Manifests, Named
<1>13. CASE WriterJoined
  BY <1>13 DEF WriterJoined, ReturnErr, Manifests, Named
<1>14. CASE MarkComplete
  BY <1>14 DEF MarkComplete, ReturnErr, Manifests, Named
<1>15. CASE StopManifest
  BY <1>15 DEF StopManifest, ReturnErr, Manifests, Named
<1>16. CASE ExportReport
  BY <1>16 DEF ExportReport, ReturnErr, Manifests, Named
<1>17. CASE RenameBlocked
  BY <1>17 DEF RenameBlocked, ReturnErr, Manifests, Named
<1>18. CASE StopDone
  BY <1>18 DEF StopDone, ReturnErr, Manifests, Named
<1>19. CASE StopFails
  BY <1>19, FaultUsed DEF StopFails, ReturnErr, Manifests, Named
<1>20. CASE Exit
  BY <1>20 DEF Exit, ReturnErr, Manifests, Named
<1>21. CASE Crash
  BY <1>21, FaultUsed DEF Crash, ReturnErr, Manifests, Named
<1>22. CASE Boot
  BY <1>22 DEF Boot, ReturnErr, Manifests, Named
<1>23. CASE RenameRecovered
  <2>1. dir[cur] \in Names
    BY <1>23 DEF RenameRecovered, Named
  <2>2. PICK c \in Copies :
            dir' = [dir EXCEPT ![cur] = [stamp |-> dir[cur].stamp,
                                         kind |-> "recovered", copy |-> c]]
    BY <1>23 DEF RenameRecovered
  <2>3. [stamp |-> dir[cur].stamp, kind |-> "recovered", copy |-> c] \in Names
    BY <2>1, FinalNameType, NewName
  <2>4. dir' \in [Sessions -> Names \cup {NoName}]
    BY <2>2, <2>3
  <2> QED
    BY <1>23, <2>4 DEF RenameRecovered
<1>24. CASE RenameFinal
  <2>1. dir[cur] \in Names
    BY <1>24 DEF RenameFinal, Named
  <2>2. FinalName(dir[cur]) \in Names
    BY <2>1, FinalNameType
  <2>3. dir' \in [Sessions -> Names \cup {NoName}]
    BY <1>24, <2>2 DEF RenameFinal
  <2> QED
    BY <1>24, <2>3 DEF RenameFinal
<1>25. ASSUME NEW s \in Sessions, Visit(s) PROVE TypeOK'
  BY <1>25 DEF Visit, ReturnErr, Manifests, Named
<1>26. ASSUME NEW s \in Sessions, CreateFolder(s) PROVE TypeOK'
  <2>1. PICK t \in Stamps, c \in Copies :
            dir' = [dir EXCEPT ![s] = [stamp |-> t, kind |-> "recording",
                                       copy |-> c]]
    BY <1>26 DEF CreateFolder
  <2>2. [stamp |-> t, kind |-> "recording", copy |-> c] \in Names
    BY NewName
  <2>3. dir' \in [Sessions -> Names \cup {NoName}]
    BY <2>1, <2>2
  <2> QED
    BY <1>26, <2>3 DEF CreateFolder
<1>27. CASE WriterWaits
  BY <1>27, FaultUsed DEF WriterWaits
<1>28. CASE WaitEnds
  BY <1>28 DEF WaitEnds
<1>29. CASE CheckpointFails
  BY <1>29, FaultUsed DEF CheckpointFails
<1> QED
  BY <1>0, <1>1, <1>2, <1>3, <1>4, <1>5, <1>6, <1>7, <1>8, <1>9, <1>10, <1>11, <1>12, <1>13, <1>14, <1>15, <1>16, <1>17, <1>18, <1>19, <1>20, <1>21, <1>22, <1>23, <1>24, <1>25,
     <1>26, <1>27, <1>28, <1>29 DEF Next, Sweep, Starting, Stopping

\* Every step keeps the progress conditions.
LEMMA ProgressStep == TypeOK /\ Progress /\ [Next]_vars => Progress'
<1> SUFFICES ASSUME TypeOK /\ Progress, [Next]_vars PROVE Progress'
  OBVIOUS
<1> USE LifecycleAssumption DEF TypeOK, Progress, diskVars, sweepVars, Pcs, StartPcs,
   StopPcs, RecoverPcs, ReturnErr, Named, HasRecordingExtension, FinalName,
   FinishedIsWhole, RecoveredIsMarked, SweepIsComplete, RenamedIsComplete,
   AbsentIsBlank, MarksNeedDatabase, CurrentSession, RecordedIsNew,
   StopProgress, RecoveryProgress, SweepProgress, FinishedIsHidden
<1>0. CASE UNCHANGED vars
  BY <1>0 DEF vars
<1>1. CASE NoSessionsRow
  BY <1>1 DEF NoSessionsRow
<1>2. CASE RecoveryBookmark
  BY <1>2 DEF RecoveryBookmark
<1>3. CASE MarkRecovered
  BY <1>3 DEF MarkRecovered
<1>4. CASE ExportRecovered
  BY <1>4 DEF ExportRecovered
<1>5. CASE SweepDone
  BY <1>5 DEF SweepDone
<1>6. CASE SweepFails
  BY <1>6 DEF SweepFails
<1>7. CASE StartManifest
  BY <1>7 DEF StartManifest
<1>8. CASE CreateSchema
  BY <1>8 DEF CreateSchema
<1>9. CASE InsertSession
  BY <1>9 DEF InsertSession
<1>10. CASE StartDone
  BY <1>10 DEF StartDone
<1>11. CASE StartFails
  BY <1>11 DEF StartFails
<1>12. CASE StopBegins
  BY <1>12 DEF StopBegins
<1>13. CASE WriterJoined
  BY <1>13 DEF WriterJoined
<1>14. CASE MarkComplete
  BY <1>14 DEF MarkComplete
<1>15. CASE StopManifest
  BY <1>15 DEF StopManifest
<1>16. CASE ExportReport
  BY <1>16 DEF ExportReport
<1>17. CASE RenameBlocked
  BY <1>17 DEF RenameBlocked
<1>18. CASE StopDone
  <2>a. /\ cur \in Sessions /\ manifest[cur] \in Manifests
        /\ manifest[cur].state = "complete"
    BY <1>18 DEF StopDone
  <2>b. [manifest[cur] EXCEPT !.dir = dir[cur]]
            = [state |-> "complete", dir |-> dir[cur]]
    BY <2>a DEF Manifests
  <2>1. FinishedIsWhole'
    BY <1>18, <2>a, <2>b DEF StopDone
  <2>2. RecoveredIsMarked'
    BY <1>18 DEF StopDone
  <2>3. SweepIsComplete'
    BY <1>18 DEF StopDone
  <2>4. RenamedIsComplete'
    BY <1>18 DEF StopDone
  <2>5. AbsentIsBlank'
    BY <1>18 DEF StopDone
  <2>6. MarksNeedDatabase'
    BY <1>18 DEF StopDone
  <2>7. CurrentSession'
    BY <1>18 DEF StopDone
  <2>8. RecordedIsNew'
    BY <1>18 DEF StopDone
  <2>9. StopProgress'
    BY <1>18 DEF StopDone
  <2>10. RecoveryProgress'
    BY <1>18 DEF StopDone
  <2>11. SweepProgress'
    BY <1>18 DEF StopDone
  <2>12. FinishedIsHidden'
    BY <1>18 DEF StopDone
  <2> QED
    BY <2>1, <2>2, <2>3, <2>4, <2>5, <2>6, <2>7, <2>8, <2>9, <2>10, <2>11,
       <2>12
<1>19. CASE StopFails
  BY <1>19 DEF StopFails
<1>20. CASE Exit
  BY <1>20 DEF Exit
<1>21. CASE Crash
  BY <1>21 DEF Crash
<1>22. CASE Boot
  BY <1>22 DEF Boot
<1>23. CASE RenameRecovered
  <2>a. cur \in Sessions /\ dir[cur] \in Names
    BY <1>23 DEF RenameRecovered
  <2>b. PICK n \in Names : n # NoName /\ dir' = [dir EXCEPT ![cur] = n]
    BY <1>23, <2>a, FinalNameType, NewName DEF RenameRecovered
  <2>c. /\ dir'[cur] # NoName
        /\ \A s \in Sessions : s # cur => dir'[s] = dir[s]
    BY <2>a, <2>b
  <2>1. FinishedIsWhole'
    BY <1>23 DEF RenameRecovered
  <2>2. RecoveredIsMarked'
    BY <1>23 DEF RenameRecovered
  <2>3. SweepIsComplete'
    BY <1>23 DEF RenameRecovered
  <2>4. RenamedIsComplete'
    BY <1>23 DEF RenameRecovered
  <2>5. AbsentIsBlank'
    BY <1>23, <2>a, <2>c DEF RenameRecovered
  <2>6. MarksNeedDatabase'
    BY <1>23 DEF RenameRecovered
  <2>7. CurrentSession'
    BY <1>23, <2>a, <2>c DEF RenameRecovered
  <2>8. RecordedIsNew'
    BY <1>23 DEF RenameRecovered
  <2>9. StopProgress'
    BY <1>23 DEF RenameRecovered
  <2>10. RecoveryProgress'
    BY <1>23 DEF RenameRecovered
  <2>11. SweepProgress'
    BY <1>23, <2>a, <2>c DEF RenameRecovered
  <2>12. FinishedIsHidden'
    BY <1>23 DEF RenameRecovered
  <2> QED
    BY <2>1, <2>2, <2>3, <2>4, <2>5, <2>6, <2>7, <2>8, <2>9, <2>10, <2>11,
       <2>12
<1>24. CASE RenameFinal
  <2>a. cur \in Sessions /\ dir[cur] \in Names
    BY <1>24 DEF RenameFinal
  <2>b. PICK n \in Names : n # NoName /\ dir' = [dir EXCEPT ![cur] = n]
    BY <1>24, <2>a, FinalNameType DEF RenameFinal
  <2>c. /\ dir'[cur] # NoName
        /\ \A s \in Sessions : s # cur => dir'[s] = dir[s]
    BY <2>a, <2>b
  <2>1. FinishedIsWhole'
    BY <1>24 DEF RenameFinal
  <2>2. RecoveredIsMarked'
    BY <1>24 DEF RenameFinal
  <2>3. SweepIsComplete'
    BY <1>24 DEF RenameFinal
  <2>4. RenamedIsComplete'
    BY <1>24 DEF RenameFinal
  <2>5. AbsentIsBlank'
    BY <1>24, <2>a, <2>c DEF RenameFinal
  <2>6. MarksNeedDatabase'
    BY <1>24 DEF RenameFinal
  <2>7. CurrentSession'
    BY <1>24, <2>a, <2>c DEF RenameFinal
  <2>8. RecordedIsNew'
    BY <1>24 DEF RenameFinal
  <2>9. StopProgress'
    BY <1>24 DEF RenameFinal
  <2>10. RecoveryProgress'
    BY <1>24 DEF RenameFinal
  <2>11. SweepProgress'
    BY <1>24, <2>a, <2>c DEF RenameFinal
  <2>12. FinishedIsHidden'
    BY <1>24 DEF RenameFinal
  <2> QED
    BY <2>1, <2>2, <2>3, <2>4, <2>5, <2>6, <2>7, <2>8, <2>9, <2>10, <2>11,
       <2>12
<1>25. ASSUME NEW s \in Sessions, Visit(s) PROVE Progress'
  BY <1>25 DEF Visit
<1>26. ASSUME NEW s \in Sessions, CreateFolder(s) PROVE Progress'
  <2>b. PICK n \in Names : n # NoName /\ dir' = [dir EXCEPT ![s] = n]
    BY <1>26, FinalNameType, NewName DEF CreateFolder
  <2>c. /\ dir'[s] # NoName
        /\ \A r \in Sessions : r # s => dir'[r] = dir[r]
    BY <2>b
  <2>1. FinishedIsWhole'
    BY <1>26 DEF CreateFolder
  <2>2. RecoveredIsMarked'
    BY <1>26 DEF CreateFolder
  <2>3. SweepIsComplete'
    BY <1>26 DEF CreateFolder
  <2>4. RenamedIsComplete'
    BY <1>26 DEF CreateFolder
  <2>5. AbsentIsBlank'
    BY <1>26 DEF CreateFolder
  <2>6. MarksNeedDatabase'
    BY <1>26 DEF CreateFolder
  <2>7. CurrentSession'
    BY <1>26, <2>b, <2>c DEF CreateFolder
  <2>8. RecordedIsNew'
    BY <1>26 DEF CreateFolder
  <2>9. StopProgress'
    BY <1>26 DEF CreateFolder
  <2>10. RecoveryProgress'
    BY <1>26 DEF CreateFolder
  <2>11. SweepProgress'
    BY <1>26 DEF CreateFolder
  <2>12. FinishedIsHidden'
    BY <1>26 DEF CreateFolder
  <2> QED
    BY <2>1, <2>2, <2>3, <2>4, <2>5, <2>6, <2>7, <2>8, <2>9, <2>10, <2>11,
       <2>12
<1>27. CASE WriterWaits
  BY <1>27 DEF WriterWaits
<1>28. CASE WaitEnds
  BY <1>28 DEF WaitEnds
<1>29. CASE CheckpointFails
  BY <1>29 DEF CheckpointFails
<1> QED
  BY <1>0, <1>1, <1>2, <1>3, <1>4, <1>5, <1>6, <1>7, <1>8, <1>9, <1>10, <1>11, <1>12, <1>13, <1>14, <1>15, <1>16, <1>17, <1>18, <1>19, <1>20, <1>21, <1>22, <1>23, <1>24, <1>25,
     <1>26, <1>27, <1>28, <1>29 DEF Next, Sweep, Starting, Stopping

-----------------------------------------------------------------------------
(* Folder names stay distinct.                                              *)

\* Only three steps touch a folder's name.
LEMMA DirSteps ==
    ASSUME [Next]_vars
    PROVE  \/ UNCHANGED dir
           \/ RenameRecovered \/ RenameFinal
           \/ \E s \in Sessions : CreateFolder(s)
<1> USE DEF diskVars, sweepVars, ReturnErr
<1>1. CASE UNCHANGED vars
  BY <1>1 DEF vars
<1>2. CASE Sweep
  BY <1>2 DEF Sweep, Boot, Visit, NoSessionsRow, RecoveryBookmark,
     MarkRecovered, ExportRecovered, SweepDone, SweepFails
<1>3. CASE Starting
  BY <1>3 DEF Starting, StartManifest, CreateSchema, InsertSession, StartDone,
     StartFails
<1>4. CASE Stopping
  BY <1>4 DEF Stopping, StopBegins, WriterJoined, WriterWaits, WaitEnds,
     MarkComplete, StopManifest, ExportReport, RenameBlocked, StopDone,
     StopFails
<1>5. CASE CheckpointFails \/ Exit \/ Crash
  BY <1>5 DEF CheckpointFails, Exit, Crash
<1> QED
  BY <1>1, <1>2, <1>3, <1>4, <1>5 DEF Next

\* What they make of it: a name nobody has, or the one it had.
LEMMA NewFolder ==
    ASSUME TypeOK, Progress, [Next]_vars, dir' # dir
    PROVE  \E s \in Sessions, n \in Names :
              /\ dir' = [dir EXCEPT ![s] = n]
              /\ n # NoName
              /\ Free(n) \/ n = dir[s]
<1> USE LifecycleAssumption DEF TypeOK, Progress, CurrentSession, Named
<1>1. CASE RenameRecovered
  <2>1. cur \in Sessions /\ dir[cur] \in Names
    BY <1>1 DEF RenameRecovered
  <2> QED
    BY <1>1, <2>1, FinalNameType, NewName DEF RenameRecovered, FirstFree
<1>2. CASE RenameFinal
  <2>1. cur \in Sessions /\ dir[cur] \in Names
    BY <1>2 DEF RenameFinal
  <2> QED
    BY <1>2, <2>1, FinalNameType DEF RenameFinal
<1>3. ASSUME NEW s \in Sessions, CreateFolder(s)
      PROVE  \E n \in Names :
                /\ dir' = [dir EXCEPT ![s] = n]
                /\ n # NoName
                /\ Free(n)
  BY <1>3, FinalNameType, NewName DEF CreateFolder, FirstFree
<1> QED
  BY <1>1, <1>2, <1>3, DirSteps

LEMMA DistinctStep == IInv /\ [Next]_vars => DistinctFolders'
<1> SUFFICES ASSUME IInv, [Next]_vars PROVE DistinctFolders'
  OBVIOUS
<1>1. CASE dir' = dir
  BY <1>1 DEF IInv, DistinctFolders
<1>2. CASE dir' # dir
  <2>1. PICK s \in Sessions, n \in Names :
              /\ dir' = [dir EXCEPT ![s] = n]
              /\ n # NoName
              /\ Free(n) \/ n = dir[s]
    BY <1>2, NewFolder DEF IInv
  <2>2. \A t \in Sessions : t # s => dir'[t] = dir[t] /\ dir[t] # n
    BY <2>1 DEF IInv, TypeOK, DistinctFolders, Free
  <2>3. dir'[s] = n
    BY <2>1 DEF IInv, TypeOK
  <2> QED
    BY <2>2, <2>3 DEF IInv, DistinctFolders
<1> QED
  BY <1>1, <1>2

-----------------------------------------------------------------------------
(* The theorems.                                                            *)

LEMMA InvInit == Init => IInv
<1> SUFFICES ASSUME Init PROVE IInv
  OBVIOUS
<1>1. TypeOK
  BY LifecycleAssumption DEF Init, TypeOK, Pcs, Manifests, NoManifest
<1>2. DistinctFolders
  BY DEF Init, DistinctFolders
<1>3. Progress
  BY DEF Init, Progress, FinishedIsWhole, RecoveredIsMarked, SweepIsComplete,
     RenamedIsComplete, AbsentIsBlank, MarksNeedDatabase, CurrentSession,
     RecordedIsNew, StopProgress, RecoveryProgress, SweepProgress,
     FinishedIsHidden, Named, StartPcs, StopPcs, RecoverPcs
<1> QED
  BY <1>1, <1>2, <1>3 DEF IInv

LEMMA InvStep == IInv /\ [Next]_vars => IInv'
<1> SUFFICES ASSUME IInv, [Next]_vars PROVE IInv'
  OBVIOUS
<1>1. TypeOK /\ Progress /\ CurrentSession
  BY DEF IInv, Progress
<1> QED
  BY <1>1, TypeStep, ProgressStep, DistinctStep DEF IInv

LEMMA Invariance == Spec => []IInv
BY InvInit, InvStep, PTL DEF Spec

\* The variables of the session folders keep their types.
THEOREM TypeCorrect == Spec => []TypeOK
<1>1. IInv => TypeOK
  BY DEF IInv
<1> QED
  BY <1>1, Invariance, PTL

\* Two sessions never share a folder.
THEOREM DistinctSafe == Spec => []DistinctFolders
<1>1. IInv => DistinctFolders
  BY DEF IInv
<1> QED
  BY <1>1, Invariance, PTL

\* A session whose stop returned Ok is whole, and no later launch, failure or
\* crash takes anything from it.
THEOREM FinishedSafe == Spec => []FinishedIsWhole
<1>1. IInv => FinishedIsWhole
  BY DEF IInv, Progress
<1> QED
  BY <1>1, Invariance, PTL

\* A recovered folder says so inside.
THEOREM RecoveredSafe == Spec => []RecoveredIsMarked
<1>1. IInv => RecoveredIsMarked
  BY DEF IInv, Progress
<1> QED
  BY <1>1, Invariance, PTL

\* A sweep that returned Ok has recovered every folder it found.
THEOREM SweepSafe == Spec => []SweepIsComplete
<1>1. IInv => SweepIsComplete
  BY DEF IInv, Progress
<1> QED
  BY <1>1, Invariance, PTL

\* A renamed folder holds a complete session, even before stop has returned.
THEOREM RenamedSafe == Spec => []RenamedIsComplete
<1>1. IInv => RenamedIsComplete
  BY DEF IInv, Progress
<1> QED
  BY <1>1, Invariance, PTL

-----------------------------------------------------------------------------
(* The folders implement the abstract store.                                *)

LEMMA StoreInitMap == Init => Store!StoreInit
BY DEF Init, StoreState, Store!StoreInit

\* Besides names, only an answer of stop can change what the store sees.
LEMMA OutcomeSteps ==
    ASSUME TypeOK, Progress, [Next]_vars, dir' = dir
    PROVE  \/ StopDone
           \/ \A s \in Sessions : outcome'[s] = "ok" <=> outcome[s] = "ok"
<1> USE DEF TypeOK, Progress, CurrentSession, RecordedIsNew, diskVars,
   sweepVars, ReturnErr, StopPcs, Pcs
<1>1. CASE UNCHANGED vars
  BY <1>1 DEF vars
<1>2. CASE Sweep
  BY <1>2 DEF Sweep, Boot, Visit, NoSessionsRow, RecoveryBookmark,
     MarkRecovered, ExportRecovered, RenameRecovered, SweepDone, SweepFails
<1>3. CASE Starting
  BY <1>3 DEF Starting, CreateFolder, StartManifest, CreateSchema,
     InsertSession, StartDone, StartFails
<1>4. CASE StopBegins \/ WriterJoined \/ WriterWaits \/ WaitEnds
           \/ MarkComplete \/ StopManifest \/ ExportReport \/ RenameFinal
  BY <1>4 DEF StopBegins, WriterJoined, WriterWaits, WaitEnds, MarkComplete,
     StopManifest, ExportReport, RenameFinal
<1>5. CASE RenameBlocked \/ StopFails \/ CheckpointFails
  BY <1>5 DEF RenameBlocked, StopFails, CheckpointFails
<1>6. CASE Exit \/ Crash
  BY <1>6 DEF Exit, Crash
<1> QED
  BY <1>1, <1>2, <1>3, <1>4, <1>5, <1>6 DEF Next, Stopping

LEMMA StoreStepMap == IInv /\ [Next]_vars => [Store!StoreNext]_Store!storeVars
<1> SUFFICES ASSUME IInv, [Next]_vars
             PROVE  [Store!StoreNext]_Store!storeVars
  OBVIOUS
<1> DEFINE view == [s \in Sessions |-> StoreState(s)]
<1>1. /\ TypeOK /\ Progress
      /\ dir \in [Sessions -> Names \cup {NoName}]
  BY DEF IInv, TypeOK
<1>2. ASSUME dir' = dir,
             \A s \in Sessions : outcome'[s] = "ok" <=> outcome[s] = "ok"
      PROVE  UNCHANGED Store!storeVars
  BY <1>2 DEF Store!storeVars, StoreState
<1>3. CASE dir' = dir /\ StopDone
  <2>1. cur \in Sessions /\ dir[cur] # NoName /\ dir[cur] \in Names
    BY <1>1, <1>3 DEF StopDone, Progress, CurrentSession, Named, Pcs, StopPcs
  <2>2. /\ outcome' = [outcome EXCEPT ![cur] = "ok"]
        /\ outcome \in [Sessions -> {"none", "ok", "err"}]
        /\ outcome[cur] = "none"
    BY <1>1, <1>3 DEF StopDone, TypeOK, Progress, RecordedIsNew, StopPcs
  <2>3. CASE dir[cur].kind = "final"
    <3>1. \A s \in Sessions : StoreState(s)' = StoreState(s)
      BY <1>3, <2>1, <2>2, <2>3 DEF StoreState
    <3> QED
      BY <1>3, <3>1 DEF Store!storeVars
  <2>4. CASE dir[cur].kind = "recovered"
    <3>1. \A s \in Sessions : StoreState(s)' = StoreState(s)
      BY <1>3, <2>1, <2>2, <2>4 DEF StoreState
    <3> QED
      BY <1>3, <3>1 DEF Store!storeVars
  <2>5. CASE dir[cur].kind \notin {"final", "recovered"}
    <3>1. \A s \in Sessions :
              s = cur => StoreState(s) = "open" /\ StoreState(s)' = "finished"
      BY <1>3, <2>1, <2>2, <2>5 DEF StoreState
    <3>2. \A s \in Sessions : s # cur => StoreState(s)' = StoreState(s)
      BY <1>3, <2>2 DEF StoreState
    <3>3. view' = [view EXCEPT ![cur] = "finished"] /\ view[cur] = "open"
      BY <2>1, <3>1, <3>2
    <3>4. dir' = [dir EXCEPT ![cur] = dir'[cur]] /\ dir'[cur] \in Names
      BY <1>1, <1>3, <2>1
    <3>5. Store!Settle(cur, "finished")
      BY <1>3, <3>3, <3>4 DEF Store!Settle
    <3> QED
      BY <2>1, <3>5 DEF Store!StoreNext
  <2> QED
    BY <2>3, <2>4, <2>5
<1>4. ASSUME NEW s \in Sessions, CreateFolder(s)
      PROVE  Store!Open(s)
  <2>1. PICK n \in Names : /\ dir' = [dir EXCEPT ![s] = n]
                           /\ n # NoName /\ n.kind = "recording" /\ Free(n)
    BY <1>4, FinalNameType, NewName, LifecycleAssumption
    DEF CreateFolder, FirstFree
  <2>2. dir[s] = NoName /\ outcome[s] = "none" /\ outcome' = outcome
    BY <1>1, <1>4 DEF CreateFolder, Progress, AbsentIsBlank, Named
  <2>3. dir'[s] = n /\ \A t \in Sessions : t # s => dir'[t] = dir[t]
    BY <1>1, <2>1
  <2>4. StoreState(s) = "absent" /\ StoreState(s)' = "open"
    BY <2>1, <2>2, <2>3 DEF StoreState
  <2>5. \A t \in Sessions : t # s => StoreState(t)' = StoreState(t)
    BY <2>2, <2>3 DEF StoreState
  <2>6. view' = [view EXCEPT ![s] = "open"] /\ view[s] = "absent"
    BY <2>4, <2>5
  <2> QED
    BY <2>1, <2>3, <2>6 DEF Store!Open, Store!Unused, Free
<1>5. ASSUME RenameRecovered \/ RenameFinal, dir' # dir
      PROVE  \/ Store!Settle(cur, "finished")
             \/ Store!Settle(cur, "recovered")
  <2>1. cur \in Sessions /\ dir[cur] \in Names /\ dir[cur] # NoName
    BY <1>1, <1>5 DEF RenameRecovered, RenameFinal, Progress, CurrentSession,
       Named
  <2>2. HasRecordingExtension(dir[cur])
    <3>1. CASE RenameRecovered
      BY <1>1, <3>1 DEF RenameRecovered, Progress, RecoveryProgress,
         SweepProgress, RecoverPcs
    <3>2. CASE RenameFinal
      <4>1. FinalName(dir[cur]) # dir[cur]
        BY <1>1, <1>5, <2>1, <3>2 DEF RenameFinal
      <4> QED
        BY <4>1 DEF FinalName
    <3> QED
      BY <1>5, <3>1, <3>2
  <2>3. outcome[cur] # "ok" /\ outcome' = outcome
    BY <1>1, <1>5, <2>1, <2>2
    DEF Progress, FinishedIsHidden, RenameRecovered, RenameFinal
  <2>4. PICK n \in Names : /\ dir' = [dir EXCEPT ![cur] = n]
                           /\ n # NoName /\ n.kind \in {"final", "recovered"}
                           /\ Free(n)
    <3>1. CASE RenameRecovered
      BY <2>1, <3>1, FinalNameType, NewName, LifecycleAssumption
      DEF RenameRecovered, FirstFree
    <3>2. CASE RenameFinal
      <4>1. /\ FinalName(dir[cur]) \in Names
            /\ FinalName(dir[cur]) # NoName
            /\ FinalName(dir[cur]).kind = "final"
        BY <2>1, <2>2, FinalNameType, LifecycleAssumption
        DEF FinalName, Names
      <4>2. FinalName(dir[cur]) # dir[cur]
        BY <2>2, <4>1 DEF HasRecordingExtension
      <4> QED
        BY <3>2, <4>1, <4>2 DEF RenameFinal
    <3> QED
      BY <1>5, <3>1, <3>2
  <2>5. dir'[cur] = n /\ \A t \in Sessions : t # cur => dir'[t] = dir[t]
    BY <1>1, <2>1, <2>4
  <2>6. StoreState(cur) = "open"
    BY <2>1, <2>2, <2>3 DEF StoreState, HasRecordingExtension
  <2>7. PICK o \in {"finished", "recovered"} :
            \A t \in Sessions : t = cur => StoreState(t)' = o
    BY <2>4, <2>5 DEF StoreState
  <2>8. \A t \in Sessions : t # cur => StoreState(t)' = StoreState(t)
    BY <2>3, <2>5 DEF StoreState
  <2>9. view' = [view EXCEPT ![cur] = o] /\ view[cur] = "open"
    BY <2>1, <2>6, <2>7, <2>8
  <2> QED
    BY <2>1, <2>4, <2>5, <2>7, <2>9
    DEF Store!Settle, Store!Unused, Free
<1>6. CASE dir' # dir
  <2>1. CASE RenameRecovered \/ RenameFinal
    <3>1. cur \in Sessions
      BY <1>1, <2>1 DEF RenameRecovered, RenameFinal, Progress,
         CurrentSession
    <3> QED
      BY <1>5, <1>6, <2>1, <3>1 DEF Store!StoreNext
  <2>2. CASE \E s \in Sessions : CreateFolder(s)
    BY <1>4, <2>2 DEF Store!StoreNext
  <2> QED
    BY <1>6, <2>1, <2>2, DirSteps
<1> QED
  BY <1>1, <1>2, <1>3, <1>6, OutcomeSteps

\* Every behaviour of the session folders is a behaviour of the store.
THEOREM StoreRefinement == Spec => ImplementsStore
BY StoreInitMap, StoreStepMap, Invariance, PTL
DEF Spec, ImplementsStore, Store!StoreSpec
=============================================================================
