---------------------------- MODULE ArtifactScan ----------------------------
(***************************************************************************)
(* Crash artifacts (artifacts.rs): start walks the artifact folders and    *)
(* keeps a baseline of fingerprints; stop walks them again, without the    *)
(* session's own folder, and records and copies what is new or modified.   *)
(* Other programs create, rewrite and delete files all the while, between  *)
(* the two walks as well as during them.                                   *)
(*                                                                         *)
(* A fingerprint is a size and a modification time; the times of two       *)
(* writes differ.  A walk visits its pending paths in any order: the       *)
(* code's stack and the order of read_dir give some of them.  Folders are  *)
(* fixed.  What a LiveKernelEvent report says is in CrashReport.           *)
(***************************************************************************)
EXTENDS Naturals, FiniteSets, Functions

CONSTANTS
    Files, Dirs,    \* paths
    Parent,         \* the folder a path is in
    Roots,          \* config.artifact_paths
    SessionDir,     \* the folder of the session
    Sizes,          \* the file sizes
    MaxScanDepth, MaxScanFiles, MaxCopyFileBytes, MaxTotalCopyBytes,
    MaxWrites,      \* bound on what other programs do
    MaxFaults       \* bound on the calls that fail

Paths == Files \cup Dirs

ASSUME ArtifactAssumption ==
    /\ IsFiniteSet(Dirs) /\ Files \cap Dirs = {}
    /\ Roots \subseteq Paths /\ SessionDir \in Dirs
    /\ Parent \in [DOMAIN Parent -> Dirs] /\ DOMAIN Parent \subseteq Paths
    /\ Sizes \subseteq Nat
    /\ MaxScanDepth \in Nat /\ MaxScanFiles \in Nat
    /\ MaxCopyFileBytes \in Nat /\ MaxTotalCopyBytes \in Nat
    /\ MaxWrites \in Nat /\ MaxFaults \in Nat

VARIABLES
    disk,           \* external: the files that exist, with their fingerprints
    writes,         \* external: what other programs have done so far
    pc,             \* how far capture, the session and collect are
    pending,        \* stack: the paths to visit, with their depth
    files,          \* local of scan_roots, then what collect has yet to handle
    warned,         \* there are warnings so far
    baseline,       \* ArtifactBaseline.files
    baselineWarned, \* ArtifactBaseline.warnings is not empty
    records,        \* ArtifactCollection.records
    copiedTotal,    \* local copied_total
    stored,         \* bytes written to crash-artifacts
    uneven,         \* history: a copy was longer than its fingerprint, or failed
    baselineEnd, collectStart,      \* history: writes at these times
    faults

external == <<disk, writes>>
scanVars == <<pending, files, warned>>
baselineVars == <<baseline, baselineWarned>>
copyVars == <<records, copiedTotal, stored, uneven>>
times == <<baselineEnd, collectStart>>
vars == <<external, pc, scanVars, baselineVars, copyVars, times, faults>>

Present == DOMAIN disk
Nothing == [f \in {} |-> 0]
Fault == faults < MaxFaults /\ faults' = faults + 1

\* What scan_roots begins with.
RootEntries == {[path |-> r, depth |-> 0] : r \in Roots}

Init ==
    /\ \E S \in SUBSET Files : disk \in [S -> [size : Sizes, modified : {0}]]
    /\ writes = 0
    /\ pc = "baseline"
    /\ pending = RootEntries /\ files = Nothing /\ warned = FALSE
    /\ baseline = Nothing /\ baselineWarned = FALSE
    /\ records = {} /\ copiedTotal = 0 /\ stored = 0 /\ uneven = FALSE
    /\ baselineEnd = 0 /\ collectStart = 0
    /\ faults = 0

-----------------------------------------------------------------------------
(* External: other programs.                                                *)

Touch(newDisk) ==
    /\ writes < MaxWrites
    /\ writes' = writes + 1
    /\ disk' = newDisk
    /\ UNCHANGED <<pc, scanVars, baselineVars, copyVars, times, faults>>

Write(f, size) ==
    Touch([x \in Present \cup {f} |->
              IF x = f THEN [size |-> size, modified |-> writes + 1] ELSE disk[x]])

Delete(f) == f \in Present /\ Touch(Restrict(disk, Present \ {f}))

-----------------------------------------------------------------------------
(* scan_roots, for the baseline and for the collection.                     *)

\* The paths in a folder and below.
Below(dir) ==
    LET within[n \in 0..Cardinality(Dirs)] ==
            IF n = 0 THEN {dir}
            ELSE LET up == within[n - 1]
                 IN  up \cup {p \in DOMAIN Parent : Parent[p] \in up}
    IN  within[Cardinality(Dirs)]

\* The session's own tree is left out of the second walk only.
Excluded(p) == pc = "collect" /\ p \in Below(SessionDir)

Entries(dir, depth) ==
    {[path |-> p, depth |-> depth] :
        p \in {x \in DOMAIN Parent : Parent[x] = dir /\ x \in Dirs \cup Present}}

\* The next pending path, as long as there is room for another file.
Pop(e) ==
    /\ pc \in {"baseline", "collect"}
    /\ Cardinality(DOMAIN files) < MaxScanFiles
    /\ e \in pending

SkipExcluded(e) ==
    /\ Pop(e)
    /\ Excluded(e.path)
    /\ pending' = pending \ {e}
    /\ UNCHANGED <<external, pc, files, warned, baselineVars, copyVars, times, faults>>

\* A file that is gone by now is passed over.
VisitFile(e) ==
    /\ Pop(e)
    /\ ~Excluded(e.path)
    /\ e.path \in Files
    /\ pending' = pending \ {e}
    /\ files' = IF e.path \in Present
                  THEN [x \in DOMAIN files \cup {e.path} |->
                           IF x = e.path THEN disk[x] ELSE files[x]]
                  ELSE files
    /\ UNCHANGED <<external, pc, warned, baselineVars, copyVars, times, faults>>

\* A folder at the depth limit is not entered, and nothing is said.
VisitDir(e) ==
    /\ Pop(e)
    /\ ~Excluded(e.path)
    /\ e.path \in Dirs
    /\ pending' = (pending \ {e})
                  \cup IF e.depth < MaxScanDepth THEN Entries(e.path, e.depth + 1)
                                                 ELSE {}
    /\ UNCHANGED <<external, pc, files, warned, baselineVars, copyVars, times, faults>>

\* The metadata, the entries or one entry of a folder cannot be read.
VisitFails(e) ==
    /\ Pop(e)
    /\ ~Excluded(e.path)
    /\ Fault
    /\ pending' = pending \ {e}
    /\ warned' = TRUE
    /\ UNCHANGED <<external, pc, files, baselineVars, copyVars, times>>

\* Paths are left and the walk has as many files as it may have.
LimitReached ==
    /\ pc \in {"baseline", "collect"}
    /\ Cardinality(DOMAIN files) >= MaxScanFiles
    /\ pending # {}
    /\ pending' = {}
    /\ warned' = TRUE
    /\ UNCHANGED <<external, pc, files, baselineVars, copyVars, times, faults>>

-----------------------------------------------------------------------------
(* ArtifactBaseline::capture and collect.                                   *)

BaselineDone ==
    /\ pc = "baseline"
    /\ pending = {}
    /\ baseline' = files /\ baselineWarned' = warned
    /\ baselineEnd' = writes
    /\ files' = Nothing
    /\ warned' = FALSE
    /\ pc' = "recording"
    /\ UNCHANGED <<external, pending, copyVars, collectStart, faults>>

\* The baseline cannot be written to its log: the session has none.
CaptureFails ==
    /\ pc = "baseline"
    /\ pending = {}
    /\ Fault
    /\ pc' = "failed"
    /\ UNCHANGED <<external, scanVars, baselineVars, copyVars, times>>

BeginCollect ==
    /\ pc = "recording"
    /\ collectStart' = writes
    /\ pending' = RootEntries
    /\ pc' = "collect"
    /\ UNCHANGED <<external, files, warned, baselineVars, copyVars, baselineEnd, faults>>

\* A mutant of WalkDone: the warnings of the baseline are forgotten.
WalkDoneAlone ==
    /\ pc = "collect"
    /\ pending = {}
    /\ pc' = "copy"
    /\ UNCHANGED <<external, scanVars, baselineVars, copyVars, times, faults>>

\* The warnings of the baseline are added to those of this walk.
WalkDone ==
    /\ pc = "collect"
    /\ pending = {}
    /\ warned' = (warned \/ baselineWarned)
    /\ pc' = "copy"
    /\ UNCHANGED <<external, pending, files, baselineVars, copyVars, times, faults>>

\* A mutant of Unchanged: only the sizes are compared.
SameSize(f) == f \in DOMAIN baseline /\ baseline[f].size = files[f].size

Unchanged(f) == f \in DOMAIN baseline /\ baseline[f] = files[f]

Handled(f) == files' = Restrict(files, DOMAIN files \ {f})

SkipUnchanged(f) ==
    /\ pc = "copy"
    /\ f \in DOMAIN files
    /\ Unchanged(f)
    /\ Handled(f)
    /\ UNCHANGED <<external, pc, pending, warned, baselineVars, copyVars, times, faults>>

ShouldCopy(f) ==
    /\ files[f].size <= MaxCopyFileBytes
    /\ copiedTotal + files[f].size <= MaxTotalCopyBytes

Changed(f) ==
    /\ pc = "copy"
    /\ f \in DOMAIN files
    /\ ~Unchanged(f)
    /\ Handled(f)

Record(f, status) ==
    records' = records \cup
        {[path |-> f, fingerprint |-> files[f], status |-> status,
          change |-> IF f \in DOMAIN baseline THEN "modified" ELSE "new"]}

\* A mutant of Copy: copied_total is not advanced.
CopyUncounted(f) ==
    /\ Changed(f)
    /\ ShouldCopy(f)
    /\ f \in Present
    /\ Record(f, "copied")
    /\ stored' = stored + disk[f].size
    /\ uneven' = (uneven \/ disk[f].size > files[f].size)
    /\ UNCHANGED <<external, pc, pending, warned, baselineVars, copiedTotal,
                   times, faults>>

\* The file is copied as it is now; copied_total counts what the walk saw.
Copy(f) ==
    /\ Changed(f)
    /\ ShouldCopy(f)
    /\ f \in Present
    /\ Record(f, "copied")
    /\ copiedTotal' = copiedTotal + files[f].size
    /\ stored' = stored + disk[f].size
    /\ uneven' = (uneven \/ disk[f].size > files[f].size)
    /\ UNCHANGED <<external, pc, pending, warned, baselineVars, times, faults>>

\* The file is gone, or reading or writing fails; what was written of the
\* copy stays in crash-artifacts and is not counted.
CopyFails(f) ==
    /\ Changed(f)
    /\ ShouldCopy(f)
    /\ \/ f \notin Present /\ UNCHANGED <<stored, uneven, faults>>
       \/ /\ f \in Present
          /\ Fault
          /\ stored' \in stored..(stored + disk[f].size)
          /\ uneven' = TRUE
    /\ Record(f, "copy_failed")
    /\ warned' = TRUE
    /\ UNCHANGED <<external, pc, pending, baselineVars, copiedTotal, times>>

Reference(f) ==
    /\ Changed(f)
    /\ ~ShouldCopy(f)
    /\ Record(f, "referenced_large")
    /\ UNCHANGED <<external, pc, pending, warned, baselineVars, copiedTotal,
                   stored, uneven, times, faults>>

CollectDone ==
    /\ pc = "copy"
    /\ DOMAIN files = {}
    /\ pc' = "done"
    /\ UNCHANGED <<external, scanVars, baselineVars, copyVars, times, faults>>

\* crash-artifacts cannot be created, or artifacts.json not be written: the
\* records are dropped, and the health record says so.
CollectFails ==
    /\ pc = "copy"
    /\ records = {} \/ DOMAIN files = {}
    /\ Fault
    /\ records' = {}
    /\ pc' = "failed"
    /\ UNCHANGED <<external, scanVars, baselineVars, copiedTotal, stored, uneven, times>>

\* The artifacts are dealt with: nothing is left to observe.
Over == pc \in {"done", "failed"} /\ UNCHANGED vars

OtherPrograms ==
    /\ pc \notin {"done", "failed"}
    /\ \E f \in Files : Delete(f) \/ \E size \in Sizes : Write(f, size)

Walk ==
    \/ \E e \in pending :
          SkipExcluded(e) \/ VisitFile(e) \/ VisitDir(e) \/ VisitFails(e)
    \/ LimitReached

Handle ==
    \E f \in DOMAIN files :
        SkipUnchanged(f) \/ Copy(f) \/ CopyFails(f) \/ Reference(f)

Next ==
    \/ OtherPrograms
    \/ Walk \/ Handle
    \/ BaselineDone \/ CaptureFails \/ BeginCollect \/ WalkDone
    \/ CollectDone \/ CollectFails
    \/ Over

Spec == Init /\ [][Next]_vars

-----------------------------------------------------------------------------
(* Properties.                                                              *)

\* A file nobody touched since before the session began is never presented as
\* a crash artifact, unless a warning says that one of the walks was incomplete.
NothingOldRecorded ==
    pc = "done" /\ ~warned =>
        \A r \in records : r.fingerprint.modified > 0

\* The files the second walk can get to: not too deep, not of this session.
InReach(f) ==
    \E n \in 0..MaxScanDepth : \E way \in [0..n -> Paths] :
        /\ way[0] \in Roots /\ way[n] = f
        /\ \A i \in 1..n : way[i] \in DOMAIN Parent /\ Parent[way[i]] = way[i - 1]
        /\ \A i \in 0..n : way[i] \notin Below(SessionDir)

\* Every file in reach that was written after the baseline was complete, and
\* left alone from the moment the second walk began, is among the records,
\* unless a warning says that something was missed.
EveryChangeRecorded ==
    pc = "done" /\ ~warned =>
        \A f \in Present :
            /\ InReach(f)
            /\ baselineEnd < disk[f].modified /\ disk[f].modified <= collectStart
            => \E r \in records : r.path = f /\ r.fingerprint = disk[f]

\* The copies never take more than the limit on disk, except by what a file
\* had grown since the walk, or what a failed copy has left behind.
CopiesWithinLimit == ~uneven => stored <= MaxTotalCopyBytes
=============================================================================
