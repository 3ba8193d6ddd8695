------------------------- MODULE ArtifactScanProofs -------------------------
(***************************************************************************)
(* What the two walks over the artifact folders achieve, for any folders,  *)
(* files, roots, limits and number of writes and failures: the copies stay *)
(* within their limit, nothing old is recorded, every change is recorded.  *)
(*                                                                         *)
(* A walk keeps no set of what it has visited.  The invariant says that    *)
(* there is one: it has the roots and, for every folder in it that the     *)
(* walk may enter, what is in that folder, unless that is still pending.   *)
(* Files come and go under a walk, so only the files it cannot miss count: *)
(* those nobody has touched at all for the baseline, those left alone      *)
(* since the collection began for the second walk.  Both sets only shrink. *)
(***************************************************************************)
EXTENDS ArtifactScan, WellFoundedInduction, TLAPS

Entry == [path : Paths, depth : Nat]
Fingerprint == [size : Nat, modified : Nat]

\* Files with fingerprints, none of them from after the given time.
Dated(found, time) ==
    /\ DOMAIN found \subseteq Files
    /\ \A f \in DOMAIN found :
          found[f] \in Fingerprint /\ found[f].modified <= time

\* The values the variables take.
Types ==
    /\ Dated(disk, writes) /\ Dated(files, writes)
    /\ Dated(baseline, baselineEnd)
    /\ writes \in Nat /\ baselineEnd \in Nat /\ collectStart \in Nat
    /\ baselineEnd <= writes /\ collectStart <= writes
    /\ pending \subseteq Entry
    /\ warned \in BOOLEAN /\ baselineWarned \in BOOLEAN /\ uneven \in BOOLEAN
    /\ copiedTotal \in Nat /\ stored \in Nat

\* What is before which.
Stages ==
    /\ pc \in {"baseline", "recording", "collect", "copy", "done", "failed"}
    /\ pc = "recording" => files = Nothing /\ ~warned /\ pending = {}
    /\ pc \in {"copy", "done"} => pending = {}
    /\ pc = "done" => DOMAIN files = {}
    /\ pc \in {"baseline", "recording", "collect"} => records = {}
    /\ pc \in {"copy", "done"} /\ ~warned => ~baselineWarned

\* Nobody has touched these since before the session.
OldFiles == {f \in Present : disk[f].modified = 0}

\* These were written after the baseline, and are left alone since collectStart.
SettledFiles ==
    {f \in Present : baselineEnd < disk[f].modified /\ disk[f].modified <= collectStart}

\* A walk that enters no folder of skip and has left to visit misses none of
\* these files, or of the folders they are in.
Closed(visited, left, these, skip) ==
    /\ RootEntries \subseteq visited \cup left
    /\ \A e \in visited :
          e.path \in Dirs \ skip /\ e.depth < MaxScanDepth =>
              \A x \in DOMAIN Parent :
                  Parent[x] = e.path /\ x \in Dirs \cup these =>
                      [path |-> x, depth |-> e.depth + 1] \in visited \cup left

\* f is in found as it is on disk.
KeptIn(found, f) == f \in DOMAIN found /\ found[f] = disk[f]

\* The first walk: the old files it has come to are among its files.
FirstWalk(visited) ==
    /\ visited \subseteq Entry
    /\ Closed(visited, pending, OldFiles, {})
    /\ \A e \in visited : e.path \in OldFiles => KeptIn(files, e.path)

\* The first walk is complete: whatever is old and comes up in the second walk
\* was visited, and is in the baseline.
FirstWalked(visited) ==
    /\ visited \subseteq Entry
    /\ Closed(visited, {}, OldFiles, {})
    /\ \A e \in visited : e.path \in OldFiles => KeptIn(baseline, e.path)
    /\ pc = "collect" =>
          \A e \in pending : e.path \in Dirs \cup OldFiles => e \in visited

\* What the second walk found old, the baseline has.
OldInBaseline ==
    \A f \in DOMAIN files :
        files[f].modified = 0 => f \in DOMAIN baseline /\ baseline[f] = files[f]

Old ==
    /\ pc = "baseline" /\ ~warned => \E visited \in SUBSET Entry : FirstWalk(visited)
    /\ pc \in {"recording", "collect"} /\ ~baselineWarned =>
          \E visited \in SUBSET Entry : FirstWalked(visited)
    /\ pc \in {"collect", "copy"} /\ ~baselineWarned => OldInBaseline
    /\ pc \in {"copy", "done"} /\ ~baselineWarned =>
          \A r \in records : r.fingerprint.modified > 0

\* The second walk: the settled files it has come to are among its files.
SecondWalk(visited) ==
    /\ visited \subseteq Entry
    /\ Closed(visited, pending, SettledFiles, Below(SessionDir))
    /\ \A e \in visited :
          e.path \in SettledFiles \ Below(SessionDir) => KeptIn(files, e.path)

Recorded(f) == \E r \in records : r.path = f /\ r.fingerprint = disk[f]

\* The second walk is complete: what it came to is to be handled or recorded.
SecondWalked(visited) ==
    /\ visited \subseteq Entry
    /\ Closed(visited, {}, SettledFiles, Below(SessionDir))
    /\ \A e \in visited :
          e.path \in SettledFiles \ Below(SessionDir) =>
              KeptIn(files, e.path) \/ Recorded(e.path)

Settled ==
    /\ pc = "collect" /\ ~warned => \E visited \in SUBSET Entry : SecondWalk(visited)
    /\ pc \in {"copy", "done"} /\ ~warned =>
          \E visited \in SUBSET Entry : SecondWalked(visited)

\* The limit is kept by what is counted, and more is not stored.
Copies ==
    /\ copiedTotal <= MaxTotalCopyBytes
    /\ ~uneven => stored <= copiedTotal

\* The inductive invariant.
IInv == Types /\ Stages /\ Copies /\ Old /\ Settled

-----------------------------------------------------------------------------
(* Types and stages.                                                        *)

LEMMA TypesInit == Init => Types
<1> SUFFICES ASSUME Init PROVE Types
    OBVIOUS
<1>1. PICK S \in SUBSET Files : disk \in [S -> [size : Sizes, modified : {0}]]
      BY DEF Init
<1>2. Dated(disk, writes)
      BY <1>1, ArtifactAssumption DEF Init, Dated, Fingerprint
<1>3. Dated(files, writes) /\ Dated(baseline, baselineEnd)
      BY DEF Init, Dated, Nothing
<1>4. pending \subseteq Entry
      BY ArtifactAssumption DEF Init, RootEntries, Entry, Paths
<1>5. /\ writes = 0 /\ baselineEnd = 0 /\ collectStart = 0
      /\ copiedTotal = 0 /\ stored = 0
      /\ warned \in BOOLEAN /\ baselineWarned \in BOOLEAN /\ uneven \in BOOLEAN
      BY DEF Init
<1> QED
    BY <1>2, <1>3, <1>4, <1>5 DEF Types

\* What is not there is forgotten: the rest keeps its fingerprints.
LEMMA DatedRestrict ==
    ASSUME NEW found, NEW time, Dated(found, time), NEW S
    PROVE  Dated(Restrict(found, DOMAIN found \ S), time)
BY DEF Dated, Restrict

LEMMA DatedLater ==
    ASSUME NEW found, NEW time \in Nat, NEW later \in Nat, time <= later,
           Dated(found, time)
    PROVE  Dated(found, later)
BY DEF Dated, Fingerprint

\* One more file, or another fingerprint for one that is there.
LEMMA DatedPlus ==
    ASSUME NEW found, NEW time, Dated(found, time),
           NEW f \in Files, NEW print \in Fingerprint, print.modified <= time
    PROVE  Dated([x \in DOMAIN found \cup {f} |-> IF x = f THEN print ELSE found[x]], time)
BY DEF Dated

LEMMA TypesOtherPrograms ==
    ASSUME Types, OtherPrograms
    PROVE  Types'
<1>1. PICK f \in Files : Delete(f) \/ \E size \in Sizes : Write(f, size)
      BY DEF OtherPrograms
<1>2. /\ writes' = writes + 1
      /\ UNCHANGED <<pc, scanVars, baselineVars, copyVars, times, faults>>
      BY <1>1 DEF Delete, Write, Touch
<1>3. writes \in Nat /\ writes' \in Nat /\ writes <= writes'
      BY <1>2 DEF Types
<1>4. Dated(disk', writes')
  <2>1. Dated(disk, writes')
        BY <1>3, DatedLater DEF Types
  <2>2. CASE Delete(f)
        BY <2>1, <2>2, DatedRestrict DEF Delete, Touch, Present
  <2>3. CASE \E size \in Sizes : Write(f, size)
    <3>1. PICK size \in Sizes : Write(f, size)
          BY <2>3
    <3> DEFINE print == [size |-> size, modified |-> writes + 1]
    <3>2. print \in Fingerprint /\ print.modified <= writes'
          BY <1>2, <1>3, ArtifactAssumption DEF Fingerprint
    <3>3. disk' = [x \in DOMAIN disk \cup {f} |-> IF x = f THEN print ELSE disk[x]]
          BY <3>1 DEF Write, Touch, Present
    <3> HIDE DEF print
    <3> QED
        BY <2>1, <3>2, <3>3, DatedPlus
  <2> QED
      BY <1>1, <2>2, <2>3
<1>5. Dated(files', writes')
      BY <1>2, <1>3, DatedLater DEF Types, scanVars
<1> QED
    BY <1>2, <1>3, <1>4, <1>5
    DEF Types, scanVars, baselineVars, copyVars, times

LEMMA EntriesTypes ==
    ASSUME Types, NEW e \in pending
    PROVE  /\ e \in Entry /\ e.path \in Paths /\ e.depth \in Nat
           /\ Entries(e.path, e.depth + 1) \subseteq Entry
BY ArtifactAssumption DEF Types, Entry, Entries, Paths

LEMMA TypesWalk ==
    ASSUME Types, Walk
    PROVE  Types'
<1>1. CASE LimitReached
      BY <1>1 DEF LimitReached, Types, external, baselineVars, copyVars, times
<1>2. ASSUME NEW e \in pending, SkipExcluded(e)
      PROVE  Types'
      BY <1>2 DEF SkipExcluded, Types, external, baselineVars, copyVars, times
<1>3. ASSUME NEW e \in pending, VisitFails(e)
      PROVE  Types'
      BY <1>3 DEF VisitFails, Types, external, baselineVars, copyVars, times
<1>4. ASSUME NEW e \in pending, VisitDir(e)
      PROVE  Types'
      BY <1>4, EntriesTypes
      DEF VisitDir, Types, external, baselineVars, copyVars, times
<1>5. ASSUME NEW e \in pending, VisitFile(e)
      PROVE  Types'
  <2>1. Dated(files', writes)
    <3>1. CASE e.path \in Present
          BY <1>5, <3>1, DatedPlus DEF VisitFile, Types, Dated, Present
    <3>2. CASE e.path \notin Present
          BY <1>5, <3>2 DEF VisitFile, Types
    <3> QED
        BY <3>1, <3>2
  <2> QED
      BY <1>5, <2>1 DEF VisitFile, Types, external, baselineVars, copyVars, times
<1> QED
    BY <1>1, <1>2, <1>3, <1>4, <1>5 DEF Walk

LEMMA TypesHandle ==
    ASSUME Types, Handle
    PROVE  Types'
<1>1. PICK f \in DOMAIN files :
          SkipUnchanged(f) \/ Copy(f) \/ CopyFails(f) \/ Reference(f)
      BY DEF Handle
<1>2. /\ Handled(f)
      /\ UNCHANGED <<external, pc, pending, baselineVars, times>>
      BY <1>1 DEF SkipUnchanged, Copy, CopyFails, Reference, Changed
<1>3. Dated(files', writes)
      BY <1>2, DatedRestrict DEF Handled, Types
<1>4. files[f].size \in Nat /\ (f \in Present => disk[f].size \in Nat)
      BY DEF Types, Dated, Fingerprint, Present
<1>5. warned' \in BOOLEAN
      BY <1>1 DEF SkipUnchanged, Copy, CopyFails, Reference, Types
<1>6. uneven' \in BOOLEAN
      BY <1>1 DEF SkipUnchanged, Copy, CopyFails, Reference, Types, copyVars
<1>7. copiedTotal' \in Nat
      BY <1>1, <1>4 DEF SkipUnchanged, Copy, CopyFails, Reference, Types, copyVars
<1>8. stored' \in Nat
  <2>1. CASE SkipUnchanged(f) \/ Reference(f)
        BY <2>1 DEF SkipUnchanged, Reference, Types, copyVars
  <2>2. CASE Copy(f)
        BY <2>2, <1>4 DEF Copy, Types
  <2>3. CASE CopyFails(f)
        BY <2>3, <1>4 DEF CopyFails, Types
  <2> QED
      BY <1>1, <2>1, <2>2, <2>3
<1> QED
    BY <1>2, <1>3, <1>5, <1>6, <1>7, <1>8
    DEF Types, external, baselineVars, times

LEMMA TypesNext ==
    ASSUME Types, [Next]_vars
    PROVE  Types'
<1>1. CASE OtherPrograms
      BY <1>1, TypesOtherPrograms
<1>2. CASE Walk
      BY <1>2, TypesWalk
<1>3. CASE Handle
      BY <1>3, TypesHandle
<1>4. CASE BaselineDone
  <2>1. Dated(files', writes')
        BY <1>4 DEF BaselineDone, Dated, Nothing
  <2>2. Dated(baseline', baselineEnd')
        BY <1>4 DEF BaselineDone, Types
  <2>3. Dated(disk', writes')
        BY <1>4 DEF BaselineDone, Types, external
  <2>4. warned' \in BOOLEAN /\ baselineWarned' \in BOOLEAN /\ uneven' \in BOOLEAN
        BY <1>4 DEF BaselineDone, Types, copyVars
  <2>5. /\ writes' = writes /\ baselineEnd' = writes
        /\ UNCHANGED <<pending, collectStart, copiedTotal, stored>>
        BY <1>4 DEF BaselineDone, external, copyVars
  <2> QED
      BY <2>1, <2>2, <2>3, <2>4, <2>5 DEF Types
<1>5. CASE CaptureFails
      BY <1>5 DEF CaptureFails, Types, external, scanVars, baselineVars, copyVars, times
<1>6. CASE BeginCollect
  <2>1. RootEntries \subseteq Entry
        BY ArtifactAssumption DEF RootEntries, Entry, Paths
  <2> QED
      BY <1>6, <2>1 DEF BeginCollect, Types, external, baselineVars, copyVars
<1>7. CASE WalkDone
      BY <1>7 DEF WalkDone, Types, external, baselineVars, copyVars, times
<1>8. CASE CollectDone
      BY <1>8 DEF CollectDone, Types, external, scanVars, baselineVars, copyVars, times
<1>9. CASE CollectFails
      BY <1>9 DEF CollectFails, Types, external, scanVars, baselineVars, times
<1>10. CASE UNCHANGED vars
      BY <1>10 DEF vars, Types, external, scanVars, baselineVars, copyVars, times
<1> QED
    BY <1>1, <1>2, <1>3, <1>4, <1>5, <1>6, <1>7, <1>8, <1>9, <1>10
    DEF Next, Over

LEMMA StagesNext ==
    ASSUME Types, Stages, [Next]_vars
    PROVE  Stages'
<1>1. CASE OtherPrograms
      BY <1>1 DEF OtherPrograms, Delete, Write, Touch, Stages, scanVars,
                  baselineVars, copyVars
<1>2. CASE Walk
  <2>1. /\ pc \in {"baseline", "collect"} /\ pc' = pc
        /\ UNCHANGED copyVars
        BY <1>2 DEF Walk, SkipExcluded, VisitFile, VisitDir, VisitFails,
                    LimitReached, Pop
  <2> QED
      BY <2>1 DEF Stages, copyVars
<1>3. CASE Handle
  <2>1. PICK f \in DOMAIN files :
            SkipUnchanged(f) \/ Copy(f) \/ CopyFails(f) \/ Reference(f)
        BY <1>3 DEF Handle
  <2>2. /\ pc = "copy" /\ pc' = pc
        /\ UNCHANGED <<pending, baselineVars>>
        BY <2>1 DEF SkipUnchanged, Copy, CopyFails, Reference, Changed
  <2>3. warned => warned'
        BY <2>1 DEF SkipUnchanged, Copy, CopyFails, Reference
  <2> QED
      BY <2>2, <2>3 DEF Stages, baselineVars
<1>4. CASE BaselineDone
      BY <1>4 DEF BaselineDone, Stages, copyVars
<1>5. CASE CaptureFails
      BY <1>5 DEF CaptureFails, Stages
<1>6. CASE BeginCollect
      BY <1>6 DEF BeginCollect, Stages, copyVars
<1>7. CASE WalkDone
      BY <1>7 DEF WalkDone, Stages, baselineVars, Types
<1>8. CASE CollectDone
      BY <1>8 DEF CollectDone, Stages, scanVars, baselineVars
<1>9. CASE CollectFails
      BY <1>9 DEF CollectFails, Stages
<1>10. CASE UNCHANGED vars
      BY <1>10 DEF vars, Stages, scanVars, baselineVars, copyVars
<1> QED
    BY <1>1, <1>2, <1>3, <1>4, <1>5, <1>6, <1>7, <1>8, <1>9, <1>10
    DEF Next, Over

-----------------------------------------------------------------------------
(* The copies.                                                              *)

LEMMA CopiesNext ==
    ASSUME Types, Copies, [Next]_vars
    PROVE  Copies'
<1>1. CASE Handle
  <2>1. PICK f \in DOMAIN files :
            SkipUnchanged(f) \/ Copy(f) \/ CopyFails(f) \/ Reference(f)
        BY <1>1 DEF Handle
  <2>2. /\ files[f].size \in Nat /\ (f \in Present => disk[f].size \in Nat)
        /\ copiedTotal \in Nat /\ stored \in Nat /\ MaxTotalCopyBytes \in Nat
        BY ArtifactAssumption DEF Types, Dated, Fingerprint, Present
  <2>3. CASE SkipUnchanged(f)
        BY <2>3 DEF SkipUnchanged, Copies, copyVars
  <2>4. CASE Copy(f)
    <3>1. /\ copiedTotal + files[f].size <= MaxTotalCopyBytes
          /\ copiedTotal' = copiedTotal + files[f].size
          /\ stored' = stored + disk[f].size
          /\ f \in Present
          BY <2>4 DEF Copy, ShouldCopy
    <3>2. ~uneven' => ~uneven /\ ~(disk[f].size > files[f].size)
          BY <2>4 DEF Copy
    <3> QED
        BY <3>1, <3>2, <2>2 DEF Copies
  <2>5. CASE CopyFails(f)
        BY <2>5 DEF CopyFails, Copies
  <2>6. CASE Reference(f)
        BY <2>6 DEF Reference, Copies
  <2> QED
      BY <2>1, <2>3, <2>4, <2>5, <2>6
<1>2. CASE ~Handle
  <2>1. UNCHANGED <<copiedTotal, stored, uneven>>
        BY <1>2
        DEF Next, OtherPrograms, Delete, Write, Touch, Walk, SkipExcluded,
            VisitFile, VisitDir, VisitFails, LimitReached, BaselineDone,
            CaptureFails, BeginCollect, WalkDone, CollectDone, CollectFails,
            Over, vars, copyVars
  <2> QED
      BY <2>1 DEF Copies
<1> QED
    BY <1>1, <1>2

-----------------------------------------------------------------------------
(* The sets of files that a walk cannot miss, and what it has come to.      *)

\* Another program only takes files out of these sets: what it writes is dated
\* later than all there is, so neither old nor settled.
LEMMA SetsShrink ==
    ASSUME Types, OtherPrograms
    PROVE  /\ OldFiles' \subseteq OldFiles
           /\ SettledFiles' \subseteq SettledFiles
           /\ \A f \in OldFiles' \cup SettledFiles' : disk'[f] = disk[f]
<1>1. PICK f \in Files : Delete(f) \/ \E size \in Sizes : Write(f, size)
      BY DEF OtherPrograms
<1>2. UNCHANGED <<baselineEnd, collectStart>>
      BY <1>1 DEF Delete, Write, Touch, times
<1>3. /\ writes \in Nat /\ collectStart \in Nat /\ collectStart <= writes
      BY DEF Types
<1>4. CASE Delete(f)
      BY <1>4, <1>2 DEF Delete, Touch, Restrict, Present, OldFiles, SettledFiles
<1>5. CASE \E size \in Sizes : Write(f, size)
  <2>1. PICK size \in Sizes : Write(f, size)
        BY <1>5
  <2>2. disk' = [x \in DOMAIN disk \cup {f} |->
                    IF x = f THEN [size |-> size, modified |-> writes + 1] ELSE disk[x]]
        BY <2>1 DEF Write, Touch, Present
  <2>3. DOMAIN disk' = DOMAIN disk \cup {f} /\ disk'[f].modified = writes + 1
        BY <2>2
  <2>4. f \notin OldFiles' /\ f \notin SettledFiles'
        BY <2>3, <1>2, <1>3 DEF OldFiles, SettledFiles, Present
  <2>5. \A x \in DOMAIN disk' : x # f => x \in DOMAIN disk /\ disk'[x] = disk[x]
        BY <2>2, <2>3
  <2> QED
      BY <2>4, <2>5, <1>2 DEF OldFiles, SettledFiles, Present
<1> QED
    BY <1>1, <1>4, <1>5

LEMMA ClosedShrinks ==
    ASSUME NEW visited, NEW left, NEW these, NEW skip,
           Closed(visited, left, these, skip), NEW fewer \in SUBSET these
    PROVE  Closed(visited, left, fewer, skip)
BY DEF Closed

\* Nothing is pushed for a path that is no folder, is not to be entered or is
\* as deep as a walk goes.
LEMMA ClosedLeaf ==
    ASSUME NEW visited, NEW left, NEW these, NEW skip,
           Closed(visited, left, these, skip), NEW e \in left,
           e.path \notin Dirs \ skip \/ ~(e.depth < MaxScanDepth)
    PROVE  Closed(visited \cup {e}, left \ {e}, these, skip)
BY DEF Closed

\* All that a folder has is pushed.
LEMMA ClosedFolder ==
    ASSUME NEW visited, NEW left, NEW these \in SUBSET Present, NEW skip,
           Closed(visited, left, these, skip), NEW e \in left
    PROVE  Closed(visited \cup {e}, (left \ {e}) \cup Entries(e.path, e.depth + 1),
                  these, skip)
<1> DEFINE seen == visited \cup {e}
           now == (left \ {e}) \cup Entries(e.path, e.depth + 1)
<1>1. visited \cup left \subseteq seen \cup now
      OBVIOUS
<1>2. \A x \in DOMAIN Parent :
          Parent[x] = e.path /\ x \in Dirs \cup these =>
              [path |-> x, depth |-> e.depth + 1] \in now
      BY DEF Entries
<1>3. ASSUME NEW v \in seen, v.path \in Dirs \ skip, v.depth < MaxScanDepth,
             NEW x \in DOMAIN Parent, Parent[x] = v.path, x \in Dirs \cup these
      PROVE  [path |-> x, depth |-> v.depth + 1] \in seen \cup now
  <2>1. CASE v = e
        BY <2>1, <1>2, <1>3
  <2>2. CASE v \in visited
        BY <2>2, <1>1, <1>3 DEF Closed
  <2> QED
      BY <2>1, <2>2
<1>4. RootEntries \subseteq seen \cup now
      BY <1>1 DEF Closed
<1> HIDE DEF seen, now
<1>5. Closed(seen, now, these, skip)
      BY <1>3, <1>4 DEF Closed
<1> QED
    BY <1>5 DEF seen, now

-----------------------------------------------------------------------------
(* The first walk, and what the second one finds old.                       *)

LEMMA OldOtherPrograms ==
    ASSUME Types, Old, OtherPrograms
    PROVE  Old'
<1>1. UNCHANGED <<pc, scanVars, baselineVars, copyVars>>
      BY DEF OtherPrograms, Delete, Write, Touch
<1>2. /\ OldFiles' \subseteq OldFiles
      /\ \A f \in OldFiles' : disk'[f] = disk[f]
      BY SetsShrink
<1>3. ASSUME pc' = "baseline", ~warned'
      PROVE  \E visited \in SUBSET Entry : FirstWalk(visited)'
  <2>1. PICK visited \in SUBSET Entry : FirstWalk(visited)
        BY <1>1, <1>3 DEF Old, scanVars
  <2>2. Closed(visited, pending', OldFiles', {})
        BY <2>1, <1>1, <1>2, ClosedShrinks DEF FirstWalk, scanVars
  <2>3. \A e \in visited : e.path \in OldFiles' => KeptIn(files, e.path)'
        BY <2>1, <1>1, <1>2 DEF FirstWalk, KeptIn, scanVars
  <2> QED
      BY <2>1, <2>2, <2>3 DEF FirstWalk
<1>4. ASSUME pc' \in {"recording", "collect"}, ~baselineWarned'
      PROVE  \E visited \in SUBSET Entry : FirstWalked(visited)'
  <2>1. PICK visited \in SUBSET Entry : FirstWalked(visited)
        BY <1>1, <1>4 DEF Old, baselineVars
  <2>2. Closed(visited, {}, OldFiles', {})
        BY <2>1, <1>2, ClosedShrinks DEF FirstWalked
  <2>3. \A e \in visited : e.path \in OldFiles' => KeptIn(baseline, e.path)'
        BY <2>1, <1>1, <1>2 DEF FirstWalked, KeptIn, baselineVars
  <2>4. pc' = "collect" =>
            \A e \in pending' : e.path \in Dirs \cup OldFiles' => e \in visited
        BY <2>1, <1>1, <1>2 DEF FirstWalked, scanVars
  <2> QED
      BY <2>1, <2>2, <2>3, <2>4 DEF FirstWalked
<1>5. /\ pc' \in {"collect", "copy"} /\ ~baselineWarned' => OldInBaseline'
      /\ pc' \in {"copy", "done"} /\ ~baselineWarned' =>
             \A r \in records' : r.fingerprint.modified > 0
      BY <1>1 DEF Old, OldInBaseline, scanVars, baselineVars, copyVars
<1> QED
    BY <1>3, <1>4, <1>5 DEF Old

\* A step of the first walk.
LEMMA FirstWalkStep ==
    ASSUME Types, NEW visited \in SUBSET Entry, FirstWalk(visited),
           pc = "baseline", Walk, ~warned'
    PROVE  \E V \in SUBSET Entry : FirstWalk(V)'
<1>1. PICK e \in pending : SkipExcluded(e) \/ VisitFile(e) \/ VisitDir(e)
      BY DEF Walk, VisitFails, LimitReached
<1>2. VisitFile(e) \/ VisitDir(e)
      BY <1>1 DEF SkipExcluded, Excluded
<1>3. UNCHANGED external
      BY <1>2 DEF VisitFile, VisitDir
<1>4. OldFiles' = OldFiles /\ disk' = disk /\ OldFiles \subseteq Present
      BY <1>3 DEF external, OldFiles, Present
<1>5. e \in Entry
      BY DEF Types
<1> DEFINE seen == visited \cup {e}
<1>6. seen \in SUBSET Entry
      BY <1>5
<1>7. CASE VisitFile(e)
  <2>1. e.path \notin Dirs /\ pending' = pending \ {e}
        BY <1>7, ArtifactAssumption DEF VisitFile
  <2>2. Closed(seen, pending', OldFiles, {})
        BY <2>1, ClosedLeaf DEF FirstWalk
  <2>3. \A v \in seen : v.path \in OldFiles => KeptIn(files, v.path)'
        BY <1>7, <1>4 DEF VisitFile, FirstWalk, KeptIn
  <2> QED
      BY <1>4, <1>6, <2>2, <2>3 DEF FirstWalk
<1>8. CASE VisitDir(e)
  <2>1. Closed(seen, pending', OldFiles, {})
    <3>1. CASE e.depth < MaxScanDepth
      <4>1. pending' = (pending \ {e}) \cup Entries(e.path, e.depth + 1)
            BY <1>8, <3>1 DEF VisitDir
      <4> QED
          BY <4>1, <1>4, ClosedFolder DEF FirstWalk
    <3>2. CASE ~(e.depth < MaxScanDepth)
      <4>1. pending' = pending \ {e}
            BY <1>8, <3>2 DEF VisitDir
      <4> QED
          BY <4>1, <3>2, ClosedLeaf DEF FirstWalk
    <3> QED
        BY <3>1, <3>2
  <2>2. e.path \notin OldFiles /\ files' = files
        BY <1>8, <1>4, ArtifactAssumption DEF VisitDir, Types, Dated, Present
  <2>3. \A v \in seen : v.path \in OldFiles => KeptIn(files, v.path)'
        BY <2>2, <1>4 DEF FirstWalk, KeptIn
  <2> QED
      BY <1>4, <1>6, <2>1, <2>3 DEF FirstWalk
<1> QED
    BY <1>2, <1>7, <1>8

\* A step of the second walk: what it comes to, the first one has visited.
LEMMA FirstWalkedStep ==
    ASSUME Types, NEW visited \in SUBSET Entry, FirstWalked(visited), OldInBaseline,
           pc = "collect", Walk
    PROVE  FirstWalked(visited)' /\ OldInBaseline'
<1>1. UNCHANGED <<external, pc, baselineVars>>
      BY DEF Walk, SkipExcluded, VisitFile, VisitDir, VisitFails, LimitReached
<1>2. OldFiles' = OldFiles /\ disk' = disk /\ baseline' = baseline
      BY <1>1 DEF external, OldFiles, Present, baselineVars
<1>3. \A e \in pending' : e.path \in Dirs \cup OldFiles => e \in visited
  <2>1. CASE pending' \subseteq pending
        BY <2>1 DEF FirstWalked
  <2>2. CASE ~(pending' \subseteq pending)
    <3>1. PICK d \in pending : VisitDir(d)
          BY <2>2 DEF Walk, SkipExcluded, VisitFile, VisitFails, LimitReached
    <3>2. /\ d.path \in Dirs /\ d.depth < MaxScanDepth
          /\ pending' = (pending \ {d}) \cup Entries(d.path, d.depth + 1)
          BY <3>1, <2>2 DEF VisitDir
    <3>3. d \in visited
          BY <3>2 DEF FirstWalked
    <3>4. \A x \in DOMAIN Parent :
              Parent[x] = d.path /\ x \in Dirs \cup OldFiles =>
                  [path |-> x, depth |-> d.depth + 1] \in visited
          BY <3>2, <3>3 DEF FirstWalked, Closed
    <3>5. \A e \in Entries(d.path, d.depth + 1) :
              e.path \in Dirs \cup OldFiles => e \in visited
          BY <3>4 DEF Entries
    <3> QED
        BY <3>2, <3>5 DEF FirstWalked
  <2> QED
      BY <2>1, <2>2
<1>4. OldInBaseline'
  <2>1. CASE UNCHANGED files
        BY <2>1, <1>2 DEF OldInBaseline
  <2>2. CASE ~UNCHANGED files
    <3>1. PICK e \in pending : VisitFile(e)
          BY <2>2 DEF Walk, SkipExcluded, VisitDir, VisitFails, LimitReached
    <3>2. /\ e.path \in Present
          /\ files' = [x \in DOMAIN files \cup {e.path} |->
                          IF x = e.path THEN disk[x] ELSE files[x]]
          BY <3>1, <2>2 DEF VisitFile
    <3>3. disk[e.path].modified = 0 => KeptIn(baseline, e.path)
          BY <3>2 DEF FirstWalked, OldFiles
    <3> QED
        BY <3>2, <3>3, <1>2 DEF OldInBaseline, KeptIn
  <2> QED
      BY <2>1, <2>2
<1>5. Closed(visited, {}, OldFiles', {})
      BY <1>2 DEF FirstWalked
<1>6. \A e \in visited : e.path \in OldFiles' => KeptIn(baseline, e.path)'
      BY <1>2 DEF FirstWalked, KeptIn
<1> QED
    BY <1>1, <1>2, <1>3, <1>4, <1>5, <1>6 DEF FirstWalked

LEMMA OldWalk ==
    ASSUME Types, Old, Walk
    PROVE  Old'
<1>0. warned => warned'
      BY DEF Walk, SkipExcluded, VisitFile, VisitDir, VisitFails, LimitReached
<1>1. /\ pc' = pc /\ UNCHANGED <<baselineVars, records>>
      /\ pc \in {"baseline", "collect"}
      BY DEF Walk, SkipExcluded, VisitFile, VisitDir, VisitFails, LimitReached,
             Pop, copyVars
<1>2. CASE pc = "baseline"
  <2>1. ASSUME ~warned'
        PROVE  \E visited \in SUBSET Entry : FirstWalk(visited)'
    <3>1. PICK visited \in SUBSET Entry : FirstWalk(visited)
          BY <1>0, <1>2, <2>1 DEF Old
    <3> QED
        BY <3>1, <1>2, <2>1, FirstWalkStep
  <2> QED
      BY <2>1, <1>1, <1>2 DEF Old
<1>3. CASE pc = "collect"
  <2>1. ASSUME ~baselineWarned
        PROVE  (\E visited \in SUBSET Entry : FirstWalked(visited)') /\ OldInBaseline'
    <3>1. PICK visited \in SUBSET Entry : FirstWalked(visited)
          BY <1>3, <2>1 DEF Old
    <3>2. OldInBaseline
          BY <1>3, <2>1 DEF Old
    <3>3. FirstWalked(visited)' /\ OldInBaseline'
          BY <3>1, <3>2, <1>3, FirstWalkedStep
    <3> QED
        BY <3>3
  <2> QED
      BY <2>1, <1>1, <1>3 DEF Old, baselineVars
<1> QED
    BY <1>1, <1>2, <1>3

LEMMA OldHandle ==
    ASSUME Types, Old, Handle
    PROVE  Old'
<1>1. PICK f \in DOMAIN files :
          SkipUnchanged(f) \/ Copy(f) \/ CopyFails(f) \/ Reference(f)
      BY DEF Handle
<1>2. /\ Handled(f) /\ pc = "copy"
      /\ UNCHANGED <<pc, baselineVars>>
      BY <1>1 DEF SkipUnchanged, Copy, CopyFails, Reference, Changed
<1>3. ASSUME ~baselineWarned
      PROVE  OldInBaseline' /\ \A r \in records' : r.fingerprint.modified > 0
  <2>1. OldInBaseline /\ \A r \in records : r.fingerprint.modified > 0
        BY <1>2, <1>3 DEF Old
  <2>2. OldInBaseline'
        BY <1>2, <2>1 DEF OldInBaseline, Handled, Restrict, baselineVars
  <2>3. files[f].modified \in Nat
        BY DEF Types, Dated, Fingerprint
  <2>4. CASE SkipUnchanged(f)
        BY <2>1, <2>2, <2>4 DEF SkipUnchanged, copyVars
  <2>5. CASE ~SkipUnchanged(f)
    <3>1. /\ ~Unchanged(f)
          /\ \A r \in records' : r \in records \/ r.fingerprint = files[f]
          BY <1>1, <2>5 DEF Copy, CopyFails, Reference, Changed, Record
    <3>2. files[f].modified > 0
          BY <2>1, <2>3, <3>1 DEF OldInBaseline, Unchanged
    <3> QED
        BY <2>1, <2>2, <3>1, <3>2
  <2> QED
      BY <2>4, <2>5
<1> QED
    BY <1>2, <1>3 DEF Old, baselineVars

LEMMA OldNext ==
    ASSUME Types, Stages, Old, [Next]_vars
    PROVE  Old'
<1>1. CASE OtherPrograms
      BY <1>1, OldOtherPrograms
<1>2. CASE Walk
      BY <1>2, OldWalk
<1>3. CASE Handle
      BY <1>3, OldHandle
<1>4. CASE BaselineDone
  <2>1. /\ pc = "baseline" /\ pc' = "recording" /\ pending = {}
        /\ baseline' = files /\ baselineWarned' = warned
        /\ UNCHANGED external
        BY <1>4 DEF BaselineDone
  <2>2. ASSUME ~warned
        PROVE  \E visited \in SUBSET Entry : FirstWalked(visited)'
    <3>1. PICK visited \in SUBSET Entry : FirstWalk(visited)
          BY <2>1, <2>2 DEF Old
    <3>2. OldFiles' = OldFiles /\ disk' = disk
          BY <2>1 DEF external, OldFiles, Present
    <3>3. Closed(visited, {}, OldFiles', {})
          BY <2>1, <3>1, <3>2 DEF FirstWalk
    <3>4. \A e \in visited : e.path \in OldFiles' => KeptIn(baseline, e.path)'
          BY <2>1, <3>1, <3>2 DEF FirstWalk, KeptIn
    <3> QED
        BY <2>1, <3>3, <3>4 DEF FirstWalked
  <2> QED
      BY <2>1, <2>2 DEF Old
<1>5. CASE CaptureFails \/ CollectFails
      BY <1>5 DEF CaptureFails, CollectFails, Old
<1>6. CASE BeginCollect
  <2>1. /\ pc = "recording" /\ pc' = "collect" /\ pending' = RootEntries
        /\ UNCHANGED <<external, files, baselineVars>>
        BY <1>6 DEF BeginCollect
  <2>2. OldInBaseline'
        BY <2>1 DEF Stages, OldInBaseline, Nothing
  <2>3. ASSUME ~baselineWarned
        PROVE  \E visited \in SUBSET Entry : FirstWalked(visited)'
    <3>1. PICK visited \in SUBSET Entry : FirstWalked(visited)
          BY <2>1, <2>3 DEF Old
    <3>2. OldFiles' = OldFiles /\ disk' = disk /\ baseline' = baseline
          BY <2>1 DEF external, OldFiles, Present, baselineVars
    <3>3. Closed(visited, {}, OldFiles', {})
          BY <3>1, <3>2 DEF FirstWalked
    <3>4. \A e \in visited : e.path \in OldFiles' => KeptIn(baseline, e.path)'
          BY <3>1, <3>2 DEF FirstWalked, KeptIn
    <3>5. pending' \subseteq visited
          BY <2>1, <3>3 DEF Closed
    <3> QED
        BY <3>3, <3>4, <3>5 DEF FirstWalked
  <2> QED
      BY <2>1, <2>2, <2>3 DEF Old, baselineVars
<1>7. CASE WalkDone
  <2>1. /\ pc = "collect" /\ pc' = "copy" /\ records' = {}
        /\ UNCHANGED <<files, baselineVars>>
        BY <1>7 DEF WalkDone, Stages, copyVars
  <2> QED
      BY <2>1 DEF Old, OldInBaseline, baselineVars
<1>8. CASE CollectDone
      BY <1>8 DEF CollectDone, Old, baselineVars, copyVars
<1>9. CASE UNCHANGED vars
  <2>1. /\ UNCHANGED <<pc, pending, files, warned, baseline, baselineWarned, records>>
        /\ OldFiles' = OldFiles /\ disk' = disk
        BY <1>9 DEF vars, external, scanVars, baselineVars, copyVars, OldFiles, Present
  <2>2. ASSUME NEW visited \in SUBSET Entry
        PROVE  /\ FirstWalk(visited) => FirstWalk(visited)'
               /\ FirstWalked(visited) => FirstWalked(visited)'
        BY <2>1 DEF FirstWalk, FirstWalked, KeptIn
  <2> QED
      BY <2>1, <2>2 DEF Old, OldInBaseline
<1> QED
    BY <1>1, <1>2, <1>3, <1>4, <1>5, <1>6, <1>7, <1>8, <1>9 DEF Next, Over

-----------------------------------------------------------------------------
(* The second walk.                                                         *)

LEMMA SettledOtherPrograms ==
    ASSUME Types, Settled, OtherPrograms
    PROVE  Settled'
<1>1. UNCHANGED <<pc, scanVars, baselineVars, copyVars>>
      BY DEF OtherPrograms, Delete, Write, Touch
<1>2. /\ SettledFiles' \subseteq SettledFiles
      /\ \A f \in SettledFiles' : disk'[f] = disk[f]
      BY SetsShrink
<1>3. ASSUME pc' = "collect", ~warned'
      PROVE  \E visited \in SUBSET Entry : SecondWalk(visited)'
  <2>1. PICK visited \in SUBSET Entry : SecondWalk(visited)
        BY <1>1, <1>3 DEF Settled, scanVars
  <2>2. Closed(visited, pending', SettledFiles', Below(SessionDir))
        BY <2>1, <1>1, <1>2, ClosedShrinks DEF SecondWalk, scanVars
  <2>3. \A e \in visited :
            e.path \in SettledFiles' \ Below(SessionDir) => KeptIn(files, e.path)'
        BY <2>1, <1>1, <1>2 DEF SecondWalk, KeptIn, scanVars
  <2> QED
      BY <2>1, <2>2, <2>3 DEF SecondWalk
<1>4. ASSUME pc' \in {"copy", "done"}, ~warned'
      PROVE  \E visited \in SUBSET Entry : SecondWalked(visited)'
  <2>1. PICK visited \in SUBSET Entry : SecondWalked(visited)
        BY <1>1, <1>4 DEF Settled, scanVars
  <2>2. Closed(visited, {}, SettledFiles', Below(SessionDir))
        BY <2>1, <1>2, ClosedShrinks DEF SecondWalked
  <2>3. \A e \in visited :
            e.path \in SettledFiles' \ Below(SessionDir) =>
                KeptIn(files, e.path)' \/ Recorded(e.path)'
        BY <2>1, <1>1, <1>2 DEF SecondWalked, KeptIn, Recorded, scanVars, copyVars
  <2> QED
      BY <2>1, <2>2, <2>3 DEF SecondWalked
<1> QED
    BY <1>3, <1>4 DEF Settled

LEMMA SecondWalkStep ==
    ASSUME Types, NEW visited \in SUBSET Entry, SecondWalk(visited),
           pc = "collect", Walk, ~warned'
    PROVE  \E V \in SUBSET Entry : SecondWalk(V)'
<1>1. PICK e \in pending : SkipExcluded(e) \/ VisitFile(e) \/ VisitDir(e)
      BY DEF Walk, VisitFails, LimitReached
<1>2. UNCHANGED <<external, times>>
      BY <1>1 DEF SkipExcluded, VisitFile, VisitDir
<1>3. /\ SettledFiles' = SettledFiles /\ disk' = disk
      /\ SettledFiles \subseteq Present
      BY <1>2 DEF external, times, SettledFiles, Present
<1> DEFINE seen == visited \cup {e}
           tree == Below(SessionDir)
<1>4. seen \in SUBSET Entry
      BY DEF Types
<1>5. Closed(visited, pending, SettledFiles, tree)
      BY DEF SecondWalk
<1>6. ASSUME Closed(seen, pending', SettledFiles, tree),
             \A v \in seen : v.path \in SettledFiles \ tree => KeptIn(files, v.path)'
      PROVE  \E V \in SUBSET Entry : SecondWalk(V)'
      BY <1>3, <1>4, <1>6 DEF SecondWalk
<1>7. CASE SkipExcluded(e)
  <2>1. e.path \in tree /\ pending' = pending \ {e} /\ files' = files
        BY <1>7 DEF SkipExcluded, Excluded
  <2>2. Closed(seen, pending', SettledFiles, tree)
        BY <2>1, <1>5, ClosedLeaf
  <2>3. \A v \in seen : v.path \in SettledFiles \ tree => KeptIn(files, v.path)'
        BY <2>1, <1>3 DEF SecondWalk, KeptIn
  <2> QED
      BY <2>2, <2>3, <1>6
<1>8. CASE VisitFile(e)
  <2>1. e.path \notin Dirs /\ pending' = pending \ {e}
        BY <1>8, ArtifactAssumption DEF VisitFile
  <2>2. Closed(seen, pending', SettledFiles, tree)
        BY <2>1, <1>5, ClosedLeaf
  <2>3. \A v \in seen : v.path \in SettledFiles \ tree => KeptIn(files, v.path)'
        BY <1>8, <1>3 DEF VisitFile, SecondWalk, KeptIn
  <2> QED
      BY <2>2, <2>3, <1>6
<1>9. CASE VisitDir(e)
  <2>1. Closed(seen, pending', SettledFiles, tree)
    <3>1. CASE e.depth < MaxScanDepth
      <4>1. pending' = (pending \ {e}) \cup Entries(e.path, e.depth + 1)
            BY <1>9, <3>1 DEF VisitDir
      <4> QED
          BY <4>1, <1>3, <1>5, ClosedFolder
    <3>2. CASE ~(e.depth < MaxScanDepth)
      <4>1. pending' = pending \ {e}
            BY <1>9, <3>2 DEF VisitDir
      <4> QED
          BY <4>1, <3>2, <1>5, ClosedLeaf
    <3> QED
        BY <3>1, <3>2
  <2>2. e.path \notin SettledFiles /\ files' = files
        BY <1>9, <1>3, ArtifactAssumption DEF VisitDir, Types, Dated, Present
  <2>3. \A v \in seen : v.path \in SettledFiles \ tree => KeptIn(files, v.path)'
        BY <2>2, <1>3 DEF SecondWalk, KeptIn
  <2> QED
      BY <2>1, <2>3, <1>6
<1> QED
    BY <1>1, <1>7, <1>8, <1>9

\* A settled file that is handled is recorded: the baseline is from before it
\* was written.
LEMMA SecondWalkedStep ==
    ASSUME Types, NEW visited \in SUBSET Entry, SecondWalked(visited), Handle
    PROVE  SecondWalked(visited)'
<1>1. PICK f \in DOMAIN files :
          SkipUnchanged(f) \/ Copy(f) \/ CopyFails(f) \/ Reference(f)
      BY DEF Handle
<1>2. Handled(f) /\ UNCHANGED <<external, times>>
      BY <1>1 DEF SkipUnchanged, Copy, CopyFails, Reference, Changed
<1>3. SettledFiles' = SettledFiles /\ disk' = disk
      BY <1>2 DEF external, times, SettledFiles, Present
<1>4. records \subseteq records'
      BY <1>1 DEF SkipUnchanged, Copy, CopyFails, Reference, Record, copyVars
<1>5. ASSUME f \in SettledFiles, KeptIn(files, f)
      PROVE  Recorded(f)'
  <2>1. ~Unchanged(f)
    <3>1. /\ disk[f].modified \in Nat /\ baselineEnd \in Nat
          /\ baselineEnd < disk[f].modified
          BY <1>5 DEF SettledFiles, Types, Dated, Fingerprint, Present
    <3>2. f \in DOMAIN baseline =>
              baseline[f].modified \in Nat /\ baseline[f].modified <= baselineEnd
          BY DEF Types, Dated, Fingerprint
    <3> QED
        BY <3>1, <3>2, <1>5 DEF Unchanged, KeptIn
  <2>2. \E status, change :
            [path |-> f, fingerprint |-> files[f], status |-> status,
             change |-> change] \in records'
        BY <1>1, <2>1 DEF SkipUnchanged, Copy, CopyFails, Reference, Record
  <2> QED
      BY <2>2, <1>3, <1>5 DEF Recorded, KeptIn
<1>6. \A x \in SettledFiles :
          KeptIn(files, x) \/ Recorded(x) => KeptIn(files, x)' \/ Recorded(x)'
  <2> SUFFICES ASSUME NEW x \in SettledFiles, KeptIn(files, x) \/ Recorded(x)
               PROVE  KeptIn(files, x)' \/ Recorded(x)'
      OBVIOUS
  <2>1. CASE Recorded(x)
        BY <2>1, <1>3, <1>4 DEF Recorded
  <2>2. CASE x = f
        BY <2>1, <2>2, <1>5
  <2>3. CASE x # f /\ KeptIn(files, x)
        BY <2>3, <1>2, <1>3 DEF KeptIn, Handled, Restrict
  <2> QED
      BY <2>1, <2>2, <2>3
<1> QED
    BY <1>3, <1>6 DEF SecondWalked

LEMMA SettledNext ==
    ASSUME Types, Stages, Settled, [Next]_vars
    PROVE  Settled'
<1>1. CASE OtherPrograms
      BY <1>1, SettledOtherPrograms
<1>2. CASE Walk
  <2>1. pc' = pc /\ pc \in {"baseline", "collect"}
        BY <1>2 DEF Walk, SkipExcluded, VisitFile, VisitDir, VisitFails,
                    LimitReached, Pop
  <2>2. warned => warned'
        BY <1>2 DEF Walk, SkipExcluded, VisitFile, VisitDir, VisitFails, LimitReached
  <2>3. ASSUME pc = "collect", ~warned'
        PROVE  \E visited \in SUBSET Entry : SecondWalk(visited)'
    <3>1. PICK visited \in SUBSET Entry : SecondWalk(visited)
          BY <2>2, <2>3 DEF Settled
    <3> QED
        BY <3>1, <1>2, <2>3, SecondWalkStep
  <2> QED
      BY <2>1, <2>3 DEF Settled
<1>3. CASE Handle
  <2>1. /\ pc = "copy" /\ pc' = pc
        /\ warned => warned'
        BY <1>3 DEF Handle, SkipUnchanged, Copy, CopyFails, Reference, Changed
  <2>2. ASSUME ~warned'
        PROVE  \E visited \in SUBSET Entry : SecondWalked(visited)'
    <3>1. PICK visited \in SUBSET Entry : SecondWalked(visited)
          BY <2>1, <2>2 DEF Settled
    <3> QED
        BY <3>1, <1>3, SecondWalkedStep
  <2> QED
      BY <2>1, <2>2 DEF Settled
<1>4. CASE BaselineDone \/ CaptureFails \/ CollectFails
      BY <1>4 DEF BaselineDone, CaptureFails, CollectFails, Settled
<1>5. CASE BeginCollect
  <2>1. pc' = "collect" /\ pending' = RootEntries
        BY <1>5 DEF BeginCollect
  <2>2. SecondWalk({})'
        BY <2>1 DEF SecondWalk, Closed
  <2> QED
      BY <2>1, <2>2 DEF Settled
<1>6. CASE WalkDone
  <2>1. /\ pc = "collect" /\ pc' = "copy" /\ pending = {}
        /\ warned => warned'
        /\ UNCHANGED <<external, times, files>>
        BY <1>6 DEF WalkDone
  <2>2. SettledFiles' = SettledFiles /\ disk' = disk
        BY <2>1 DEF external, times, SettledFiles, Present
  <2>3. ASSUME ~warned'
        PROVE  \E visited \in SUBSET Entry : SecondWalked(visited)'
    <3>1. PICK visited \in SUBSET Entry : SecondWalk(visited)
          BY <2>1, <2>3 DEF Settled
    <3>2. Closed(visited, {}, SettledFiles', Below(SessionDir))
          BY <2>1, <2>2, <3>1 DEF SecondWalk
    <3>3. \A e \in visited :
              e.path \in SettledFiles' \ Below(SessionDir) => KeptIn(files, e.path)'
          BY <2>1, <2>2, <3>1 DEF SecondWalk, KeptIn
    <3> QED
        BY <3>2, <3>3 DEF SecondWalked
  <2> QED
      BY <2>1, <2>3 DEF Settled
<1>7. CASE CollectDone \/ UNCHANGED vars
  <2>1. /\ UNCHANGED <<pending, files, warned, records>>
        /\ SettledFiles' = SettledFiles /\ disk' = disk
        /\ pc' = "collect" => pc = "collect"
        /\ pc' \in {"copy", "done"} => pc \in {"copy", "done"}
        BY <1>7 DEF CollectDone, vars, external, scanVars, copyVars, times,
                    SettledFiles, Present
  <2>2. ASSUME NEW visited \in SUBSET Entry
        PROVE  /\ SecondWalk(visited) => SecondWalk(visited)'
               /\ SecondWalked(visited) => SecondWalked(visited)'
        BY <2>1 DEF SecondWalk, SecondWalked, KeptIn, Recorded
  <2> QED
      BY <2>1, <2>2 DEF Settled
<1> QED
    BY <1>1, <1>2, <1>3, <1>4, <1>5, <1>6, <1>7 DEF Next, Over

-----------------------------------------------------------------------------
(* The inductive invariant.                                                 *)

LEMMA Initial == Init => IInv
<1> SUFFICES ASSUME Init PROVE IInv
    OBVIOUS
<1>1. Types
      BY TypesInit
<1>2. Stages
      BY DEF Init, Stages
<1>3. Copies
      BY ArtifactAssumption DEF Init, Copies
<1>4. FirstWalk({})
      BY DEF Init, FirstWalk, Closed
<1>5. Old
      BY <1>4 DEF Init, Old
<1>6. Settled
      BY DEF Init, Settled
<1> QED
    BY <1>1, <1>2, <1>3, <1>5, <1>6 DEF IInv

LEMMA Inductive == IInv /\ [Next]_vars => IInv'
BY TypesNext, StagesNext, CopiesNext, OldNext, SettledNext DEF IInv

\* In every state a set of visited paths tells what the walks may have missed,
\* although scan_roots keeps none.
THEOREM Invariance == Spec => []IInv
    BY Initial, Inductive, PTL DEF Spec

\* The copies stay within max_total_copy_bytes: collect counts every file
\* before it takes the next one, and a copy longer than its fingerprint, or
\* one that fails half way, is all that can go beyond it.
THEOREM CopiesSafe == Spec => []CopiesWithinLimit
<1>1. IInv => CopiesWithinLimit
      BY ArtifactAssumption DEF IInv, Types, Copies, CopiesWithinLimit
<1> QED
    BY <1>1, Invariance, PTL

\* What nobody has touched since before the session is never recorded by
\* collect unless there is a warning: whatever old comes up in the second walk,
\* the first one has visited, and Unchanged passes it over.
THEOREM OldSafe == Spec => []NothingOldRecorded
<1>1. IInv => NothingOldRecorded
      BY DEF IInv, Stages, Old, NothingOldRecorded
<1> QED
    BY <1>1, Invariance, PTL

\* Along a way from a root to a settled file, the second walk has visited
\* every folder and the file itself: no first step of the way is missing.
LEMMA WayVisited ==
    ASSUME Types, NEW visited \in SUBSET Entry, SecondWalked(visited),
           NEW n \in 0..MaxScanDepth, NEW way \in [0..n -> Paths],
           way[0] \in Roots, way[n] \in SettledFiles,
           \A i \in 1..n : way[i] \in DOMAIN Parent /\ Parent[way[i]] = way[i - 1],
           \A i \in 0..n : way[i] \notin Below(SessionDir)
    PROVE  [path |-> way[n], depth |-> n] \in visited
<1> DEFINE At(i) == [path |-> way[i], depth |-> i]
           missed == {i \in 0..n : At(i) \notin visited}
<1>1. n \in Nat /\ MaxScanDepth \in Nat /\ n <= MaxScanDepth
      BY ArtifactAssumption
<1>2. SUFFICES missed = {}
      BY <1>1
<1>3. SUFFICES ASSUME missed # {} PROVE FALSE
      OBVIOUS
<1> DEFINE less == {ss \in Nat \X Nat : ss[1] < ss[2]}
<1>4. IsWellFoundedOn(less, Nat)
      BY NatLessThanWellFounded DEF OpToRel
<1>5. PICK i \in missed : \A j \in missed : ~(<<j, i>> \in less)
  <2>1. missed \subseteq Nat
        BY <1>1
  <2> HIDE DEF less, missed
  <2> QED
      BY <1>3, <1>4, <2>1, WFMin
<1>6. i \in 0..n /\ At(i) \notin visited
      OBVIOUS
<1>7. ASSUME NEW j \in 0..n, j < i
      PROVE  At(j) \in visited
  <2>1. j \in Nat /\ i \in Nat
        BY <1>1, <1>6
  <2>2. <<j, i>> \in less
        BY <2>1, <1>7
  <2>3. j \notin missed
        BY <1>5, <2>2
  <2> QED
      BY <2>3
<1>8. i # 0
  <2>1. At(0) \in RootEntries
        BY DEF RootEntries
  <2>2. At(0) \in visited
        BY <2>1 DEF SecondWalked, Closed
  <2> QED
      BY <1>6, <2>2
<1>9. /\ i \in 1..n /\ i - 1 \in 0..n /\ i - 1 < i /\ i - 1 < MaxScanDepth
      /\ (i - 1) + 1 = i
      BY <1>1, <1>6, <1>8
<1>10. At(i - 1) \in visited
       BY <1>7, <1>9
<1>11. way[i] \in DOMAIN Parent /\ Parent[way[i]] = way[i - 1]
       BY <1>9
<1>12. way[i - 1] \in Dirs \ Below(SessionDir)
       BY <1>9, <1>11, ArtifactAssumption
<1>13. way[i] \in Dirs \cup SettledFiles
  <2>1. CASE i = n
        BY <2>1
  <2>2. CASE i # n
    <3>1. i + 1 \in 1..n /\ (i + 1) - 1 = i
          BY <1>1, <1>6, <2>2
    <3>2. way[i + 1] \in DOMAIN Parent /\ Parent[way[i + 1]] = way[i]
          BY <3>1
    <3> QED
        BY <3>2, ArtifactAssumption
  <2> QED
      BY <2>1, <2>2
<1>14. [path |-> way[i], depth |-> (i - 1) + 1] \in visited
       BY <1>9, <1>10, <1>11, <1>12, <1>13 DEF SecondWalked, Closed
<1> QED
    BY <1>6, <1>9, <1>14

\* What was written after the baseline, and left alone from when the second walk
\* began, is recorded by collect as it is on disk, unless there is a warning:
\* the walk gets to it, sees that it is not what the baseline has, and neither
\* a limit on the copies nor a failed one keeps it out of the records.
THEOREM ChangesSafe == Spec => []EveryChangeRecorded
<1>1. ASSUME IInv, pc = "done", ~warned, NEW f \in Present, InReach(f),
             baselineEnd < disk[f].modified, disk[f].modified <= collectStart
      PROVE  Recorded(f)
  <2>1. f \in SettledFiles
        BY <1>1 DEF SettledFiles
  <2>2. PICK visited \in SUBSET Entry : SecondWalked(visited)
        BY <1>1 DEF IInv, Settled
  <2>3. PICK n \in 0..MaxScanDepth :
            \E way \in [0..n -> Paths] :
                /\ way[0] \in Roots /\ way[n] = f
                /\ \A i \in 1..n :
                      way[i] \in DOMAIN Parent /\ Parent[way[i]] = way[i - 1]
                /\ \A i \in 0..n : way[i] \notin Below(SessionDir)
        BY <1>1 DEF InReach
  <2>4. PICK way \in [0..n -> Paths] :
            /\ way[0] \in Roots /\ way[n] = f
            /\ \A i \in 1..n : way[i] \in DOMAIN Parent /\ Parent[way[i]] = way[i - 1]
            /\ \A i \in 0..n : way[i] \notin Below(SessionDir)
        BY <2>3
  <2>5. [path |-> f, depth |-> n] \in visited
        BY <1>1, <2>1, <2>2, <2>4, WayVisited DEF IInv
  <2>6. f \notin Below(SessionDir)
        BY <2>4, ArtifactAssumption
  <2>7. KeptIn(files, f) \/ Recorded(f)
        BY <2>1, <2>2, <2>5, <2>6 DEF SecondWalked
  <2> QED
      BY <1>1, <2>7 DEF IInv, Stages, KeptIn
<1>2. IInv => EveryChangeRecorded
      BY <1>1 DEF EveryChangeRecorded, Recorded
<1> QED
    BY <1>2, Invariance, PTL
=============================================================================
