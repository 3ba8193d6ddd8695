-------------------------- MODULE CrashReportProofs --------------------------
(***************************************************************************)
(* Proofs about CrashReport, for all hangs, windows, tolerances, limits    *)
(* and clocks.  With IInv: evidence stays on the time axis of the samples  *)
(* up to the error SkewBounded names, and hangs from before the session do *)
(* not get in.  With JInv, which adds to IInv how signals, the backfill    *)
(* and the bookmarks hang together: a stopped session shows the hangs its  *)
(* final scan found, and counts none too often.                            *)
(***************************************************************************)
EXTENDS CrashReport, FiniteSetTheorems, TLAPS

Phases == {"idle", "starting", "recording", "stopping", "joining", "joined", "collected",
           "complete", "crashed", "recovered"}

\* The session has its clock.
Live == phase \notin {"idle", "starting"}

\* How far ahead of Instant::now() the wall clock was when the clock was made.
Ahead == clock - origin

\* Types.
Types ==
    /\ now \in Nat /\ shift \in Int /\ drift \in Nat
    /\ phase \in Phases
    /\ started \in Int /\ origin \in Nat /\ clock \in Int
    /\ queryFrom \in Int /\ finalFrom \in Int
    /\ \A h \in DOMAIN hangs : hangs[h].at \in Nat /\ hangs[h].dump \in Int
    /\ DOMAIN reports \subseteq DOMAIN hangs
    /\ \A h \in DOMAIN reports : reports[h].at \in Nat /\ reports[h].utc \in Int

\* What a report and a dump's name can be off the wall clock `ahead`.
ReportNear(h, ahead) ==
    /\ reports[h].utc - reports[h].at <= ahead + drift
    /\ ahead - drift <= reports[h].utc - reports[h].at

DumpNear(h, ahead) ==
    /\ hangs[h].dump - hangs[h].at <= ahead + drift
    /\ ahead - drift < hangs[h].dump - hangs[h].at + Minute

\* The wall clock has moved by no more than drift, since any report, any hang
\* and the making of the clock.
Clocks ==
    /\ \A h \in DOMAIN reports : ReportNear(h, shift)
    /\ \A h \in DOMAIN hangs : DumpNear(h, shift)
    /\ Live =>
         /\ shift <= Ahead + drift /\ Ahead - drift <= shift
         /\ \A h \in DOMAIN reports : ReportNear(h, Ahead)
         /\ \A h \in DOMAIN hangs : DumpNear(h, Ahead)

\* Where each kind of evidence was placed, and which filter it passed.
Placed(r) ==
    /\ r.hang \in DOMAIN reports
    /\ r.by \in {"poll", "backfill", "recovery", "artifact"}
    /\ r.by = "poll" => r.ns = Since(clock, reports[r.hang].utc)
                        /\ hangs[r.hang].dump >= clock - Grace
    /\ r.by \in {"backfill", "recovery"} => r.ns = Since(started, reports[r.hang].utc)
                                            /\ hangs[r.hang].dump >= started - Grace
    /\ r.by = "artifact" => r.ns = Since(clock, hangs[r.hang].dump)
                            /\ hangs[r.hang].dump >= clock - Grace

Placement ==
    /\ \A r \in rows \cup marks : Placed(r)
    /\ \A s \in signals : s \in DOMAIN reports /\ hangs[s].dump >= clock - Grace
    /\ Live \/ (rows = {} /\ marks = {} /\ signals = {})

IInv == Types /\ Clocks /\ Placement

-----------------------------------------------------------------------------
(* What the actions are built from.                                        *)

\* The name of a dump leaves out less than a minute.
LEMMA MinuteBelow ==
    ASSUME NEW t \in Int
    PROVE  MinuteOf(t) \in Int /\ MinuteOf(t) <= t /\ t < MinuteOf(t) + Minute
<1>1. Minute \in Nat /\ Minute > 0
  BY CrashReportAssumption
<1>2. /\ t = Minute * (t \div Minute) + (t % Minute)
      /\ t \div Minute \in Int /\ t % Minute \in 0..(Minute - 1)
  BY <1>1
<1>. QED
  BY <1>1, <1>2 DEF MinuteOf

\* Clamping at an origin brings times no further apart than they were.
LEMMA Clamping ==
    ASSUME NEW a \in Int, NEW b \in Int, NEW c \in Int, NEW d \in Int, NEW e \in Int,
           (b - a) - (d - c) <= e, (d - c) - (b - a) <= e
    PROVE  Distance(Since(a, b), Since(c, d)) <= e
  BY DEF Since, Distance

-----------------------------------------------------------------------------
(* IInv is inductive.                                                      *)

LEMMA Initial == Init => IInv
<1> SUFFICES ASSUME Init PROVE IInv
  OBVIOUS
<1>1. DOMAIN hangs = {} /\ DOMAIN reports = {}
  BY DEF Init
<1>2. Types
  BY <1>1 DEF Init, Types, Phases
<1>3. Clocks
  BY <1>1 DEF Init, Clocks, Live
<1>4. Placement
  BY DEF Init, Placement
<1>. QED
  BY <1>2, <1>3, <1>4 DEF IInv

\* Evidence stays where it is as long as the times of its hang and its report
\* and the origins it was placed from do.
LEMMA StaysPlaced ==
    ASSUME NEW r, Placed(r), DOMAIN reports \subseteq DOMAIN reports',
           \A h \in DOMAIN reports : reports'[h] = reports[h] /\ hangs'[h] = hangs[h],
           UNCHANGED <<clock, started>>
    PROVE  Placed(r)'
  BY DEF Placed, Since

\* Steps that leave what IInv speaks of alone, but for the place in the session
\* and for evidence that is removed.
LEMMA Quiet ==
    ASSUME IInv, UNCHANGED <<now, shift, drift, hangs, reports, started, origin, clock>>,
           queryFrom' \in Int, finalFrom' \in Int,
           rows' = rows, marks' = marks, signals' = signals,
           phase' \in Phases, Live' <=> Live
    PROVE  IInv'
<1>1. Types'
  BY DEF IInv, Types
<1>2. Clocks'
  BY DEF IInv, Clocks, ReportNear, DumpNear, Ahead
<1>3. Placement'
  BY DEF IInv, Placement, Placed, Since
<1>. QED
  BY <1>1, <1>2, <1>3 DEF IInv

LEMMA TickStep == ASSUME IInv, Tick PROVE IInv'
<1> USE DEF Tick, windows, startVars, pollVars, stopVars, dbVars
<1>1. Types'
  BY DEF IInv, Types
<1>2. Clocks'
  BY DEF IInv, Clocks, ReportNear, DumpNear, Ahead, Live
<1>3. Placement'
  BY DEF IInv, Placement, Placed, Since, Live
<1>. QED
  BY <1>1, <1>2, <1>3 DEF IInv

LEMMA SetClockStep == ASSUME IInv, NEW d \in Int, SetClock(d) PROVE IInv'
<1> USE DEF SetClock, windows, startVars, pollVars, stopVars, dbVars
<1>1. /\ shift' = shift + d /\ shift \in Int /\ drift \in Nat /\ drift' \in Nat
      /\ drift + d <= drift' /\ drift - d <= drift' /\ drift <= drift'
  BY DEF IInv, Types, Distance
<1>2. Types'
  BY <1>1 DEF IInv, Types
<1>3. Clocks'
  <2>1. ASSUME NEW h \in DOMAIN reports PROVE ReportNear(h, shift)'
    BY <1>1, <2>1 DEF IInv, Types, Clocks, ReportNear
  <2>2. ASSUME NEW h \in DOMAIN hangs PROVE DumpNear(h, shift)'
    BY <1>1, <2>2, CrashReportAssumption DEF IInv, Types, Clocks, DumpNear
  <2>3. ASSUME Live
        PROVE  /\ (shift <= Ahead + drift /\ Ahead - drift <= shift)'
               /\ \A h \in DOMAIN reports : ReportNear(h, Ahead)'
               /\ \A h \in DOMAIN hangs : DumpNear(h, Ahead)'
    BY <1>1, <2>3, CrashReportAssumption DEF IInv, Types, Clocks, ReportNear, DumpNear, Ahead
  <2>. QED
    BY <2>1, <2>2, <2>3 DEF Clocks, Live
<1>4. Placement'
  BY DEF IInv, Placement, Placed, Since, Live
<1>. QED
  BY <1>2, <1>3, <1>4 DEF IInv

LEMMA HangStep == ASSUME IInv, NEW h \in Hangs, Hang(h) PROVE IInv'
<1> USE DEF timeVars, startVars, pollVars, stopVars, dbVars
<1>1. /\ DOMAIN hangs' = DOMAIN hangs \cup {h}
      /\ hangs'[h] = [at |-> now, dump |-> MinuteOf(Wall)]
      /\ \A x \in DOMAIN hangs : hangs'[x] = hangs[x]
      /\ h \notin DOMAIN hangs
      /\ UNCHANGED <<now, shift, drift, reports, phase, startVars, pollVars, stopVars, dbVars>>
  BY DEF Hang, With
<1>2. /\ now \in Nat /\ shift \in Int /\ drift \in Nat /\ MinuteOf(Wall) \in Int
      /\ MinuteOf(Wall) - now <= shift /\ shift < MinuteOf(Wall) - now + Minute
      /\ Minute \in Nat
  <2>1. now \in Nat /\ shift \in Int /\ drift \in Nat /\ Wall = now + shift
    BY DEF IInv, Types, Wall
  <2>. QED
    BY <2>1, MinuteBelow, CrashReportAssumption
<1>3. Types'
  BY <1>1, <1>2 DEF IInv, Types
<1>4. Clocks'
  <2>1. ASSUME NEW x \in DOMAIN reports PROVE ReportNear(x, shift)'
    BY <1>1, <2>1 DEF IInv, Clocks, ReportNear
  <2>2. ASSUME NEW x \in DOMAIN hangs' PROVE DumpNear(x, shift)'
    BY <1>1, <1>2, <2>2 DEF IInv, Clocks, DumpNear
  <2>3. ASSUME Live
        PROVE  /\ (shift <= Ahead + drift /\ Ahead - drift <= shift)'
               /\ \A x \in DOMAIN reports : ReportNear(x, Ahead)'
    BY <1>1, <2>3 DEF IInv, Clocks, ReportNear, Ahead
  <2>4. ASSUME Live, NEW x \in DOMAIN hangs' PROVE DumpNear(x, Ahead)'
    <3>1. CASE x = h
      <4>1. Ahead \in Int /\ shift <= Ahead + drift /\ Ahead - drift <= shift
        BY <2>4 DEF IInv, Types, Clocks, Ahead
      <4>2. Ahead' = Ahead
        BY <1>1 DEF Ahead
      <4>. QED
        BY <1>1, <1>2, <3>1, <4>1, <4>2 DEF DumpNear
    <3>2. CASE x # h
      BY <1>1, <2>4, <3>2 DEF IInv, Clocks, DumpNear, Ahead
    <3>. QED
      BY <3>1, <3>2
  <2>. QED
    BY <1>1, <2>1, <2>2, <2>3, <2>4 DEF Clocks, Live
<1>5. Placement'
  <2>1. ASSUME NEW r \in rows \cup marks PROVE Placed(r)'
    <3>1. Placed(r) /\ DOMAIN reports \subseteq DOMAIN hangs
      BY <2>1 DEF IInv, Types, Placement
    <3>. QED
      BY <1>1, <3>1, StaysPlaced
  <2>2. \A s \in signals : s \in DOMAIN reports /\ hangs'[s].dump >= clock - Grace
    BY <1>1 DEF IInv, Types, Placement
  <2>. QED
    BY <1>1, <2>1, <2>2 DEF IInv, Placement, Live
<1>. QED
  BY <1>3, <1>4, <1>5 DEF IInv

LEMMA ReportStep == ASSUME IInv, NEW h \in Hangs, Report(h) PROVE IInv'
<1> USE DEF timeVars, startVars, pollVars, stopVars, dbVars
<1>1. /\ DOMAIN reports' = DOMAIN reports \cup {h}
      /\ reports'[h] = [at |-> now, utc |-> Wall]
      /\ \A x \in DOMAIN reports : reports'[x] = reports[x]
      /\ h \in DOMAIN hangs /\ h \notin DOMAIN reports
      /\ UNCHANGED <<now, shift, drift, hangs, phase, startVars, pollVars, stopVars, dbVars>>
  BY DEF Report, With
<1>2. now \in Nat /\ shift \in Int /\ drift \in Nat /\ Wall = now + shift
  BY DEF IInv, Types, Wall
<1>3. Types'
  BY <1>1, <1>2 DEF IInv, Types
<1>4. Clocks'
  <2>1. ASSUME NEW x \in DOMAIN reports' PROVE ReportNear(x, shift)'
    BY <1>1, <1>2, <2>1 DEF IInv, Clocks, ReportNear
  <2>2. \A x \in DOMAIN hangs : DumpNear(x, shift)'
    BY <1>1 DEF IInv, Clocks, DumpNear
  <2>3. ASSUME Live
        PROVE  /\ (shift <= Ahead + drift /\ Ahead - drift <= shift)'
               /\ \A x \in DOMAIN hangs : DumpNear(x, Ahead)'
    BY <1>1, <2>3 DEF IInv, Clocks, DumpNear, Ahead
  <2>4. ASSUME Live, NEW x \in DOMAIN reports' PROVE ReportNear(x, Ahead)'
    <3>1. CASE x = h
      <4>1. Ahead \in Int /\ shift <= Ahead + drift /\ Ahead - drift <= shift
        BY <2>4 DEF IInv, Types, Clocks, Ahead
      <4>2. Ahead' = Ahead
        BY <1>1 DEF Ahead
      <4>. QED
        BY <1>1, <1>2, <3>1, <4>1, <4>2 DEF ReportNear
    <3>2. CASE x # h
      BY <1>1, <2>4, <3>2 DEF IInv, Clocks, ReportNear, Ahead
    <3>. QED
      BY <3>1, <3>2
  <2>. QED
    BY <1>1, <2>1, <2>2, <2>3, <2>4 DEF Clocks, Live
<1>5. Placement'
  <2>1. ASSUME NEW r \in rows \cup marks PROVE Placed(r)'
    <3>1. Placed(r)
      BY <2>1 DEF IInv, Placement
    <3>. QED
      BY <1>1, <3>1, StaysPlaced
  <2>. QED
    BY <1>1, <2>1 DEF IInv, Placement, Live
<1>. QED
  BY <1>3, <1>4, <1>5 DEF IInv

LEMMA StartSessionStep == ASSUME IInv, StartSession PROVE IInv'
<1> USE DEF StartSession, timeVars, windows, pollVars, stopVars, dbVars
<1>1. Wall \in Int /\ ~Live /\ ~Live'
  BY DEF IInv, Types, Wall, Live
<1>2. Types'
  BY <1>1 DEF IInv, Types, Phases
<1>3. Clocks'
  BY <1>1 DEF IInv, Clocks, ReportNear, DumpNear
<1>4. Placement'
  BY <1>1 DEF IInv, Placement
<1>. QED
  BY <1>2, <1>3, <1>4 DEF IInv

LEMMA StartCollectorsStep == ASSUME IInv, StartCollectors PROVE IInv'
<1> USE DEF StartCollectors, timeVars, windows, stopVars, dbVars
<1>1. Wall = now + shift /\ now \in Nat /\ shift \in Int /\ drift \in Nat /\ ~Live
  BY DEF IInv, Types, Wall, Live
<1>2. Types'
  BY <1>1 DEF IInv, Types, Phases
<1>3. Clocks'
  <2>1. Ahead' = shift /\ shift' = shift /\ drift' = drift
    BY <1>1 DEF Ahead
  <2>2. /\ \A h \in DOMAIN reports : ReportNear(h, shift)' /\ ReportNear(h, Ahead)'
        /\ \A h \in DOMAIN hangs : DumpNear(h, shift)' /\ DumpNear(h, Ahead)'
    BY <2>1 DEF IInv, Clocks, ReportNear, DumpNear
  <2>. QED
    BY <1>1, <2>1, <2>2 DEF Clocks
<1>4. Placement'
  BY <1>1 DEF IInv, Placement
<1>. QED
  BY <1>2, <1>3, <1>4 DEF IInv

\* Events that pass the filter are well placed by the origin they are given.
LEMMA CollectedPlaced ==
    ASSUME IInv, NEW from, NEW base \in Int, NEW h \in Collected(from, base)
    PROVE  h \in DOMAIN reports /\ hangs[h].dump >= base - Grace
<1>1. h \in DOMAIN reports /\ ~(hangs[h].dump < base - Grace)
  BY DEF Collected, Historical
<1>2. hangs[h].dump \in Int /\ Grace \in Nat
  BY <1>1, CrashReportAssumption DEF IInv, Types
<1>. QED
  BY <1>1, <1>2

\* Steps after the clock was made that add well placed evidence.
LEMMA Adding ==
    ASSUME IInv, Live, Live',
           UNCHANGED <<now, shift, drift, hangs, reports, started, origin, clock>>,
           queryFrom' \in Int, finalFrom' \in Int, phase' \in Phases,
           \A r \in (rows' \cup marks') \ (rows \cup marks) : Placed(r),
           \A s \in signals' : s \in DOMAIN reports /\ hangs[s].dump >= clock - Grace
    PROVE  IInv'
<1>1. Types'
  BY DEF IInv, Types
<1>2. Clocks'
  BY DEF IInv, Clocks, ReportNear, DumpNear, Ahead
<1>3. Placement'
  <2>1. ASSUME NEW r \in rows' \cup marks' PROVE Placed(r)'
    <3>1. Placed(r)
      BY <2>1 DEF IInv, Placement
    <3>. QED
      BY <3>1 DEF Placed, Since
  <2>. QED
    BY <2>1 DEF Placement
<1>. QED
  BY <1>1, <1>2, <1>3 DEF IInv

LEMMA PassStep ==
    ASSUME IInv, Live, Live', Pass, phase' \in Phases
    PROVE  IInv'
<1> USE DEF timeVars, windows, startVars, stopVars
<1> DEFINE new == Collected(queryFrom, clock) \ seen
<1>1. PICK stored \in SUBSET new, marked \in SUBSET new :
          /\ rows' = rows \cup {At(h, clock, "poll") : h \in stored}
          /\ marks' = marks \cup {At(h, clock, "poll") : h \in marked}
  BY DEF Pass, PassFrom
<1>2. /\ UNCHANGED <<now, shift, drift, hangs, reports, started, origin, clock, finalFrom, signals>>
      /\ queryFrom' = Wall /\ Wall \in Int /\ finalFrom \in Int /\ clock \in Int
  BY DEF Pass, PassFrom, IInv, Types, Wall
<1>3. ASSUME NEW h \in new PROVE Placed(At(h, clock, "poll"))
  <2>1. h \in DOMAIN reports /\ hangs[h].dump >= clock - Grace
    BY <1>2, <1>3, CollectedPlaced
  <2>. QED
    BY <2>1 DEF Placed, At
<1>4. \A r \in (rows' \cup marks') \ (rows \cup marks) : Placed(r)
  BY <1>1, <1>3
<1>5. \A s \in signals' : s \in DOMAIN reports /\ hangs[s].dump >= clock - Grace
  BY <1>2 DEF IInv, Placement
<1>. QED
  BY <1>2, <1>4, <1>5, Adding

LEMMA CollectArtifactsStep == ASSUME IInv, CollectArtifacts PROVE IInv'
<1>1. /\ UNCHANGED <<now, shift, drift, hangs, reports, started, origin, clock, queryFrom,
                     finalFrom, rows, marks>>
      /\ phase = "joined" /\ phase' = "collected"
      /\ signals' \subseteq {h \in DOMAIN reports \ baseline : HasSignal(h)}
  BY DEF CollectArtifacts, timeVars, windows, startVars, pollVars, dbVars
<1>2. Live /\ Live' /\ phase' \in Phases /\ queryFrom' \in Int /\ finalFrom' \in Int
  BY <1>1 DEF Live, Phases, IInv, Types
<1>3. \A s \in signals' : s \in DOMAIN reports /\ hangs[s].dump >= clock - Grace
  <2>. TAKE s \in signals'
  <2>1. s \in DOMAIN reports /\ clock - Grace <= hangs[s].dump
    BY <1>1 DEF HasSignal
  <2>2. hangs[s].dump \in Int /\ Grace \in Nat /\ clock \in Int
    BY <2>1, CrashReportAssumption DEF IInv, Types
  <2>. QED
    BY <2>1, <2>2
<1>. QED
  BY <1>1, <1>2, <1>3, Adding

LEMMA BackfillStep == ASSUME IInv, Backfill PROVE IInv'
<1> DEFINE found == {At(h, started, "backfill") : h \in Collected(finalFrom, started)}
           Mark(s) == [hang |-> s, ns |-> Since(clock, hangs[s].dump), by |-> "artifact"]
<1>1. /\ UNCHANGED <<now, shift, drift, hangs, reports, started, origin, clock, queryFrom,
                     finalFrom, signals>>
      /\ phase = "collected" /\ phase' = "complete"
      /\ rows' = rows \cup found
      /\ marks' \subseteq marks \cup found \cup {Mark(s) : s \in signals}
  BY DEF Backfill, timeVars, windows, startVars, pollVars, stopVars
<1>2. Live /\ Live' /\ phase' \in Phases /\ queryFrom' \in Int /\ finalFrom' \in Int /\ started \in Int
  BY <1>1 DEF Live, Phases, IInv, Types
<1>3. ASSUME NEW h \in Collected(finalFrom, started) PROVE Placed(At(h, started, "backfill"))
  <2>1. h \in DOMAIN reports /\ hangs[h].dump >= started - Grace
    BY <1>2, <1>3, CollectedPlaced
  <2>. QED
    BY <2>1 DEF Placed, At
<1>4. ASSUME NEW s \in signals PROVE Placed(Mark(s))
  BY <1>4 DEF IInv, Placement, Placed
<1>5. \A r \in (rows' \cup marks') \ (rows \cup marks) : Placed(r)
  BY <1>1, <1>3, <1>4
<1>6. \A s \in signals' : s \in DOMAIN reports /\ hangs[s].dump >= clock - Grace
  BY <1>1 DEF IInv, Placement
<1>. QED
  BY <1>1, <1>2, <1>5, <1>6, Adding

LEMMA RecoverStep == ASSUME IInv, Recover PROVE IInv'
<1>1. /\ UNCHANGED <<now, shift, drift, hangs, reports, started, origin, clock, queryFrom,
                     finalFrom, signals, marks>>
      /\ phase = "crashed" /\ phase' = "recovered"
      /\ rows' \subseteq rows \cup {At(h, started, "recovery") : h \in Collected(started, started)}
  BY DEF Recover, timeVars, windows, startVars, pollVars, stopVars
<1>2. Live /\ Live' /\ phase' \in Phases /\ queryFrom' \in Int /\ finalFrom' \in Int /\ started \in Int
  BY <1>1 DEF Live, Phases, IInv, Types
<1>3. ASSUME NEW h \in Collected(started, started) PROVE Placed(At(h, started, "recovery"))
  <2>1. h \in DOMAIN reports /\ hangs[h].dump >= started - Grace
    BY <1>2, <1>3, CollectedPlaced
  <2>. QED
    BY <2>1 DEF Placed, At
<1>4. \A r \in (rows' \cup marks') \ (rows \cup marks) : Placed(r)
  BY <1>1, <1>3
<1>5. \A s \in signals' : s \in DOMAIN reports /\ hangs[s].dump >= clock - Grace
  BY <1>1 DEF IInv, Placement
<1>. QED
  BY <1>1, <1>2, <1>4, <1>5, Adding

LEMMA Step == IInv /\ [Next]_vars => IInv'
<1> SUFFICES ASSUME IInv, [Next]_vars PROVE IInv'
  OBVIOUS
<1> USE DEF timeVars, windows, startVars, pollVars, stopVars, dbVars
<1>0. queryFrom \in Int /\ finalFrom \in Int /\ phase \in Phases /\ Wall \in Int
  BY DEF IInv, Types, Wall
<1>1. CASE World
  <2>1. CASE Tick
    BY <2>1, TickStep
  <2>2. ASSUME NEW d \in (-MaxDrift..MaxDrift) \ {0}, SetClock(d) PROVE IInv'
    <3>1. d \in Int
      BY CrashReportAssumption
    <3>. QED
      BY <2>2, <3>1, SetClockStep
  <2>3. ASSUME NEW h \in Hangs, Hang(h) \/ Report(h) PROVE IInv'
    BY <2>3, HangStep, ReportStep
  <2>. QED
    BY <1>1, <2>1, <2>2, <2>3 DEF World
<1>2. CASE StartSession
  BY <1>2, StartSessionStep
<1>3. CASE StartCollectors
  BY <1>3, StartCollectorsStep
<1>4. CASE Poll
  <2>1. Pass /\ phase = "recording" /\ phase' = "recording"
    BY <1>4 DEF Poll
  <2>. QED
    BY <2>1, PassStep DEF Live, Phases
<1>5. CASE AddMarker
  BY <1>0, <1>5, Quiet DEF AddMarker, Live
<1>6. CASE Stop
  BY <1>0, <1>6, Quiet DEF Stop, Live, Phases
<1>7. CASE FinalPass
  <2>1. Pass /\ phase = "stopping" /\ phase' = "joining"
    BY <1>7 DEF FinalPass
  <2>. QED
    BY <2>1, PassStep DEF Live, Phases
<1>8. CASE CollectorsJoined
  BY <1>0, <1>8, Quiet DEF CollectorsJoined, Live, Phases
<1>9. CASE CollectArtifacts
  BY <1>9, CollectArtifactsStep
<1>10. CASE CollectionFails
  BY <1>0, <1>10, Quiet DEF CollectionFails, Live, Phases
<1>11. CASE Backfill
  BY <1>11, BackfillStep
<1>12. CASE Crash
  <2>1. /\ UNCHANGED <<now, shift, drift, hangs, reports, started, origin, clock, queryFrom,
                       finalFrom, signals>>
        /\ phase' = "crashed" /\ Live /\ Live'
        /\ rows' \subseteq rows /\ marks' \subseteq marks
    BY <1>12 DEF Crash, Live
  <2>2. \A s \in signals' : s \in DOMAIN reports /\ hangs[s].dump >= clock - Grace
    BY <2>1 DEF IInv, Placement
  <2>. QED
    BY <1>0, <2>1, <2>2, Adding DEF Phases
<1>13. CASE Recover
  BY <1>13, RecoverStep
<1>14. CASE Done \/ UNCHANGED vars
  BY <1>0, <1>14, Quiet DEF Done, vars, Live
<1>. QED
  BY <1>1, <1>2, <1>3, <1>4, <1>5, <1>6, <1>7, <1>8, <1>9, <1>10, <1>11, <1>12, <1>13, <1>14
  DEF Next

\* The times of hangs, reports and evidence, the movements of the wall clock
\* and the filters hold together as IInv says, in every state.
THEOREM Inductive == Spec => []IInv
<1>1. Init => IInv
  BY Initial
<1>2. IInv /\ [Next]_vars => IInv'
  BY Step
<1>. QED
  BY <1>1, <1>2, PTL DEF Spec

-----------------------------------------------------------------------------
(* What follows.                                                           *)

LEMMA DistanceBounds ==
    ASSUME NEW a \in Int, NEW b \in Int
    PROVE  /\ Distance(a, b) \in Nat
           /\ a - b <= Distance(a, b) /\ b - a <= Distance(a, b)
           /\ Distance(a, b) = a - b \/ Distance(a, b) = b - a
  BY DEF Distance

\* The types of one piece of evidence, and of what it is about.
LEMMA EvidenceTypes ==
    ASSUME IInv, NEW r \in rows \cup marks
    PROVE  /\ Live /\ Placed(r)
           /\ reports[r.hang].at \in Nat /\ reports[r.hang].utc \in Int
           /\ hangs[r.hang].at \in Nat /\ hangs[r.hang].dump \in Int
           /\ ReportNear(r.hang, Ahead) /\ DumpNear(r.hang, Ahead)
<1>1. Live /\ Placed(r) /\ r.hang \in DOMAIN reports
  BY DEF IInv, Placement, Placed
<1>2. r.hang \in DOMAIN hangs
  BY <1>1 DEF IInv, Types
<1>. QED
  BY <1>1, <1>2 DEF IInv, Types, Clocks

LEMMA SkewFollows == IInv => SkewBounded
<1> SUFFICES ASSUME IInv, NEW r \in rows \cup marks
             PROVE  LET late == IF r.by \in {"backfill", "recovery"} THEN StartUp ELSE 0
                    IN  IF r.by = "artifact"
                          THEN Distance(r.ns, OnAxis(hangs[r.hang].at)) < Minute + drift
                          ELSE Distance(r.ns, OnAxis(reports[r.hang].at)) <= late + drift
  BY DEF SkewBounded
<1> DEFINE h == r.hang
           utc == reports[h].utc
           logged == reports[h].at
           dump == hangs[h].dump
           hung == hangs[h].at
<1>1. /\ origin \in Int /\ clock \in Int /\ started \in Int /\ drift \in Nat
      /\ Minute \in Nat /\ Minute > 0
      /\ StartUp \in Nat /\ clock - started <= StartUp /\ started - clock <= StartUp
  BY DistanceBounds, CrashReportAssumption DEF IInv, Types, StartUp
<1>2. /\ utc \in Int /\ logged \in Int /\ dump \in Int /\ hung \in Int /\ Placed(r)
      /\ utc - logged <= clock - origin + drift /\ clock - origin - drift <= utc - logged
      /\ dump - hung <= clock - origin + drift /\ clock - origin - drift < dump - hung + Minute
  BY EvidenceTypes, <1>1 DEF ReportNear, DumpNear, Ahead
<1>3. CASE r.by = "poll"
  <2>1. r.ns = Since(clock, utc)
    BY <1>2, <1>3 DEF Placed
  <2>2. /\ drift \in Int
        /\ (utc - clock) - (logged - origin) <= drift
        /\ (logged - origin) - (utc - clock) <= drift
    BY <1>1, <1>2
  <2>3. Distance(Since(clock, utc), Since(origin, logged)) <= drift
    BY <1>1, <1>2, <2>2, Clamping
  <2>. QED
    BY <1>1, <1>3, <2>1, <2>3 DEF OnAxis
<1>4. CASE r.by \in {"backfill", "recovery"}
  <2>1. r.ns = Since(started, utc)
    BY <1>2, <1>4 DEF Placed
  <2>2. /\ StartUp + drift \in Int
        /\ (utc - started) - (logged - origin) <= StartUp + drift
        /\ (logged - origin) - (utc - started) <= StartUp + drift
    BY <1>1, <1>2
  <2>3. Distance(Since(started, utc), Since(origin, logged)) <= StartUp + drift
    BY <1>1, <1>2, <2>2, Clamping
  <2>. QED
    BY <1>4, <2>1, <2>3 DEF OnAxis
<1>5. CASE r.by = "artifact"
  <2>1. r.ns = Since(clock, dump)
    BY <1>2, <1>5 DEF Placed
  <2>2. /\ Minute + drift - 1 \in Int
        /\ (dump - clock) - (hung - origin) <= Minute + drift - 1
        /\ (hung - origin) - (dump - clock) <= Minute + drift - 1
    BY <1>1, <1>2
  <2>3. Distance(Since(clock, dump), Since(origin, hung)) <= Minute + drift - 1
    BY <1>1, <1>2, <2>2, Clamping
  <2>4. Distance(r.ns, OnAxis(hung)) \in Int
    BY <1>1, <1>2, <2>1 DEF Distance, Since, OnAxis
  <2>. QED
    BY <1>1, <1>5, <2>1, <2>3, <2>4 DEF OnAxis
<1>. QED
  BY <1>2, <1>3, <1>4, <1>5 DEF Placed

\* Whatever the clocks do, evidence is at most as far from the samples of its
\* moment as the start took, the minute hides and the wall clock was set.
THEOREM SkewSafe == Spec => []SkewBounded
  BY Inductive, SkewFollows, PTL

LEMMA HistoryFollows == IInv => HistoryIsNotEvidence
<1> SUFFICES ASSUME IInv, NEW r \in rows \cup marks
             PROVE  hangs[r.hang].at >= origin - StartUp - Grace - drift
  BY DEF HistoryIsNotEvidence
<1>1. /\ origin \in Int /\ clock \in Int /\ started \in Int /\ drift \in Nat /\ Grace \in Nat
      /\ StartUp \in Nat /\ clock - started <= StartUp
  BY DistanceBounds, CrashReportAssumption DEF IInv, Types, StartUp
<1>2. /\ hangs[r.hang].dump \in Int /\ hangs[r.hang].at \in Int /\ Placed(r)
      /\ hangs[r.hang].dump - hangs[r.hang].at <= clock - origin + drift
  BY EvidenceTypes, <1>1 DEF DumpNear, Ahead
<1>3. hangs[r.hang].dump >= clock - Grace \/ hangs[r.hang].dump >= started - Grace
  BY <1>2 DEF Placed
<1>. QED
  BY <1>1, <1>2, <1>3

\* No evidence is older than the start by more than the tolerance and the
\* setting of the clock.
THEOREM HistorySafe == Spec => []HistoryIsNotEvidence
  BY Inductive, HistoryFollows, PTL

-----------------------------------------------------------------------------
(* What JInv adds, for the report of a session.                             *)


\* Hangs are in the past, and the start came before the clock, if nobody set it.
Past ==
    /\ \A h \in DOMAIN hangs : h \in Hangs /\ hangs[h].at <= now
    /\ drift = 0 => /\ phase = "starting" => started <= now + shift
                    /\ Live => started <= clock

\* The evidence is finite, and made by the steps that make its kind.
Made ==
    /\ IsFiniteSet(rows) /\ IsFiniteSet(marks) /\ IsFiniteSet(others)
    /\ \A r \in rows \cup marks :
          /\ r = [hang |-> r.hang, ns |-> r.ns, by |-> r.by]
          /\ r.by = "recovery" => phase = "recovered"
          /\ r.by \in {"backfill", "artifact"} => phase = "complete"
    /\ \A r \in rows : r.by # "artifact"

\* Every hang of the session that the scan found has a signal of its minute.
Scan ==
    /\ phase \in {"collected", "complete", "crashed", "recovered"} \/ scanned = {}
    /\ scanned \subseteq DOMAIN reports
    /\ phase \in {"collected", "complete"} /\ drift = 0 =>
         \A h \in scanned :
            InSession(h) => \E s \in signals : hangs[s].dump = hangs[h].dump

\* What stands for a signal: its own bookmark, or one of an event near it that
\* was logged after the collectors were joined.
ByArtifact(s) == \E m \in marks : m.ns = Since(clock, hangs[s].dump)

ByEvent(s) ==
    \E e \in DOMAIN reports :
       /\ finalFrom <= reports[e].utc
       /\ Distance(reports[e].utc, hangs[s].dump) <= Match
       /\ \E m \in marks : m.ns = Since(started, reports[e].utc)

Told ==
    phase = "complete" =>
        /\ \A s \in signals : ByArtifact(s) \/ ByEvent(s)
        /\ \A m \in marks, r \in rows \cup marks :
              m.by = "artifact" /\ r.by = "backfill"
              => ~(Distance(reports[r.hang].utc, hangs[m.hang].dump) <= Match)

JInv == IInv /\ Past /\ Made /\ Scan /\ Told

-----------------------------------------------------------------------------
(* JInv is inductive.                                                      *)

LEMMA JInitial == Init => JInv
<1> SUFFICES ASSUME Init PROVE JInv
  OBVIOUS
<1>1. IInv
  BY Initial
<1>2. Past /\ Scan /\ Told
  BY DEF Init, Past, Scan, Told, Live
<1>3. Made
  BY FS_EmptySet DEF Init, Made
<1>. QED
  BY <1>1, <1>2, <1>3 DEF JInv

LEMMA PastStep == ASSUME JInv, IInv', [Next]_vars PROVE Past'
<1> USE DEF timeVars, windows, startVars, pollVars, stopVars, dbVars
<1>0. /\ now \in Nat /\ shift \in Int /\ drift \in Nat /\ Wall = now + shift
      /\ Past
  BY DEF JInv, IInv, Types, Wall
<1>1. CASE Tick
  BY <1>0, <1>1 DEF Tick, Past, Live, IInv, JInv, Types
<1>2. ASSUME NEW d \in (-MaxDrift..MaxDrift) \ {0}, SetClock(d) PROVE Past'
  <2>1. d \in Int /\ d # 0
    BY CrashReportAssumption
  <2>2. drift' # 0
    BY <1>0, <1>2, <2>1 DEF SetClock, Distance
  <2>. QED
    BY <1>0, <1>2, <2>2 DEF SetClock, Past
<1>3. ASSUME NEW h \in Hangs, Hang(h) PROVE Past'
  BY <1>0, <1>3 DEF Hang, With, Past, Live
<1>4. ASSUME NEW h \in Hangs, Report(h) PROVE Past'
  BY <1>0, <1>4 DEF Report, Past, Live
<1>5. CASE StartSession
  BY <1>0, <1>5 DEF StartSession, Past, Live
<1>6. CASE StartCollectors
  BY <1>0, <1>6 DEF StartCollectors, Past, Live
<1>7. CASE Poll \/ FinalPass
  BY <1>0, <1>7 DEF Poll, FinalPass, Pass, PassFrom, Past, Live
<1>8. CASE AddMarker \/ Stop \/ CollectorsJoined
  BY <1>0, <1>8 DEF AddMarker, Stop, CollectorsJoined, Past, Live
<1>9. CASE CollectArtifacts \/ CollectionFails \/ Backfill
  BY <1>0, <1>9 DEF CollectArtifacts, CollectionFails, Backfill, Past, Live
<1>10. CASE Crash \/ Recover
  BY <1>0, <1>10 DEF Crash, Recover, Past, Live
<1>11. CASE Done \/ UNCHANGED vars
  BY <1>0, <1>11 DEF Done, vars, Past, Live
<1>. QED
  BY <1>1, <1>2, <1>3, <1>4, <1>5, <1>6, <1>7, <1>8, <1>9, <1>10, <1>11 DEF Next, World

\* Evidence of finitely many events is finite.
LEMMA FewAt ==
    ASSUME NEW S, IsFiniteSet(S), NEW base, NEW by
    PROVE  IsFiniteSet({At(h, base, by) : h \in S})
<1> DEFINE T == {At(h, base, by) : h \in S}
           f == [h \in S |-> At(h, base, by)]
<1>1. f \in Surjection(S, T)
  BY DEF Surjection
<1>. QED
  BY <1>1, FS_Surjection

LEMMA FewSignals ==
    ASSUME NEW S, IsFiniteSet(S)
    PROVE  IsFiniteSet({[hang |-> s, ns |-> Since(clock, hangs[s].dump), by |-> "artifact"] : s \in S})
<1> DEFINE Mark(s) == [hang |-> s, ns |-> Since(clock, hangs[s].dump), by |-> "artifact"]
           T == {Mark(s) : s \in S}
           f == [s \in S |-> Mark(s)]
<1>1. f \in Surjection(S, T)
  BY DEF Surjection
<1>. QED
  BY <1>1, FS_Surjection

\* There are finitely many reports, and so of all that is chosen among them.
LEMMA FewReports ==
    ASSUME JInv, NEW S, S \subseteq DOMAIN reports
    PROVE  IsFiniteSet(S)
<1>1. S \subseteq Hangs
  BY DEF JInv, IInv, Types, Past
<1>. QED
  BY <1>1, FS_Subset, CrashReportAssumption

LEMMA CollectedReported == ASSUME NEW from, NEW base PROVE Collected(from, base) \subseteq DOMAIN reports
  BY DEF Collected

LEMMA MadeStep == ASSUME JInv, [Next]_vars PROVE Made'
<1> USE DEF timeVars, windows, startVars, pollVars, stopVars, dbVars
<1>0. Made /\ IsFiniteSet(rows) /\ IsFiniteSet(marks) /\ IsFiniteSet(others)
  BY DEF JInv, Made
<1>1. CASE UNCHANGED <<rows, marks, others, phase>>
  BY <1>0, <1>1 DEF Made
<1>2. CASE UNCHANGED <<rows, marks, others>> /\ phase \notin Over
  BY <1>0, <1>2 DEF Made, Over
<1>3. CASE AddMarker \/ Stop
  <2>1. others' = others \cup {now - origin} /\ UNCHANGED <<rows, marks>> /\ phase \notin Over
    BY <1>3 DEF AddMarker, Stop, Remark, Over
  <2>2. IsFiniteSet(others')
    BY <1>0, <2>1, FS_AddElement
  <2>. QED
    BY <1>0, <2>1, <2>2 DEF Made, Over
<1>4. CASE Poll \/ FinalPass
  <2>1. Pass /\ phase \notin Over
    BY <1>4 DEF Poll, FinalPass, Over
  <2>2. PICK stored \in SUBSET Collected(queryFrom, clock),
             marked \in SUBSET Collected(queryFrom, clock) :
          /\ rows' = rows \cup {At(h, clock, "poll") : h \in stored}
          /\ marks' = marks \cup {At(h, clock, "poll") : h \in marked}
    BY <2>1 DEF Pass, PassFrom
  <2>3. IsFiniteSet(stored) /\ IsFiniteSet(marked)
    BY FewReports, CollectedReported
  <2>4. IsFiniteSet(rows') /\ IsFiniteSet(marks')
    <3>1. IsFiniteSet({At(h, clock, "poll") : h \in stored})
      BY <2>3, FewAt
    <3>2. IsFiniteSet({At(h, clock, "poll") : h \in marked})
      BY <2>3, FewAt
    <3>. QED
      BY <1>0, <2>2, <3>1, <3>2, FS_Union
  <2>5. \A r \in (rows' \cup marks') \ (rows \cup marks) :
           r = [hang |-> r.hang, ns |-> r.ns, by |-> r.by] /\ r.by = "poll"
    BY <2>2 DEF At
  <2>6. others' = others
    BY <2>1 DEF Pass, PassFrom
  <2>. QED
    BY <1>0, <2>1, <2>4, <2>5, <2>6 DEF Made, Over
<1>5. CASE Backfill
  <2> DEFINE events == Collected(finalFrom, started)
             found == {At(h, started, "backfill") : h \in events}
             Mark(s) == [hang |-> s, ns |-> Since(clock, hangs[s].dump), by |-> "artifact"]
             left == {s \in signals : ~Repeats(s, events)}
  <2>1. /\ rows' = rows \cup found
        /\ marks' = (marks \cup found) \cup {Mark(s) : s \in left}
        /\ others' = others /\ phase = "collected" /\ phase' = "complete"
    BY <1>5 DEF Backfill
  <2>2. IsFiniteSet(events) /\ IsFiniteSet(left)
    <3>1. events \subseteq DOMAIN reports
      BY CollectedReported
    <3>2. left \subseteq DOMAIN reports
      BY DEF JInv, IInv, Placement
    <3>. QED
      BY <3>1, <3>2, FewReports
  <2>3. IsFiniteSet(found) /\ IsFiniteSet({Mark(s) : s \in left})
    BY <2>2, FewAt, FewSignals
  <2>4. IsFiniteSet(rows') /\ IsFiniteSet(marks \cup found)
    BY <1>0, <2>1, <2>3, FS_Union
  <2>5. IsFiniteSet(marks')
    BY <2>1, <2>3, <2>4, FS_Union
  <2>6. \A r \in found \cup {Mark(s) : s \in left} :
           r = [hang |-> r.hang, ns |-> r.ns, by |-> r.by] /\ r.by \in {"backfill", "artifact"}
    BY DEF At
  <2>7. \A r \in (rows' \cup marks') \ (rows \cup marks) :
           r = [hang |-> r.hang, ns |-> r.ns, by |-> r.by] /\ r.by \in {"backfill", "artifact"}
    BY <2>1, <2>6
  <2>8. \A r \in rows' : r.by # "artifact"
    BY <1>0, <2>1 DEF Made, At
  <2>. QED
    BY <1>0, <2>1, <2>4, <2>5, <2>7, <2>8 DEF Made
<1>6. CASE Recover
  <2> DEFINE extra == Collected(started, started) \ {r.hang : r \in rows}
  <2>1. /\ rows' = rows \cup {At(h, started, "recovery") : h \in extra}
        /\ others' = others \cup {0} /\ marks' = marks
        /\ phase = "crashed" /\ phase' = "recovered"
    BY <1>6 DEF Recover
  <2>2. IsFiniteSet(extra)
    <3>1. extra \subseteq DOMAIN reports
      BY CollectedReported
    <3>. QED
      BY <3>1, FewReports
  <2>3. IsFiniteSet({At(h, started, "recovery") : h \in extra})
    BY <2>2, FewAt
  <2>4. IsFiniteSet(rows') /\ IsFiniteSet(others')
    BY <1>0, <2>1, <2>3, FS_Union, FS_AddElement
  <2>5. \A r \in {At(h, started, "recovery") : h \in extra} :
           r = [hang |-> r.hang, ns |-> r.ns, by |-> r.by] /\ r.by = "recovery"
    BY DEF At
  <2>. QED
    BY <1>0, <2>1, <2>4, <2>5 DEF Made
<1>7. CASE Crash
  <2>1. /\ rows' \subseteq rows /\ marks' \subseteq marks /\ others' = others
        /\ phase \notin Over
    BY <1>7 DEF Crash, Over
  <2>2. IsFiniteSet(rows') /\ IsFiniteSet(marks')
    BY <1>0, <2>1, FS_Subset
  <2>. QED
    BY <1>0, <2>1, <2>2 DEF Made, Over
<1>. QED
  BY <1>1, <1>2, <1>3, <1>4, <1>5, <1>6, <1>7
  DEF Next, World, Tick, SetClock, Hang, Report, StartSession, StartCollectors, CollectorsJoined,
      CollectArtifacts, CollectionFails, Done, vars, Over

\* A hang of the session whose clock nobody set has a signal.
LEMMA HasSignalIf ==
    ASSUME JInv, Live, drift = 0, NEW h \in DOMAIN reports, InSession(h)
    PROVE  HasSignal(h)
<1>1. h \in DOMAIN hangs
  BY DEF JInv, IInv, Types
<1>2. /\ origin \in Int /\ clock \in Int /\ now \in Int /\ shift \in Int /\ Wall = now + shift
      /\ hangs[h].at \in Int /\ hangs[h].dump \in Int
  BY <1>1 DEF JInv, IInv, Types, Wall
<1>3. Minute \in Nat /\ Grace \in Nat /\ Minute <= Grace
  BY CrashReportAssumption
<1>4. /\ hangs[h].at <= now /\ origin <= hangs[h].at
      /\ hangs[h].dump - hangs[h].at <= shift
      /\ clock - origin < hangs[h].dump - hangs[h].at + Minute
  <2>1. DumpNear(h, shift) /\ DumpNear(h, Ahead)
    BY <1>1 DEF JInv, IInv, Clocks
  <2>. QED
    BY <1>1, <1>2, <2>1 DEF DumpNear, Ahead, JInv, Past, InSession
<1>. QED
  BY <1>2, <1>3, <1>4 DEF HasSignal

LEMMA ScanStep == ASSUME JInv, [Next]_vars PROVE Scan'
<1> USE DEF timeVars, windows, startVars, pollVars, stopVars, dbVars
<1>0. Scan /\ DOMAIN reports \subseteq DOMAIN hangs /\ signals \subseteq DOMAIN reports
      /\ drift \in Nat
  BY DEF JInv, IInv, Types, Placement
<1>1. CASE UNCHANGED <<drift, hangs, reports, phase, origin, scanned, signals>>
  BY <1>0, <1>1 DEF Scan, InSession
<1>2. ASSUME NEW d \in (-MaxDrift..MaxDrift) \ {0}, SetClock(d) PROVE Scan'
  <2>1. d \in Int /\ d # 0
    BY CrashReportAssumption
  <2>2. drift' # 0
    BY <1>0, <1>2, <2>1 DEF SetClock, Distance
  <2>. QED
    BY <1>0, <1>2, <2>2 DEF SetClock, Scan
<1>3. ASSUME NEW h \in Hangs, Hang(h) PROVE Scan'
  <2>1. /\ \A x \in DOMAIN reports : hangs'[x] = hangs[x]
        /\ UNCHANGED <<drift, reports, phase, origin, scanned, signals>>
    BY <1>0, <1>3 DEF Hang, With
  <2>2. \A x \in scanned : InSession(x)' <=> InSession(x)
    BY <1>0, <2>1 DEF Scan, InSession
  <2>3. \A x \in scanned, s \in signals :
           hangs'[s].dump = hangs'[x].dump <=> hangs[s].dump = hangs[x].dump
    BY <1>0, <2>1 DEF Scan
  <2>. QED
    BY <1>0, <2>1, <2>2, <2>3 DEF Scan
<1>4. ASSUME NEW h \in Hangs, Report(h) PROVE Scan'
  BY <1>0, <1>4 DEF Report, With, Scan, InSession
<1>5. CASE StartSession \/ StartCollectors \/ FinalPass \/ Stop \/ CollectorsJoined
  <2>1. /\ phase \notin {"collected", "complete", "crashed", "recovered"}
        /\ phase' \notin {"collected", "complete", "crashed", "recovered"}
        /\ scanned' = scanned
    BY <1>5 DEF StartSession, StartCollectors, FinalPass, Pass, PassFrom, Stop, CollectorsJoined
  <2>. QED
    BY <1>0, <2>1 DEF Scan
<1>6. CASE CollectArtifacts
  <2> DEFINE new == DOMAIN reports \ baseline
             hits == {h \in new : HasSignal(h)}
  <2>1. /\ phase' = "collected" /\ scanned' = new
        /\ UNCHANGED <<drift, hangs, reports, origin>> /\ phase = "joined"
        /\ \A h \in hits : Cardinality({s \in signals' : hangs[s].dump = hangs[h].dump}) = 1
    BY <1>6 DEF CollectArtifacts
  <2>2. ASSUME drift = 0, NEW h \in new, InSession(h)
        PROVE  \E s \in signals' : hangs[s].dump = hangs[h].dump
    <3>1. h \in hits
      BY <2>1, <2>2, HasSignalIf DEF Live
    <3>2. {s \in signals' : hangs[s].dump = hangs[h].dump} # {}
      BY <2>1, <3>1, FS_EmptySet
    <3>. QED
      BY <3>2
  <2>3. \A h \in scanned' : drift' = 0 /\ InSession(h)' =>
           \E s \in signals' : hangs'[s].dump = hangs'[h].dump
    BY <2>1, <2>2 DEF InSession
  <2>. QED
    BY <2>1, <2>3 DEF Scan
<1>7. CASE CollectionFails
  BY <1>0, <1>7 DEF CollectionFails, Scan
<1>8. CASE Backfill
  BY <1>0, <1>8 DEF Backfill, Scan, InSession
<1>9. CASE Crash
  <2>1. phase' = "crashed" /\ scanned' = scanned /\ reports' = reports
    BY <1>9 DEF Crash
  <2>. QED
    BY <1>0, <2>1 DEF Scan
<1>10. CASE Recover
  <2>1. phase' = "recovered" /\ scanned' = scanned /\ reports' = reports
    BY <1>10 DEF Recover
  <2>. QED
    BY <1>0, <2>1 DEF Scan
<1>. QED
  BY <1>1, <1>2, <1>3, <1>4, <1>5, <1>6, <1>7, <1>8, <1>9, <1>10
  DEF Next, World, Tick, Poll, Pass, PassFrom, AddMarker, Done, vars

LEMMA ToldStep == ASSUME JInv, [Next]_vars PROVE Told'
<1> USE DEF timeVars, windows, startVars, pollVars, stopVars, dbVars
<1>1. CASE Backfill
  <2> DEFINE events == Collected(finalFrom, started)
             found == {At(h, started, "backfill") : h \in events}
             Mark(s) == [hang |-> s, ns |-> Since(clock, hangs[s].dump), by |-> "artifact"]
             left == {s \in signals : ~Repeats(s, events)}
  <2>1. /\ rows' = rows \cup found
        /\ marks' = marks \cup found \cup {Mark(s) : s \in left}
        /\ UNCHANGED <<hangs, reports, signals, clock, started, finalFrom>>
        /\ phase = "collected"
    BY <1>1 DEF Backfill
  <2>2. events \subseteq DOMAIN reports /\ \A e \in events : finalFrom <= reports[e].utc
    BY DEF Collected
  <2>3. ASSUME NEW s \in signals PROVE ByArtifact(s)' \/ ByEvent(s)'
    <3>1. CASE s \in left
      <4>1. Mark(s) \in marks' /\ Mark(s).ns = Since(clock, hangs[s].dump)
        BY <2>1, <3>1
      <4>. QED
        BY <2>1, <4>1 DEF ByArtifact, Since
    <3>2. CASE s \notin left
      <4>1. PICK e \in events : Distance(reports[e].utc, hangs[s].dump) <= Match
        BY <3>2 DEF Repeats
      <4>2. /\ At(e, started, "backfill") \in marks'
            /\ At(e, started, "backfill").ns = Since(started, reports[e].utc)
        BY <2>1 DEF At
      <4>3. Since(started, reports[e].utc) = Since(started', reports'[e].utc)
        BY <2>1
      <4>. QED
        BY <2>1, <2>2, <4>1, <4>2, <4>3 DEF ByEvent, Distance
    <3>. QED
      BY <3>1, <3>2
  <2>4. \A r \in rows \cup marks : r.by \notin {"backfill", "artifact"}
    BY <2>1 DEF JInv, Made
  <2>5. ASSUME NEW m \in marks', NEW r \in rows' \cup marks', m.by = "artifact", r.by = "backfill"
        PROVE  ~(Distance(reports[r.hang].utc, hangs[m.hang].dump) <= Match)
    <3>1. PICK s \in left : m = Mark(s)
      BY <2>1, <2>4, <2>5 DEF At
    <3>2. PICK e \in events : r = At(e, started, "backfill")
      BY <2>1, <2>4, <2>5
    <3>3. m.hang = s /\ r.hang = e
      BY <3>1, <3>2 DEF At
    <3>. QED
      BY <3>1, <3>2, <3>3 DEF Repeats
  <2>6. ASSUME NEW m \in marks', NEW r \in rows' \cup marks', m.by = "artifact", r.by = "backfill"
        PROVE  ~(Distance(reports[r.hang].utc, hangs[m.hang].dump) <= Match)'
    BY <2>1, <2>5, <2>6 DEF Distance
  <2>. QED
    BY <2>1, <2>3, <2>6 DEF Told
<1>2. CASE Done \/ UNCHANGED vars
  BY <1>2 DEF Done, vars, JInv, Told, ByArtifact, ByEvent, Since, Distance
<1>3. CASE ~Backfill /\ ~Done /\ ~UNCHANGED vars
  <2>1. phase' # "complete"
    BY <1>3 DEF Next, World, Tick, SetClock, Hang, Report, StartSession, StartCollectors, Poll, Pass,
       PassFrom, AddMarker, Stop, FinalPass, CollectorsJoined, CollectArtifacts, CollectionFails,
       Crash, Recover, Over
  <2>. QED
    BY <2>1 DEF Told
<1>. QED
  BY <1>1, <1>2, <1>3

\* Evidence, signals and scan hang together as JInv says, in every state.
THEOREM Coherent == Spec => []JInv
<1>1. Init => JInv
  BY JInitial
<1>2. JInv /\ [Next]_vars => JInv'
  <2> SUFFICES ASSUME JInv, [Next]_vars PROVE JInv'
    OBVIOUS
  <2>1. IInv'
    BY Step DEF JInv
  <2>. QED
    BY <2>1, PastStep, MadeStep, ScanStep, ToldStep DEF JInv
<1>. QED
  BY <1>1, <1>2, PTL DEF Spec

-----------------------------------------------------------------------------
(* What follows.                                                           *)

\* With no more bookmarks than get windows, each has its own.
LEMMA EachHasWindow ==
    ASSUME JInv, Cardinality(marks) + Cardinality(others) <= Limit, NEW m \in marks
    PROVE  Window(m.ns) \in CrashWindows
<1> DEFINE M == {x \in marks : x.ns <= m.ns}
           O == {k \in others : k <= m.ns}
<1>1. IsFiniteSet(marks) /\ IsFiniteSet(others)
  BY DEF JInv, Made
<1>2. /\ IsFiniteSet(M) /\ Cardinality(M) <= Cardinality(marks)
      /\ IsFiniteSet(O) /\ Cardinality(O) <= Cardinality(others)
  BY <1>1, FS_Subset
<1>3. /\ Cardinality(M) \in Nat /\ Cardinality(O) \in Nat
      /\ Cardinality(marks) \in Nat /\ Cardinality(others) \in Nat
  BY <1>1, <1>2, FS_CardinalityType
<1>4. Cardinality(M) + Cardinality(O) <= Limit
  BY <1>2, <1>3, CrashReportAssumption
<1>5. Listed(m.ns)
  BY <1>4 DEF Listed
<1>. QED
  BY <1>5 DEF CrashWindows
\* The times of a hang that the session lived through and nobody set clocks in.
LEMMA HangTimes ==
    ASSUME JInv, Live, Steady, NEW h \in DOMAIN reports, InSession(h)
    PROVE  /\ origin \in Int /\ clock \in Int /\ started \in Int /\ started <= clock
           /\ StartUp = clock - started
           /\ hangs[h].at \in Int /\ hangs[h].dump \in Int
           /\ OnAxis(hangs[h].at) = hangs[h].at - origin /\ OnAxis(hangs[h].at) \in Nat
           /\ hangs[h].dump - clock <= OnAxis(hangs[h].at)
           /\ OnAxis(hangs[h].at) < hangs[h].dump - clock + Minute
<1>1. h \in DOMAIN hangs
  BY DEF JInv, IInv, Types
<1>2. /\ origin \in Int /\ clock \in Int /\ started \in Int
      /\ hangs[h].at \in Int /\ hangs[h].dump \in Int /\ started <= clock
  BY <1>1 DEF JInv, IInv, Types, Past, Steady
<1>3. StartUp = clock - started
  BY <1>2 DEF StartUp, Distance
<1>4. OnAxis(hangs[h].at) = hangs[h].at - origin /\ hangs[h].at - origin \in Nat
  BY <1>2 DEF OnAxis, Since, InSession
<1>5. DumpNear(h, Ahead) /\ drift = 0
  BY <1>1 DEF JInv, IInv, Clocks, Steady
<1>6. Minute \in Nat
  BY CrashReportAssumption
<1>. QED
  BY <1>2, <1>3, <1>4, <1>5, <1>6 DEF DumpNear, Ahead

\* A window around the minute of the dump shows the hang.
LEMMA ShownByArtifact ==
    ASSUME JInv, Live, Steady, NEW h \in DOMAIN reports, InSession(h)
    PROVE  OnAxis(hangs[h].at) \in Window(Since(clock, hangs[h].dump))
<1> DEFINE at == OnAxis(hangs[h].at)
           n == Since(clock, hangs[h].dump)
<1>1. /\ at \in Nat /\ clock \in Int /\ hangs[h].dump \in Int
      /\ hangs[h].dump - clock <= at /\ at < hangs[h].dump - clock + Minute
  BY HangTimes
<1>2. Minute \in Nat /\ After \in Nat /\ Before \in Nat /\ Minute <= After
  BY CrashReportAssumption
<1>3. n \in Nat /\ n <= at /\ at <= n + After
  BY <1>1, <1>2 DEF Since
<1>4. Since(Before, n) \in Nat /\ Since(Before, n) <= n
  BY <1>2, <1>3 DEF Since
<1>. QED
  BY <1>1, <1>2, <1>3, <1>4 DEF Window

\* So does one around an event that repeats the signal and was logged after
\* the collectors were joined, though the backfill places it late.
LEMMA ShownByEvent ==
    ASSUME JInv, Live, Steady, Match + StartUp <= Before, NEW h \in DOMAIN reports,
           InSession(h), BeforeJoin(h), NEW e \in DOMAIN reports,
           finalFrom <= reports[e].utc, Distance(reports[e].utc, hangs[h].dump) <= Match
    PROVE  OnAxis(hangs[h].at) \in Window(Since(started, reports[e].utc))
<1> DEFINE at == OnAxis(hangs[h].at)
           utc == reports[e].utc
           n == Since(started, utc)
<1>1. /\ at \in Nat /\ clock \in Int /\ started \in Int /\ hangs[h].dump \in Int
      /\ started <= clock /\ StartUp = clock - started
      /\ hangs[h].dump - clock <= at /\ at = hangs[h].at - origin
  BY HangTimes
<1>2. utc \in Int /\ finalFrom \in Int
  BY DEF JInv, IInv, Types
<1>3. After \in Nat /\ Before \in Nat /\ Match \in Nat
  BY CrashReportAssumption
<1>4. utc - hangs[h].dump <= Match
  BY <1>1, <1>2, DistanceBounds, <1>3 DEF Distance
<1>5. at <= finalFrom - clock /\ finalFrom <= utc
  BY <1>1 DEF BeforeJoin
<1>6. n = utc - started /\ n \in Nat /\ at <= n /\ n - Before <= at
  BY <1>1, <1>2, <1>3, <1>4, <1>5 DEF Since
<1>7. Since(Before, n) \in Nat /\ Since(Before, n) <= at
  BY <1>1, <1>3, <1>6 DEF Since
<1>. QED
  BY <1>1, <1>3, <1>6, <1>7 DEF Window

LEMMA HangFollows == JInv => HangIsShown
<1> SUFFICES ASSUME JInv, phase = "complete", Steady, Match + StartUp <= Before,
                    Cardinality(marks) + Cardinality(others) <= Limit,
                    NEW h \in scanned, InSession(h), BeforeJoin(h)
             PROVE  Shown(h)
  BY DEF HangIsShown
<1>1. Live /\ h \in DOMAIN reports
  BY DEF JInv, Scan, Live
<1>2. PICK s \in signals : hangs[s].dump = hangs[h].dump
  BY DEF JInv, Scan, Steady
<1>3. CASE ByArtifact(s)
  <2>1. PICK m \in marks : m.ns = Since(clock, hangs[s].dump)
    BY <1>3 DEF ByArtifact
  <2>2. m.ns = Since(clock, hangs[h].dump)
    BY <1>2, <2>1 DEF Since
  <2>3. OnAxis(hangs[h].at) \in Window(m.ns)
    BY <1>1, <2>2, ShownByArtifact
  <2>. QED
    BY <2>3, EachHasWindow DEF Shown
<1>4. CASE ByEvent(s)
  <2>1. PICK e \in DOMAIN reports :
          /\ finalFrom <= reports[e].utc
          /\ Distance(reports[e].utc, hangs[s].dump) <= Match
          /\ \E m \in marks : m.ns = Since(started, reports[e].utc)
    BY <1>4 DEF ByEvent
  <2>2. PICK m \in marks : m.ns = Since(started, reports[e].utc)
    BY <2>1
  <2>3. Distance(reports[e].utc, hangs[h].dump) <= Match
    BY <1>2, <2>1 DEF Distance
  <2>4. OnAxis(hangs[h].at) \in Window(m.ns)
    BY <1>1, <2>1, <2>2, <2>3, ShownByEvent
  <2>. QED
    BY <2>4, EachHasWindow DEF Shown
<1>. QED
  BY <1>2, <1>3, <1>4 DEF JInv, Told

\* The report of a stopped session has a window around every hang of it that
\* the final scan found, on the conditions HangIsShown names.
THEOREM HangSafe == Spec => []HangIsShown
  BY Coherent, HangFollows, PTL
LEMMA AtMostTwo ==
    ASSUME NEW a, NEW b, NEW S, S \subseteq {a, b}
    PROVE  Cardinality(S) \in Nat /\ Cardinality(S) <= 2
<1>1. IsFiniteSet({a}) /\ Cardinality({a}) = 1
  BY FS_Singleton
<1>2. {a, b} = {a} \cup {b}
  OBVIOUS
<1>3. IsFiniteSet({a, b}) /\ Cardinality({a, b}) <= 2
  BY <1>1, <1>2, FS_AddElement
<1>4. IsFiniteSet(S) /\ Cardinality(S) <= Cardinality({a, b})
  BY <1>3, FS_Subset
<1>. QED
  BY <1>3, <1>4, FS_CardinalityType

LEMMA AtMostThree ==
    ASSUME NEW a, NEW b, NEW c, NEW S, S \subseteq {a, b, c}
    PROVE  Cardinality(S) \in Nat /\ Cardinality(S) <= 3
<1>1. IsFiniteSet({a, b}) /\ Cardinality({a, b}) \in Nat /\ Cardinality({a, b}) <= 2
  <2>1. IsFiniteSet({a})
    BY FS_Singleton
  <2>2. {a, b} = {a} \cup {b}
    OBVIOUS
  <2>3. IsFiniteSet({a, b})
    BY <2>1, <2>2, FS_AddElement
  <2>. QED
    BY <2>3, AtMostTwo
<1>2. {a, b, c} = {a, b} \cup {c}
  OBVIOUS
<1>3. IsFiniteSet({a, b, c}) /\ Cardinality({a, b, c}) \in Nat /\ Cardinality({a, b, c}) <= 3
  <2>1. IsFiniteSet({a, b, c})
    BY <1>1, <1>2, FS_AddElement
  <2>2. Cardinality({a, b, c}) \in Nat
    BY <2>1, FS_CardinalityType
  <2>. QED
    BY <1>1, <1>2, <2>1, <2>2, FS_AddElement
<1>4. IsFiniteSet(S) /\ Cardinality(S) <= Cardinality({a, b, c})
  BY <1>3, FS_Subset
<1>. QED
  BY <1>3, <1>4, FS_CardinalityType

\* There is one piece of evidence of each kind of a hang.
LEMMA KindsOf ==
    ASSUME JInv, phase = "complete", NEW r \in rows \cup marks
    PROVE  \/ r = At(r.hang, clock, "poll")
           \/ r = At(r.hang, started, "backfill")
           \/ r = [hang |-> r.hang, ns |-> Since(clock, hangs[r.hang].dump), by |-> "artifact"]
<1>1. /\ r = [hang |-> r.hang, ns |-> r.ns, by |-> r.by]
      /\ r.by # "recovery"
  BY DEF JInv, Made
<1>2. Placed(r)
  BY DEF JInv, IInv, Placement
<1>. QED
  BY <1>1, <1>2 DEF Placed, At

LEMMA CountFollows == JInv => HangIsCounted
<1> SUFFICES ASSUME JInv, phase = "complete" PROVE HangIsCounted
  BY DEF HangIsCounted
<1>1. ASSUME Steady, NEW h \in scanned, InSession(h) PROVE Evidence > 0
  <2>1. PICK s \in signals : hangs[s].dump = hangs[h].dump
    BY <1>1 DEF JInv, Scan, Steady
  <2>2. marks # {}
    BY <2>1 DEF JInv, Told, ByArtifact, ByEvent
  <2>3. /\ Cardinality(marks) \in Nat /\ Cardinality(marks) # 0
        /\ Cardinality(rows) \in Nat
    BY <2>2, FS_CardinalityType, FS_EmptySet DEF JInv, Made
  <2>. QED
    BY <2>3 DEF Evidence
<1>2. ASSUME NEW h \in DOMAIN reports
      PROVE  CountOf(h) <= IF Distance(reports[h].utc, hangs[h].dump) <= Match THEN 4 ELSE 5
  <2> DEFINE R == {r \in rows : r.hang = h}
             M == {m \in marks : m.hang = h}
             poll == At(h, clock, "poll")
             seam == At(h, started, "backfill")
             own == [hang |-> h, ns |-> Since(clock, hangs[h].dump), by |-> "artifact"]
  <2>1. R \subseteq {poll, seam}
    <3>1. \A r \in R : r.by # "artifact"
      BY DEF JInv, Made
    <3>2. own.by = "artifact"
      OBVIOUS
    <3>3. \A r \in R : r = poll \/ r = seam \/ r = own
      BY KindsOf
    <3>. QED
      BY <3>1, <3>2, <3>3
  <2>2. M \subseteq {poll, seam, own}
    BY KindsOf
  <2>3. CountOf(h) = Cardinality(R) + Cardinality(M)
    BY DEF CountOf
  <2>4. CASE own \notin M
    <3>1. M \subseteq {poll, seam}
      BY <2>2, <2>4
    <3>2. /\ Cardinality(R) \in Nat /\ Cardinality(R) <= 2
          /\ Cardinality(M) \in Nat /\ Cardinality(M) <= 2
      BY <2>1, <3>1, AtMostTwo
    <3>. QED
      BY <2>3, <3>2
  <2>5. CASE own \in M /\ Distance(reports[h].utc, hangs[h].dump) <= Match
    <3>1. own.by = "artifact" /\ own.hang = h /\ seam.by = "backfill" /\ seam.hang = h
      BY DEF At
    <3>2. seam \notin R /\ seam \notin M
      BY <2>5, <3>1 DEF JInv, Told
    <3>3. R \subseteq {poll} /\ M \subseteq {poll, own}
      BY <2>1, <2>2, <3>2
    <3>4. /\ Cardinality(R) \in Nat /\ Cardinality(R) <= 2
          /\ Cardinality(M) \in Nat /\ Cardinality(M) <= 2
      BY <3>3, AtMostTwo
    <3>. QED
      BY <2>3, <3>4
  <2>6. CASE ~(Distance(reports[h].utc, hangs[h].dump) <= Match)
    <3>1. /\ Cardinality(R) \in Nat /\ Cardinality(R) <= 2
          /\ Cardinality(M) \in Nat /\ Cardinality(M) <= 3
      BY <2>1, <2>2, AtMostTwo, AtMostThree
    <3>. QED
      BY <2>3, <2>6, <3>1
  <2>. QED
    BY <2>4, <2>5, <2>6
<1>. QED
  BY <1>1, <1>2 DEF HangIsCounted

\* The timeout finding appears when there is a hang to find, and counts none
\* more than five times.
THEOREM CountSafe == Spec => []HangIsCounted
  BY Coherent, CountFollows, PTL
=============================================================================
