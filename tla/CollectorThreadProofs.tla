------------------------ MODULE CollectorThreadProofs ------------------------
(***************************************************************************)
(* Proofs about two collector threads, for any number of processes, rows   *)
(* and failing calls.  ProcessWatch: whatever processes come, go and reuse *)
(* PIDs between any two steps of the loop, within a second or later, the   *)
(* records account for each one the loop has met.  FrameCapture: the       *)
(* reader outlives the capture process or has an error on its account, and *)
(* the last health record tells what run() and the reader have found.      *)
(***************************************************************************)
EXTENDS ProcessWatch, FrameCapture, TLAPS

Kinds == {"observed", "start", "stop", "foreground_process_exit"}

\* The identities that were announced.
Seen == Offered("observed") \cup Offered("start")

\* The processes of the snapshot that were visited in this iteration.
VisitedNow == IF pc \in {"visit", "drain"} THEN snapshot \ current ELSE {}

Types ==
    /\ running \subseteq Processes /\ snapshot \subseteq Processes
    /\ met \subseteq Processes
    /\ pc = "visit" => current \subseteq snapshot
    /\ pc = "drain" => current = {}
    /\ second \in 1..MaxSeconds
    /\ created \in 1..MaxStarts
    /\ pc \in {"refresh", "foreground", "visit", "drain", "exited"}

\* The loop has only met processes that exist or existed, one of those that
\* run only if it is in the last snapshot.
Past ==
    /\ \A x \in running \cup snapshot \cup met : x.nth <= created
    /\ met \cap running \subseteq snapshot

\* What is known, announced or ended was met; what was met is announced, and
\* is known, ended, or visited in this iteration.
Announced ==
    /\ known \subseteq Identities(met)
    /\ Seen = Identities(met)
    /\ Identities(met) \subseteq
           Offered("stop") \cup known \cup Identities(VisitedNow)
    /\ pc \in {"refresh", "exited"} => known = Identities(snapshot)
    /\ VisitedNow \subseteq met

\* A process that was met and that this or the next snapshot holds is known by
\* its identity, unless it was visited in this iteration.
StillKnown ==
    /\ pc \in {"refresh", "foreground", "exited"} =>
          Identities(met \cap (running \cup snapshot)) \subseteq known
    /\ pc = "visit" => Identities(met \cap current) \subseteq known

\* An end is announced when a process of that identity is gone.
Ended ==
    /\ \A id \in Offered("stop") : \E x \in met \ running : Identity(x) = id
    /\ Offered("foreground_process_exit") \subseteq Offered("stop")

\* Two announcements of one identity are for two processes.
TwoForTwo ==
    \A id \in Offered("observed") \cap Offered("start") :
        \E x, y \in met : x # y /\ Identity(x) = id /\ Identity(y) = id

IInv == Types /\ Past /\ Announced /\ StillKnown /\ Ended /\ TwoForTwo

-----------------------------------------------------------------------------
(* What offering a record does.                                            *)

LEMMA OfferedSame ==
    ASSUME offered' = offered
    PROVE  /\ \A k \in Kinds : Offered(k)' = Offered(k)
           /\ Seen' = Seen
  BY DEF Offered, Record, Seen, Kinds

LEMMA OfferedMore ==
    ASSUME NEW S, TrySend(S), NEW k
    PROVE  Offered(k)' =
             Offered(k) \cup {id \in Identities(Processes) : Record(k, id) \in S}
  BY DEF TrySend, Offered, Record

LEMMA RecordsDiffer ==
    ASSUME NEW k, NEW l, NEW x, NEW y, Record(k, x) = Record(l, y)
    PROVE  k = l /\ x = y
<1>1. Record(k, x).kind = k /\ Record(k, x).process = x
  BY DEF Record
<1>2. Record(l, y).kind = l /\ Record(l, y).process = y
  BY DEF Record
<1>. QED
  BY <1>1, <1>2

LEMMA OfferedOne ==
    ASSUME NEW k, NEW id \in Identities(Processes), TrySend({Record(k, id)})
    PROVE  /\ Offered(k)' = Offered(k) \cup {id}
           /\ \A l : l # k => Offered(l)' = Offered(l)
<1>1. {i \in Identities(Processes) : Record(k, i) \in {Record(k, id)}} = {id}
  BY RecordsDiffer
<1>2. Offered(k)' = Offered(k) \cup {id}
  BY <1>1, OfferedMore
<1>3. ASSUME NEW l, l # k PROVE Offered(l)' = Offered(l)
  <2>1. {i \in Identities(Processes) : Record(l, i) \in {Record(k, id)}} = {}
    BY <1>3, RecordsDiffer
  <2>. QED
    BY <2>1, OfferedMore
<1>. QED
  BY <1>2, <1>3

\* Identities of more, of one and of none.
LEMMA IdentitiesGrow ==
    /\ \A S, T : S \subseteq T => Identities(S) \subseteq Identities(T)
    /\ \A S, x : Identities(S \cup {x}) = Identities(S) \cup {Identity(x)}
    /\ \A S, x : x \in S => Identity(x) \in Identities(S)
    /\ Identities({}) = {}
  BY DEF Identities

-----------------------------------------------------------------------------
(* IInv is inductive.                                                      *)

LEMMA Initial == Init => IInv
<1> SUFFICES ASSUME Init PROVE IInv
  OBVIOUS
<1>1. /\ \A k : Offered(k) = {}
      /\ met = {} /\ known = {} /\ snapshot = {} /\ pc = "refresh"
  BY DEF Init, Offered
<1>2. 1 \in 1..MaxStarts /\ 1 \in 1..MaxSeconds
  BY ProcessAssumption
<1>3. running \subseteq Processes /\ \A x \in running : x.nth <= 1
  BY <1>2 DEF Init, Processes
<1>4. Types /\ Past
  BY <1>1, <1>2, <1>3 DEF Init, Types, Past
<1>5. Seen = {} /\ VisitedNow = {}
  BY <1>1 DEF Seen, VisitedNow
<1>6. Announced
  BY <1>1, <1>5, IdentitiesGrow DEF Announced
<1>7. StillKnown /\ Ended /\ TwoForTwo
  BY <1>1, IdentitiesGrow DEF StillKnown, Ended, TwoForTwo, Identities
<1>. QED
  BY <1>4, <1>6, <1>7 DEF IInv

\* A new process is one that was not met, whatever its identity.
LEMMA CreateStep == ASSUME IInv, NEW p \in Pids, Create(p) PROVE IInv'
<1> DEFINE x == [pid |-> p, started |-> second, nth |-> created + 1]
<1>1. /\ running' = running \cup {x} /\ created' = created + 1 /\ created < MaxStarts
      /\ UNCHANGED <<second, pc, snapshot, current, known, met, offered>>
  BY DEF Create, locals
<1>2. /\ created \in Nat /\ MaxStarts \in Nat /\ created' \in 1..MaxStarts /\ x \in Processes
  BY <1>1, ProcessAssumption DEF IInv, Types, Processes
<1>3. /\ Seen' = Seen /\ Offered("stop")' = Offered("stop")
      /\ Offered("foreground_process_exit")' = Offered("foreground_process_exit")
      /\ Offered("observed")' = Offered("observed") /\ Offered("start")' = Offered("start")
  BY <1>1, OfferedSame DEF Kinds
<1>4. \A y \in running \cup snapshot \cup met : y.nth <= created /\ y.nth \in Nat
  BY DEF IInv, Types, Past, Processes
<1>5. x.nth = created + 1
  OBVIOUS
<1>6. x \notin snapshot \cup met
  BY <1>2, <1>4, <1>5
<1> HIDE DEF x
<1>7. Types'
  BY <1>1, <1>2 DEF IInv, Types
<1>8. Past'
  <2>1. \A y \in running' \cup snapshot' \cup met' : y.nth <= created'
    BY <1>1, <1>2, <1>4, <1>5
  <2>. QED
    BY <1>1, <1>6, <2>1 DEF IInv, Past
<1>9. Announced'
  BY <1>1, <1>3 DEF IInv, Announced, VisitedNow
<1>10. StillKnown'
  <2>1. met' \cap (running' \cup snapshot') = met \cap (running \cup snapshot)
    BY <1>1, <1>6
  <2>. QED
    BY <1>1, <2>1 DEF IInv, StillKnown
<1>11. Ended' /\ TwoForTwo'
  <2>1. met' \ running' = met \ running /\ met' = met
    BY <1>1, <1>6
  <2>. QED
    BY <1>3, <2>1 DEF IInv, Ended, TwoForTwo
<1>. QED
  BY <1>7, <1>8, <1>9, <1>10, <1>11 DEF IInv

\* Other steps outside, and those that only move pc without a record.
LEMMA Silent ==
    ASSUME IInv, offered' = offered, created' = created, met' = met,
           second' \in 1..MaxSeconds,
           running' \subseteq running, known' = known, snapshot' = snapshot,
           \/ UNCHANGED <<pc, current>>
           \/ pc = "foreground" /\ pc' = "visit" /\ current' = snapshot
           \/ pc = "visit" /\ pc' = "drain" /\ current = {} /\ current' = current
           \/ pc = "refresh" /\ pc' = "exited" /\ current' = current
    PROVE  IInv'
<1>1. /\ Seen' = Seen /\ Offered("stop")' = Offered("stop")
      /\ Offered("foreground_process_exit")' = Offered("foreground_process_exit")
      /\ Offered("observed")' = Offered("observed") /\ Offered("start")' = Offered("start")
  BY OfferedSame DEF Kinds
<1>2. Types' /\ Past'
  BY DEF IInv, Types, Past
<1>3. VisitedNow' = VisitedNow
  BY DEF IInv, Types, VisitedNow
<1>4. Announced'
  BY <1>1, <1>3 DEF IInv, Announced
<1>5. StillKnown'
  <2>1. /\ met' \cap (running' \cup snapshot') \subseteq met \cap (running \cup snapshot)
        /\ met \cap snapshot \subseteq met \cap (running \cup snapshot)
    OBVIOUS
  <2>2. /\ Identities(met' \cap (running' \cup snapshot'))
             \subseteq Identities(met \cap (running \cup snapshot))
        /\ Identities(met \cap snapshot)
             \subseteq Identities(met \cap (running \cup snapshot))
    BY <2>1, IdentitiesGrow
  <2>. QED
    BY <2>2 DEF IInv, StillKnown
<1>6. Ended'
  BY <1>1 DEF IInv, Ended
<1>7. TwoForTwo'
  BY <1>1 DEF IInv, TwoForTwo
<1>. QED
  BY <1>2, <1>4, <1>5, <1>6, <1>7 DEF IInv

LEMMA RefreshStep == ASSUME IInv, Refresh PROVE IInv'
<1>1. /\ pc = "refresh" /\ pc' = "foreground" /\ snapshot' = running
      /\ UNCHANGED <<running, created, second, current, known, met, offered>>
  BY DEF Refresh, outside
<1>2. /\ Seen' = Seen /\ Offered("stop")' = Offered("stop")
      /\ Offered("foreground_process_exit")' = Offered("foreground_process_exit")
      /\ Offered("observed")' = Offered("observed") /\ Offered("start")' = Offered("start")
  BY <1>1, OfferedSame DEF Kinds
<1>3. Types' /\ Past'
  BY <1>1 DEF IInv, Types, Past
<1>4. VisitedNow = {} /\ VisitedNow' = {}
  BY <1>1 DEF VisitedNow
<1>5. Announced'
  BY <1>1, <1>2, <1>4 DEF IInv, Announced
<1>6. StillKnown'
  <2>1. met' \cap (running' \cup snapshot') \subseteq met \cap (running \cup snapshot)
    BY <1>1
  <2>2. Identities(met' \cap (running' \cup snapshot'))
          \subseteq Identities(met \cap (running \cup snapshot))
    BY <2>1, IdentitiesGrow
  <2>. QED
    BY <1>1, <2>2 DEF IInv, StillKnown
<1>7. Ended' /\ TwoForTwo'
  BY <1>1, <1>2 DEF IInv, Ended, TwoForTwo
<1>. QED
  BY <1>3, <1>5, <1>6, <1>7 DEF IInv

\* A visited process is announced at most now: if its identity is not known it
\* was never met, and an announcement before was another process's.
LEMMA VisitStep == ASSUME IInv, NEW x \in current, Visit(x) PROVE IInv'
<1>1. /\ pc = "visit" /\ current' = current \ {x} /\ met' = met \cup {x}
      /\ UNCHANGED <<running, created, second, pc, snapshot, known>>
  BY DEF Visit, outside
<1>2. /\ x \in snapshot /\ x \in Processes /\ x.nth <= created
      /\ Identity(x) \in Identities(Processes)
  BY <1>1, IdentitiesGrow DEF IInv, Types, Past
<1>3. Types' /\ Past'
  BY <1>1, <1>2 DEF IInv, Types, Past
<1>4. /\ VisitedNow' = VisitedNow \cup {x} /\ VisitedNow \subseteq met
      /\ Identities(VisitedNow') = Identities(VisitedNow) \cup {Identity(x)}
      /\ Identities(met') = Identities(met) \cup {Identity(x)}
  BY <1>1, <1>2, IdentitiesGrow DEF VisitedNow, IInv, Announced
<1>5. StillKnown'
  <2>1. met' \cap current' \subseteq met \cap current
    BY <1>1
  <2>2. Identities(met' \cap current') \subseteq Identities(met \cap current)
    BY <2>1, IdentitiesGrow
  <2>. QED
    BY <1>1, <2>2 DEF IInv, StillKnown
<1>6. ASSUME Offered("stop")' = Offered("stop"),
             Offered("foreground_process_exit")' = Offered("foreground_process_exit")
      PROVE  Ended'
  BY <1>1, <1>6 DEF IInv, Ended
<1>7. CASE Identity(x) \in known
  <2>1. offered' = offered
    BY <1>7 DEF Visit, TrySend
  <2>2. /\ Seen' = Seen /\ Offered("stop")' = Offered("stop")
        /\ Offered("foreground_process_exit")' = Offered("foreground_process_exit")
        /\ Offered("observed")' = Offered("observed") /\ Offered("start")' = Offered("start")
    BY <2>1, OfferedSame DEF Kinds
  <2>3. Announced'
    BY <1>1, <1>4, <1>7, <2>2 DEF IInv, Announced
  <2>4. TwoForTwo'
    BY <1>1, <2>2 DEF IInv, TwoForTwo
  <2>. QED
    BY <1>3, <1>5, <1>6, <2>2, <2>3, <2>4 DEF IInv
<1>8. ASSUME Identity(x) \notin known, NEW k \in {"observed", "start"},
             TrySend({Record(k, Identity(x))})
      PROVE  IInv'
  <2>1. /\ Offered(k)' = Offered(k) \cup {Identity(x)}
        /\ \A l : l # k => Offered(l)' = Offered(l)
    BY <1>2, <1>8, OfferedOne
  <2>2. /\ Offered("stop")' = Offered("stop")
        /\ Offered("foreground_process_exit")' = Offered("foreground_process_exit")
    BY <1>8, <2>1
  <2>3. Seen' = Seen \cup {Identity(x)}
    <3>1. CASE k = "observed"
      BY <2>1, <3>1 DEF Seen
    <3>2. CASE k = "start"
      BY <2>1, <3>2 DEF Seen
    <3>. QED
      BY <1>8, <3>1, <3>2
  <2>4. x \notin met
    <3>1. ASSUME x \in met PROVE Identity(x) \in Identities(met \cap current)
      BY <3>1, IdentitiesGrow
    <3>. QED
      BY <1>1, <1>8, <3>1 DEF IInv, StillKnown
  <2>5. Announced'
    BY <1>1, <1>4, <2>2, <2>3 DEF IInv, Announced
  <2>6. TwoForTwo'
    <3> SUFFICES ASSUME NEW id \in Offered("observed")' \cap Offered("start")'
                 PROVE  \E y, z \in met' : y # z /\ Identity(y) = id /\ Identity(z) = id
      BY DEF TwoForTwo
    <3>1. CASE id \in Offered("observed") \cap Offered("start")
      BY <1>1, <3>1 DEF IInv, TwoForTwo
    <3>2. CASE id \notin Offered("observed") \cap Offered("start")
      <4>1. id = Identity(x) /\ id \in Seen
        <5>1. CASE k = "observed"
          BY <2>1, <3>2, <5>1 DEF Seen
        <5>2. CASE k = "start"
          BY <2>1, <3>2, <5>2 DEF Seen
        <5>. QED
          BY <1>8, <5>1, <5>2
      <4>2. PICK y \in met : Identity(y) = id
        BY <4>1 DEF IInv, Announced, Identities
      <4>. QED
        BY <1>1, <2>4, <4>1, <4>2
    <3>. QED
      BY <3>1, <3>2
  <2>. QED
    BY <1>3, <1>5, <1>6, <2>2, <2>5, <2>6 DEF IInv
<1>9. CASE Identity(x) \notin known
  <2>1. \/ firstSnapshot /\ TrySend({Record("observed", Identity(x))})
        \/ ~firstSnapshot /\ TrySend({Record("start", Identity(x))})
    BY <1>9 DEF Visit
  <2>. QED
    BY <1>8, <1>9, <2>1
<1>. QED
  BY <1>7, <1>9

\* The end of an identity is announced once a process that had it is gone.
LEMMA GoneStep == ASSUME IInv, NEW id \in known, Gone(id) PROVE IInv'
<1> DEFINE S == {Record("stop", id)}
                 \cup IF id[1] \in recent THEN {Record("foreground_process_exit", id)} ELSE {}
<1>1. /\ pc = "drain" /\ id \in known \ Identities(snapshot)
      /\ known' = known \ {id} /\ TrySend(S)
      /\ UNCHANGED <<running, created, second, pc, snapshot, current, met>>
  BY DEF Gone, outside
<1>2. PICK x \in met : Identity(x) = id
  BY DEF IInv, Announced, Identities
<1>3. x \in met \ running /\ id \in Identities(Processes)
  <2>1. x \notin snapshot
    BY <1>1, <1>2, IdentitiesGrow
  <2>. QED
    BY <1>2, <2>1, IdentitiesGrow DEF IInv, Past, Types
<1>4. Offered("stop")' = Offered("stop") \cup {id}
  <2>1. {i \in Identities(Processes) : Record("stop", i) \in S} = {id}
    BY <1>3, RecordsDiffer
  <2>. QED
    BY <1>1, <2>1, OfferedMore
<1>5. Offered("foreground_process_exit")' \subseteq Offered("foreground_process_exit") \cup {id}
  <2>1. {i \in Identities(Processes) : Record("foreground_process_exit", i) \in S} \subseteq {id}
    BY RecordsDiffer
  <2>. QED
    BY <1>1, <2>1, OfferedMore
<1>6. /\ Offered("observed")' = Offered("observed") /\ Offered("start")' = Offered("start")
      /\ Seen' = Seen
  <2>1. ASSUME NEW l \in {"observed", "start"} PROVE Offered(l)' = Offered(l)
    <3>1. {i \in Identities(Processes) : Record(l, i) \in S} = {}
      BY RecordsDiffer
    <3>. QED
      BY <1>1, <3>1, OfferedMore
  <2>. QED
    BY <2>1 DEF Seen
<1> HIDE DEF S
<1>7. Types' /\ Past'
  BY <1>1 DEF IInv, Types, Past
<1>8. VisitedNow' = VisitedNow
  BY <1>1 DEF VisitedNow
<1>9. Announced'
  BY <1>1, <1>4, <1>6, <1>8 DEF IInv, Announced
<1>10. StillKnown' /\ TwoForTwo'
  BY <1>1, <1>6 DEF IInv, StillKnown, TwoForTwo
<1>11. Ended'
  BY <1>1, <1>2, <1>3, <1>4, <1>5 DEF IInv, Ended
<1>. QED
  BY <1>7, <1>9, <1>10, <1>11 DEF IInv

LEMMA DrainedStep == ASSUME IInv, Drained PROVE IInv'
<1>1. /\ pc = "drain" /\ known \subseteq Identities(snapshot)
      /\ known' = Identities(snapshot) /\ pc' = "refresh"
      /\ UNCHANGED <<running, created, second, snapshot, current, met, offered>>
  BY DEF Drained, outside
<1>2. /\ Seen' = Seen /\ Offered("stop")' = Offered("stop")
      /\ Offered("foreground_process_exit")' = Offered("foreground_process_exit")
      /\ Offered("observed")' = Offered("observed") /\ Offered("start")' = Offered("start")
  BY <1>1, OfferedSame DEF Kinds
<1>3. Types' /\ Past'
  BY <1>1 DEF IInv, Types, Past
<1>4. VisitedNow = snapshot /\ VisitedNow' = {} /\ snapshot \subseteq met
  BY <1>1 DEF VisitedNow, IInv, Types, Announced
<1>5. Identities(snapshot) \subseteq Identities(met) /\ Identities({}) = {}
  BY <1>4, IdentitiesGrow
<1>6. Announced'
  BY <1>1, <1>2, <1>4, <1>5 DEF IInv, Announced
<1>7. StillKnown'
  <2>1. met' \cap (running' \cup snapshot') \subseteq snapshot
    BY <1>1 DEF IInv, Past
  <2>2. Identities(met' \cap (running' \cup snapshot')) \subseteq Identities(snapshot)
    BY <2>1, IdentitiesGrow
  <2>. QED
    BY <1>1, <2>2 DEF StillKnown
<1>8. Ended' /\ TwoForTwo'
  BY <1>1, <1>2 DEF IInv, Ended, TwoForTwo
<1>. QED
  BY <1>3, <1>6, <1>7, <1>8 DEF IInv

LEMMA Step == IInv /\ [Next]_vars => IInv'
<1> SUFFICES ASSUME IInv, [Next]_vars PROVE IInv'
  OBVIOUS
<1> USE DEF outside, locals
<1>0. second \in 1..MaxSeconds
  BY DEF IInv, Types
<1>1. ASSUME NEW p \in Pids, Create(p) PROVE IInv'
  BY <1>1, CreateStep
<1>2. ASSUME NEW x \in running, ComeToFront(x) \/ Exit(x) PROVE IInv'
  BY <1>0, <1>2, Silent DEF ComeToFront, Exit
<1>9. CASE NextSecond
  <2>1. second' \in 1..MaxSeconds
    BY <1>0, <1>9, ProcessAssumption DEF NextSecond
  <2>. QED
    BY <1>9, <2>1, Silent DEF NextSecond
<1>3. CASE Refresh
  BY <1>3, RefreshStep
<1>4. CASE AskForeground \/ Visited \/ StopSeen
  BY <1>0, <1>4, Silent DEF AskForeground, Visited, StopSeen
<1>5. ASSUME NEW x \in current, Visit(x) PROVE IInv'
  BY <1>5, VisitStep
<1>6. ASSUME NEW id \in known, Gone(id) PROVE IInv'
  BY <1>6, GoneStep
<1>7. CASE Drained
  BY <1>7, DrainedStep
<1>8. CASE StopCollectors \/ Over \/ UNCHANGED vars
  BY <1>0, <1>8, Silent DEF StopCollectors, Over, vars
<1>. QED
  BY <1>1, <1>2, <1>3, <1>4, <1>5, <1>6, <1>7, <1>8, <1>9
  DEF Next, Windows, Collector

LEMMA AccountFollows == IInv => EveryProcessAccounted
<1> SUFFICES ASSUME IInv PROVE EveryProcessAccounted
  OBVIOUS
<1>1. ASSUME pc = "refresh", NEW x \in met
      PROVE  /\ Identity(x) \in Offered("observed") \cup Offered("start")
             /\ Identity(x) \in Offered("stop") \cup Identities(snapshot)
  <2>1. Identity(x) \in Identities(met) /\ VisitedNow = {} /\ Identities({}) = {}
    BY <1>1, IdentitiesGrow DEF VisitedNow
  <2>. QED
    BY <1>1, <2>1 DEF IInv, Announced, Seen
<1>. QED
  BY <1>1 DEF IInv, Ended, TwoForTwo, EveryProcessAccounted

\* However processes come, go and reuse PIDs between the steps of the loop, in
\* the same second or later: no stop is premature, an identity is announced
\* twice only for two processes, and who was met is announced and ended, or
\* has its identity in the last snapshot.
THEOREM AccountSafe == Spec => []EveryProcessAccounted
<1>1. Init => IInv
  BY Initial
<1>2. IInv /\ [Next]_vars => IInv'
  BY Step
<1>. QED
  BY <1>1, <1>2, AccountFollows, PTL DEF Spec

-----------------------------------------------------------------------------
(* The PresentMon collector.                                                *)

\* run() has not seen the stop flag raised and has found no exit yet.
Early == {"prepare", "spawn_reader", "spawn_stderr", "check_stop", "poll"}

CaptureTypes ==
    /\ malformed \in Nat /\ drops \in Nat
    /\ pos \in Nat /\ rows \in Nat /\ skipped \in Nat
    /\ runPc \in Early \cup {"wait_exit", "capture_done", "join", "returned", "error"}
    /\ captureDone \in BOOLEAN /\ unexpected \in BOOLEAN /\ asked \in BOOLEAN

\* What run() has found and done by the time it is where it is.
RunEnds ==
    /\ runPc \in Early => ~asked /\ ~unexpected
    /\ runPc \in {"capture_done", "join", "returned"} =>
          child = "exited" /\ (unexpected \/ stopFlag)
    /\ runPc = "wait_exit" => stopFlag
    /\ captureDone => runPc \in {"join", "returned"}
    /\ unexpected => ~asked /\ child = "exited"

\* What the reader and the health record rest on.
ReaderEnds ==
    /\ reader = "done" /\ receiver => captureDone
    /\ reader = "cut_off" => malformed > 0
    /\ health \in {"none", "running"} \/ runPc = "returned"
    /\ runPc = "returned" => reader \in {"done", "cut_off", "failed"}
    /\ health = "stopped" =>
          reader = "done" /\ ~unexpected /\ headerSeen /\ malformed = 0 /\ drops = 0
    /\ health = "degraded" => ~unexpected /\ headerSeen
    /\ health = "failed" => reader = "failed" \/ unexpected
    /\ unexpected /\ runPc = "returned" => health = "failed"

\* While the writer receives, each row read is in some count.
RowsCounted == receiver => pos <= skipped + rows + malformed + drops

CaptureInv == CaptureTypes /\ RunEnds /\ ReaderEnds /\ RowsCounted

LEMMA CaptureInitial == CaptureInit => CaptureInv
<1> SUFFICES ASSUME CaptureInit PROVE CaptureInv
  OBVIOUS
<1>1. CaptureTypes
  BY DEF CaptureInit, CaptureTypes, Early
<1>2. RunEnds
  BY DEF CaptureInit, RunEnds
<1>3. ReaderEnds /\ RowsCounted
  BY DEF CaptureInit, ReaderEnds, RowsCounted
<1>. QED
  BY <1>1, <1>2, <1>3 DEF CaptureInv

\* The capture process may exit at any time, and does not come back.
LEMMA ChildStep == ASSUME CaptureInv, Child PROVE CaptureInv'
  BY DEF Child, CreateFile, WriteRow, ChildExits, ChildCrashes, runVars, readerVars,
         CaptureInv, CaptureTypes, RunEnds, ReaderEnds,
         RowsCounted

LEMMA RunStep == ASSUME CaptureInv, Run PROVE CaptureInv'
<1> USE DEF childVars, readerVars, RunOnly, Goto, CaptureInv, CaptureTypes, RunEnds, ReaderEnds, RowsCounted, Early
<1>1. CASE SpawnCapture \/ SpawnReader \/ SpawnStderrReader
  BY <1>1 DEF SpawnCapture, SpawnReader, SpawnStderrReader
<1>2. CASE PollFindsExit
  BY <1>2 DEF PollFindsExit
<1>3. CASE FlagSeen
  BY <1>3 DEF FlagSeen
<1>7. CASE CheckStop \/ PollAgain
  BY <1>7 DEF CheckStop, PollAgain
<1>4. CASE ExitSeen \/ ExitTimesOut
  BY <1>4 DEF ExitSeen, ExitTimesOut
<1>5. CASE SetCaptureDone
  BY <1>5 DEF SetCaptureDone
<1>6. CASE JoinReader
  BY <1>6 DEF JoinReader, Outcome
<1>. QED
  BY <1>1, <1>2, <1>3, <1>4, <1>5, <1>6, <1>7 DEF Run

LEMMA EarlyReturnStep == ASSUME CaptureInv, ReturnsEarly PROVE CaptureInv'
  BY DEF ReturnsEarly, childVars, readerVars, RunOnly, Goto, CaptureInv, CaptureTypes, RunEnds, ReaderEnds,
         RowsCounted, Early

\* The reader works on until it is told that the capture is done; once it has
\* ended nothing it counted changes.
LEMMA ReaderStep == ASSUME CaptureInv, Reader PROVE CaptureInv'
<1> USE DEF childVars, runVars, ReaderOnly, Parsed, CaptureInv, CaptureTypes, RunEnds, ReaderEnds,
         RowsCounted
<1>1. CASE OpenFile \/ NothingToOpen \/ CheckedOpen
  BY <1>1 DEF OpenFile, NothingToOpen, CheckedOpen
<1>2. CASE ReadRow
  <2>1. /\ reader = "reading" /\ pos' = pos + 1
        /\ UNCHANGED <<child, asked, runPc, unexpected, captureDone, health, receiver, stopFlag>>
    BY <1>2 DEF ReadRow
  <2>2. CASE SkipRow \/ MalformedRow
    BY <2>1, <2>2 DEF SkipRow, MalformedRow
  <2>3. CASE QueueFrame \/ RefuseFrame
    BY <2>1, <2>3 DEF QueueFrame, RefuseFrame
  <2>4. CASE NoReceiver
    BY <2>1, <2>4 DEF NoReceiver
  <2>. QED
    BY <1>2, <2>2, <2>3, <2>4 DEF ReadRow
<1>4. CASE ReadFails
  BY <1>4 DEF ReadFails
<1>3. CASE ReadNothing \/ CheckedDone
  BY <1>3 DEF ReadNothing, CheckedDone
<1>. QED
  BY <1>1, <1>2, <1>3, <1>4 DEF Reader

LEMMA SessionStep ==
  ASSUME CaptureInv, WriterFails \/ Stopper \/ Stopped \/ UNCHANGED captureVars
  PROVE  CaptureInv'
  BY DEF WriterFails, Stopper, RaiseStop, CollectorJoined, WriterJoined, Stopped, captureVars,
         childVars, runVars, readerVars, CaptureInv, CaptureTypes, RunEnds, ReaderEnds,
         RowsCounted

\* What run() and its reader have found holds together in every state.
THEOREM CaptureInductive == CaptureSpec => []CaptureInv
<1>1. CaptureInit => CaptureInv
  BY CaptureInitial
<1>2. CaptureInv /\ [CaptureNext]_captureVars => CaptureInv'
  BY ChildStep, RunStep, EarlyReturnStep, ReaderStep, SessionStep DEF CaptureNext
<1>. QED
  BY <1>1, <1>2, PTL DEF CaptureSpec

\* For any number of rows, failing reads included: as long as the writer
\* receives, the reader ends after the capture process, or an error shows.
THEOREM ReaderSafe == CaptureSpec => []ReaderOutlivesChild
<1>1. CaptureInv => ReaderOutlivesChild
  BY DEF CaptureInv, CaptureTypes, RunEnds, ReaderEnds, ReaderOutlivesChild
<1>. QED
  BY <1>1, CaptureInductive, PTL

\* For any number of rows and failures: a clean end was asked for, no poll had
\* found an exit and no row read is out of the counts; an exit found is failed.
THEOREM HealthSafe == CaptureSpec => []HealthTellsTheEnd
<1>1. CaptureInv => HealthTellsTheEnd
  BY DEF CaptureInv, CaptureTypes, RunEnds, ReaderEnds, RowsCounted, HealthTellsTheEnd
<1>. QED
  BY <1>1, CaptureInductive, PTL
=============================================================================
