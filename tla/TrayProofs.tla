----------------------------- MODULE TrayProofs -----------------------------
(***************************************************************************)
(* Proofs about the recorder worker and the tray icon: for any number of   *)
(* commands, in any order, with any starts and stops failing, the worker's *)
(* events tell a consistent story and the icon's view of them is right.    *)
(***************************************************************************)
EXTENDS Tray, TLAPS

Commands == {"Toggle", "Mark", "Shutdown"}
Kinds == {"Idle", "Starting", "Recording", "Finalizing", "Stopped", "Recovered",
          "Error", "ShutdownComplete"}
Messages == [kind : Kinds, session : Nat]

Types ==
    /\ commands \in Seq(Commands)
    /\ events \in Seq(Messages)
    /\ wpc \in {"recovering", "announce", "recv", "starting", "stopping", "stuck",
          "leaving", "gone"}
    /\ active \in BOOLEAN /\ leaving \in BOOLEAN
    /\ session \in Nat /\ stopped \subseteq 0..session
    /\ taken \in 0..Len(events)
    /\ tick \in {"input", "drain", "ended"}
    /\ markOn \in BOOLEAN /\ startOn \in BOOLEAN /\ closing \in BOOLEAN

Kind(i) == events[i].kind
Log == 1..Len(events)

-----------------------------------------------------------------------------
(* What the worker has said.                                               *)

\* Between two starts there is a stop, and the word that it is over.
StartsApart ==
    \A i, j \in Log : i < j /\ Kind(i) = "Recording" /\ Kind(j) = "Recording" =>
        /\ \E k \in Log : i < k /\ k < j /\ Kind(k) = "Finalizing"
        /\ \E k \in Log : i < k /\ k < j /\ Kind(k) = "Idle"

StopsApart ==
    \A i, j \in Log : i < j /\ Kind(i) = "Finalizing" /\ Kind(j) = "Finalizing" =>
        \E k \in Log : i < k /\ k < j /\ Kind(k) = "Recording"

\* The last start and stop tell whether a session is there.
ActiveIsLogged ==
    active <=> \E i \in Log : /\ Kind(i) = "Recording"
                              /\ \A j \in Log : Kind(j) = "Finalizing" => j < i

\* A success is said right after the stop began, and right before Idle.
StoppedInPlace ==
    /\ \A i \in Log : Kind(i) = "Stopped" =>
         /\ i > 1 /\ Kind(i - 1) = "Finalizing"
         /\ i < Len(events) => Kind(i + 1) = "Idle"
         /\ i = Len(events) => wpc = "announce"
    /\ wpc \in {"stopping", "stuck"} => Len(events) > 0 /\ Kind(Len(events)) = "Finalizing"

\* The last word, and the first.
FirstAndLast ==
    /\ \A i \in Log : Kind(i) = "ShutdownComplete" => i = Len(events) /\ wpc = "gone"
    /\ \A i \in Log : Kind(i) = "Recovered" => i = 1
    /\ wpc = "recovering" => events = <<>>

\* With no session and no answer outstanding, every start is over.
IdleSince ==
    /\ wpc # "recv" => ~active
    /\ wpc \in {"recv", "starting", "leaving", "gone"} /\ ~active =>
         \A i \in Log : Kind(i) = "Recording" => \E k \in Log : i < k /\ Kind(k) = "Idle"

\* While the worker waits for a command, the event that says what it is doing
\* is followed by failed markers only.
SaysWhereItIs ==
    wpc = "recv" =>
        \E m \in Log :
            /\ Kind(m) = IF active THEN "Recording" ELSE "Idle"
            /\ active => events[m].session = session
            /\ \A j \in Log : m < j => Kind(j) = "Error"

\* The sessions reported as stopped, in the order they were started.
StoppedIsLogged ==
    /\ \A i \in Log : Kind(i) = "Stopped" => events[i].session \in stopped
    /\ \A i, j \in Log : Kind(i) = "Stopped" /\ Kind(j) = "Stopped" /\ i < j
                           => events[i].session <= events[j].session
    /\ \A n \in stopped : \E i \in Log : Kind(i) = "Stopped" /\ events[i].session = n

\* Once Exit is chosen the worker leaves, or has the command still before it.
Leaving ==
    /\ leaving => wpc \in {"stopping", "stuck", "announce", "leaving", "gone"}
    /\ wpc \in {"leaving", "gone"} => leaving
    /\ closing => leaving \/ \E i \in 1..Len(commands) : commands[i] = "Shutdown"

WorkerInv ==
    /\ StartsApart /\ StopsApart /\ ActiveIsLogged /\ StoppedInPlace /\ FirstAndLast
    /\ IdleSince /\ SaysWhereItIs /\ StoppedIsLogged

-----------------------------------------------------------------------------
(* What the tray icon has made of it.                                      *)

\* The i-th event is the latest of these kinds among those received.
Decides(kinds, i) ==
    /\ i \in 1..taken /\ Kind(i) \in kinds
    /\ \A j \in 1..taken : i < j => Kind(j) \notin kinds

View ==
    /\ \A i \in Log : Decides({"Idle", "Recording"}, i) =>
         recording = IF Kind(i) = "Recording" THEN events[i].session ELSE 0
    /\ ~closing => \A i \in Log : Decides({"Idle", "Recording", "Finalizing"}, i) =>
         (markOn <=> Kind(i) = "Recording")
    /\ ~closing => \A i \in Log : Decides({"Idle", "Starting", "Recording", "Finalizing"}, i) =>
         (startOn <=> Kind(i) \in {"Idle", "Recording"})

Latest ==
    /\ latest \in stopped \cup {0}
    /\ \A i \in 1..taken : Kind(i) = "Stopped" => events[i].session <= latest

Exited == tick = "ended" => wpc = "gone" /\ taken = Len(events)

IInv == Types /\ WorkerInv /\ Leaving /\ View /\ Latest /\ Exited

-----------------------------------------------------------------------------
(* What a worker step says.                                                *)

\* One more event, of this kind and about this session.
Said(k, s) ==
    /\ Len(events) \in Nat /\ Len(events') = Len(events) + 1
    /\ events' \in Seq(Messages)
    /\ events'[Len(events) + 1].kind = k /\ events'[Len(events) + 1].session = s
    /\ \A i \in 1..Len(events) : events'[i] = events[i]

Same == UNCHANGED <<active, session, stopped>>

\* Every event the worker sends, and when; "announce" sends nothing but Idle.
Sentence(k, s) ==
    /\ Said(k, s)
    /\ \/ /\ k \in {"Recovered", "Error"} /\ s = 0
          /\ wpc = "recovering" /\ wpc' = "announce" /\ Same
       \/ k = "Idle" /\ wpc = "announce" /\ wpc' \in {"recv", "leaving"} /\ Same
       \/ k = "Starting" /\ wpc = "recv" /\ ~active /\ wpc' = "starting" /\ Same
       \/ /\ k = "Finalizing" /\ wpc = "recv" /\ active /\ wpc' = "stopping" /\ ~active'
          /\ UNCHANGED <<session, stopped>>
       \/ k = "Error" /\ wpc = "recv" /\ active /\ wpc' = "recv" /\ Same
       \/ /\ k = "Recording" /\ wpc = "starting" /\ wpc' = "recv" /\ active'
          /\ session' = session + 1 /\ s = session + 1 /\ UNCHANGED stopped
       \/ k = "Error" /\ wpc \in {"starting", "stopping", "stuck"} /\ wpc' = "announce" /\ Same
       \/ /\ k = "Stopped" /\ wpc \in {"stopping", "stuck"} /\ wpc' = "announce"
          /\ s = session /\ stopped' = stopped \cup {session} /\ UNCHANGED <<active, session>>
       \/ k = "ShutdownComplete" /\ wpc = "leaving" /\ wpc' = "gone" /\ Same

Silence ==
    /\ UNCHANGED events /\ Same
    /\ \/ wpc = "recovering" /\ wpc' = "announce"
       \/ wpc' = wpc
       \/ wpc = "recv" /\ ~active /\ wpc' = "leaving"
       \/ wpc = "stopping" /\ wpc' = "stuck"

LEMMA EmitSays ==
    ASSUME Types, NEW k \in Kinds, NEW s \in Nat, Emit(k, s)
    PROVE  Said(k, s)
<1>. DEFINE m == Event(k, s)
<1>1. m \in Messages /\ m.kind = k /\ m.session = s
  BY DEF Event, Messages
<1>2. events \in Seq(Messages) /\ events' = Append(events, m)
  BY DEF Types, Emit
<1>. HIDE DEF m
<1>. QED
  BY <1>1, <1>2 DEF Said

LEMMA WorkerSays ==
    ASSUME Types, WorkerStep
    PROVE  Silence \/ \E k \in Kinds, s \in Nat : Sentence(k, s)
<1>. DEFINE Quiet == UNCHANGED events
<1>0. session \in Nat /\ session + 1 \in Nat
  BY DEF Types
<1>1. CASE Recover
  <2>1. CASE Emit("Recovered", 0)
    BY <1>1, <2>1, EmitSays DEF Kinds, Recover, Sentence, Same
  <2>2. CASE Emit("Error", 0)
    BY <1>1, <2>2, EmitSays DEF Kinds, Recover, Sentence, Same
  <2>. QED
    BY <1>1, <2>1, <2>2 DEF Recover, Silence, Same
<1>2. CASE AnnounceIdle
  BY <1>2, EmitSays DEF Kinds, AnnounceIdle, Sentence, Same
<1>3. CASE ServeToggle
  <2>1. CASE active /\ BeginStop
    BY <1>3, <2>1, EmitSays DEF Kinds, ServeToggle, Receive, BeginStop, Sentence
  <2>2. CASE ~active /\ BeginStart
    BY <1>3, <2>2, EmitSays DEF Kinds, ServeToggle, Receive, BeginStart, Sentence, Same
  <2>. QED
    BY <1>3, <2>1, <2>2 DEF ServeToggle
<1>4. CASE ServeMark
  <2>1. CASE active /\ Emit("Error", session)
    BY <1>0, <1>4, <2>1, EmitSays DEF Kinds, ServeMark, Receive, Sentence, Same
  <2>. QED
    BY <1>4, <2>1 DEF ServeMark, Silence, Same
<1>5. CASE ServeShutdown
  <2>1. CASE active /\ BeginStop
    BY <1>5, <2>1, EmitSays DEF Kinds, ServeShutdown, Receive, BeginStop, Sentence
  <2>. QED
    BY <1>5, <2>1 DEF ServeShutdown, Receive, Silence, Same
<1>6. CASE StartOk
  BY <1>0, <1>6, EmitSays DEF Kinds, StartOk, Sentence
<1>7. CASE StartErr
  BY <1>7, EmitSays DEF Kinds, StartErr, Sentence, Same
<1>8. CASE StopOk
  BY <1>0, <1>8, EmitSays DEF Kinds, StopOk, Sentence
<1>9. CASE StopErr
  BY <1>0, <1>9, EmitSays DEF Kinds, StopErr, Sentence, Same
<1>10. CASE ShutdownDone
  BY <1>10, EmitSays DEF Kinds, ShutdownDone, Sentence, Same
<1>11. CASE StopWaits
  BY <1>11 DEF StopWaits, Silence, Same
<1>. QED
  BY <1>1, <1>2, <1>3, <1>4, <1>5, <1>6, <1>7, <1>8, <1>9, <1>10, <1>11 DEF WorkerStep

LEMMA SaidLog ==
    ASSUME NEW k, NEW s, Said(k, s)
    PROVE  \E n \in Nat :
              /\ n = Len(events) + 1 /\ n = Len(events') /\ n \notin Log
              /\ Log' = Log \cup {n} /\ Log \subseteq Nat
              /\ \A i \in Log : Kind(i)' = Kind(i) /\ events'[i] = events[i] /\ i < n
              /\ Kind(n)' = k /\ events'[n].session = s
<1>1. Len(events) + 1 \in Nat
  BY DEF Said
<1>2. PICK n \in Nat : n = Len(events) + 1
  BY <1>1
<1>3. Log' = Log \cup {n} /\ n \notin Log /\ Log \subseteq Nat
  BY <1>2 DEF Said, Log
<1>4. \A i \in Log : Kind(i)' = Kind(i) /\ events'[i] = events[i] /\ i < n
  BY <1>2 DEF Said, Log, Kind
<1>. QED
  BY <1>2, <1>3, <1>4 DEF Said, Kind

-----------------------------------------------------------------------------
(* One more event keeps the story consistent.                              *)

LEMMA StartsApartKept ==
    ASSUME NEW k, NEW s, Sentence(k, s), WorkerInv
    PROVE  StartsApart'
<1>1. PICK n \in Nat :
          /\ Log' = Log \cup {n} /\ Log \subseteq Nat
          /\ \A i \in Log : Kind(i)' = Kind(i) /\ i < n
          /\ Kind(n)' = k
  BY SaidLog DEF Sentence
<1>2. k = "Recording" => ~active /\ wpc = "starting"
  BY DEF Sentence, WorkerInv, IdleSince
<1>3. k = "Recording" => \A i \in Log : Kind(i) = "Recording" =>
          /\ \E m \in Log : i < m /\ Kind(m) = "Finalizing"
          /\ \E m \in Log : i < m /\ Kind(m) = "Idle"
  <2>. SUFFICES ASSUME k = "Recording", NEW i \in Log, Kind(i) = "Recording"
                PROVE  /\ \E m \in Log : i < m /\ Kind(m) = "Finalizing"
                       /\ \E m \in Log : i < m /\ Kind(m) = "Idle"
    OBVIOUS
  <2>1. PICK m \in Log : Kind(m) = "Finalizing" /\ ~(m < i)
    BY <1>2 DEF WorkerInv, ActiveIsLogged
  <2>2. i < m
    BY <1>1, <2>1
  <2>. QED
    BY <1>2, <2>1, <2>2 DEF WorkerInv, IdleSince
<1>4. ASSUME NEW i \in Log', NEW j \in Log', i < j,
             Kind(i)' = "Recording", Kind(j)' = "Recording"
      PROVE  /\ \E m \in Log' : i < m /\ m < j /\ Kind(m)' = "Finalizing"
             /\ \E m \in Log' : i < m /\ m < j /\ Kind(m)' = "Idle"
  <2>1. i \in Log
    BY <1>1, <1>4
  <2>2. CASE j \in Log
    <3>1. /\ \E m \in Log : i < m /\ m < j /\ Kind(m) = "Finalizing"
          /\ \E m \in Log : i < m /\ m < j /\ Kind(m) = "Idle"
      BY <1>1, <1>4, <2>1, <2>2 DEF WorkerInv, StartsApart
    <3>. QED
      BY <1>1, <3>1
  <2>3. CASE j = n
    BY <1>1, <1>3, <1>4, <2>1, <2>3
  <2>. QED
    BY <1>1, <2>2, <2>3
<1>. QED
  BY <1>4 DEF StartsApart

LEMMA StopsApartKept ==
    ASSUME NEW k, NEW s, Sentence(k, s), WorkerInv
    PROVE  StopsApart'
<1>1. PICK n \in Nat :
          /\ Log' = Log \cup {n} /\ Log \subseteq Nat
          /\ \A i \in Log : Kind(i)' = Kind(i) /\ i < n
          /\ Kind(n)' = k
  BY SaidLog DEF Sentence
<1>2. k = "Finalizing" => \E m \in Log :
          Kind(m) = "Recording" /\ \A i \in Log : Kind(i) = "Finalizing" => i < m
  BY DEF Sentence, WorkerInv, ActiveIsLogged
<1>3. ASSUME NEW i \in Log', NEW j \in Log', i < j,
             Kind(i)' = "Finalizing", Kind(j)' = "Finalizing"
      PROVE  \E m \in Log' : i < m /\ m < j /\ Kind(m)' = "Recording"
  <2>1. i \in Log
    BY <1>1, <1>3
  <2>2. CASE j \in Log
    BY <1>1, <1>3, <2>1, <2>2 DEF WorkerInv, StopsApart
  <2>3. CASE j = n
    BY <1>1, <1>2, <1>3, <2>1, <2>3
  <2>. QED
    BY <1>1, <2>2, <2>3
<1>. QED
  BY <1>3 DEF StopsApart

LEMMA ActiveIsLoggedKept ==
    ASSUME NEW k, NEW s, Sentence(k, s), WorkerInv
    PROVE  ActiveIsLogged'
<1>1. PICK n \in Nat :
          /\ Log' = Log \cup {n} /\ Log \subseteq Nat /\ n \notin Log
          /\ \A i \in Log : Kind(i)' = Kind(i) /\ i < n
          /\ Kind(n)' = k
  BY SaidLog DEF Sentence
<1>. DEFINE Begun == \E i \in Log : /\ Kind(i) = "Recording"
                                    /\ \A j \in Log : Kind(j) = "Finalizing" => j < i
<1>2. CASE k = "Recording"
  <2>1. active'
    BY <1>2 DEF Sentence
  <2>2. \A j \in Log' : Kind(j)' = "Finalizing" => j < n
    BY <1>1, <1>2
  <2>. QED
    BY <1>1, <1>2, <2>1, <2>2 DEF ActiveIsLogged
<1>3. CASE k = "Finalizing"
  <2>1. ~active'
    BY <1>3 DEF Sentence
  <2>2. \A i \in Log' : ~(n < i)
    BY <1>1
  <2>. QED
    BY <1>1, <1>3, <2>1, <2>2 DEF ActiveIsLogged
<1>4. CASE k # "Recording" /\ k # "Finalizing"
  <2>1. active' = active
    BY <1>4 DEF Sentence, Same
  <2>2. Begun' <=> Begun
    BY <1>1, <1>4
  <2>. QED
    BY <2>1, <2>2 DEF ActiveIsLogged, WorkerInv
<1>. QED
  BY <1>2, <1>3, <1>4

LEMMA StoppedInPlaceKept ==
    ASSUME NEW k, NEW s, Sentence(k, s), WorkerInv
    PROVE  StoppedInPlace'
<1>1. PICK n \in Nat :
          /\ n = Len(events) + 1 /\ n = Len(events')
          /\ Log' = Log \cup {n} /\ Log \subseteq Nat
          /\ \A i \in Log : Kind(i)' = Kind(i) /\ i < n
          /\ Kind(n)' = k
  BY SaidLog DEF Sentence
<1>2. Len(events) \in Nat /\ Log = 1..Len(events)
  BY DEF Sentence, Said, Log
<1>3. ASSUME NEW i \in Log', Kind(i)' = "Stopped"
      PROVE  /\ i > 1 /\ Kind(i - 1)' = "Finalizing"
             /\ i < n => Kind(i + 1)' = "Idle"
             /\ i = n => wpc' = "announce"
  <2>1. CASE i \in Log
    <3>1. /\ i > 1 /\ Kind(i - 1) = "Finalizing"
          /\ i < Len(events) => Kind(i + 1) = "Idle"
          /\ i = Len(events) => wpc = "announce"
      BY <1>1, <1>3, <2>1 DEF WorkerInv, StoppedInPlace
    <3>2. i \in Nat /\ i <= Len(events) /\ i # n
      BY <1>1, <1>2, <2>1
    <3>3. i - 1 \in Log
      BY <1>2, <3>1, <3>2
    <3>4. i < Len(events) => i + 1 \in Log
      BY <1>2, <3>2
    <3>5. i = Len(events) => k = "Idle" /\ i + 1 = n
      BY <1>1, <3>1 DEF Sentence
    <3>. QED
      BY <1>1, <1>2, <3>1, <3>2, <3>3, <3>4, <3>5
  <2>2. CASE i = n
    <3>1. wpc \in {"stopping", "stuck"} /\ wpc' = "announce"
      BY <1>1, <1>3, <2>2 DEF Sentence
    <3>2. Len(events) > 0 /\ Kind(Len(events)) = "Finalizing"
      BY <3>1 DEF WorkerInv, StoppedInPlace
    <3>3. Len(events) \in Log /\ i - 1 = Len(events)
      BY <1>1, <1>2, <2>2, <3>2
    <3>. QED
      BY <1>1, <1>2, <2>2, <3>1, <3>2, <3>3
  <2>. QED
    BY <1>1, <2>1, <2>2
<1>4. wpc' \in {"stopping", "stuck"} => n > 0 /\ Kind(n)' = "Finalizing"
  BY <1>1, <1>2 DEF Sentence
<1>5. \A i \in Log' : Kind(i)' = events'[i].kind
  BY DEF Kind
<1>. QED
  BY <1>1, <1>3, <1>4 DEF StoppedInPlace, Kind

LEMMA FirstAndLastKept ==
    ASSUME NEW k, NEW s, Sentence(k, s), WorkerInv, Types
    PROVE  FirstAndLast'
<1>1. PICK n \in Nat :
          /\ n = Len(events) + 1 /\ n = Len(events')
          /\ Log' = Log \cup {n} /\ Log \subseteq Nat
          /\ \A i \in Log : Kind(i)' = Kind(i) /\ i < n
          /\ Kind(n)' = k
  BY SaidLog DEF Sentence
<1>2. \A i \in Log : Kind(i) # "ShutdownComplete"
  BY DEF Sentence, WorkerInv, FirstAndLast
<1>3. \A i \in Log : Kind(i) = "Recovered" => i = 1
  BY DEF WorkerInv, FirstAndLast
<1>4. k = "Recovered" => n = 1
  <2>1. k = "Recovered" => events = <<>>
    BY DEF Sentence, WorkerInv, FirstAndLast
  <2>2. events = <<>> => Len(events) = 0
    OBVIOUS
  <2>. QED
    BY <1>1, <2>1, <2>2
<1>5. k = "ShutdownComplete" => wpc' = "gone"
  BY DEF Sentence
<1>6. wpc' # "recovering"
  BY DEF Sentence
<1>. QED
  BY <1>1, <1>2, <1>3, <1>4, <1>5, <1>6 DEF FirstAndLast

LEMMA IdleSinceKept ==
    ASSUME NEW k, NEW s, Sentence(k, s), WorkerInv
    PROVE  IdleSince'
<1>1. PICK n \in Nat :
          /\ Log' = Log \cup {n} /\ Log \subseteq Nat
          /\ \A i \in Log : Kind(i)' = Kind(i) /\ i < n
          /\ Kind(n)' = k
  BY SaidLog DEF Sentence
<1>2. wpc' # "recv" => ~active'
  BY DEF Sentence, Same, WorkerInv, IdleSince
<1>3. ASSUME wpc' \in {"recv", "starting", "leaving", "gone"}, ~active',
             NEW i \in Log', Kind(i)' = "Recording"
      PROVE  \E m \in Log' : i < m /\ Kind(m)' = "Idle"
  <2>1. k # "Recording" /\ i \in Log /\ Kind(i) = "Recording"
    BY <1>1, <1>3 DEF Sentence
  <2>2. CASE k = "Idle"
    BY <1>1, <2>1, <2>2
  <2>3. CASE k # "Idle"
    <3>1. wpc \in {"recv", "starting", "leaving", "gone"} /\ ~active
      BY <1>3, <2>3 DEF Sentence, Same
    <3>. QED
      BY <1>1, <2>1, <3>1 DEF WorkerInv, IdleSince
  <2>. QED
    BY <2>2, <2>3
<1>. QED
  BY <1>2, <1>3 DEF IdleSince

LEMMA SaysWhereItIsKept ==
    ASSUME NEW k, NEW s, Sentence(k, s), WorkerInv
    PROVE  SaysWhereItIs'
<1>1. PICK n \in Nat :
          /\ Log' = Log \cup {n} /\ Log \subseteq Nat
          /\ \A i \in Log : Kind(i)' = Kind(i) /\ events'[i] = events[i] /\ i < n
          /\ Kind(n)' = k /\ events'[n].session = s
  BY SaidLog DEF Sentence
<1>. SUFFICES ASSUME wpc' = "recv"
              PROVE  \E m \in Log' :
                        /\ Kind(m)' = IF active' THEN "Recording" ELSE "Idle"
                        /\ active' => events'[m].session = session'
                        /\ \A j \in Log' : m < j => Kind(j)' = "Error"
  BY DEF SaysWhereItIs
<1>2. \A j \in Log' : ~(n < j)
  <2>1. ASSUME NEW j \in Log'
        PROVE  (j \in Log /\ j \in Nat /\ j < n) \/ j = n
    BY <1>1
  <2>. QED
    BY <2>1
<1>3. CASE k = "Idle"
  <2>1. ~active'
    BY <1>3 DEF Sentence, Same, WorkerInv, IdleSince
  <2>. QED
    BY <1>1, <1>2, <1>3, <2>1
<1>4. CASE k = "Recording"
  <2>1. active' /\ s = session'
    BY <1>4 DEF Sentence
  <2>. QED
    BY <1>1, <1>2, <1>4, <2>1
<1>5. CASE k # "Idle" /\ k # "Recording"
  <2>1. k = "Error" /\ wpc = "recv" /\ Same
    BY <1>5 DEF Sentence
  <2>2. PICK m \in Log : /\ Kind(m) = IF active THEN "Recording" ELSE "Idle"
                         /\ active => events[m].session = session
                         /\ \A j \in Log : m < j => Kind(j) = "Error"
    BY <2>1 DEF WorkerInv, SaysWhereItIs
  <2>. QED
    BY <1>1, <2>1, <2>2 DEF Same
<1>. QED
  BY <1>3, <1>4, <1>5

LEMMA StoppedIsLoggedKept ==
    ASSUME NEW k, NEW s, Sentence(k, s), WorkerInv, Types
    PROVE  StoppedIsLogged' /\ stopped' \subseteq 0..session' /\ session' \in Nat
<1>1. PICK n \in Nat :
          /\ Log' = Log \cup {n} /\ Log \subseteq Nat
          /\ \A i \in Log : Kind(i)' = Kind(i) /\ events'[i] = events[i] /\ i < n
          /\ Kind(n)' = k /\ events'[n].session = s
  BY SaidLog DEF Sentence
<1>2. session \in Nat /\ stopped \subseteq 0..session
  BY DEF Types
<1>3. session' \in {session, session + 1}
  BY DEF Sentence, Same
<1>4. \/ k # "Stopped" /\ stopped' = stopped
      \/ k = "Stopped" /\ stopped' = stopped \cup {s} /\ s = session /\ session' = session
  BY DEF Sentence, Same
<1>5. \A i \in Log : Kind(i) = "Stopped" => events[i].session \in stopped
  BY DEF WorkerInv, StoppedIsLogged
<1>6. \A i \in Log' : Kind(i)' = "Stopped" => events'[i].session \in stopped'
  BY <1>1, <1>4, <1>5
<1>7. ASSUME NEW i \in Log', NEW j \in Log', Kind(i)' = "Stopped", Kind(j)' = "Stopped", i < j
      PROVE  events'[i].session <= events'[j].session
  <2>1. i \in Log
    BY <1>1, <1>7
  <2>2. CASE j \in Log
    BY <1>1, <1>7, <2>1, <2>2 DEF WorkerInv, StoppedIsLogged
  <2>3. CASE j = n
    <3>1. events[i].session \in 0..session /\ s = session
      BY <1>1, <1>2, <1>4, <1>5, <1>7, <2>1, <2>3
    <3>. QED
      BY <1>1, <1>2, <2>1, <2>3, <3>1
  <2>. QED
    BY <1>1, <2>2, <2>3
<1>8. \A m \in stopped' : \E i \in Log' : Kind(i)' = "Stopped" /\ events'[i].session = m
  <2>1. \A m \in stopped : \E i \in Log : Kind(i) = "Stopped" /\ events[i].session = m
    BY DEF WorkerInv, StoppedIsLogged
  <2>. QED
    BY <1>1, <1>4, <2>1
<1>9. session' \in Nat /\ stopped' \subseteq 0..session'
  <2>1. session' \in Nat /\ 0..session \subseteq 0..session' /\ session \in 0..session
    BY <1>2, <1>3
  <2>. QED
    BY <1>2, <1>4, <2>1
<1>. QED
  BY <1>6, <1>7, <1>8, <1>9 DEF StoppedIsLogged

\* A step that sends nothing tells nothing wrong.
LEMMA SilenceKept ==
    ASSUME Types, WorkerInv, Silence
    PROVE  WorkerInv'
<1>1. /\ Log' = Log /\ \A i : Kind(i)' = Kind(i)
      /\ active' = active /\ session' = session /\ stopped' = stopped /\ events' = events
      /\ Len(events) \in Nat
  BY DEF Silence, Same, Log, Kind, Types
<1>2. \/ wpc = "recovering" /\ wpc' = "announce"
      \/ wpc' = wpc
      \/ wpc = "recv" /\ ~active /\ wpc' = "leaving"
      \/ wpc = "stopping" /\ wpc' = "stuck"
  BY DEF Silence
<1>3. StartsApart' /\ StopsApart' /\ ActiveIsLogged' /\ StoppedIsLogged'
  BY <1>1 DEF WorkerInv, StartsApart, StopsApart, ActiveIsLogged, StoppedIsLogged
<1>4. FirstAndLast'
  BY <1>1, <1>2 DEF WorkerInv, FirstAndLast
<1>5. StoppedInPlace'
  <2>1. Kind(Len(events))' = Kind(Len(events))
    BY <1>1 DEF Kind
  <2>2. \A i \in Log : Kind(i - 1)' = Kind(i - 1) /\ Kind(i + 1)' = Kind(i + 1)
    BY <1>1 DEF Kind
  <2>. QED
    BY <1>1, <1>2, <2>1, <2>2 DEF WorkerInv, StoppedInPlace
<1>6. IdleSince'
  BY <1>1, <1>2 DEF WorkerInv, IdleSince
<1>7. SaysWhereItIs'
  BY <1>1, <1>2 DEF WorkerInv, SaysWhereItIs
<1>. QED
  BY <1>3, <1>4, <1>5, <1>6, <1>7 DEF WorkerInv

LEMMA SentenceKept ==
    ASSUME Types, WorkerInv, NEW k, NEW s, Sentence(k, s)
    PROVE  WorkerInv'
  BY StartsApartKept, StopsApartKept, ActiveIsLoggedKept, StoppedInPlaceKept,
     FirstAndLastKept, IdleSinceKept, SaysWhereItIsKept, StoppedIsLoggedKept DEF WorkerInv

-----------------------------------------------------------------------------
(* The command queue.                                                      *)

\* Serving a command takes it off the queue and no other.
LEMMA Served ==
    ASSUME Types, NEW c, Receive(c)
    PROVE  /\ commands' \in Seq(Commands)
           /\ c # "Shutdown" /\ (\E i \in 1..Len(commands) : commands[i] = "Shutdown")
                => \E i \in 1..Len(commands') : commands'[i] = "Shutdown"
<1>1. /\ commands \in Seq(Commands) /\ commands # <<>>
      /\ Head(commands) = c /\ commands' = Tail(commands)
  BY DEF Types, Receive
<1>2. /\ commands' \in Seq(Commands) /\ Len(commands) \in Nat
      /\ Len(commands') = Len(commands) - 1
      /\ \A i \in 1..Len(commands') : commands'[i] = commands[i + 1]
      /\ commands[1] = c
  BY <1>1
<1>3. ASSUME c # "Shutdown", NEW i \in 1..Len(commands), commands[i] = "Shutdown"
      PROVE  i - 1 \in 1..Len(commands') /\ commands'[i - 1] = "Shutdown"
  <2>1. i # 1
    BY <1>2, <1>3
  <2>2. i - 1 \in 1..Len(commands') /\ (i - 1) + 1 = i
    BY <1>2, <2>1
  <2>. QED
    BY <1>2, <1>3, <2>2
<1>. QED
  BY <1>2, <1>3

LEMMA WorkerServes ==
    ASSUME Types, Leaving, WorkerStep, closing' = closing
    PROVE  /\ commands' \in Seq(Commands) /\ leaving' \in BOOLEAN
           /\ wpc' \in {"recovering", "announce", "recv", "starting", "stopping", "stuck", "leaving",
                        "gone"}
           /\ active' \in BOOLEAN
           /\ Leaving'
<1>. DEFINE Told == \E i \in 1..Len(commands) : commands[i] = "Shutdown"
<1>0. /\ commands \in Seq(Commands) /\ leaving \in BOOLEAN /\ active \in BOOLEAN
      /\ closing \in BOOLEAN /\ <<>> \in Seq(Commands)
  BY DEF Types
<1>1. /\ leaving => wpc \in {"stopping", "stuck", "announce", "leaving", "gone"}
      /\ wpc \in {"leaving", "gone"} => leaving
      /\ closing => leaving \/ Told
  BY DEF Leaving
<1>2. ASSUME /\ commands' \in Seq(Commands) /\ (Told => Told' \/ leaving')
             /\ leaving => leaving'
             /\ leaving' => wpc' \in {"stopping", "stuck", "announce", "leaving", "gone"}
             /\ wpc' \in {"leaving", "gone"} => leaving'
      PROVE  commands' \in Seq(Commands) /\ Leaving'
  <2>. HIDE DEF Told
  <2>1. closing' => leaving' \/ Told'
    BY <1>1, <1>2
  <2>. USE DEF Told
  <2>. QED
    BY <1>2, <2>1 DEF Leaving
<1>3. CASE Recover \/ AnnounceIdle \/ StartOk \/ StartErr \/ StopWaits \/ StopOk \/ StopErr
  <2>1. commands' = commands /\ leaving' = leaving
    BY <1>3 DEF Recover, AnnounceIdle, StartOk, StartErr, StopWaits, StopOk, StopErr
  <2>2. commands' \in Seq(Commands) /\ (Told => Told')
    BY <1>0, <2>1
  <2>3. /\ leaving => wpc' \in {"stopping", "stuck", "announce", "leaving", "gone"}
        /\ wpc' \in {"leaving", "gone"} => leaving
        /\ wpc' \in {"announce", "recv", "stuck", "leaving"}
        /\ active' \in BOOLEAN
    BY <1>0, <1>1, <1>3 DEF Recover, AnnounceIdle, StartOk, StartErr, StopWaits, StopOk, StopErr
  <2>. HIDE DEF Told
  <2>. QED
    BY <1>0, <1>2, <2>1, <2>2, <2>3
<1>4. CASE ServeToggle \/ ServeMark
  <2>1. commands' \in Seq(Commands) /\ (Told => Told')
    BY <1>4, Served DEF ServeToggle, ServeMark
  <2>2. /\ leaving' = leaving /\ ~leaving /\ wpc' \in {"recv", "starting", "stopping"}
        /\ active' \in BOOLEAN
    BY <1>0, <1>1, <1>4 DEF ServeToggle, ServeMark, Receive, BeginStop, BeginStart
  <2>. HIDE DEF Told
  <2>. QED
    BY <1>0, <1>2, <2>1, <2>2
<1>5. CASE ServeShutdown
  <2>1. commands' \in Seq(Commands)
    BY <1>5, Served DEF ServeShutdown
  <2>2. leaving' /\ wpc' \in {"leaving", "stopping"} /\ active' \in BOOLEAN
    BY <1>0, <1>5 DEF ServeShutdown, BeginStop
  <2>3. leaving' = TRUE
    BY <1>5 DEF ServeShutdown
  <2>. HIDE DEF Told
  <2>. QED
    BY <1>2, <2>1, <2>2, <2>3
<1>6. CASE ShutdownDone
  <2>1. commands' \in Seq(Commands)
    BY <1>0, <1>6 DEF ShutdownDone
  <2>2. leaving' = leaving /\ leaving /\ wpc' = "gone" /\ active' = active
    BY <1>1, <1>6 DEF ShutdownDone
  <2>. HIDE DEF Told
  <2>. QED
    BY <1>0, <1>2, <2>1, <2>2
<1>. QED
  BY <1>3, <1>4, <1>5, <1>6 DEF WorkerStep

\* A command that is sent waits behind the others, or the worker is gone.
LEMMA Sent ==
    ASSUME Types, NEW c \in Commands, Ask(c)
    PROVE  /\ commands' \in Seq(Commands)
           /\ (\E i \in 1..Len(commands) : commands[i] = "Shutdown")
                => \E i \in 1..Len(commands') : commands'[i] = "Shutdown"
           /\ c = "Shutdown" /\ wpc # "gone"
                => \E i \in 1..Len(commands') : commands'[i] = "Shutdown"
<1>1. commands \in Seq(Commands)
  BY DEF Types
<1>2. CASE wpc = "gone"
  BY <1>1, <1>2 DEF Ask
<1>3. CASE wpc # "gone"
  <2>1. commands' = Append(commands, c)
    BY <1>3 DEF Ask
  <2>2. /\ commands' \in Seq(Commands) /\ Len(commands) \in Nat
        /\ Len(commands') = Len(commands) + 1
        /\ \A i \in 1..Len(commands) : commands'[i] = commands[i]
        /\ commands'[Len(commands) + 1] = c
    BY <1>1, <2>1
  <2>3. /\ 1..Len(commands) \subseteq 1..Len(commands')
        /\ Len(commands) + 1 \in 1..Len(commands')
    BY <2>2
  <2>. QED
    BY <2>2, <2>3
<1>. QED
  BY <1>2, <1>3

-----------------------------------------------------------------------------
(* The initial state, and the worker's steps.                              *)

LEMMA Initial == Init => IInv
<1>. SUFFICES ASSUME Init PROVE IInv
  OBVIOUS
<1>1. /\ commands = <<>> /\ events = <<>> /\ Len(events) = 0 /\ Log = {} /\ 1..taken = {}
      /\ taken \in 0..Len(events)
  BY DEF Init, WorkerInit, Log
<1>2. commands \in Seq(Commands) /\ events \in Seq(Messages)
  BY <1>1
<1>3. stopped \subseteq 0..session /\ session \in Nat
  BY DEF Init, WorkerInit
<1>4. Types
  BY <1>1, <1>2, <1>3 DEF Init, WorkerInit, Types
<1>5. StartsApart /\ StopsApart /\ ActiveIsLogged /\ StoppedInPlace
  BY <1>1 DEF Init, WorkerInit, StartsApart, StopsApart, ActiveIsLogged, StoppedInPlace
<1>6. FirstAndLast /\ IdleSince /\ SaysWhereItIs /\ StoppedIsLogged
  BY <1>1 DEF Init, WorkerInit, FirstAndLast, IdleSince, SaysWhereItIs, StoppedIsLogged
<1>7. Leaving /\ View /\ Latest /\ Exited
  BY <1>1 DEF Init, WorkerInit, Leaving, View, Latest, Exited
<1>. QED
  BY <1>4, <1>5, <1>6, <1>7 DEF IInv, WorkerInv

LEMMA WorkerActs ==
    ASSUME IInv, Worker
    PROVE  IInv'
<1>0. Types /\ WorkerInv /\ Leaving /\ View /\ Latest /\ Exited
  BY DEF IInv
<1>1. WorkerStep /\ UNCHANGED <<taken, tick, recording, latest, status, startOn, markOn, closing>>
  BY DEF Worker, trayVars
<1>2. Silence \/ \E k \in Kinds, s \in Nat : Sentence(k, s)
  BY <1>0, <1>1, WorkerSays
<1>3. WorkerInv'
  BY <1>0, <1>2, SilenceKept, SentenceKept
<1>4. /\ commands' \in Seq(Commands) /\ leaving' \in BOOLEAN
      /\ wpc' \in {"recovering", "announce", "recv", "starting", "stopping", "stuck",
          "leaving", "gone"}
      /\ active' \in BOOLEAN
      /\ Leaving'
  BY <1>0, <1>1, WorkerServes
<1>5. /\ events' \in Seq(Messages) /\ Log \subseteq Log' /\ Len(events) \in Nat
      /\ Len(events') \in {Len(events), Len(events) + 1}
      /\ \A i \in Log : events'[i] = events[i]
  <2>1. CASE Silence
    BY <1>0, <2>1 DEF Silence, Log, Types
  <2>2. ASSUME NEW k, NEW s, Sentence(k, s)
        PROVE  /\ events' \in Seq(Messages) /\ Log \subseteq Log' /\ Len(events) \in Nat
               /\ Len(events') \in {Len(events), Len(events) + 1}
               /\ \A i \in Log : events'[i] = events[i]
    BY <2>2 DEF Sentence, Said, Log
  <2>. QED
    BY <1>2, <2>1, <2>2
<1>6. 1..taken \subseteq Log /\ taken \in 0..Len(events) /\ taken' = taken
  BY <1>0, <1>1, <1>5 DEF Types, Log
<1>7. session' \in Nat /\ stopped' \subseteq 0..session' /\ stopped \subseteq stopped'
  <2>1. CASE Silence
    BY <1>0, <2>1 DEF Silence, Same, Types
  <2>2. ASSUME NEW k, NEW s, Sentence(k, s)
        PROVE  session' \in Nat /\ stopped' \subseteq 0..session' /\ stopped \subseteq stopped'
    BY <1>0, <2>2, StoppedIsLoggedKept DEF Sentence, Same
  <2>. QED
    BY <1>2, <2>1, <2>2
<1>8. Types'
  BY <1>0, <1>1, <1>4, <1>5, <1>6, <1>7 DEF Types
<1>9. View'
  <2>1. ASSUME NEW K, NEW i, Decides(K, i)'
        PROVE  Decides(K, i) /\ i \in Log /\ events'[i] = events[i]
    BY <1>5, <1>6, <2>1 DEF Decides, Kind
  <2>. QED
    BY <1>0, <1>1, <2>1 DEF View, Kind
<1>10. Latest'
  BY <1>0, <1>1, <1>5, <1>6, <1>7 DEF Latest, Kind
<1>11. Exited'
  BY <1>0, <1>1, <1>2 DEF Exited, Silence, Sentence
<1>. QED
  BY <1>3, <1>4, <1>8, <1>9, <1>10, <1>11 DEF IInv

-----------------------------------------------------------------------------
(* The user, and the ticks of the event loop.                              *)

LEMMA UserActs ==
    ASSUME IInv, ClickToggle \/ ClickMark \/ HotkeyToggle \/ HotkeyMark \/ ClickExit
    PROVE  IInv'
<1>0. Types /\ WorkerInv /\ Leaving /\ View /\ Latest /\ Exited
  BY DEF IInv
<1>1. PICK c \in Commands : Send(c) /\ (closing' = closing \/ c = "Shutdown")
  BY DEF Commands, ClickToggle, ClickMark, HotkeyToggle, HotkeyMark, ClickExit, trayVars
<1>2. /\ UNCHANGED <<events, wpc, active, leaving, session, stopped>>
      /\ UNCHANGED <<taken, tick, recording, latest>> /\ tick = "input"
      /\ \/ UNCHANGED <<markOn, startOn, closing>>
         \/ closing' = TRUE /\ startOn' = FALSE /\ markOn' = FALSE
  BY <1>1 DEF Send, ClickToggle, ClickMark, HotkeyToggle, HotkeyMark, ClickExit, trayVars
<1>3. Log' = Log /\ \A i : Kind(i)' = Kind(i)
  BY <1>2 DEF Log, Kind
<1>4. /\ commands' \in Seq(Commands)
      /\ (\E i \in 1..Len(commands) : commands[i] = "Shutdown")
           => \E i \in 1..Len(commands') : commands'[i] = "Shutdown"
      /\ c = "Shutdown" /\ wpc # "gone"
           => \E i \in 1..Len(commands') : commands'[i] = "Shutdown"
  BY <1>0, <1>1, Sent DEF Send
<1>5. Types'
  BY <1>0, <1>2, <1>4 DEF Types
<1>6. WorkerInv'
  BY <1>0, <1>2, SilenceKept DEF Silence, Same
<1>7. Leaving'
  BY <1>0, <1>1, <1>2, <1>4 DEF Leaving
<1>8. View'
  <2>1. closing \in BOOLEAN /\ closing' \in BOOLEAN
    BY <1>0, <1>5 DEF Types
  <2>2. \A K, i : Decides(K, i)' <=> Decides(K, i)
    BY <1>2, <1>3 DEF Decides
  <2>. QED
    BY <1>0, <1>2, <1>3, <2>1, <2>2 DEF View
<1>9. Latest' /\ Exited'
  BY <1>0, <1>2, <1>3 DEF Latest, Exited
<1>. QED
  BY <1>5, <1>6, <1>7, <1>8, <1>9 DEF IInv

LEMMA TickTurns ==
    ASSUME IInv, InputDone \/ Refresh \/ UNCHANGED vars
    PROVE  IInv'
<1>0. Types /\ WorkerInv /\ Leaving /\ View /\ Latest /\ Exited
  BY DEF IInv
<1>1. /\ UNCHANGED <<commands, events, wpc, active, leaving, session, stopped>>
      /\ UNCHANGED <<taken, recording, latest, startOn, markOn, closing>>
      /\ tick' = tick \/ tick' \in {"input", "drain"}
  BY DEF InputDone, Refresh, vars, wvars, workerVars, trayVars
<1>2. Log' = Log /\ \A i : Kind(i)' = Kind(i)
  BY <1>1 DEF Log, Kind
<1>3. Types'
  BY <1>0, <1>1 DEF Types
<1>4. WorkerInv'
  BY <1>0, <1>1, SilenceKept DEF Silence, Same
<1>5. Leaving'
  BY <1>0, <1>1 DEF Leaving
<1>6. View'
  BY <1>0, <1>1, <1>2 DEF View, Decides
<1>7. Latest' /\ Exited'
  BY <1>0, <1>1, <1>2 DEF Latest, Exited
<1>. QED
  BY <1>3, <1>4, <1>5, <1>6, <1>7 DEF IInv

-----------------------------------------------------------------------------
(* An event is received.                                                   *)

\* The received event decides what it is about, the earlier ones the rest.
LEMMA TakeDecides ==
    ASSUME Types, NEW k, Take(k)
    PROVE  /\ taken + 1 \in Log /\ Kind(taken + 1) = k /\ taken' = taken + 1
           /\ UNCHANGED <<commands, events, wpc, active, leaving, session, stopped, closing>>
           /\ Log' = Log /\ \A i : Kind(i)' = Kind(i)
           /\ \A K, i : Decides(K, i)' =>
                \/ i = taken + 1 /\ k \in K
                \/ k \notin K /\ Decides(K, i)
<1>1. /\ taken < Len(events) /\ events[taken + 1].kind = k /\ taken' = taken + 1
      /\ UNCHANGED <<commands, events, wpc, active, leaving, session, stopped, closing>>
  BY DEF Take, Pending, wvars, workerVars
<1>2. Len(events) \in Nat /\ taken \in Nat /\ taken <= Len(events)
  BY DEF Types
<1>3. taken + 1 \in Log /\ Kind(taken + 1) = k
  BY <1>1, <1>2 DEF Log, Kind
<1>4. Log' = Log /\ \A i : Kind(i)' = Kind(i)
  BY <1>1 DEF Log, Kind
<1>5. ASSUME NEW K, NEW i, Decides(K, i)'
      PROVE  (i = taken + 1 /\ k \in K) \/ (k \notin K /\ Decides(K, i))
  <2>1. /\ i \in 1..(taken + 1) /\ Kind(i) \in K
        /\ \A j \in 1..(taken + 1) : i < j => Kind(j) \notin K
    BY <1>1, <1>4, <1>5 DEF Decides
  <2>2. CASE i = taken + 1
    BY <1>3, <2>1, <2>2
  <2>3. CASE i # taken + 1
    <3>1. i \in 1..taken /\ i < taken + 1 /\ taken + 1 \in 1..(taken + 1)
      BY <1>2, <2>1, <2>3
    <3>2. k \notin K
      BY <1>3, <2>1, <3>1
    <3>3. 1..taken \subseteq 1..(taken + 1)
      BY <1>2
    <3>. QED
      BY <2>1, <3>1, <3>2, <3>3 DEF Decides
  <2>. QED
    BY <2>2, <2>3
<1>. QED
  BY <1>1, <1>3, <1>4, <1>5

\* What receiving any event leaves intact.
LEMMA TakeKeeps ==
    ASSUME IInv, NEW k, Take(k), k # "ShutdownComplete", UNCHANGED tick,
           markOn' \in BOOLEAN, startOn' \in BOOLEAN
    PROVE  Types' /\ WorkerInv' /\ Leaving' /\ Exited'
<1>0. Types /\ WorkerInv /\ Leaving /\ Exited
  BY DEF IInv
<1>1. /\ taken + 1 \in Log /\ taken' = taken + 1
      /\ UNCHANGED <<commands, events, wpc, active, leaving, session, stopped, closing>>
  BY <1>0, TakeDecides
<1>2. taken' \in 0..Len(events)
  BY <1>0, <1>1 DEF Types, Log
<1>3. Types'
  BY <1>0, <1>1, <1>2 DEF Types
<1>4. WorkerInv'
  BY <1>0, <1>1, SilenceKept DEF Silence, Same
<1>5. Leaving'
  BY <1>0, <1>1 DEF Leaving
<1>6. tick # "ended"
  BY DEF Take
<1>. QED
  BY <1>3, <1>4, <1>5, <1>6 DEF Exited

LEMMA TakeShows ==
    ASSUME IInv, HandleEvent
    PROVE  View'
<1>0. Types /\ View
  BY DEF IInv
<1>1. PICK k \in Kinds : Take(k) /\
         \/ /\ k = "Idle"
            /\ recording' = 0 /\ startOn' = ~closing /\ markOn' = FALSE
         \/ /\ k = "Starting"
            /\ recording' = recording /\ startOn' = FALSE /\ markOn' = markOn
         \/ /\ k = "Recording"
            /\ recording' = events[taken + 1].session /\ startOn' = TRUE /\ markOn' = TRUE
         \/ /\ k = "Finalizing"
            /\ recording' = recording /\ startOn' = FALSE /\ markOn' = FALSE
         \/ /\ k \in {"Stopped", "Recovered", "Error", "ShutdownComplete"}
            /\ recording' = recording /\ startOn' = startOn /\ markOn' = markOn
  BY DEF HandleEvent, OnIdle, OnStarting, OnRecording, OnFinalizing, OnStopped, OnRecovered,
         OnError, OnShutdownComplete, Kinds
<1>2. /\ Kind(taken + 1) = k /\ events' = events /\ closing' = closing
      /\ Log' = Log /\ \A i : Kind(i)' = Kind(i)
  BY <1>0, <1>1, TakeDecides
<1>3. \A K, i : Decides(K, i)' =>
         \/ i = taken + 1 /\ k \in K
         \/ k \notin K /\ Decides(K, i)
  BY <1>0, <1>1, TakeDecides
<1>4. ASSUME NEW i \in Log, Decides({"Idle", "Recording"}, i)'
      PROVE  recording' = IF Kind(i) = "Recording" THEN events[i].session ELSE 0
  <2>1. \/ i = taken + 1 /\ k \in {"Idle", "Recording"}
        \/ k \notin {"Idle", "Recording"} /\ Decides({"Idle", "Recording"}, i)
    BY <1>3, <1>4
  <2>. QED
    BY <1>0, <1>1, <1>2, <2>1 DEF View
<1>5. ASSUME ~closing, NEW i \in Log, Decides({"Idle", "Recording", "Finalizing"}, i)'
      PROVE  markOn' <=> Kind(i) = "Recording"
  <2>1. \/ i = taken + 1 /\ k \in {"Idle", "Recording", "Finalizing"}
        \/ /\ k \notin {"Idle", "Recording", "Finalizing"}
           /\ Decides({"Idle", "Recording", "Finalizing"}, i)
    BY <1>3, <1>5
  <2>. QED
    BY <1>0, <1>1, <1>2, <1>5, <2>1 DEF View
<1>6. ASSUME ~closing, NEW i \in Log,
             Decides({"Idle", "Starting", "Recording", "Finalizing"}, i)'
      PROVE  startOn' <=> Kind(i) \in {"Idle", "Recording"}
  <2>1. \/ i = taken + 1 /\ k \in {"Idle", "Starting", "Recording", "Finalizing"}
        \/ /\ k \notin {"Idle", "Starting", "Recording", "Finalizing"}
           /\ Decides({"Idle", "Starting", "Recording", "Finalizing"}, i)
    BY <1>3, <1>6
  <2>2. CASE i = taken + 1
    <3>1. Kind(i) = k /\ k \in {"Idle", "Starting", "Recording", "Finalizing"}
      BY <1>2, <2>1, <2>2 DEF Decides
    <3>2. closing = FALSE
      BY <1>0, <1>6 DEF Types
    <3>. QED
      BY <1>1, <3>1, <3>2
  <2>3. CASE i # taken + 1
    <3>1. startOn' = startOn
      BY <1>1, <2>1, <2>3
    <3>. QED
      BY <1>0, <1>6, <2>1, <2>3, <3>1 DEF View
  <2>. QED
    BY <2>2, <2>3
<1>. QED
  BY <1>2, <1>4, <1>5, <1>6 DEF View

\* The sessions are reported as stopped in their order, and a recovered one
\* before them all.
LEMMA TakeReports ==
    ASSUME IInv, HandleEvent
    PROVE  Latest'
<1>0. Types /\ WorkerInv /\ Latest
  BY DEF IInv
<1>1. PICK k \in Kinds : Take(k) /\
         \/ k = "Stopped" /\ latest' = events[taken + 1].session
         \/ k = "Recovered" /\ latest' = 0
         \/ k \notin {"Stopped", "Recovered"} /\ latest' = latest
  BY DEF HandleEvent, OnIdle, OnStarting, OnRecording, OnFinalizing, OnStopped, OnRecovered,
         OnError, OnShutdownComplete, Kinds
<1>2. /\ taken + 1 \in Log /\ Kind(taken + 1) = k /\ taken' = taken + 1
      /\ events' = events /\ stopped' = stopped
      /\ Log' = Log /\ \A i : Kind(i)' = Kind(i)
  BY <1>0, <1>1, TakeDecides
<1>3. Len(events) \in Nat /\ taken \in Nat /\ taken <= Len(events) /\ stopped \subseteq Nat
  BY <1>0 DEF Types
<1>4. 1..taken' = 1..taken \cup {taken + 1} /\ 1..taken \subseteq Log
      /\ \A i \in 1..taken : i < taken + 1
  BY <1>2, <1>3 DEF Log
<1>5. CASE k = "Stopped"
  <2>1. latest' = events[taken + 1].session /\ latest' \in stopped
    BY <1>0, <1>1, <1>2, <1>5 DEF WorkerInv, StoppedIsLogged
  <2>2. \A i \in 1..taken : Kind(i) = "Stopped" => events[i].session <= latest'
    BY <1>0, <1>2, <1>4, <1>5, <2>1 DEF WorkerInv, StoppedIsLogged
  <2>3. latest' <= latest'
    BY <1>3, <2>1
  <2>. QED
    BY <1>2, <1>4, <2>1, <2>2, <2>3 DEF Latest
<1>6. CASE k = "Recovered"
  <2>1. taken + 1 = 1 /\ latest' = 0
    BY <1>0, <1>1, <1>2, <1>6 DEF WorkerInv, FirstAndLast
  <2>2. 1..taken = {}
    BY <1>3, <2>1
  <2>. QED
    BY <1>2, <1>4, <1>6, <2>1, <2>2 DEF Latest
<1>7. CASE k \notin {"Stopped", "Recovered"}
  BY <1>0, <1>1, <1>2, <1>4, <1>7 DEF Latest
<1>. QED
  BY <1>5, <1>6, <1>7

LEMMA EventTaken ==
    ASSUME IInv, HandleEvent
    PROVE  IInv'
<1>0. Types /\ WorkerInv /\ Leaving /\ Exited
  BY DEF IInv
<1>1. CASE OnShutdownComplete
  <2>1. /\ taken + 1 \in Log /\ Kind(taken + 1) = "ShutdownComplete" /\ taken' = taken + 1
        /\ UNCHANGED <<commands, events, wpc, active, leaving, session, stopped, closing>>
    BY <1>0, <1>1, TakeDecides DEF OnShutdownComplete
  <2>2. taken + 1 = Len(events) /\ wpc = "gone"
    BY <1>0, <2>1 DEF WorkerInv, FirstAndLast
  <2>3. Exited' /\ taken' \in 0..Len(events)
    BY <1>0, <2>1, <2>2 DEF Exited, Types, Log
  <2>4. tick' = "ended" /\ startOn' = startOn /\ markOn' = markOn
    BY <1>1 DEF OnShutdownComplete
  <2>5. Types'
    BY <1>0, <2>1, <2>3, <2>4 DEF Types
  <2>6. WorkerInv'
    BY <1>0, <2>1, SilenceKept DEF Silence, Same
  <2>7. Leaving'
    BY <1>0, <2>1 DEF Leaving
  <2>. QED
    BY <2>3, <2>5, <2>6, <2>7, TakeShows, TakeReports DEF IInv
<1>2. CASE ~OnShutdownComplete
  <2>1. markOn \in BOOLEAN /\ startOn \in BOOLEAN /\ closing \in BOOLEAN
    BY <1>0 DEF Types
  <2>2. PICK k \in Kinds : Take(k) /\ k # "ShutdownComplete" /\ tick' = tick
                           /\ markOn' \in BOOLEAN /\ startOn' \in BOOLEAN
    BY <1>2, <2>1
    DEF HandleEvent, OnIdle, OnStarting, OnRecording, OnFinalizing, OnStopped, OnRecovered,
        OnError, Kinds
  <2>. QED
    BY <2>2, TakeKeeps, TakeShows, TakeReports DEF IInv
<1>. QED
  BY <1>1, <1>2

\* The end of the worker's log says where the worker is, and the icon shows
\* what it has taken from it, in every state.
THEOREM Inductive == Spec => []IInv
<1>1. Init => IInv
  BY Initial
<1>2. IInv /\ [Next]_vars => IInv'
  BY UserActs, TickTurns, EventTaken, WorkerActs DEF Next
<1>. QED
  BY <1>1, <1>2, PTL DEF Spec

-----------------------------------------------------------------------------
(* The theorems.                                                           *)

LEMMA StoryFollows == IInv => EventsTellTheStory
<1>. SUFFICES ASSUME IInv PROVE EventsTellTheStory
  OBVIOUS
<1>1. DOMAIN events = Log /\ Len(events) \in Nat /\ Log \subseteq Nat
  BY DEF IInv, Types, Log
<1>2. \A k, i : i \in At(k) <=> i \in Log /\ Kind(i) = k
  BY <1>1 DEF At, Kind
<1>. DEFINE Between(S, i, j) == {m \in S : i < m /\ m < j}
<1>3. \A i, j \in At("Recording") : i < j =>
         Between(At("Finalizing"), i, j) # {} /\ Between(At("Idle"), i, j) # {}
  BY <1>2 DEF IInv, WorkerInv, StartsApart
<1>4. \A i, j \in At("Finalizing") : i < j => Between(At("Recording"), i, j) # {}
  BY <1>2 DEF IInv, WorkerInv, StopsApart
<1>5. active <=> \E i \in At("Recording") : \A j \in At("Finalizing") : j < i
  BY <1>2 DEF IInv, WorkerInv, ActiveIsLogged
<1>6. \A i \in At("Stopped") :
         /\ events[i - 1].kind = "Finalizing"
         /\ i < Len(events) => events[i + 1].kind = "Idle"
  BY <1>2 DEF IInv, WorkerInv, StoppedInPlace, Kind
<1>7. \A i \in At("ShutdownComplete") : i = Len(events) /\ ~active
  BY <1>2 DEF IInv, WorkerInv, FirstAndLast, IdleSince
<1>. QED
  BY <1>3, <1>4, <1>5, <1>6, <1>7 DEF EventsTellTheStory

\* However many commands of whatever kind queue up while starts and stops
\* succeed or fail, the worker's events describe one session at a time, each
\* begun, ended and answered for.
THEOREM StorySafe == Spec => []EventsTellTheStory
  BY StoryFollows, Inductive, PTL

\* Once everything has been said, the last event that concerns a menu item or
\* the timer is the one that says where the worker is.
LEMMA SettledView ==
    ASSUME IInv, Settled
    PROVE  /\ recording = (IF active THEN session ELSE 0)
           /\ markOn = active /\ startOn /\ ~closing
<1>0. Types /\ WorkerInv /\ Leaving /\ View
  BY DEF IInv
<1>1. wpc = "recv" /\ commands = <<>> /\ taken = Len(events) /\ Log = 1..taken
  BY <1>0 DEF Settled, Pending, Types, Log
<1>2. ~closing
  <2>1. 1..Len(commands) = {}
    BY <1>1
  <2>. QED
    BY <1>0, <1>1, <2>1 DEF Leaving
<1>3. PICK m \in Log : /\ Kind(m) = IF active THEN "Recording" ELSE "Idle"
                       /\ active => events[m].session = session
                       /\ \A j \in Log : m < j => Kind(j) = "Error"
  BY <1>0, <1>1 DEF WorkerInv, SaysWhereItIs
<1>4. ASSUME NEW K, Kind(m) \in K, "Error" \notin K
      PROVE  Decides(K, m)
  BY <1>1, <1>3, <1>4 DEF Decides
<1>5. Kind(m) \in {"Idle", "Recording"}
  BY <1>3
<1>6. Decides({"Idle", "Recording"}, m)
  BY <1>4, <1>5
<1>7. Decides({"Idle", "Recording", "Finalizing"}, m)
  BY <1>4, <1>5
<1>8. Decides({"Idle", "Starting", "Recording", "Finalizing"}, m)
  BY <1>4, <1>5
<1>9. recording = IF Kind(m) = "Recording" THEN events[m].session ELSE 0
  BY <1>0, <1>6 DEF View
<1>10. (markOn <=> Kind(m) = "Recording") /\ (startOn <=> Kind(m) \in {"Idle", "Recording"})
  BY <1>0, <1>2, <1>7, <1>8 DEF View
<1>11. active \in BOOLEAN /\ markOn \in BOOLEAN
  BY <1>0 DEF Types
<1>. QED
  BY <1>2, <1>3, <1>5, <1>9, <1>10, <1>11

\* Whatever was pressed while both queues were in use, the icon agrees with
\* the worker when they are empty: it shows a recording exactly when there is
\* one, and that one, and offers a marker exactly then.
THEOREM ViewSafe == Spec => []ViewConverges
<1>1. IInv => ViewConverges
  BY SettledView DEF ViewConverges
<1>. QED
  BY <1>1, Inductive, PTL

\* "Open Latest Report" opens the newest session whose stop succeeded, or a
\* recovered one when there is none; a failed stop never takes its place.
THEOREM LatestSafe == Spec => []LatestIsReported
<1>1. IInv => LatestIsReported
  <2>. SUFFICES ASSUME IInv PROVE LatestIsReported
    OBVIOUS
  <2>1. latest \in stopped \cup {0}
    BY DEF IInv, Latest
  <2>2. ASSUME Settled, NEW n \in stopped
        PROVE  n <= latest
    <3>1. Log = 1..taken
      BY <2>2 DEF IInv, Types, Settled, Pending, Log
    <3>2. PICK i \in Log : Kind(i) = "Stopped" /\ events[i].session = n
      BY DEF IInv, WorkerInv, StoppedIsLogged
    <3>. QED
      BY <3>1, <3>2 DEF IInv, Latest
  <2>. QED
    BY <2>1, <2>2 DEF LatestIsReported
<1>. QED
  BY <1>1, Inductive, PTL

\* The event loop ends only after the worker has stopped its session, left
\* and been heard to the end.
THEOREM ExitSafe == Spec => []ExitStopsSession
<1>1. IInv => ExitStopsSession
  BY DEF IInv, Exited, WorkerInv, IdleSince, ExitStopsSession, Pending, Types
<1>. QED
  BY <1>1, Inductive, PTL
=============================================================================
