------------------------ MODULE RecordPipelineProofs ------------------------
(***************************************************************************)
(* Proofs about RecordPipeline for every set of collectors, every channel  *)
(* capacity, every batch size and every number of records.                 *)
(***************************************************************************)
EXTENDS RecordPipeline, SequenceTheorems, TLAPS

-----------------------------------------------------------------------------
(* Sequences.                                                               *)

\* Moving the head of the channel to the end of the batch changes nothing.
LEMMA FlowMove ==
    ASSUME NEW S, NEW b \in Seq(S), NEW q \in Seq(S), q # <<>>
    PROVE  /\ Append(b, Head(q)) \in Seq(S)
           /\ Tail(q) \in Seq(S)
           /\ Append(b, Head(q)) \o Tail(q) = b \o q
<1>1. Head(q) \in S /\ Tail(q) \in Seq(S)
  BY HeadTailProperties
<1>2. Append(b, Head(q)) \in Seq(S) /\ Append(b, Head(q)) = b \o <<Head(q)>>
  BY <1>1, AppendProperties, AppendIsConcat
<1>3. <<Head(q)>> \in Seq(S) /\ <<Head(q)>> \o Tail(q) = q
  <2>1. <<Head(q)>> \in Seq(S) /\ Len(<<Head(q)>>) = 1
    BY <1>1
  <2>2. /\ <<Head(q)>> \o Tail(q) \in Seq(S)
        /\ Len(<<Head(q)>> \o Tail(q)) = Len(q)
    BY <1>1, <2>1, ConcatProperties, HeadTailProperties, LenProperties
  <2>3. ASSUME NEW i \in 1..Len(q)
        PROVE  (<<Head(q)>> \o Tail(q))[i] = q[i]
    BY <1>1, <2>1, ConcatProperties, HeadTailProperties, LenProperties
  <2> QED
    BY <2>1, <2>2, <2>3, SeqEqual
<1> QED
  BY <1>1, <1>2, <1>3, ConcatAssociative

\* The flow of records can be regrouped, and an append is a concatenation.
LEMMA FlowOfRecords ==
    /\ \A a, b, q \in Seq(Records) : a \o b \o q = a \o (b \o q)
    /\ \A q \in Seq(Records), r \in Records :
           /\ <<r>> \in Seq(Records)
           /\ Append(q, r) = q \o <<r>>
BY ConcatAssociative, AppendIsConcat

LEMMA PrefixConcat ==
    ASSUME NEW S, NEW s \in Seq(S), NEW t \in Seq(S)
    PROVE  IsPrefix(s, s \o t)
<1>1. s \o t \in Seq(S) /\ Len(s) <= Len(s \o t)
  BY ConcatProperties, LenProperties
<1>2. CASE s = <<>>
  BY <1>2, <1>1 DEF IsPrefix
<1>3. CASE s # <<>>
  <2>1. 1 \in 1..Len(s) /\ Len(s) \in 1..Len(s)
    BY <1>3, EmptySeq, LenProperties
  <2>2. SubSeq(s \o t, 1, Len(s)) = SubSeq(s, 1, Len(s))
    BY <2>1, SubSeqOfConcat1
  <2> QED
    BY <1>1, <2>2 DEF IsPrefix
<1> QED
  BY <1>2, <1>3

-----------------------------------------------------------------------------
(* The inductive invariant.                                                 *)

\* A writer that has ended holds nothing; one that has seen the disconnect
\* finds the channel empty for good, because nobody is left to send.
WriterEnd ==
    /\ writer = "failed" => batch = <<>> /\ queue = <<>>
    /\ writer = "dead" => batch = <<>> /\ queue = <<>>
    /\ writer = "last" => queue = <<>> /\ ~Connected
    /\ writer = "done" => batch = <<>> /\ queue = <<>> /\ ~Connected

\* The session's phase tells who can still send.
PhaseHolders ==
    /\ phase \in {"recording", "stopping", "joining", "finalizing"} =>
           Session \in holders
    /\ phase \in {"finalizing", "closing", "ended", "failed", "abandoned"} =>
           holders \cap Collectors = {}
    /\ phase = "ended" => writer = "done"
    /\ phase = "dead" => ~Connected /\ ~WriterRuns

\* The channel and the batch stay within their limits, and the writer never
\* waits for a record while it holds a full batch.
BufferBound ==
    /\ Len(queue) <= Capacity
    /\ Len(batch) <= MaxBatch
    /\ writer = "recv" => Len(batch) < MaxBatch

IInv ==
    /\ TypeOK
    /\ NothingLostInFlight
    /\ DurablePrefix
    /\ BufferBound
    /\ LossBound
    /\ WriterEnd
    /\ PhaseHolders

-----------------------------------------------------------------------------
(* Type correctness.                                                        *)

LEMMA OfferType ==
    ASSUME TypeOK, NEW p \in Producers, Offer(p)
    PROVE  /\ queue' \in Seq(Records)
           /\ accepted' \in Seq(Records)
           /\ sent' \in [Producers -> Nat]
<1> USE DEF TypeOK
<1>1. [from |-> p, n |-> sent[p] + 1] \in Records
  BY DEF Records
<1>2. sent' \in [Producers -> Nat]
  BY DEF Offer
<1>3. CASE Enqueue([from |-> p, n |-> sent[p] + 1])
  BY <1>1, <1>2, <1>3, AppendProperties DEF Enqueue
<1>4. CASE Refuse
  BY <1>2, <1>4 DEF Refuse
<1> QED
  BY <1>3, <1>4 DEF Offer

\* Every variable keeps its type, for every step of every thread.
LEMMA TypeStep == TypeOK /\ [Next]_vars => TypeOK'
<1> SUFFICES ASSUME TypeOK, [Next]_vars PROVE TypeOK'
  OBVIOUS
<1> USE PipelineAssumption DEF TypeOK, writerVars, Phases, WriterPcs, ReaderPcs
<1>0. CASE UNCHANGED vars
  BY <1>0 DEF vars
<1>1. ASSUME NEW c \in Collectors, TrySend(c) PROVE TypeOK'
  <2>1. c \in Producers /\ Offer(c)
    BY <1>1 DEF TrySend, Producers
  <2> QED
    BY <1>1, <2>1, OfferType DEF TrySend
<1>2. ASSUME NEW c \in Collectors, Finish(c) PROVE TypeOK'
  <2>1. c \in Producers /\ Offer(c)
    BY <1>2 DEF Finish, Producers
  <2>2. reader' \in [Following -> ReaderPcs]
    BY <1>2 DEF Finish
  <2>3. /\ queue' \in Seq(Records) /\ accepted' \in Seq(Records)
        /\ sent' \in [Producers -> Nat]
    BY <2>1, OfferType
  <2> QED
    BY <1>2, <2>2, <2>3 DEF Finish
<1>3. ASSUME NEW c \in Collectors, Quit(c) PROVE TypeOK'
  BY <1>3 DEF Quit
<1>9. ASSUME NEW c \in Following, ReaderStep(c) PROVE TypeOK'
  BY <1>9 DEF ReaderStep, SpawnReader, ReaderEnds
<1>4. ASSUME BlockingSend, phase' \in Phases PROVE TypeOK'
  <2>1. Session \in Producers /\ Offer(Session)
    BY <1>4 DEF BlockingSend, Producers
  <2> QED
    BY <1>4, <2>1, OfferType DEF BlockingSend
<1>5. CASE SessionStep
  <2>1. CASE AddMarker
    BY <1>4, <2>1 DEF AddMarker
  <2>2. CASE StopRequested
    BY <2>2 DEF StopRequested
  <2>3. CASE StopBookmark
    BY <1>4, <2>3 DEF StopBookmark
  <2>4. CASE CollectorsJoined
    BY <2>4 DEF CollectorsJoined
  <2>5. CASE FinalRecord
    BY <1>4, <2>5 DEF FinalRecord
  <2>6. CASE CloseChannel
    BY <2>6 DEF CloseChannel
  <2>7. CASE WriterJoined
    BY <2>7 DEF WriterJoined
  <2>8. CASE StopFails
    BY <2>8 DEF StopFails
  <2> QED
    BY <1>5, <2>1, <2>2, <2>3, <2>4, <2>5, <2>6, <2>7, <2>8 DEF SessionStep
<1>6. CASE WriterStep
  <2>0. ASSUME queue # <<>>
        PROVE  Append(batch, Head(queue)) \in Seq(Records)
               /\ Tail(queue) \in Seq(Records)
    BY <2>0, FlowMove
  <2>1. CASE Receive
    BY <2>0, <2>1 DEF Receive
  <2>2. CASE Timeout
    BY <2>2 DEF Timeout
  <2>3. CASE Disconnected
    BY <2>3 DEF Disconnected
  <2>4. CASE Drain
    BY <2>0, <2>4 DEF Drain
  <2>5. CASE DrainEnd
    BY <2>5 DEF DrainEnd
  <2>6. CASE Flush
    BY <2>6, ConcatProperties, EmptySeq DEF Flush, Commit
  <2>7. CASE LastFlush
    BY <2>7, ConcatProperties, EmptySeq DEF LastFlush, Commit
  <2>8. CASE FlushFails
    BY <2>8, EmptySeq DEF FlushFails
  <2> QED
    BY <1>6, <2>1, <2>2, <2>3, <2>4, <2>5, <2>6, <2>7, <2>8 DEF WriterStep
<1>7. CASE Elapse
  BY <1>7 DEF Elapse
<1>8. CASE Crash
  BY <1>8, EmptySeq DEF Crash
<1> QED
  BY <1>0, <1>1, <1>2, <1>3, <1>5, <1>6, <1>7, <1>8, <1>9
  DEF Next, CollectorStep

LEMMA TypeInit == Init => TypeOK
<1> SUFFICES ASSUME Init PROVE TypeOK
  OBVIOUS
<1>1. <<>> \in Seq(Records)
  BY EmptySeq
<1>2. queue \in Seq(Records) /\ batch \in Seq(Records)
      /\ committed \in Seq(Records) /\ accepted \in Seq(Records)
  BY <1>1 DEF Init
<1>3. sent \in [Producers -> Nat] /\ reader \in [Following -> ReaderPcs]
  BY DEF Init, ReaderPcs
<1> QED
  BY <1>2, <1>3 DEF Init, TypeOK, WriterPcs, Phases

\* The variables of the pipeline keep their types.
THEOREM TypeCorrect == Spec => []TypeOK
BY TypeInit, TypeStep, PTL DEF Spec

-----------------------------------------------------------------------------
(* What a step does to the flow of records.                                 *)

\* The channel takes a record r of producer p.
Taken(p, r) ==
    /\ CanSend
    /\ queue' = Append(queue, r)
    /\ accepted' = Append(accepted, r)

\* No record moves.
Still == UNCHANGED <<queue, batch, committed, accepted, writer>>

LEMMA OfferEffect ==
    ASSUME TypeOK, NEW p \in Producers, Offer(p), UNCHANGED writerVars
    PROVE  \/ \E r \in Records : r.from = p /\ Taken(p, r)
           \/ Still
<1> DEFINE r == [from |-> p, n |-> sent[p] + 1]
<1>1. r \in Records /\ r.from = p
  BY DEF Records, TypeOK
<1> HIDE DEF r
<1>2. CASE Enqueue(r)
  BY <1>1, <1>2 DEF Enqueue, Taken
<1>3. CASE Refuse
  BY <1>3 DEF Refuse, Still, writerVars
<1> QED
  BY <1>2, <1>3 DEF Offer, r

\* Every step is an accepted record, a step of the writer, a crash, or moves
\* no record; for a producer that gets a record in some Sender handle is alive,
\* its own or its reader's, and the session sends only before it has dropped
\* its own.
LEMMA StepKinds ==
    ASSUME TypeOK, [Next]_vars
    PROVE  \/ /\ UNCHANGED writerVars
              /\ \E p \in Producers, r \in Records :
                    /\ r.from = p
                    /\ Taken(p, r)
                    /\ p \in holders \cup Readers \/ p = Session
                    /\ p = Session => phase \in {"recording", "stopping", "finalizing"}
           \/ WriterStep
           \/ Crash
           \/ Still
<1>0. CASE UNCHANGED vars
  BY <1>0 DEF vars, Still
<1>1. ASSUME NEW c \in Collectors, TrySend(c) \/ Finish(c)
      PROVE  \/ /\ UNCHANGED writerVars
                /\ \E r \in Records : r.from = c /\ Taken(c, r)
                /\ c \in holders \cup Readers /\ c \in Producers /\ c # Session
             \/ Still
  <2>1. c \in Producers /\ c # Session
    BY PipelineAssumption DEF Producers
  <2>2. Offer(c) /\ c \in holders \cup Readers /\ UNCHANGED writerVars
    BY <1>1 DEF TrySend, Finish
  <2> QED
    BY <2>1, <2>2, OfferEffect
<1>2. ASSUME NEW c \in Collectors, Quit(c) PROVE Still
  BY <1>2 DEF Quit, Still, writerVars
<1>8. ASSUME NEW c \in Following, ReaderStep(c) PROVE Still
  BY <1>8 DEF ReaderStep, SpawnReader, ReaderEnds, Still, writerVars
<1>3. ASSUME AddMarker \/ StopBookmark \/ FinalRecord
      PROVE  \/ /\ UNCHANGED writerVars
                /\ \E r \in Records : r.from = Session /\ Taken(Session, r)
                /\ Session \in Producers
                /\ phase \in {"recording", "stopping", "finalizing"}
             \/ Still
  <2>1. Session \in Producers
    BY DEF Producers
  <2>2. /\ Offer(Session)
        /\ UNCHANGED writerVars
        /\ phase \in {"recording", "stopping", "finalizing"}
    BY <1>3 DEF AddMarker, StopBookmark, FinalRecord, BlockingSend
  <2> QED
    BY <2>1, <2>2, OfferEffect
<1>4. CASE StopRequested \/ CollectorsJoined \/ CloseChannel \/ WriterJoined
           \/ StopFails
  BY <1>4 DEF StopRequested, CollectorsJoined, CloseChannel, WriterJoined,
     StopFails, Still, writerVars
<1>5. CASE Elapse
  BY <1>5 DEF Elapse, Still
<1>6. CASE \E c \in Collectors : CollectorStep(c)
  <2> PICK c \in Collectors : CollectorStep(c)
    BY <1>6
  <2> QED
    BY <1>1, <1>2 DEF CollectorStep
<1>7. CASE SessionStep
  BY <1>3, <1>4, <1>7 DEF SessionStep
<1> QED
  BY <1>0, <1>5, <1>6, <1>7, <1>8 DEF Next

-----------------------------------------------------------------------------
(* The records in flight.                                                   *)

LEMMA FlowStep == IInv /\ [Next]_vars => NothingLostInFlight'
<1> SUFFICES ASSUME IInv, [Next]_vars,
                    writer' \notin {"failed", "dead"}
             PROVE  accepted' = committed' \o batch' \o queue'
  BY DEF NothingLostInFlight
<1>1. /\ TypeOK /\ NothingLostInFlight /\ WriterEnd
      /\ queue \in Seq(Records) /\ batch \in Seq(Records)
      /\ committed \in Seq(Records) /\ accepted \in Seq(Records)
  BY DEF IInv, TypeOK
<1>2. ASSUME UNCHANGED writerVars, NEW p \in Producers, NEW r \in Records,
             Taken(p, r)
      PROVE  accepted' = committed' \o batch' \o queue'
  <2>1. /\ accepted' = Append(accepted, r) /\ queue' = Append(queue, r)
        /\ batch' = batch /\ committed' = committed
        /\ writer \notin {"failed", "dead"}
    BY <1>2 DEF Taken, CanSend, WriterRuns, writerVars
  <2>2. accepted = committed \o batch \o queue
    BY <1>1, <2>1 DEF NothingLostInFlight
  <2>3. /\ <<r>> \in Seq(Records)
        /\ accepted' = accepted \o <<r>> /\ queue' = queue \o <<r>>
    BY <1>1, <2>1, FlowOfRecords
  <2>4. committed \o batch \in Seq(Records)
    BY <1>1, ConcatProperties
  <2>5. ((committed \o batch) \o queue) \o <<r>>
            = (committed \o batch) \o (queue \o <<r>>)
    BY <1>1, <2>3, <2>4, FlowOfRecords
  <2> QED
    BY <2>1, <2>2, <2>3, <2>5
<1>3. CASE Still
  BY <1>1, <1>3 DEF Still, NothingLostInFlight
<1>4. CASE WriterStep
  <2>1. writer \notin {"failed", "dead"} /\ accepted' = accepted
    BY <1>4 DEF WriterStep, Receive, Timeout, Disconnected, Drain, DrainEnd,
       Flush, LastFlush, FlushFails
  <2>2. accepted = committed \o batch \o queue
    BY <1>1, <2>1 DEF NothingLostInFlight
  <2>3. CASE Receive \/ Drain
    <3>1. /\ queue # <<>> /\ batch' = Append(batch, Head(queue))
          /\ queue' = Tail(queue) /\ committed' = committed
      BY <2>3 DEF Receive, Drain
    <3>2. /\ batch' \in Seq(Records) /\ queue' \in Seq(Records)
          /\ batch' \o queue' = batch \o queue
      BY <1>1, <3>1, FlowMove
    <3>3. /\ committed \o batch \o queue = committed \o (batch \o queue)
          /\ committed \o batch' \o queue' = committed \o (batch' \o queue')
      BY <1>1, <3>2, FlowOfRecords
    <3> QED
      BY <2>1, <2>2, <3>1, <3>2, <3>3
  <2>4. CASE Timeout \/ Disconnected \/ DrainEnd
    BY <2>1, <2>2, <2>4 DEF Timeout, Disconnected, DrainEnd
  <2>5. CASE Flush \/ LastFlush
    <3>1. committed' = committed \o batch /\ batch' = <<>> /\ queue' = queue
      BY <2>5 DEF Flush, LastFlush, Commit
    <3>2. committed' \o batch' = committed'
      BY <1>1, <3>1, ConcatProperties, ConcatEmptySeq
    <3> QED
      BY <2>1, <2>2, <3>1, <3>2
  <2>6. CASE FlushFails
    BY <2>6 DEF FlushFails
  <2> QED
    BY <1>4, <2>3, <2>4, <2>5, <2>6 DEF WriterStep
<1>5. CASE Crash
  \* only a writer that had already returned Ok survives a crash as "done"
  <2>1. writer = "done" /\ UNCHANGED <<writer, committed, accepted>>
        /\ queue' = <<>> /\ batch' = <<>>
    BY <1>1, <1>5 DEF Crash, WriterRuns, TypeOK, WriterPcs
  <2>2. queue = <<>> /\ batch = <<>>
    BY <1>1, <2>1 DEF WriterEnd
  <2> QED
    BY <1>1, <2>1, <2>2 DEF NothingLostInFlight
<1> QED
  BY <1>1, <1>2, <1>3, <1>4, <1>5, StepKinds

\* A writer that has failed or died has seen its last record: nothing is
\* accepted and nothing committed any more.
LEMMA NothingAfterFailure ==
    ASSUME IInv, [Next]_vars, writer' \in {"failed", "dead"}
    PROVE  committed' = committed /\ accepted' = accepted
<1>1. ASSUME UNCHANGED writerVars, NEW p \in Producers, NEW r \in Records,
             Taken(p, r)
      PROVE  FALSE
  BY <1>1 DEF writerVars, Taken, CanSend, WriterRuns
<1>2. CASE WriterStep
  BY <1>2 DEF WriterStep, Receive, Timeout, Disconnected, Drain,
     DrainEnd, Flush, LastFlush, FlushFails
<1>3. CASE Crash
  BY <1>3 DEF Crash
<1>4. CASE Still
  BY <1>4 DEF Still
<1> QED
  BY <1>1, <1>2, <1>3, <1>4, StepKinds DEF IInv

\* A prefix stays a prefix: while the writer runs by the flow equation, after
\* its end because nothing moves any more.
LEMMA PrefixStep == IInv /\ [Next]_vars => DurablePrefix'
<1> SUFFICES ASSUME IInv, [Next]_vars PROVE IsPrefix(committed', accepted')
  BY DEF DurablePrefix
<1>1. TypeOK' /\ NothingLostInFlight'
  BY TypeStep, FlowStep DEF IInv
<1>2. CASE writer' \notin {"failed", "dead"}
  <2>1. /\ committed' \in Seq(Records) /\ batch' \in Seq(Records)
        /\ queue' \in Seq(Records)
    BY <1>1 DEF TypeOK
  <2>2. accepted' = committed' \o batch' \o queue'
    BY <1>1, <1>2 DEF NothingLostInFlight
  <2>3. /\ batch' \o queue' \in Seq(Records)
        /\ committed' \o batch' \o queue' = committed' \o (batch' \o queue')
    BY <2>1, ConcatProperties, ConcatAssociative
  <2>4. IsPrefix(committed', committed' \o (batch' \o queue'))
    BY <2>1, <2>3, PrefixConcat
  <2> QED
    BY <2>2, <2>3, <2>4
<1>3. CASE writer' \in {"failed", "dead"}
  BY <1>3, NothingAfterFailure DEF IInv, DurablePrefix
<1> QED
  BY <1>2, <1>3

\* The channel and the batch stay within their limits.
LEMMA BoundStep == IInv /\ [Next]_vars => BufferBound'
<1> SUFFICES ASSUME IInv, [Next]_vars PROVE BufferBound'
  OBVIOUS
<1>1. /\ TypeOK
      /\ queue \in Seq(Records) /\ batch \in Seq(Records)
      /\ Len(queue) \in Nat /\ Len(batch) \in Nat
      /\ Capacity \in Nat /\ MaxBatch \in Nat /\ MaxBatch > 0
  BY PipelineAssumption, LenProperties DEF IInv, TypeOK
<1>2. BufferBound
  BY DEF IInv
<1>3. ASSUME UNCHANGED writerVars, NEW p \in Producers, NEW r \in Records,
             Taken(p, r)
      PROVE  BufferBound'
  <2>1. Len(queue') = Len(queue) + 1 /\ Len(queue) < Capacity
    BY <1>1, <1>3, AppendProperties DEF Taken, CanSend
  <2> QED
    BY <1>1, <1>2, <1>3, <2>1 DEF BufferBound, writerVars
<1>4. CASE Still
  BY <1>2, <1>4 DEF BufferBound, Still
<1>5. CASE WriterStep
  <2>1. CASE Receive \/ Drain
    <3>1. /\ queue # <<>> /\ batch' = Append(batch, Head(queue))
          /\ queue' = Tail(queue) /\ writer' = "drain"
      BY <2>1 DEF Receive, Drain
    <3>2. Len(batch) < MaxBatch
      BY <1>2, <2>1 DEF Receive, Drain, BufferBound
    <3>3. Len(queue') = Len(queue) - 1 /\ Len(batch') = Len(batch) + 1
      BY <1>1, <3>1, HeadTailProperties, AppendProperties
    <3> QED
      BY <1>1, <1>2, <3>1, <3>2, <3>3 DEF BufferBound
  <2>2. CASE Timeout \/ Disconnected
    BY <1>2, <2>2 DEF Timeout, Disconnected, BufferBound
  <2>3. CASE DrainEnd
    <3>1. Len(batch) >= MaxBatch => batch # <<>>
      BY <1>1, EmptySeq
    <3> QED
      BY <1>1, <1>2, <2>3, <3>1 DEF DrainEnd, FlushNow, BufferBound
  <2>4. CASE Flush \/ LastFlush \/ FlushFails
    <3>1. batch' = <<>> /\ (queue' = queue \/ queue' = <<>>)
      BY <2>4 DEF Flush, LastFlush, FlushFails, Commit
    <3> QED
      BY <1>1, <1>2, <3>1, EmptySeq DEF BufferBound
  <2> QED
    BY <1>5, <2>1, <2>2, <2>3, <2>4 DEF WriterStep
<1>6. CASE Crash
  <2>1. queue' = <<>> /\ batch' = <<>>
    BY <1>6 DEF Crash
  <2> QED
    BY <1>1, <2>1, EmptySeq DEF BufferBound
<1> QED
  BY <1>1, <1>3, <1>4, <1>5, <1>6, StepKinds

\* What is accepted and not committed is in the batch or in the channel, or was
\* when the writer failed.
LEMMA LossStep == IInv /\ [Next]_vars => LossBound'
<1> SUFFICES ASSUME IInv, [Next]_vars
             PROVE  Len(accepted') <= Len(committed') + Capacity + MaxBatch
  BY DEF LossBound
<1>1. CASE writer' \in {"failed", "dead"}
  BY <1>1, NothingAfterFailure DEF IInv, LossBound
<1>2. CASE writer' \notin {"failed", "dead"}
  <2>1. TypeOK' /\ NothingLostInFlight' /\ BufferBound'
    BY TypeStep, FlowStep, BoundStep DEF IInv
  <2>2. /\ committed' \in Seq(Records) /\ batch' \in Seq(Records)
        /\ queue' \in Seq(Records)
        /\ Len(committed') \in Nat /\ Len(batch') \in Nat /\ Len(queue') \in Nat
        /\ Capacity \in Nat /\ MaxBatch \in Nat
    BY <2>1, LenProperties, PipelineAssumption DEF TypeOK
  <2>3. Len(queue') <= Capacity /\ Len(batch') <= MaxBatch
    BY <2>1 DEF BufferBound
  <2>4. /\ committed' \o batch' \in Seq(Records)
        /\ Len(committed' \o batch') = Len(committed') + Len(batch')
    BY <2>2, ConcatProperties
  <2>5. Len((committed' \o batch') \o queue')
            = Len(committed' \o batch') + Len(queue')
    BY <2>2, <2>4, ConcatProperties
  <2>6. accepted' = committed' \o batch' \o queue'
    BY <1>2, <2>1 DEF NothingLostInFlight
  <2> QED
    BY <2>2, <2>3, <2>4, <2>5, <2>6
<1> QED
  BY <1>1, <1>2

-----------------------------------------------------------------------------
(* Who can still send, and what an ended writer holds.                      *)

\* A channel without a Sender never gets one again: only a collector that
\* still has its own handle clones it for a reader.
LEMMA StaysDisconnected == TypeOK /\ [Next]_vars /\ ~Connected => ~Connected'
<1> SUFFICES ASSUME TypeOK, [Next]_vars, holders = {}, Readers = {}
             PROVE  holders' = {} /\ Readers' = {}
  BY DEF Connected
<1>1. ASSUME NEW c \in Following PROVE reader[c] # "running"
  BY DEF Readers
<1>2. ASSUME holders' = holders, reader' = reader
      PROVE  holders' = {} /\ Readers' = {}
  BY <1>1, <1>2 DEF Readers
<1>3. CASE \E c \in Collectors : CollectorStep(c)
  <2> PICK c \in Collectors : CollectorStep(c)
    BY <1>3
  <2> QED
    BY <1>2 DEF CollectorStep, TrySend, Finish, Quit
<1>4. CASE \E c \in Following : ReaderStep(c)
  BY <1>1, <1>4 DEF ReaderStep, SpawnReader, ReaderEnds, Readers
<1>5. CASE SessionStep
  <2>1. holders' \subseteq holders /\ reader' = reader
    BY <1>5 DEF SessionStep, AddMarker, StopRequested, StopBookmark,
       CollectorsJoined, FinalRecord, CloseChannel, WriterJoined, StopFails,
       BlockingSend
  <2> QED
    BY <1>2, <2>1
<1>6. CASE WriterStep \/ Elapse \/ UNCHANGED vars
  BY <1>2, <1>6 DEF WriterStep, Receive, Timeout, Disconnected, Drain, DrainEnd,
     Flush, LastFlush, FlushFails, Elapse, vars
<1>7. CASE Crash
  BY <1>7 DEF Crash, Readers
<1> QED
  BY <1>3, <1>4, <1>5, <1>6, <1>7 DEF Next

\* The stages of stop only advance, and no thread gets its own handle back.
LEMMA PhaseStep == IInv /\ [Next]_vars => PhaseHolders'
<1> SUFFICES ASSUME IInv, [Next]_vars PROVE PhaseHolders'
  OBVIOUS
<1>1. PhaseHolders /\ Session \notin Collectors /\ (~Connected => ~Connected')
  BY PipelineAssumption, StaysDisconnected DEF IInv
<1> USE DEF PhaseHolders, WriterRuns
<1>2. CASE UNCHANGED vars
  BY <1>1, <1>2 DEF vars
<1>3. CASE \E c \in Collectors : CollectorStep(c)
  <2> PICK c \in Collectors : CollectorStep(c)
    BY <1>3
  <2>1. CASE TrySend(c)
    BY <1>1, <2>1 DEF TrySend, writerVars
  <2>2. CASE Finish(c)
    BY <1>1, <2>2 DEF Finish, writerVars
  <2>3. CASE Quit(c)
    BY <1>1, <2>3 DEF Quit, writerVars
  <2> QED
    BY <2>1, <2>2, <2>3 DEF CollectorStep
<1>8. CASE \E c \in Following : ReaderStep(c)
  BY <1>1, <1>8 DEF ReaderStep, SpawnReader, ReaderEnds, writerVars
<1>4. CASE SessionStep
  <2>1. CASE AddMarker \/ StopBookmark \/ FinalRecord
    BY <1>1, <2>1 DEF AddMarker, StopBookmark, FinalRecord, BlockingSend,
       writerVars
  <2>2. CASE StopRequested \/ CollectorsJoined
    BY <1>1, <2>2 DEF StopRequested, CollectorsJoined, writerVars
  <2>3. CASE CloseChannel \/ StopFails
    BY <1>1, <2>3 DEF CloseChannel, StopFails, writerVars
  <2>4. CASE WriterJoined
    BY <1>1, <2>4 DEF WriterJoined, writerVars
  <2> QED
    BY <1>4, <2>1, <2>2, <2>3, <2>4 DEF SessionStep
<1>5. CASE WriterStep
  <2>1. UNCHANGED <<holders, phase>> /\ writer # "done" /\ WriterRuns
    BY <1>5 DEF WriterStep, Receive, Timeout, Disconnected, Drain, DrainEnd,
       Flush, LastFlush, FlushFails
  <2> QED
    BY <1>1, <2>1
<1>6. CASE Elapse
  BY <1>1, <1>6 DEF Elapse
<1>7. CASE Crash
  <2>1. ~Connected'
    BY <1>7 DEF Crash, Connected, Readers
  <2> QED
    BY <1>1, <1>7, <2>1 DEF Crash
<1> QED
  BY <1>2, <1>3, <1>4, <1>5, <1>6, <1>7, <1>8 DEF Next

LEMMA WriterEndStep == IInv /\ [Next]_vars => WriterEnd'
<1> SUFFICES ASSUME IInv, [Next]_vars PROVE WriterEnd'
  OBVIOUS
<1>1. TypeOK /\ WriterEnd /\ PhaseHolders /\ (~Connected => ~Connected')
  BY StaysDisconnected DEF IInv
<1>2. ASSUME UNCHANGED writerVars, NEW p \in Producers, NEW r \in Records,
             Taken(p, r), p \in holders \cup Readers \/ p = Session,
             p = Session => phase \in {"recording", "stopping", "finalizing"}
      PROVE  WriterEnd'
  <2>1. Connected
    BY <1>1, <1>2 DEF PhaseHolders, Connected
  <2>2. writer \in {"recv", "drain", "flush"} /\ writer' = writer
    BY <1>1, <1>2, <2>1 DEF Taken, CanSend, WriterRuns, WriterEnd, writerVars
  <2> QED
    BY <2>2 DEF WriterEnd
<1>3. CASE Still
  BY <1>1, <1>3 DEF Still, WriterEnd
<1>4. CASE WriterStep
  <2>1. CASE Receive \/ Timeout \/ Drain \/ DrainEnd \/ Flush
    BY <2>1 DEF Receive, Timeout, Drain, DrainEnd, Flush, WriterEnd
  <2>2. CASE Disconnected
    BY <1>1, <2>2 DEF Disconnected, WriterEnd
  <2>3. CASE LastFlush
    BY <1>1, <2>3 DEF LastFlush, Commit, WriterEnd
  <2>4. CASE FlushFails
    BY <2>4 DEF FlushFails, WriterEnd
  <2> QED
    BY <1>4, <2>1, <2>2, <2>3, <2>4 DEF WriterStep
<1>5. CASE Crash
  BY <1>1, <1>5 DEF Crash, WriterEnd, WriterRuns, TypeOK, WriterPcs
<1> QED
  BY <1>1, <1>2, <1>3, <1>4, <1>5, StepKinds

-----------------------------------------------------------------------------
(* The theorems.                                                            *)

LEMMA InvInit == Init => IInv
<1> SUFFICES ASSUME Init PROVE IInv
  OBVIOUS
<1>1. TypeOK
  BY TypeInit
<1>2. <<>> \in Seq(Records) /\ Len(<<>>) = 0
  BY EmptySeq
<1>3. <<>> \o <<>> \o <<>> = <<>>
  BY <1>2, ConcatEmptySeq
<1>4. NothingLostInFlight
  BY <1>3 DEF Init, NothingLostInFlight
<1>5. DurablePrefix
  BY <1>2 DEF Init, DurablePrefix, IsPrefix
<1>6. BufferBound /\ LossBound
  BY <1>2, PipelineAssumption DEF Init, BufferBound, LossBound
<1>7. WriterEnd /\ PhaseHolders
  BY DEF Init, WriterEnd, PhaseHolders, Producers
<1> QED
  BY <1>1, <1>4, <1>5, <1>6, <1>7 DEF IInv

LEMMA InvStep == IInv /\ [Next]_vars => IInv'
<1> SUFFICES ASSUME IInv, [Next]_vars PROVE IInv'
  OBVIOUS
<1>1. TypeOK'
  BY TypeStep DEF IInv
<1> QED
  BY <1>1, FlowStep, PrefixStep, BoundStep, LossStep, PhaseStep,
     WriterEndStep DEF IInv

LEMMA Invariance == Spec => []IInv
BY InvInit, InvStep, PTL DEF Spec

\* For every number of collectors, capacity and batch size: nothing the
\* channel accepted is lost, duplicated or reordered before a failure.
THEOREM FlowSafe == Spec => []NothingLostInFlight
<1>1. IInv => NothingLostInFlight
  BY DEF IInv
<1> QED
  BY <1>1, Invariance, PTL

\* What is on disk is always a prefix of what was accepted.
THEOREM PrefixSafe == Spec => []DurablePrefix
<1>1. IInv => DurablePrefix
  BY DEF IInv
<1> QED
  BY <1>1, Invariance, PTL

\* For every number of collectors, capacity and batch size, and whatever ends
\* the recording: what was accepted and is lost is at most a channel and a batch.
THEOREM BoundSafe == Spec => []LossBound
<1>1. IInv => LossBound
  BY DEF IInv
<1> QED
  BY <1>1, Invariance, PTL

\* stop returning Ok means that every accepted record is committed.
THEOREM CleanStopSafe == Spec => []CleanStop
<1>1. IInv => CleanStop
  <2> SUFFICES ASSUME IInv, phase = "ended"
               PROVE  committed = accepted /\ ~Connected
    BY DEF CleanStop
  <2>1. writer = "done" /\ batch = <<>> /\ queue = <<>> /\ ~Connected
    BY DEF IInv, PhaseHolders, WriterEnd
  <2>2. accepted = committed \o <<>> \o <<>>
    BY <2>1 DEF IInv, NothingLostInFlight
  <2>3. committed \in Seq(Records)
    BY DEF IInv, TypeOK
  <2>4. committed \o <<>> = committed
    BY <2>3, ConcatEmptySeq
  <2> QED
    BY <2>1, <2>2, <2>4
<1> QED
  BY <1>1, Invariance, PTL

\* For every set of collectors, after they have been joined: who adds a record
\* is the session or the reader of a collector that left it behind, and after
\* an Ok of stop nobody does.
THEOREM JoinedStaySilentSafe == Spec => JoinedStaySilent
<1> DEFINE Silent ==
      /\ phase \in {"finalizing", "closing"} =>
             \A i \in DOMAIN accepted' \ DOMAIN accepted :
                 accepted'[i].from \in {Session} \cup Leaked
      /\ phase = "ended" => accepted' = accepted
<1>1. IInv /\ [Next]_vars => Silent
  <2> SUFFICES ASSUME IInv, [Next]_vars PROVE Silent
    OBVIOUS
  <2>1. TypeOK /\ accepted \in Seq(Records)
        /\ DOMAIN accepted = 1..Len(accepted) /\ Len(accepted) \in Nat
    BY LenProperties DEF IInv, TypeOK
  <2>2. ASSUME NEW p \in Producers, NEW r \in Records, r.from = p,
               Taken(p, r), p \in holders \cup Readers \/ p = Session
        PROVE  Silent
    <3>1. phase # "ended"
      BY <2>2 DEF IInv, PhaseHolders, Taken, CanSend, WriterRuns
    <3>2. /\ accepted' = Append(accepted, r)
          /\ Append(accepted, r) \in Seq(Records)
          /\ Len(Append(accepted, r)) = Len(accepted) + 1
          /\ Append(accepted, r)[Len(accepted) + 1] = r
      BY <2>1, <2>2, AppendProperties DEF Taken
    <3>3. ASSUME phase \in {"finalizing", "closing"},
                 NEW i \in DOMAIN accepted' \ DOMAIN accepted
          PROVE  accepted'[i].from \in {Session} \cup Leaked
      <4>1. i = Len(accepted) + 1
        BY <2>1, <3>2, <3>3, LenProperties
      <4>2. p \in Readers \ holders \/ p = Session
        BY <2>2, <3>3 DEF IInv, PhaseHolders, Producers
      <4> QED
        BY <2>2, <3>2, <4>1, <4>2 DEF Leaked
    <3> QED
      BY <3>1, <3>3
  <2>3. CASE accepted' = accepted
    BY <2>3
  <2>4. CASE WriterStep \/ Crash \/ Still
    BY <2>3, <2>4 DEF WriterStep, Receive, Timeout, Disconnected, Drain,
       DrainEnd, Flush, LastFlush, FlushFails, Crash, Still
  <2> QED
    BY <2>1, <2>2, <2>4, StepKinds
<1>2. IInv /\ [Next]_vars => [Silent]_vars
  BY <1>1
<1> QED
  BY <1>2, Invariance, PTL DEF Spec, JoinedStaySilent

-----------------------------------------------------------------------------
(* The pipeline implements the abstract log.                                *)

LEMMA LogInitMap == Init => Log!LogInit
BY DEF Init, Log!LogInit

LEMMA LogStepMap == IInv /\ IInv' /\ [Next]_vars => [Log!LogNext]_Log!logVars
<1> SUFFICES ASSUME IInv, IInv', [Next]_vars
             PROVE  [Log!LogNext]_Log!logVars
  OBVIOUS
<1> USE DEF Log!logVars
<1>1. /\ TypeOK /\ DurablePrefix /\ DurablePrefix' /\ WriterEnd
      /\ NothingLostInFlight'
      /\ committed \in Seq(Records) /\ batch \in Seq(Records)
      /\ accepted \in Seq(Records) /\ queue \in Seq(Records)
  BY DEF IInv, TypeOK
<1>2. ASSUME UNCHANGED writerVars, NEW p \in Producers, NEW r \in Records,
             Taken(p, r)
      PROVE  Log!Accept
  <2>1. /\ accepted' = Append(accepted, r)
        /\ Len(accepted') = Len(accepted) + 1
        /\ accepted'[Len(accepted')] = r
    BY <1>1, <1>2, AppendProperties DEF Taken
  <2>2. writer \notin {"done", "failed", "dead"} /\ writer' = writer
        /\ committed' = committed
    BY <1>2 DEF Taken, CanSend, WriterRuns, writerVars
  <2> QED
    BY <2>1, <2>2 DEF Log!Accept
<1>3. CASE Still
  BY <1>3 DEF Still
<1>4. CASE WriterStep
  <2>1. CASE Receive \/ Timeout \/ Disconnected \/ Drain \/ DrainEnd
    <3>1. /\ UNCHANGED <<accepted, committed>>
          /\ writer \notin {"done", "failed", "dead"}
          /\ writer' \notin {"done", "failed", "dead"}
      BY <2>1 DEF Receive, Timeout, Disconnected, Drain, DrainEnd
    <3> QED
      BY <3>1
  <2>2. CASE Flush
    <3>1. IsPrefix(committed, committed \o batch)
      BY <1>1, PrefixConcat
    <3>2. IsPrefix(committed', accepted)
      BY <1>1, <2>2 DEF DurablePrefix, Flush
    <3>3. /\ writer \notin {"done", "failed", "dead"}
          /\ writer' \notin {"done", "failed", "dead"}
          /\ accepted' = accepted /\ committed' = committed \o batch
      BY <2>2 DEF Flush, Commit
    <3>4. Log!Persist
      BY <3>1, <3>2, <3>3 DEF Log!Persist, Log!IsPrefix, IsPrefix
    <3> QED
      BY <3>4 DEF Log!LogNext
  <2>3. CASE LastFlush
    <3>1. /\ writer = "last" /\ writer' = "done"
          /\ queue' = queue /\ queue = <<>> /\ batch' = <<>>
          /\ accepted' = accepted
      BY <1>1, <2>3 DEF LastFlush, Commit, WriterEnd
    <3>2. accepted' = committed' \o <<>> \o <<>>
      BY <1>1, <3>1 DEF NothingLostInFlight
    <3>3. committed' \in Seq(Records)
      BY DEF IInv, TypeOK
    <3>4. committed' = accepted
      BY <3>1, <3>2, <3>3, ConcatEmptySeq
    <3> QED
      BY <3>1, <3>4 DEF Log!LogNext, Log!Close
  <2>4. CASE FlushFails
    BY <2>4 DEF FlushFails, Log!LogNext, Log!Lose
  <2> QED
    BY <1>4, <2>1, <2>2, <2>3, <2>4 DEF WriterStep
<1>5. CASE Crash
  <2>1. CASE WriterRuns
    BY <1>5, <2>1 DEF Crash, WriterRuns, Log!LogNext, Log!Lose
  <2>2. CASE ~WriterRuns
    BY <1>5, <2>2 DEF Crash
  <2> QED
    BY <2>1, <2>2
<1> QED
  BY <1>1, <1>2, <1>3, <1>4, <1>5, StepKinds DEF Log!LogNext

\* Every behaviour of the pipeline is a behaviour of the durable log.
THEOREM LogRefinement == Spec => ImplementsLog
BY LogInitMap, LogStepMap, Invariance, PTL DEF Spec, ImplementsLog, Log!LogSpec
=============================================================================
