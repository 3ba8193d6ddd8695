--------------------------- MODULE EventLogProofs ---------------------------
(***************************************************************************)
(* Proofs about EventLog: consecutive polls and the final backfill leave   *)
(* no gap, record nothing twice except at their seam, and deliver almost   *)
(* in order, for any overlap, slack, delay and number of failing queries.  *)
(***************************************************************************)
EXTENDS EventLog, TLAPS

ChannelNames == {"System", "Application"}
Stamps == [at : Nat, channel : ChannelNames]
Failures == [channel : ChannelNames, from : Int, until : Int]

Types ==
    /\ now \in Nat
    /\ Raised \subseteq Events
    /\ \A e \in Raised : raised[e] \in Stamps
    /\ visible \subseteq Raised /\ seen \subseteq visible /\ found \subseteq visible
    /\ stopFlag \in BOOLEAN /\ finalPass \in BOOLEAN
    /\ pc \in {"top", "pass", "waiting", "exited"}
    /\ phase \in {"recording", "joining", "snapshots", "backfill", "done", "failed"}
    /\ queryStarted \in Nat /\ queryFrom \in Int /\ wakeAt \in Nat /\ finalFrom \in Nat
    /\ todo \in {Channels, <<"Application">>, <<>>}
    /\ from \in Int /\ until \in Int
    /\ stored \in [Events -> Nat] /\ marked \in [Events -> Nat]
    /\ lost \subseteq Events
    /\ failures \in Seq(Failures)

\* The channel is still to be asked.
Waiting(c) ==
    \/ todo = Channels
    \/ todo = <<"Application">> /\ c = "Application"

\* Nothing is stamped in the future, and an event nobody can find yet is recent.
Clock ==
    /\ \A e \in Raised : raised[e].at <= now
    /\ \A e \in Raised \ visible : now <= raised[e].at + MaxLag
    /\ queryStarted <= now /\ queryFrom <= queryStarted /\ finalFrom <= now

Ended == phase \in {"snapshots", "backfill", "done", "failed"}

\* Who is asking, and for what; the poller and the backfill take turns.
Query ==
    /\ Ended => pc = "exited"
    /\ pc # "pass" /\ phase # "backfill" => todo = <<>> /\ found = {}
    /\ pc = "pass" => from = queryFrom /\ until = queryStarted + Slack
    /\ phase \in {"backfill", "done"} =>
         from = finalFrom /\ until >= finalFrom + Slack /\ until <= now + Slack
    /\ \A e \in found : InWindow(e)

\* What the poller has dealt with, and what it is about to.
Polls ==
    /\ pc # "pass" => \A e \in Raised : raised[e].at < queryFrom /\ Healthy(e) => e \in seen
    /\ pc = "pass" =>
         \A e \in Raised :
            raised[e].at < queryStarted - Overlap /\ Healthy(e)
              => \/ e \in seen \cup found
                 \/ Waiting(raised[e].channel) /\ from <= raised[e].at

Untouched(e) == stored[e] = 0 /\ marked[e] = 0
AtMostOnce(e) == stored[e] <= 1 /\ marked[e] <= 1

\* At most one record per event, and none the poller does not remember.
Polled(e) == AtMostOnce(e) /\ (e \in seen \/ Untouched(e))

\* The backfill has not come to this event.
NotYet(e) == phase # "done" /\ (phase # "backfill" \/ todo # <<>> \/ e \in found)

Once ==
    /\ \A e \in Events : NotYet(e) => Polled(e)
    /\ \A e \in Events \ Raised : Untouched(e)
    /\ \A e \in Raised :
         \/ Polled(e)
         \/ raised[e].at = finalFrom
         \/ raised[e].at > finalFrom /\ AtMostOnce(e)
    /\ Ended => \A e \in seen : raised[e].at <= finalFrom

\* What was recorded is not much younger than what comes next.
Order ==
    \A x \in Raised : Recorded(x) =>
        /\ ~Ended => raised[x].at <= queryStarted + Slack
        /\ ~Ended /\ pc # "pass" => raised[x].at <= queryFrom + Overlap + Slack
        /\ pc = "pass" \/ phase = "backfill" =>
             \/ raised[x].at <= from + Overlap + Slack
             \/ todo = <<>> /\ \A y \in found : raised[x].at <= raised[y].at

\* The backfill misses nothing it could have found when it began.
Backfill ==
    phase \in {"backfill", "done"} =>
        \A e \in Raised :
            finalFrom <= raised[e].at /\ raised[e].at + MaxLag < until - Slack /\ Healthy(e)
              => Recorded(e) \/ e \in found \/ Waiting(raised[e].channel)

IInv ==
    /\ Types /\ Clock /\ Query /\ Once /\ Order /\ Backfill
    /\ MaxLag <= Overlap => Polls

-----------------------------------------------------------------------------
(* Sequences and functions the actions work on.                            *)

LEMMA NextChannel ==
    ASSUME Types, todo # <<>>
    PROVE  /\ Head(todo) \in ChannelNames
           /\ Tail(todo) \in {<<"Application">>, <<>>}
           /\ todo = Channels => Head(todo) = "System" /\ Tail(todo) = <<"Application">>
           /\ todo = <<"Application">> => Head(todo) = "Application" /\ Tail(todo) = <<>>
<1>1. CASE todo = Channels
  BY <1>1 DEF Channels, ChannelNames
<1>2. CASE todo = <<"Application">>
  BY <1>2 DEF Channels, ChannelNames
<1>. QED
  BY <1>1, <1>2 DEF Types

\* The channel that was asked is the one that no longer waits.
LEMMA WaitingShrinks ==
    ASSUME Types, todo # <<>>, todo' = Tail(todo), NEW c \in ChannelNames
    PROVE  /\ Waiting(c)' => Waiting(c)
           /\ Waiting(c) => Waiting(c)' \/ c = Head(todo)
           /\ Waiting(Head(todo))
<1>1. Channels # <<"Application">> /\ Channels # <<>> /\ <<"Application">> # <<>>
  BY DEF Channels
<1>2. CASE todo = Channels
  BY <1>1, <1>2, NextChannel DEF Waiting, ChannelNames
<1>3. CASE todo = <<"Application">>
  BY <1>1, <1>3, NextChannel DEF Waiting, ChannelNames
<1>. QED
  BY <1>2, <1>3 DEF Types

LEMMA AllWait ==
    ASSUME todo' = Channels, NEW c
    PROVE  Waiting(c)'
  BY DEF Waiting

LEMMA NobodyWaits ==
    ASSUME todo = <<>>, NEW c
    PROVE  ~Waiting(c)
  BY DEF Waiting, Channels

LEMMA CountOne ==
    ASSUME NEW f \in [Events -> Nat], NEW e \in Events
    PROVE  /\ Count(f, e) \in [Events -> Nat]
           /\ Count(f, e)[e] = f[e] + 1
           /\ \A x \in Events : x # e => Count(f, e)[x] = f[x]
  BY DEF Count

\* A failed query never becomes a good one.
LEMMA HealthyBefore ==
    ASSUME Types, failures' = failures, NEW e, raised'[e] = raised[e]
    PROVE  Healthy(e)' <=> Healthy(e)
  BY DEF Healthy

LEMMA HealthyFails ==
    ASSUME Types, NEW f \in Failures, failures' = Append(failures, f),
           NEW e \in Raised, raised'[e] = raised[e], Healthy(e)'
    PROVE  /\ Healthy(e)
           /\ f.channel = raised[e].channel => raised[e].at \notin f.from..f.until
<1>1. /\ Len(failures') = Len(failures) + 1 /\ Len(failures) \in Nat
      /\ failures'[Len(failures) + 1] = f
      /\ \A i \in 1..Len(failures) : failures'[i] = failures[i]
  BY DEF Types
<1>2. \A i \in 1..Len(failures') :
          failures'[i].channel = raised[e].channel
            => raised[e].at \notin failures'[i].from..failures'[i].until
  BY DEF Healthy
<1>. QED
  BY <1>1, <1>2 DEF Healthy

-----------------------------------------------------------------------------
(* The initial state.                                                      *)

LEMMA Initial == Init => IInv
<1>. SUFFICES ASSUME Init PROVE IInv
  OBVIOUS
<1>1. Raised = {}
  BY DEF Init, Raised
<1>2. failures \in Seq(Failures)
  BY DEF Init
<1>3. Types
  <2>1. todo \in {Channels, <<"Application">>, <<>>}
    BY DEF Init
  <2>2. Raised \subseteq Events /\ \A e \in Raised : raised[e] \in Stamps
    BY <1>1
  <2>3. visible \subseteq Raised /\ seen \subseteq visible /\ found \subseteq visible
    BY DEF Init
  <2>4. stored \in [Events -> Nat] /\ marked \in [Events -> Nat] /\ lost \subseteq Events
    BY DEF Init
  <2>5. /\ now \in Nat /\ queryStarted \in Nat /\ queryFrom \in Int /\ wakeAt \in Nat
        /\ finalFrom \in Nat /\ from \in Int /\ until \in Int
    BY DEF Init
  <2>6. /\ stopFlag \in BOOLEAN /\ finalPass \in BOOLEAN
        /\ pc \in {"top", "pass", "waiting", "exited"}
        /\ phase \in {"recording", "joining", "snapshots", "backfill", "done", "failed"}
    BY DEF Init
  <2>. QED
    BY <1>2, <2>1, <2>2, <2>3, <2>4, <2>5, <2>6 DEF Types
<1>4. Clock /\ Query /\ Order /\ Backfill /\ Polls
  BY <1>1 DEF Init, Clock, Query, Order, Backfill, Polls, Ended
<1>5. Once
  BY <1>1 DEF Init, Once, Untouched, AtMostOnce, Polled, Ended
<1>. QED
  BY <1>3, <1>4, <1>5 DEF IInv

-----------------------------------------------------------------------------
(* Windows raises and publishes events, and time passes.                   *)

LEMMA RaiseStep ==
    ASSUME IInv, NEW e \in Events, NEW c \in ChannelNames, Raise(e, c)
    PROVE  IInv'
<1>. USE EventLogAssumption
<1>0. Types /\ Clock /\ Query /\ Once /\ Order /\ Backfill /\ (MaxLag <= Overlap => Polls)
  BY DEF IInv
<1>1. /\ Raised' = Raised \cup {e} /\ e \notin Raised
      /\ raised'[e] = [at |-> now, channel |-> c]
      /\ \A x \in Raised : raised'[x] = raised[x]
  BY DEF Raise, Raised
<1>2. /\ UNCHANGED <<now, visible, pollVars, stopVars, queryVars, sinkVars, failures>>
  BY DEF Raise
<1>3. \A x \in Raised : Healthy(x)' <=> Healthy(x)
  <2>. TAKE x \in Raised
  <2>. QED
    BY <1>0, <1>1, <1>2, HealthyBefore
<1>4. \A x : Waiting(x)' <=> Waiting(x)
  BY <1>2 DEF queryVars, Waiting
<1>5. Types'
  <2>1. raised'[e] \in Stamps
    BY <1>0, <1>1 DEF Types, Stamps
  <2>. QED
    BY <1>0, <1>1, <1>2, <2>1 DEF Types, pollVars, stopVars, queryVars, sinkVars
<1>6. Clock'
  <2>1. raised'[e].at = now /\ now \in Nat /\ now <= now + MaxLag
    BY <1>0, <1>1 DEF Types
  <2>2. \A x \in Raised' : raised'[x].at <= now
    BY <1>0, <1>1, <2>1 DEF Clock
  <2>3. \A x \in Raised' \ visible : now <= raised'[x].at + MaxLag
    BY <1>0, <1>1, <2>1 DEF Clock
  <2>. QED
    BY <1>0, <1>2, <2>2, <2>3 DEF Clock, pollVars, stopVars
<1>7. Query'
  BY <1>0, <1>1, <1>2 DEF Query, Types, pollVars, stopVars, queryVars, Ended, InWindow
<1>8. Once'
  BY <1>0, <1>1, <1>2
  DEF Once, Types, pollVars, stopVars, queryVars, sinkVars, Ended, NotYet, Polled,
      AtMostOnce, Untouched
<1>9. Order'
  <2>1. ~Recorded(e)
    BY <1>0, <1>1 DEF Once, Untouched, Recorded
  <2>2. found \subseteq Raised
    BY <1>0 DEF Types
  <2>. QED
    BY <1>0, <1>1, <1>2, <2>1, <2>2
    DEF Order, pollVars, stopVars, queryVars, sinkVars, Ended, Recorded
<1>10. Backfill'
  <2>. SUFFICES ASSUME (phase \in {"backfill", "done"})', NEW x \in Raised',
                       (finalFrom <= raised[x].at /\ raised[x].at + MaxLag < until - Slack
                          /\ Healthy(x))'
                PROVE  (Recorded(x) \/ x \in found \/ Waiting(raised[x].channel))'
    BY DEF Backfill
  <2>1. x # e
    BY <1>0, <1>1, <1>2 DEF Types, Query, queryVars, stopVars
  <2>. QED
    BY <1>0, <1>1, <1>2, <1>3, <1>4, <2>1
    DEF Backfill, stopVars, queryVars, sinkVars, Recorded
<1>11. MaxLag <= Overlap => Polls'
  <2>. SUFFICES ASSUME MaxLag <= Overlap PROVE Polls'
    OBVIOUS
  <2>1. ~(now < queryFrom) /\ ~(now < queryStarted - Overlap) /\ raised'[e].at = now
    BY <1>0, <1>1 DEF Clock, Types
  <2>. QED
    BY <1>0, <1>1, <1>2, <1>3, <1>4, <2>1 DEF Polls, pollVars, queryVars
<1>. QED
  BY <1>5, <1>6, <1>7, <1>8, <1>9, <1>10, <1>11 DEF IInv

\* A query of either kind finds what was stamped long enough ago.
LEMMA PublishStep ==
    ASSUME IInv, NEW e \in Events, Publish(e)
    PROVE  IInv'
<1>0. Types /\ Clock /\ Query /\ Once /\ Order /\ Backfill /\ (MaxLag <= Overlap => Polls)
  BY DEF IInv
<1>1. /\ visible' = visible \cup {e} /\ e \in Raised
      /\ UNCHANGED <<now, raised, pollVars, stopVars, queryVars, sinkVars, failures>>
  BY DEF Publish
<1>2. Raised' = Raised /\ \A x : (Healthy(x)' <=> Healthy(x)) /\ (Waiting(x)' <=> Waiting(x))
  BY <1>1 DEF Raised, Healthy, Waiting, queryVars
<1>3. Types'
  BY <1>0, <1>1, <1>2 DEF Types, pollVars, stopVars, queryVars, sinkVars
<1>4. Clock'
  BY <1>0, <1>1, <1>2 DEF Clock, pollVars, stopVars
<1>5. Query'
  BY <1>0, <1>1, <1>2 DEF Query, pollVars, stopVars, queryVars, Ended, InWindow
<1>6. Once'
  BY <1>0, <1>1, <1>2
  DEF Once, pollVars, stopVars, queryVars, sinkVars, Ended, NotYet, Polled,
      AtMostOnce, Untouched
<1>7. Order'
  BY <1>0, <1>1, <1>2 DEF Order, pollVars, stopVars, queryVars, sinkVars, Ended, Recorded
<1>8. Backfill'
  BY <1>0, <1>1, <1>2 DEF Backfill, stopVars, queryVars, sinkVars, Recorded
<1>9. MaxLag <= Overlap => Polls'
  BY <1>0, <1>1, <1>2 DEF Polls, pollVars, queryVars
<1>. QED
  BY <1>3, <1>4, <1>5, <1>6, <1>7, <1>8, <1>9 DEF IInv

LEMMA TickStep ==
    ASSUME IInv, Tick
    PROVE  IInv'
<1>. USE EventLogAssumption
<1>0. Types /\ Clock /\ Query /\ Once /\ Order /\ Backfill /\ (MaxLag <= Overlap => Polls)
  BY DEF IInv
<1>1. /\ now' = now + 1 /\ \A e \in Raised \ visible : now < raised[e].at + MaxLag
      /\ UNCHANGED <<raised, visible, pollVars, stopVars, queryVars, sinkVars, failures>>
  BY DEF Tick
<1>2. Raised' = Raised /\ \A x : (Healthy(x)' <=> Healthy(x)) /\ (Waiting(x)' <=> Waiting(x))
  BY <1>1 DEF Raised, Healthy, Waiting, queryVars
<1>3. Types'
  BY <1>0, <1>1, <1>2 DEF Types, pollVars, stopVars, queryVars, sinkVars
<1>4. Clock'
  <2>1. \A e \in Raised : raised[e].at \in Nat
    BY <1>0 DEF Types, Stamps
  <2>. QED
    BY <1>0, <1>1, <1>2, <2>1 DEF Clock, Types, pollVars, stopVars
<1>5. Query'
  BY <1>0, <1>1, <1>2 DEF Query, Types, pollVars, stopVars, queryVars, Ended, InWindow
<1>6. Once'
  BY <1>0, <1>1, <1>2
  DEF Once, pollVars, stopVars, queryVars, sinkVars, Ended, NotYet, Polled,
      AtMostOnce, Untouched
<1>7. Order'
  BY <1>0, <1>1, <1>2 DEF Order, pollVars, stopVars, queryVars, sinkVars, Ended, Recorded
<1>8. Backfill'
  BY <1>0, <1>1, <1>2 DEF Backfill, stopVars, queryVars, sinkVars, Recorded
<1>9. MaxLag <= Overlap => Polls'
  BY <1>0, <1>1, <1>2 DEF Polls, pollVars, queryVars
<1>. QED
  BY <1>3, <1>4, <1>5, <1>6, <1>7, <1>8, <1>9 DEF IInv

-----------------------------------------------------------------------------
(* A channel answers, or fails.                                            *)

LEMMA Asking ==
    ASSUME Types, Query, todo # <<>>
    PROVE  (pc = "pass" /\ ~Ended) \/ phase = "backfill"
  BY DEF Query, Ended

LEMMA AnswersStep ==
    ASSUME IInv, ChannelAnswers
    PROVE  IInv'
<1>. USE EventLogAssumption
<1>0. Types /\ Clock /\ Query /\ Once /\ Order /\ Backfill /\ (MaxLag <= Overlap => Polls)
  BY DEF IInv
<1>1. /\ todo # <<>> /\ todo' = Tail(todo)
      /\ found' = found \cup Matches(Head(todo))
      /\ UNCHANGED <<timeVars, pollVars, stopVars, from, until, sinkVars, failures>>
  BY DEF ChannelAnswers
<1>2. Raised' = Raised /\ \A x : Healthy(x)' <=> Healthy(x)
  BY <1>1 DEF Raised, Healthy, timeVars
<1>3. \A x \in Raised : /\ Waiting(raised[x].channel)' => Waiting(raised[x].channel)
                        /\ Waiting(raised[x].channel)
                             => \/ Waiting(raised[x].channel)'
                                \/ raised[x].channel = Head(todo)
  <2>1. ASSUME NEW c \in ChannelNames
        PROVE  (Waiting(c)' => Waiting(c)) /\ (Waiting(c) => Waiting(c)' \/ c = Head(todo))
    BY <1>0, <1>1, WaitingShrinks
  <2>2. \A x \in Raised : raised'[x] = raised[x] /\ raised[x].channel \in ChannelNames
    BY <1>0, <1>1 DEF Types, Stamps, timeVars
  <2>. QED
    BY <2>1, <2>2
<1>4. (pc = "pass" /\ ~Ended) \/ phase = "backfill"
  BY <1>0, <1>1, Asking
<1>5. Matches(Head(todo)) \subseteq visible /\ \A x \in Matches(Head(todo)) : InWindow(x)
  BY DEF Matches
<1>6. Types'
  <2>1. todo' \in {<<"Application">>, <<>>}
    BY <1>0, <1>1, NextChannel
  <2>. QED
    BY <1>0, <1>1, <1>2, <1>5, <2>1 DEF Types, timeVars, pollVars, stopVars, sinkVars
<1>7. Clock'
  BY <1>0, <1>1, <1>2 DEF Clock, timeVars, pollVars, stopVars
<1>8. Query'
  BY <1>0, <1>1, <1>2, <1>4, <1>5
  DEF Query, timeVars, pollVars, stopVars, Ended, InWindow
<1>9. Once'
  <2>1. \A x \in Events : NotYet(x)' => NotYet(x)
    BY <1>1, <1>4 DEF NotYet, stopVars, Ended
  <2>. QED
    BY <1>0, <1>1, <1>2, <2>1
    DEF Once, timeVars, pollVars, stopVars, sinkVars, Ended, Polled, AtMostOnce, Untouched
<1>10. Order'
  BY <1>0, <1>1, <1>2 DEF Order, timeVars, pollVars, stopVars, sinkVars, Ended, Recorded
<1>11. Backfill'
  <2>. SUFFICES ASSUME phase \in {"backfill", "done"}, NEW x \in Raised, Healthy(x),
                       finalFrom <= raised[x].at, raised[x].at + MaxLag < until - Slack
                PROVE  (Recorded(x) \/ x \in found \/ Waiting(raised[x].channel))'
    BY <1>1, <1>2 DEF Backfill, timeVars, stopVars
  <2>1. Recorded(x) \/ x \in found \/ Waiting(raised[x].channel)
    BY <1>0 DEF Backfill
  <2>2. raised[x].at \in Nat
    BY <1>0 DEF Types, Stamps
  <2>3. x \in visible
    BY <1>0, <2>2 DEF Clock, Query, Types
  <2>4. InWindow(x)
    BY <1>0, <2>2 DEF InWindow, Query, Types
  <2>5. raised[x].channel = Head(todo) => x \in Matches(Head(todo))
    BY <2>3, <2>4 DEF Matches
  <2>. QED
    BY <1>1, <1>3, <2>1, <2>5 DEF timeVars, sinkVars, Recorded
<1>12. MaxLag <= Overlap => Polls'
  <2>. SUFFICES ASSUME MaxLag <= Overlap PROVE Polls'
    OBVIOUS
  <2>1. Polls
    BY <1>0
  <2>2. ASSUME pc = "pass", NEW x \in Raised, raised[x].at < queryStarted - Overlap, Healthy(x)
        PROVE  x \in seen \cup found' \/ (Waiting(raised[x].channel)' /\ from <= raised[x].at)
    <3>1. x \in seen \cup found \/ (Waiting(raised[x].channel) /\ from <= raised[x].at)
      BY <1>0, <2>1, <2>2 DEF Polls, Types
    <3>2. raised[x].at \in Nat
      BY <1>0 DEF Types, Stamps
    <3>3. x \in visible
      BY <1>0, <2>2, <3>2 DEF Clock, Types
    <3>4. from <= raised[x].at => InWindow(x)
      BY <1>0, <2>2, <3>2 DEF InWindow, Query, Types
    <3>5. from <= raised[x].at /\ raised[x].channel = Head(todo) => x \in Matches(Head(todo))
      BY <3>3, <3>4 DEF Matches
    <3>. QED
      BY <1>1, <1>3, <3>1, <3>5
  <2>. QED
    BY <1>1, <1>2, <2>1, <2>2 DEF Polls, timeVars, pollVars
<1>. QED
  BY <1>6, <1>7, <1>8, <1>9, <1>10, <1>11, <1>12 DEF IInv

LEMMA FailsStep ==
    ASSUME IInv, ChannelFails
    PROVE  IInv'
<1>. USE EventLogAssumption
<1>0. Types /\ Clock /\ Query /\ Once /\ Order /\ Backfill /\ (MaxLag <= Overlap => Polls)
  BY DEF IInv
<1>. DEFINE failure == [channel |-> Head(todo), from |-> from, until |-> until]
<1>1. /\ todo # <<>> /\ todo' = Tail(todo)
      /\ failures' = Append(failures, failure)
      /\ UNCHANGED <<timeVars, pollVars, stopVars, from, until, found, sinkVars>>
  BY DEF ChannelFails
<1>2. Raised' = Raised /\ raised' = raised
  BY <1>1 DEF Raised, timeVars
<1>3. failure \in Failures
  BY <1>0, <1>1, NextChannel DEF Types, Failures
<1>4. ASSUME NEW x \in Raised, Healthy(x)'
      PROVE  /\ Healthy(x)
             /\ from <= raised[x].at /\ raised[x].at <= until /\ Waiting(raised[x].channel)
                  => Waiting(raised[x].channel)'
  <2>1. /\ Healthy(x)
        /\ failure.channel = raised[x].channel
             => raised[x].at \notin failure.from..failure.until
    <3>. HIDE DEF failure
    <3>. QED
      BY <1>0, <1>1, <1>2, <1>3, <1>4, HealthyFails
  <2>2. raised[x].at \in Nat /\ raised[x].channel \in ChannelNames
    BY <1>0 DEF Types, Stamps
  <2>3. Waiting(raised[x].channel)
          => Waiting(raised[x].channel)' \/ raised[x].channel = Head(todo)
    BY <1>0, <1>1, <1>2, <2>2, WaitingShrinks
  <2>. QED
    BY <1>0, <2>1, <2>2, <2>3 DEF Types
<1>5. (pc = "pass" /\ ~Ended) \/ phase = "backfill"
  BY <1>0, <1>1, Asking
<1>6. Types'
  <2>1. todo' \in {<<"Application">>, <<>>}
    BY <1>0, <1>1, NextChannel
  <2>2. failures' \in Seq(Failures)
    <3>. HIDE DEF failure
    <3>. QED
      BY <1>0, <1>1, <1>3 DEF Types
  <2>. QED
    BY <1>0, <1>1, <1>2, <2>1, <2>2 DEF Types, timeVars, pollVars, stopVars, sinkVars
<1>7. Clock'
  BY <1>0, <1>1, <1>2 DEF Clock, timeVars, pollVars, stopVars
<1>8. Query'
  BY <1>0, <1>1, <1>2, <1>5 DEF Query, timeVars, pollVars, stopVars, Ended, InWindow
<1>9. Once'
  <2>1. \A x \in Events : NotYet(x)' => NotYet(x)
    BY <1>1, <1>5 DEF NotYet, stopVars, Ended
  <2>. QED
    BY <1>0, <1>1, <1>2, <2>1
    DEF Once, timeVars, pollVars, stopVars, sinkVars, Ended, Polled, AtMostOnce, Untouched
<1>10. Order'
  BY <1>0, <1>1, <1>2 DEF Order, timeVars, pollVars, stopVars, sinkVars, Ended, Recorded
<1>11. Backfill'
  <2>. SUFFICES ASSUME phase \in {"backfill", "done"}, NEW x \in Raised, Healthy(x)',
                       finalFrom <= raised[x].at, raised[x].at + MaxLag < until - Slack
                PROVE  (Recorded(x) \/ x \in found \/ Waiting(raised[x].channel))'
    BY <1>1, <1>2 DEF Backfill, timeVars, stopVars
  <2>1. Recorded(x) \/ x \in found \/ Waiting(raised[x].channel)
    BY <1>0, <1>4 DEF Backfill
  <2>2. raised[x].at \in Nat
    BY <1>0 DEF Types, Stamps
  <2>3. from <= raised[x].at /\ raised[x].at <= until
    BY <1>0, <2>2 DEF Query, Types
  <2>. QED
    BY <1>1, <1>2, <1>4, <2>1, <2>3 DEF sinkVars, Recorded
<1>12. MaxLag <= Overlap => Polls'
  <2>. SUFFICES ASSUME MaxLag <= Overlap PROVE Polls'
    OBVIOUS
  <2>1. Polls
    BY <1>0
  <2>2. ASSUME pc = "pass", NEW x \in Raised, raised[x].at < queryStarted - Overlap, Healthy(x)'
        PROVE  x \in seen \cup found \/ (Waiting(raised[x].channel)' /\ from <= raised[x].at)
    <3>1. x \in seen \cup found \/ (Waiting(raised[x].channel) /\ from <= raised[x].at)
      BY <1>0, <1>4, <2>1, <2>2 DEF Polls, Types
    <3>2. raised[x].at \in Nat
      BY <1>0 DEF Types, Stamps
    <3>3. raised[x].at <= until
      BY <1>0, <2>2, <3>2 DEF Query, Types
    <3>. QED
      BY <1>4, <2>2, <3>1, <3>3
  <2>. QED
    BY <1>1, <1>2, <1>4, <2>1, <2>2 DEF Polls, timeVars, pollVars
<1>. QED
  BY <1>6, <1>7, <1>8, <1>9, <1>10, <1>11, <1>12 DEF IInv

-----------------------------------------------------------------------------
(* The poller.                                                             *)

LEMMA BeginPassStep ==
    ASSUME IInv, BeginPass
    PROVE  IInv'
<1>. USE EventLogAssumption
<1>0. Types /\ Clock /\ Query /\ Once /\ Order /\ Backfill /\ (MaxLag <= Overlap => Polls)
  BY DEF IInv
<1>1. /\ pc = "top" /\ pc' = "pass"
      /\ finalPass' = stopFlag /\ queryStarted' = now
      /\ todo' = Channels /\ from' = queryFrom /\ until' = now + Slack /\ found' = {}
      /\ UNCHANGED <<timeVars, queryFrom, wakeAt, seen, stopVars, sinkVars, failures>>
  BY DEF BeginPass, StartQuery
<1>2. Raised' = Raised /\ \A x : Healthy(x)' <=> Healthy(x)
  BY <1>1 DEF Raised, Healthy, timeVars
<1>3. ~Ended /\ phase # "backfill" /\ phase # "done"
  BY <1>0, <1>1 DEF Query, Ended
<1>4. Types'
  BY <1>0, <1>1, <1>2 DEF Types, timeVars, stopVars, sinkVars
<1>5. Clock'
  BY <1>0, <1>1, <1>2 DEF Clock, Types, timeVars, stopVars
<1>6. Query'
  BY <1>1, <1>3 DEF Query, stopVars, Ended
<1>7. Once'
  BY <1>0, <1>1, <1>2, <1>3
  DEF Once, NotYet, timeVars, stopVars, sinkVars, Ended, Polled, AtMostOnce, Untouched
<1>8. Order'
  <2>. SUFFICES ASSUME NEW x \in Raised, Recorded(x)
                PROVE  /\ raised[x].at <= now + Slack
                       /\ raised[x].at <= queryFrom + Overlap + Slack
    BY <1>1, <1>2, <1>3 DEF Order, timeVars, sinkVars, stopVars, Recorded, Ended
  <2>1. raised[x].at \in Nat
    BY <1>0 DEF Types, Stamps
  <2>2. /\ raised[x].at <= queryStarted + Slack
        /\ raised[x].at <= queryFrom + Overlap + Slack
    BY <1>0, <1>1, <1>3 DEF Order
  <2>. QED
    BY <1>0, <2>1, <2>2 DEF Types, Clock
<1>9. Backfill'
  BY <1>1, <1>3 DEF Backfill, stopVars
<1>10. MaxLag <= Overlap => Polls'
  <2>. SUFFICES ASSUME MaxLag <= Overlap, NEW x \in Raised, Healthy(x)
                PROVE  x \in seen \/ (Waiting(raised[x].channel)' /\ queryFrom <= raised[x].at)
    BY <1>1, <1>2 DEF Polls, timeVars
  <2>1. raised[x].at \in Nat
    BY <1>0 DEF Types, Stamps
  <2>2. raised[x].at < queryFrom => x \in seen
    BY <1>0, <1>1 DEF Polls
  <2>. QED
    BY <1>0, <1>1, <2>1, <2>2, AllWait DEF Types
<1>. QED
  BY <1>4, <1>5, <1>6, <1>7, <1>8, <1>9, <1>10 DEF IInv

\* What the poller does with one event: at most one record and one bookmark.
LEMMA PassEventCounts ==
    ASSUME Types, NEW e \in Events, PassEvent(e)
    PROVE  /\ stored' \in [Events -> Nat] /\ marked' \in [Events -> Nat]
           /\ lost' \subseteq Events
           /\ \A x \in Events : x # e \/ e \in seen
                                  => stored'[x] = stored[x] /\ marked'[x] = marked[x]
           /\ stored'[e] \in {stored[e], stored[e] + 1}
           /\ marked'[e] \in {marked[e], marked[e] + 1}
<1>. DEFINE Result(f, g) ==
              /\ g \in [Events -> Nat]
              /\ \A x \in Events : x # e \/ e \in seen => g[x] = f[x]
              /\ g[e] \in {f[e], f[e] + 1}
<1>1. stored \in [Events -> Nat] /\ marked \in [Events -> Nat] /\ lost \subseteq Events
  BY DEF Types
<1>2. Result(stored, stored) /\ Result(marked, marked)
  BY <1>1
<1>3. e \notin seen => Result(stored, Count(stored, e))
  BY <1>1, CountOne
<1>4. e \notin seen => Result(marked, Count(marked, e))
  BY <1>1, CountOne
<1>5. \/ UNCHANGED <<stored, marked, lost>>
      \/ /\ e \notin seen
         /\ marked' \in {marked, Count(marked, e)}
         /\ \/ stored' = Count(stored, e) /\ lost' = lost
            \/ stored' = stored /\ lost' = lost \cup {e}
  BY DEF PassEvent, sinkVars
<1>6. Result(stored, stored') /\ Result(marked, marked') /\ lost' \subseteq Events
  <2>. HIDE DEF Result
  <2>. QED
    BY <1>1, <1>2, <1>3, <1>4, <1>5
<1>. QED
  BY <1>6

LEMMA PassEventStep ==
    ASSUME IInv, NEW e \in Events, PassEvent(e)
    PROVE  IInv'
<1>. USE EventLogAssumption
<1>0. Types /\ Clock /\ Query /\ Once /\ Order /\ Backfill /\ (MaxLag <= Overlap => Polls)
  BY DEF IInv
<1>1. /\ pc = "pass" /\ todo = <<>> /\ e \in found
      /\ \A x \in found : raised[e].at <= raised[x].at
      /\ found' = found \ {e} /\ seen' = seen \cup {e}
      /\ UNCHANGED <<todo, from, until>>
      /\ UNCHANGED <<timeVars, pc, finalPass, queryStarted, queryFrom, wakeAt,
                     stopVars, failures>>
  BY DEF PassEvent, HandOn
<1>2. Raised' = Raised /\ \A x : (Healthy(x)' <=> Healthy(x)) /\ (Waiting(x)' <=> Waiting(x))
  BY <1>1 DEF Raised, Healthy, Waiting, timeVars
<1>3. ~Ended /\ phase # "backfill" /\ phase # "done"
  BY <1>0, <1>1 DEF Query, Ended
<1>4. /\ stored' \in [Events -> Nat] /\ marked' \in [Events -> Nat] /\ lost' \subseteq Events
      /\ \A x \in Events : x # e \/ e \in seen
                             => stored'[x] = stored[x] /\ marked'[x] = marked[x]
      /\ stored'[e] \in {stored[e], stored[e] + 1}
      /\ marked'[e] \in {marked[e], marked[e] + 1}
  BY <1>0, PassEventCounts
<1>5. e \in visible /\ e \in Raised /\ InWindow(e) /\ Waiting(raised[e].channel) = FALSE
  BY <1>0, <1>1, NobodyWaits DEF Types, Query
<1>6. Types'
  BY <1>0, <1>1, <1>2, <1>4 DEF Types, timeVars, stopVars
<1>7. Clock'
  BY <1>0, <1>1, <1>2 DEF Clock, timeVars, stopVars
<1>8. Query'
  BY <1>0, <1>1, <1>3 DEF Query, timeVars, stopVars, Ended, InWindow
<1>9. Once'
  <2>1. \A x \in Events : Polled(x)
    BY <1>0, <1>3 DEF Once, NotYet
  <2>2. \A x \in Events : x # e => Polled(x)' /\ (Untouched(x) => Untouched(x)')
    BY <1>1, <1>4, <2>1 DEF Polled, AtMostOnce, Untouched
  <2>3. Polled(e)'
    <3>1. stored[e] \in Nat /\ marked[e] \in Nat
      BY <1>0 DEF Types
    <3>2. CASE e \in seen
      BY <1>1, <1>4, <2>1, <3>2 DEF Polled, AtMostOnce, Untouched
    <3>3. CASE e \notin seen
      BY <1>1, <1>4, <2>1, <3>1, <3>3 DEF Polled, AtMostOnce, Untouched
    <3>. QED
      BY <3>2, <3>3
  <2>4. \A x \in Events \ Raised : Untouched(x)'
    BY <1>0, <1>5, <2>2 DEF Once
  <2>5. ~Ended'
    BY <1>1, <1>3 DEF Ended, stopVars
  <2>6. Raised \subseteq Events
    BY <1>0 DEF Types
  <2>. QED
    BY <1>2, <2>2, <2>3, <2>4, <2>5, <2>6 DEF Once
<1>10. Order'
  <2>. SUFFICES ASSUME NEW x \in Raised, Recorded(x)'
                PROVE  /\ raised[x].at <= queryStarted + Slack
                       /\ \/ raised[x].at <= from + Overlap + Slack
                          \/ \A y \in found' : raised[x].at <= raised[y].at
    BY <1>1, <1>2, <1>3 DEF Order, timeVars, stopVars
  <2>1. CASE x = e
    BY <1>0, <1>1, <1>5, <2>1 DEF InWindow, Query
  <2>2. CASE x # e
    <3>1. Recorded(x)
      BY <1>0, <1>4, <2>2 DEF Recorded, Types
    <3>. QED
      BY <1>0, <1>1, <1>3, <3>1 DEF Order
  <2>. QED
    BY <2>1, <2>2
<1>11. Backfill'
  BY <1>1, <1>3 DEF Backfill, stopVars
<1>12. MaxLag <= Overlap => Polls'
  BY <1>0, <1>1, <1>2 DEF Polls, timeVars
<1>. QED
  BY <1>6, <1>7, <1>8, <1>9, <1>10, <1>11, <1>12 DEF IInv

LEMMA EndPassStep ==
    ASSUME IInv, EndPass
    PROVE  IInv'
<1>. USE EventLogAssumption
<1>0. Types /\ Clock /\ Query /\ Once /\ Order /\ Backfill /\ (MaxLag <= Overlap => Polls)
  BY DEF IInv
<1>1. /\ pc = "pass" /\ todo = <<>> /\ found = {}
      /\ queryFrom' = queryStarted - Overlap
      /\ pc' \in {"waiting", "exited"} /\ wakeAt' = now + PollSeconds
      /\ UNCHANGED <<timeVars, finalPass, queryStarted, seen, stopVars, queryVars,
                     sinkVars, failures>>
  BY DEF EndPass
<1>2. Raised' = Raised /\ \A x : Healthy(x)' <=> Healthy(x)
  BY <1>1 DEF Raised, Healthy, timeVars
<1>3. ~Ended /\ phase # "backfill" /\ phase # "done"
  BY <1>0, <1>1 DEF Query, Ended
<1>4. Types'
  <2>1. queryFrom' \in Int /\ wakeAt' \in Nat
    BY <1>0, <1>1 DEF Types
  <2>. QED
    BY <1>0, <1>1, <1>2, <2>1 DEF Types, timeVars, stopVars, queryVars, sinkVars
<1>5. Clock'
  BY <1>0, <1>1, <1>2 DEF Clock, Types, timeVars, stopVars
<1>6. Query'
  BY <1>1, <1>3 DEF Query, stopVars, queryVars, Ended
<1>7. Once'
  BY <1>0, <1>1, <1>2, <1>3
  DEF Once, NotYet, timeVars, stopVars, queryVars, sinkVars, Ended, Polled, AtMostOnce,
      Untouched
<1>8. Order'
  <2>. SUFFICES ASSUME NEW x \in Raised, Recorded(x)
                PROVE  /\ raised[x].at <= queryStarted + Slack
                       /\ raised[x].at <= queryFrom' + Overlap + Slack
    BY <1>1, <1>2, <1>3 DEF Order, timeVars, sinkVars, stopVars, Recorded, Ended
  <2>1. raised[x].at <= queryStarted + Slack
    BY <1>0, <1>3 DEF Order
  <2>. QED
    BY <1>0, <1>1, <2>1 DEF Types
<1>9. Backfill'
  BY <1>1, <1>3 DEF Backfill, stopVars
<1>10. MaxLag <= Overlap => Polls'
  <2>. SUFFICES ASSUME MaxLag <= Overlap, NEW x \in Raised, Healthy(x),
                       raised[x].at < queryStarted - Overlap
                PROVE  x \in seen
    BY <1>1, <1>2 DEF Polls, timeVars
  <2>1. ~Waiting(raised[x].channel)
    BY <1>1, NobodyWaits
  <2>. QED
    BY <1>0, <1>1, <2>1 DEF Polls
<1>. QED
  BY <1>4, <1>5, <1>6, <1>7, <1>8, <1>9, <1>10 DEF IInv

-----------------------------------------------------------------------------
(* RecordingSession::stop.                                                 *)

\* Steps that only move the poller or the stop along.
LEMMA QuietStep ==
    ASSUME IInv, Wake \/ StopCollectors \/ SnapshotFails \/ UNCHANGED vars
    PROVE  IInv'
<1>0. Types /\ Clock /\ Query /\ Once /\ Order /\ Backfill /\ (MaxLag <= Overlap => Polls)
  BY DEF IInv
<1>1. /\ UNCHANGED <<timeVars, finalPass, queryStarted, queryFrom, wakeAt, seen, finalFrom,
                     queryVars, sinkVars, failures>>
      /\ stopFlag' \in {stopFlag, TRUE}
      /\ \/ pc' = pc
         \/ pc = "waiting" /\ pc' = "top"
      /\ \/ phase' = phase
         \/ phase = "recording" /\ phase' = "joining"
         \/ phase = "snapshots" /\ phase' = "failed"
  BY DEF Wake, StopCollectors, SnapshotFails, vars, timeVars, pollVars, stopVars, queryVars,
         sinkVars
<1>2. Raised' = Raised /\ \A x : (Healthy(x)' <=> Healthy(x)) /\ (Waiting(x)' <=> Waiting(x))
  BY <1>1 DEF Raised, Healthy, Waiting, timeVars, queryVars
<1>3. /\ (pc = "pass")' <=> pc = "pass"
      /\ (pc' = "exited") \/ pc # "exited"
      /\ Ended' <=> Ended
      /\ (phase' = "backfill" <=> phase = "backfill") /\ (phase' = "done" <=> phase = "done")
  BY <1>1 DEF Ended
<1>4. Types'
  <2>1. stopFlag' \in BOOLEAN
    BY <1>0, <1>1 DEF Types
  <2>2. phase' \in {"recording", "joining", "snapshots", "backfill", "done", "failed"}
    BY <1>0, <1>1 DEF Types
  <2>3. pc' \in {"top", "pass", "waiting", "exited"}
    BY <1>0, <1>1 DEF Types
  <2>. QED
    BY <1>0, <1>1, <1>2, <2>1, <2>2, <2>3 DEF Types, timeVars, queryVars, sinkVars
<1>5. Clock'
  BY <1>0, <1>1, <1>2 DEF Clock, timeVars
<1>6. Query'
  BY <1>0, <1>1, <1>2, <1>3 DEF Query, timeVars, queryVars, InWindow
<1>7. Once'
  BY <1>0, <1>1, <1>2, <1>3
  DEF Once, NotYet, timeVars, queryVars, sinkVars, Polled, AtMostOnce, Untouched
<1>8. Order'
  BY <1>0, <1>1, <1>2, <1>3 DEF Order, timeVars, queryVars, sinkVars, Recorded
<1>9. Backfill'
  BY <1>0, <1>1, <1>2, <1>3 DEF Backfill, timeVars, queryVars, sinkVars, Recorded
<1>10. MaxLag <= Overlap => Polls'
  BY <1>0, <1>1, <1>2, <1>3 DEF Polls, timeVars, queryVars
<1>. QED
  BY <1>4, <1>5, <1>6, <1>7, <1>8, <1>9, <1>10 DEF IInv

LEMMA CollectorsJoinedStep ==
    ASSUME IInv, CollectorsJoined
    PROVE  IInv'
<1>0. Types /\ Clock /\ Query /\ Once /\ Order /\ Backfill /\ (MaxLag <= Overlap => Polls)
  BY DEF IInv
<1>1. /\ phase = "joining" /\ pc = "exited" /\ phase' = "snapshots" /\ finalFrom' = now
      /\ UNCHANGED <<timeVars, pollVars, stopFlag, queryVars, sinkVars, failures>>
  BY DEF CollectorsJoined
<1>2. Raised' = Raised /\ \A x : (Healthy(x)' <=> Healthy(x)) /\ (Waiting(x)' <=> Waiting(x))
  BY <1>1 DEF Raised, Healthy, Waiting, timeVars, queryVars
<1>3. ~Ended /\ Ended'
  BY <1>1 DEF Ended
<1>4. Types'
  BY <1>0, <1>1, <1>2 DEF Types, timeVars, pollVars, queryVars, sinkVars
<1>5. Clock'
  BY <1>0, <1>1, <1>2 DEF Clock, Types, timeVars, pollVars
<1>6. Query'
  BY <1>0, <1>1, <1>2 DEF Query, timeVars, pollVars, queryVars, InWindow
<1>7. Once'
  <2>1. \A x \in Events : NotYet(x) /\ Polled(x)
    BY <1>0, <1>1 DEF Once, NotYet
  <2>2. \A x \in Events : Polled(x)'
    BY <1>1, <2>1 DEF Polled, AtMostOnce, Untouched, pollVars, sinkVars
  <2>3. \A x \in Events \ Raised : Untouched(x)'
    BY <1>0, <1>1 DEF Once, Untouched, sinkVars
  <2>4. \A x \in seen : raised[x].at <= now
    BY <1>0 DEF Types, Clock
  <2>5. Raised \subseteq Events
    BY <1>0 DEF Types
  <2>. QED
    BY <1>1, <1>2, <2>2, <2>3, <2>4, <2>5 DEF Once, timeVars, pollVars
<1>8. Order'
  BY <1>0, <1>1, <1>2, <1>3 DEF Order, timeVars, pollVars, queryVars, sinkVars, Recorded
<1>9. Backfill'
  BY <1>1 DEF Backfill
<1>10. MaxLag <= Overlap => Polls'
  BY <1>0, <1>1, <1>2 DEF Polls, timeVars, pollVars, queryVars
<1>. QED
  BY <1>4, <1>5, <1>6, <1>7, <1>8, <1>9, <1>10 DEF IInv

LEMMA BeginBackfillStep ==
    ASSUME IInv, BeginBackfill
    PROVE  IInv'
<1>. USE EventLogAssumption
<1>0. Types /\ Clock /\ Query /\ Once /\ Order /\ Backfill /\ (MaxLag <= Overlap => Polls)
  BY DEF IInv
<1>1. /\ phase = "snapshots" /\ phase' = "backfill"
      /\ todo' = Channels /\ from' = finalFrom /\ until' = now + Slack /\ found' = {}
      /\ UNCHANGED <<timeVars, pollVars, stopFlag, finalFrom, sinkVars, failures>>
  BY DEF BeginBackfill, StartQuery
<1>2. Raised' = Raised /\ \A x : Healthy(x)' <=> Healthy(x)
  BY <1>1 DEF Raised, Healthy, timeVars
<1>3. Ended /\ Ended' /\ pc = "exited"
  BY <1>0, <1>1 DEF Ended, Query
<1>4. Types'
  BY <1>0, <1>1, <1>2 DEF Types, timeVars, pollVars, sinkVars
<1>5. Clock'
  BY <1>0, <1>1, <1>2 DEF Clock, timeVars, pollVars
<1>6. Query'
  <2>1. until' >= finalFrom + Slack /\ until' <= now + Slack
    BY <1>0, <1>1 DEF Clock, Types
  <2>. QED
    BY <1>1, <1>3, <2>1 DEF Query, timeVars, pollVars
<1>7. Once'
  <2>1. \A x \in Events : NotYet(x) /\ Polled(x)
    BY <1>0, <1>1 DEF Once, NotYet
  <2>2. \A x \in Events : Polled(x)'
    BY <1>1, <2>1 DEF Polled, AtMostOnce, Untouched, pollVars, sinkVars
  <2>3. \A x \in Events \ Raised : Untouched(x)'
    BY <1>0, <1>1 DEF Once, Untouched, sinkVars
  <2>4. \A x \in seen : raised[x].at <= finalFrom
    BY <1>0, <1>3 DEF Once
  <2>5. Raised \subseteq Events
    BY <1>0 DEF Types
  <2>. QED
    BY <1>1, <1>2, <2>2, <2>3, <2>4, <2>5 DEF Once, timeVars, pollVars
<1>8. Order'
  <2>. SUFFICES ASSUME NEW x \in Raised, Recorded(x)
                PROVE  raised[x].at <= finalFrom + Overlap + Slack
    BY <1>1, <1>2, <1>3 DEF Order, timeVars, pollVars, sinkVars, Recorded
  <2>1. x \in seen
    BY <1>0, <1>1 DEF Once, NotYet, Polled, Untouched, Recorded, Types
  <2>2. raised[x].at <= finalFrom /\ raised[x].at \in Nat
    BY <1>0, <1>3, <2>1 DEF Once, Types, Stamps
  <2>. QED
    BY <1>0, <2>2 DEF Types
<1>9. Backfill'
  <2>1. \A x \in Raised : Waiting(raised[x].channel)'
    BY <1>1, AllWait DEF timeVars
  <2>. QED
    BY <1>1, <1>2, <2>1 DEF Backfill, timeVars
<1>10. MaxLag <= Overlap => Polls'
  BY <1>0, <1>1, <1>2, <1>3 DEF Polls, timeVars, pollVars
<1>. QED
  BY <1>4, <1>5, <1>6, <1>7, <1>8, <1>9, <1>10 DEF IInv

LEMMA BackfillEventStep ==
    ASSUME IInv, NEW e \in Events, BackfillEvent(e)
    PROVE  IInv'
<1>. USE EventLogAssumption
<1>0. Types /\ Clock /\ Query /\ Once /\ Order /\ Backfill /\ (MaxLag <= Overlap => Polls)
  BY DEF IInv
<1>1. /\ phase = "backfill" /\ todo = <<>> /\ e \in found
      /\ \A x \in found : raised[e].at <= raised[x].at
      /\ found' = found \ {e}
      /\ UNCHANGED <<todo, from, until>>
      /\ stored' = Count(stored, e) /\ marked' \in {marked, Count(marked, e)}
      /\ UNCHANGED <<timeVars, pollVars, stopVars, lost, failures>>
  BY DEF BackfillEvent, HandOn
<1>2. Raised' = Raised /\ \A x : (Healthy(x)' <=> Healthy(x)) /\ (Waiting(x)' <=> Waiting(x))
  BY <1>1 DEF Raised, Healthy, Waiting, timeVars
<1>3. Ended /\ Ended' /\ pc = "exited"
  BY <1>0, <1>1 DEF Ended, Query, stopVars
<1>4. /\ stored' \in [Events -> Nat] /\ marked' \in [Events -> Nat]
      /\ \A x \in Events : x # e => stored'[x] = stored[x] /\ marked'[x] = marked[x]
      /\ stored'[e] = stored[e] + 1
      /\ marked'[e] \in {marked[e], marked[e] + 1}
  <2>1. stored \in [Events -> Nat] /\ marked \in [Events -> Nat]
    BY <1>0 DEF Types
  <2>2. /\ Count(stored, e) \in [Events -> Nat]
        /\ Count(stored, e)[e] = stored[e] + 1
        /\ \A x \in Events : x # e => Count(stored, e)[x] = stored[x]
    BY <2>1, CountOne
  <2>3. /\ Count(marked, e) \in [Events -> Nat]
        /\ Count(marked, e)[e] = marked[e] + 1
        /\ \A x \in Events : x # e => Count(marked, e)[x] = marked[x]
    BY <2>1, CountOne
  <2>. QED
    BY <1>1, <2>1, <2>2, <2>3
<1>5. e \in visible /\ e \in Raised /\ InWindow(e)
  BY <1>0, <1>1 DEF Types, Query
<1>6. Types'
  BY <1>0, <1>1, <1>2, <1>4 DEF Types, timeVars, pollVars, stopVars
<1>7. Clock'
  BY <1>0, <1>1, <1>2 DEF Clock, timeVars, pollVars, stopVars
<1>8. Query'
  BY <1>0, <1>1, <1>3 DEF Query, timeVars, pollVars, stopVars, InWindow
<1>9. Once'
  <2>1. \A x \in Events : x # e =>
            /\ NotYet(x)' => NotYet(x)
            /\ Polled(x)' <=> Polled(x)
            /\ AtMostOnce(x)' <=> AtMostOnce(x)
            /\ Untouched(x)' <=> Untouched(x)
    BY <1>1, <1>4 DEF NotYet, Polled, AtMostOnce, Untouched, stopVars, pollVars
  <2>2. ~NotYet(e)'
    BY <1>1 DEF NotYet, stopVars
  <2>3. Polled(e)
    BY <1>0, <1>1 DEF Once, NotYet
  <2>4. raised[e].at >= finalFrom /\ raised[e].at \in Nat
    BY <1>0, <1>1, <1>5 DEF Types, Stamps, InWindow, Query
  <2>5. raised[e].at = finalFrom \/ (raised[e].at > finalFrom /\ AtMostOnce(e)')
    <3>1. CASE e \in seen
      BY <1>0, <1>3, <2>4, <3>1 DEF Once, Types
    <3>2. CASE e \notin seen
      <4>1. AtMostOnce(e)'
        BY <1>4, <2>3, <3>2 DEF Polled, AtMostOnce, Untouched
      <4>. QED
        BY <1>0, <2>4, <4>1 DEF Types
    <3>. QED
      BY <3>1, <3>2
  <2>6. Raised \subseteq Events
    BY <1>0 DEF Types
  <2>. QED
    BY <1>0, <1>1, <1>2, <1>3, <1>5, <2>1, <2>2, <2>5, <2>6
    DEF Once, timeVars, pollVars, stopVars
<1>10. Order'
  <2>. SUFFICES ASSUME NEW x \in Raised, Recorded(x)'
                PROVE  \/ raised[x].at <= from + Overlap + Slack
                       \/ \A y \in found' : raised[x].at <= raised[y].at
    BY <1>1, <1>2, <1>3 DEF Order, timeVars, stopVars, pollVars
  <2>1. CASE x = e
    BY <1>1, <2>1
  <2>2. CASE x # e
    <3>1. Recorded(x)
      BY <1>0, <1>4, <2>2 DEF Recorded, Types
    <3>. QED
      BY <1>0, <1>1, <3>1 DEF Order
  <2>. QED
    BY <2>1, <2>2
<1>11. Backfill'
  <2>1. ASSUME NEW x \in Raised, Recorded(x)
        PROVE  Recorded(x)'
    <3>1. x \in Events /\ stored[x] \in Nat
      BY <1>0 DEF Types
    <3>2. stored'[x] = stored[x] \/ stored'[x] = stored[x] + 1
      BY <1>4, <3>1
    <3>. QED
      BY <2>1, <3>1, <3>2 DEF Recorded
  <2>2. Recorded(e)'
    BY <1>0, <1>4 DEF Recorded, Types
  <2>. QED
    BY <1>0, <1>1, <1>2, <2>1, <2>2 DEF Backfill, timeVars, stopVars
<1>12. MaxLag <= Overlap => Polls'
  BY <1>0, <1>1, <1>2, <1>3 DEF Polls, timeVars, pollVars
<1>. QED
  BY <1>6, <1>7, <1>8, <1>9, <1>10, <1>11, <1>12 DEF IInv

LEMMA EndBackfillStep ==
    ASSUME IInv, EndBackfill
    PROVE  IInv'
<1>0. Types /\ Clock /\ Query /\ Once /\ Order /\ Backfill /\ (MaxLag <= Overlap => Polls)
  BY DEF IInv
<1>1. /\ phase = "backfill" /\ phase' = "done" /\ todo = <<>> /\ found = {}
      /\ UNCHANGED <<timeVars, pollVars, stopFlag, finalFrom, queryVars, sinkVars, failures>>
  BY DEF EndBackfill
<1>2. Raised' = Raised /\ \A x : (Healthy(x)' <=> Healthy(x)) /\ (Waiting(x)' <=> Waiting(x))
  BY <1>1 DEF Raised, Healthy, Waiting, timeVars, queryVars
<1>3. Ended /\ Ended' /\ pc = "exited"
  BY <1>0, <1>1 DEF Ended, Query
<1>4. Types'
  BY <1>0, <1>1, <1>2 DEF Types, timeVars, pollVars, queryVars, sinkVars
<1>5. Clock'
  BY <1>0, <1>1, <1>2 DEF Clock, timeVars, pollVars
<1>6. Query'
  BY <1>0, <1>1, <1>3 DEF Query, timeVars, pollVars, queryVars
<1>7. Once'
  BY <1>0, <1>1, <1>2, <1>3
  DEF Once, NotYet, timeVars, pollVars, sinkVars, Polled, AtMostOnce, Untouched
<1>8. Order'
  BY <1>0, <1>1, <1>2, <1>3 DEF Order, timeVars, pollVars, queryVars, sinkVars, Recorded
<1>9. Backfill'
  BY <1>0, <1>1, <1>2 DEF Backfill, timeVars, queryVars, sinkVars, Recorded
<1>10. MaxLag <= Overlap => Polls'
  BY <1>0, <1>1, <1>2, <1>3 DEF Polls, timeVars, pollVars
<1>. QED
  BY <1>4, <1>5, <1>6, <1>7, <1>8, <1>9, <1>10 DEF IInv

-----------------------------------------------------------------------------
(* The theorems.                                                           *)

LEMMA NextCases ==
    ASSUME [Next]_vars
    PROVE  \/ \E e \in Events, c \in ChannelNames : Raise(e, c)
           \/ \E e \in Events : Publish(e)
           \/ Tick
           \/ ChannelAnswers \/ ChannelFails
           \/ BeginPass \/ EndPass \/ CollectorsJoined \/ BeginBackfill \/ EndBackfill
           \/ \E e \in Events : PassEvent(e)
           \/ \E e \in Events : BackfillEvent(e)
           \/ Wake \/ StopCollectors \/ SnapshotFails \/ UNCHANGED vars
<1>1. \A i \in 1..2 : Channels[i] \in ChannelNames
  BY DEF Channels, ChannelNames
<1>. QED
  BY <1>1 DEF Next, Windows, Poller, Stopper, Over

LEMMA Step ==
    ASSUME IInv, [Next]_vars
    PROVE  IInv'
<1>1. CASE \E e \in Events, c \in ChannelNames : Raise(e, c)
  BY <1>1, RaiseStep
<1>2. CASE \E e \in Events : Publish(e)
  BY <1>2, PublishStep
<1>3. CASE \E e \in Events : PassEvent(e)
  BY <1>3, PassEventStep
<1>4. CASE \E e \in Events : BackfillEvent(e)
  BY <1>4, BackfillEventStep
<1>5. CASE Tick \/ ChannelAnswers \/ ChannelFails
  BY <1>5, TickStep, AnswersStep, FailsStep
<1>6. CASE BeginPass \/ EndPass
  BY <1>6, BeginPassStep, EndPassStep
<1>7. CASE CollectorsJoined \/ BeginBackfill \/ EndBackfill
  BY <1>7, CollectorsJoinedStep, BeginBackfillStep, EndBackfillStep
<1>8. CASE Wake \/ StopCollectors \/ SnapshotFails \/ UNCHANGED vars
  BY <1>8, QuietStep
<1>. QED
  BY <1>1, <1>2, <1>3, <1>4, <1>5, <1>6, <1>7, <1>8, NextCases

\* What was asked for, found and recorded, by the poller and by the backfill,
\* hangs together in every state.
THEOREM Inductive == Spec => []IInv
<1>1. Init => IInv
  BY Initial
<1>2. IInv /\ [Next]_vars => IInv'
  BY Step
<1>. QED
  BY <1>1, <1>2, PTL DEF Spec

\* As long as no event takes longer to become visible than queries overlap,
\* the poller has handled every event older than its next query, whichever
\* queries failed before.
THEOREM PollsSafe == Spec => []PollsLeaveNoGap
<1>1. IInv => PollsLeaveNoGap
  BY DEF IInv, Polls, PollsLeaveNoGap
<1>. QED
  BY <1>1, Inductive, PTL

\* No event and no bookmark is recorded twice by the poller, nor by poller and
\* backfill together, except for an event stamped at the instant of the seam.
THEOREM RecordedOnceSafe == Spec => []RecordedTwiceOnlyAtTheSeam
<1>1. IInv => RecordedTwiceOnlyAtTheSeam
  <2>. SUFFICES ASSUME IInv, NEW e \in Raised, stored[e] > 1 \/ marked[e] > 1
                PROVE  phase \in {"backfill", "done"} /\ raised[e].at = finalFrom
    BY DEF RecordedTwiceOnlyAtTheSeam
  <2>1. e \in Events /\ stored[e] \in Nat /\ marked[e] \in Nat
    BY DEF IInv, Types
  <2>2. ~AtMostOnce(e)
    BY <2>1 DEF AtMostOnce
  <2>. QED
    BY <2>1, <2>2 DEF IInv, Types, Once, Polled, NotYet
<1>. QED
  BY <1>1, Inductive, PTL

\* A stop that went through to the end recorded every event of the last
\* moments its backfill could find.
THEOREM LastMomentsSafe == Spec => []LastMomentsRecorded
<1>1. IInv => LastMomentsRecorded
  <2>. SUFFICES ASSUME IInv, phase = "done", NEW e \in visible, Healthy(e),
                       finalFrom <= raised[e].at, raised[e].at + MaxLag < until - Slack
                PROVE  Recorded(e)
    BY DEF LastMomentsRecorded
  <2>1. e \in Raised /\ todo = <<>> /\ found = {}
    BY DEF IInv, Types, Query, Ended
  <2>2. ~Waiting(raised[e].channel)
    BY <2>1, NobodyWaits
  <2>. QED
    BY <2>1, <2>2 DEF IInv, Backfill
<1>. QED
  BY <1>1, Inductive, PTL

\* Only handing an event on can record it, and only that event.
LEMMA RecordingSteps ==
    ASSUME Types, [Next]_vars, NEW e \in Raised, stored'[e] > stored[e]
    PROVE  \/ pc = "pass" /\ HandOn(e)
           \/ phase = "backfill" /\ HandOn(e)
<1>1. stored \in [Events -> Nat] /\ e \in Events
  BY DEF Types
<1>2. ~(stored' = stored)
  BY <1>1
<1>3. ASSUME NEW x \in Events, PassEvent(x)
      PROVE  x = e /\ pc = "pass" /\ HandOn(e)
  BY <1>1, <1>3, PassEventCounts DEF PassEvent
<1>4. ASSUME NEW x \in Events, BackfillEvent(x)
      PROVE  x = e /\ phase = "backfill" /\ HandOn(e)
  <2>1. stored' = Count(stored, x)
    BY <1>4 DEF BackfillEvent
  <2>2. x = e
    BY <1>1, <2>1, CountOne
  <2>. QED
    BY <1>4, <2>2 DEF BackfillEvent
<1>5. (\E x \in Events : PassEvent(x)) \/ (\E x \in Events : BackfillEvent(x))
  BY <1>2, NextCases
  DEF Raise, Publish, Tick, ChannelAnswers, ChannelFails, BeginPass, EndPass, CollectorsJoined,
      BeginBackfill, EndBackfill, Wake, StopCollectors, SnapshotFails, vars, sinkVars
<1>. QED
  BY <1>3, <1>4, <1>5

\* What is recorded next is older than what was recorded by no more than the
\* overlap and the slack of the queries, across passes, across failed
\* channels and across the seam to the backfill.
THEOREM DisorderSafe == Spec => DisorderBounded
<1>1. IInv /\ [Next]_vars =>
        [\A e, x \in Raised :
            stored'[e] > stored[e] /\ Recorded(x)
              => raised[e].at >= raised[x].at - (Overlap + Slack)]_vars
  <2>. SUFFICES ASSUME IInv, [Next]_vars, NEW e \in Raised, NEW x \in Raised,
                       stored'[e] > stored[e], Recorded(x)
                PROVE  raised[e].at >= raised[x].at - (Overlap + Slack)
    OBVIOUS
  <2>1. Types /\ Order /\ Query
    BY DEF IInv
  <2>2. (pc = "pass" \/ phase = "backfill") /\ e \in found
    BY <2>1, RecordingSteps DEF HandOn
  <2>3. raised[e].at \in Nat /\ raised[x].at \in Nat /\ from \in Int
    BY <2>1 DEF Types, Stamps
  <2>4. from <= raised[e].at
    BY <2>1, <2>2 DEF Query, InWindow
  <2>5. \/ raised[x].at <= from + Overlap + Slack
        \/ raised[x].at <= raised[e].at
    BY <2>1, <2>2 DEF Order
  <2>. QED
    BY <2>3, <2>4, <2>5, EventLogAssumption
<1>. QED
  BY <1>1, Inductive, PTL DEF Spec, DisorderBounded
=============================================================================
