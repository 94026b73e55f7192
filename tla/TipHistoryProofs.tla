-------------------------- MODULE TipHistoryProofs --------------------------
(***************************************************************************)
(* TipMonitor implements TipFeed, for every set of tips and receivers,     *)
(* every capacity of the channel and a history of any length.              *)
(***************************************************************************)
EXTENDS TipHistory, TipMonitorProofs, SequenceTheorems

\* The ring is the end of the log, and no receiver is further behind than the
\* log is long.
RingIsTail ==
  /\ Len(ring) = IF Len(log) < Cap THEN Len(log) ELSE Cap
  /\ \A i \in 1 .. Len(ring) : ring[i] = log[Len(log) - Len(ring) + i]
  /\ \A s \in Subs : unread[s] <= Len(log) /\ (sub[s] # "live" => unread[s] = 0)

\* The answer on its way was the tip after the event before it was sent.
AnswerIsRecent == recent \subseteq Tips /\ (answer # None => answer \in recent) /\ tip \in recent

HInv == IInv /\ log \in Seq(Tips) /\ RingIsTail /\ AnswerIsRecent

LEMMA PushedElements ==
  ASSUME NEW q \in Seq(Tips), Len(q) <= Cap, NEW e \in Tips
  PROVE  /\ Len(q) < Cap => /\ \A i \in 1 .. Len(q) : Pushed(q, e)[i] = q[i]
                            /\ Pushed(q, e)[Len(q) + 1] = e
         /\ Len(q) = Cap => /\ \A i \in 1 .. Cap - 1 : Pushed(q, e)[i] = q[i + 1]
                            /\ Pushed(q, e)[Cap] = e
<1>1. CASE Len(q) < Cap
  <2>1. Pushed(q, e) = Append(q, e)
    BY <1>1 DEF Pushed
  <2>. QED  BY <1>1, <2>1, CapAssumption
<1>2. CASE Len(q) = Cap
  <2>1. Pushed(q, e) = Append(Tail(q), e) /\ q # << >>
    BY <1>2, CapAssumption DEF Pushed
  <2>2. /\ Tail(q) \in Seq(Tips) /\ Len(Tail(q)) = Cap - 1
        /\ \A i \in 1 .. Cap - 1 : Tail(q)[i] = q[i + 1]
    BY <1>2, <2>1, HeadTailProperties, CapAssumption
  <2>3. /\ \A i \in 1 .. Cap - 1 : Append(Tail(q), e)[i] = Tail(q)[i]
        /\ Append(Tail(q), e)[Cap] = e
    BY <2>2, AppendProperties, CapAssumption
  <2>. QED  BY <1>2, <2>1, <2>2, <2>3, CapAssumption
<1>. QED  BY <1>1, <1>2, CapAssumption

\* An event that is heard goes to the end of the ring and to the end of the log.
LEMMA HeardFacts ==
  ASSUME HInv, HEmit, Heard
  PROVE  /\ log' = Append(log, answer) /\ log' \in Seq(Tips) /\ Len(log') = Len(log) + 1
         /\ answer \in Tips /\ answer \in recent
         /\ Len(ring') = IF Len(log') < Cap THEN Len(log') ELSE Cap
         /\ \A i \in 1 .. Len(ring') : ring'[i] = log'[Len(log') - Len(ring') + i]
<1>1. /\ ring \in Seq(Tips) /\ Len(ring) \in 0 .. Cap /\ log \in Seq(Tips) /\ Len(log) \in Nat
      /\ Len(ring) = IF Len(log) < Cap THEN Len(log) ELSE Cap
      /\ \A i \in 1 .. Len(ring) : ring[i] = log[Len(log) - Len(ring) + i]
  BY DEF HInv, IInv, TypeOK, RingIsTail
<1>2. answer \in Tips /\ answer \in recent
  BY DEF HInv, IInv, TypeOK, HEmit, Emit, AnswerIsRecent
<1>3. log' = Append(log, answer) /\ ring' = Pushed(ring, answer)
  BY DEF HEmit, Emit
<1>4. /\ log' \in Seq(Tips) /\ Len(log') = Len(log) + 1
      /\ \A i \in 1 .. Len(log) : log'[i] = log[i]
      /\ log'[Len(log) + 1] = answer
  BY <1>1, <1>2, <1>3, AppendProperties
<1>5. Len(ring') = IF Len(ring) < Cap THEN Len(ring) + 1 ELSE Cap
  BY <1>1, <1>2, <1>3, PushedType
<1>6. CASE Len(ring) < Cap
  <2>1. Len(ring) = Len(log) /\ Len(ring') = Len(log) + 1
    BY <1>1, <1>5, <1>6
  <2>2. /\ \A i \in 1 .. Len(log) : ring'[i] = ring[i]
        /\ ring'[Len(log) + 1] = answer
    BY <1>1, <1>2, <1>3, <1>6, <2>1, PushedElements
  <2>3. \A i \in 1 .. Len(log) : ring[i] = log[i]
    BY <1>1, <2>1
  <2>4. \A i \in 1 .. Len(log) + 1 : ring'[i] = log'[i]
    BY <1>1, <1>4, <2>2, <2>3
  <2>. QED  BY <1>1, <1>2, <1>3, <1>4, <1>6, <2>1, <2>4, CapAssumption
<1>7. CASE Len(ring) = Cap
  <2>1. Len(log) >= Cap /\ Len(ring') = Cap
    BY <1>1, <1>5, <1>7, CapAssumption
  <2>2. /\ \A i \in 1 .. Cap - 1 : ring'[i] = ring[i + 1]
        /\ ring'[Cap] = answer
    BY <1>1, <1>2, <1>3, <1>7, PushedElements
  <2>3. ASSUME NEW i \in 1 .. Cap - 1 PROVE ring'[i] = log'[Len(log) + 1 - Cap + i]
    <3>0. i + 1 \in 1 .. Len(ring) /\ ring'[i] = ring[i + 1]
      BY <1>7, <2>2, CapAssumption
    <3>1. ring'[i] = log[Len(log) - Cap + (i + 1)]
      BY <1>1, <1>7, <3>0
    <3>2. Len(log) - Cap + (i + 1) \in 1 .. Len(log)
      BY <1>1, <2>1, CapAssumption
    <3>3. Len(log) - Cap + (i + 1) = Len(log) + 1 - Cap + i
      BY <1>1, CapAssumption
    <3>. QED  BY <1>4, <3>1, <3>2, <3>3
  <2>4. \A i \in 1 .. Cap : i \in 1 .. Cap - 1 \/ i = Cap
    BY CapAssumption
  <2>5. Len(log) + 1 - Cap + Cap = Len(log) + 1
    BY <1>1, CapAssumption
  <2>6. \A i \in 1 .. Cap : ring'[i] = log'[Len(log) + 1 - Cap + i]
    BY <1>4, <2>2, <2>3, <2>4, <2>5
  <2>7. Len(log') - Len(ring') = Len(log) + 1 - Cap /\ ~(Len(log') < Cap)
    BY <1>1, <1>4, <2>1, CapAssumption
  <2>8. \A i \in 1 .. Len(ring') : ring'[i] = log'[Len(log') - Len(ring') + i]
    BY <2>1, <2>6, <2>7
  <2>. QED  BY <1>2, <1>3, <1>4, <2>1, <2>7, <2>8
<1>. QED  BY <1>1, <1>6, <1>7

LEMMA HeardBehind ==
  ASSUME HInv, HEmit, NEW s \in Subs
  PROVE  /\ unread'[s] = (IF sub[s] = "live" THEN Behind(unread[s]) ELSE 0)
         /\ unread[s] \in 0 .. Cap + 1
         /\ UNCHANGED <<tip, sub, seen>> /\ answer' = None /\ recent' = {tip}
BY DEF HInv, IInv, TypeOK, HEmit, Emit

LEMMA HistoryStutters == [HNext]_<<vars, history>> => [Next]_vars
BY DEF HNext, HTipMoves, HEmit, Rest, Next, Resume

LEMMA LogStep == HInv /\ [HNext]_<<vars, history>> => log' \in Seq(Tips) /\ RingIsTail'
<1>. SUFFICES ASSUME HInv, [HNext]_<<vars, history>>
              PROVE  log' \in Seq(Tips) /\ RingIsTail'
  OBVIOUS
<1>. USE DEF history, task, receivers
<1>0. /\ unread \in [Subs -> 0 .. Cap + 1] /\ log \in Seq(Tips) /\ Len(log) \in Nat
      /\ sub \in [Subs -> {"none", "live", "ended"}] /\ Len(ring) \in 0 .. Cap
      /\ Len(ring) = IF Len(log) < Cap THEN Len(log) ELSE Cap
      /\ \A s \in Subs : unread[s] <= Len(log) /\ (sub[s] # "live" => unread[s] = 0)
  BY DEF HInv, IInv, TypeOK, RingIsTail
<1>a. ASSUME UNCHANGED <<log, ring>>,
             \A s \in Subs : unread'[s] <= Len(log) /\ (sub'[s] # "live" => unread'[s] = 0)
      PROVE  log' \in Seq(Tips) /\ RingIsTail'
  BY <1>0, <1>a DEF HInv, RingIsTail
<1>1. CASE UNCHANGED <<log, ring, sub, unread>>
  BY <1>0, <1>1, <1>a
<1>2. CASE HEmit
  <2>1. CASE Heard
    <3>1. \A s \in Subs : unread'[s] <= Len(log) + 1 /\ (sub'[s] # "live" => unread'[s] = 0)
      BY <1>0, <1>2, HeardBehind, CapAssumption DEF Behind
    <3>. QED  BY <1>2, <2>1, <3>1, HeardFacts DEF RingIsTail
  <2>2. CASE ~Heard
    <3>1. UNCHANGED <<log, ring>>
      BY <1>2, <2>2 DEF HEmit, Emit
    <3>2. \A s \in Subs : unread'[s] = 0
      BY <1>2, <2>2, HeardBehind DEF Heard
    <3>. QED  BY <1>0, <1>a, <3>1, <3>2
  <2>. QED  BY <2>1, <2>2
<1>3. ASSUME NEW s \in Subs, Subscribe(s), UNCHANGED history
      PROVE  log' \in Seq(Tips) /\ RingIsTail'
  BY <1>0, <1>3, <1>a DEF Subscribe
<1>4. ASSUME NEW s \in Subs, End(s), UNCHANGED history
      PROVE  log' \in Seq(Tips) /\ RingIsTail'
  BY <1>0, <1>4, <1>a DEF End
<1>5. ASSUME NEW s \in Subs, ReceiveEvent(s), UNCHANGED history
      PROVE  log' \in Seq(Tips) /\ RingIsTail'
  BY <1>0, <1>5, <1>a DEF ReceiveEvent
<1>6. ASSUME NEW s \in Subs, ReceiveLagged(s), UNCHANGED history
      PROVE  log' \in Seq(Tips) /\ RingIsTail'
  <2>1. CASE s \in Resilient
    <3>1. Cap <= Len(log)
      BY <1>0, <1>6, CapAssumption DEF ReceiveLagged
    <3>2. /\ UNCHANGED <<log, ring, sub>> /\ unread'[s] = Cap /\ sub[s] = "live"
          /\ \A r \in Subs : r # s => unread'[r] = unread[r]
      BY <1>0, <1>6, <2>1 DEF ReceiveLagged
    <3>. QED  BY <1>0, <1>a, <3>1, <3>2
  <2>2. CASE s \notin Resilient
    BY <1>4, <1>6, <2>2 DEF ReceiveLagged
  <2>. QED  BY <2>1, <2>2
<1>. QED
  BY <1>1, <1>2, <1>3, <1>4, <1>5, <1>6
  DEF HNext, HTipMoves, Rest, Answer, AnswerNow, AnswerAtTimeout, TipMoves, LinkLost, GotTip,
      Ask, Failure, GetTipFails, WaitFails, ActorEnds, DropClient, Unsubscribe, Receive,
      ReceiveClosed, vars

LEMMA RecentStep == HInv /\ [HNext]_<<vars, history>> => AnswerIsRecent'
<1>. SUFFICES ASSUME HInv, [HNext]_<<vars, history>> PROVE AnswerIsRecent'
  OBVIOUS
<1>. USE DEF history, task, receivers
<1>0. tip \in Tips /\ answer \in Tips \cup {None} /\ AnswerIsRecent
  BY DEF HInv, IInv, TypeOK
<1>1. CASE UNCHANGED <<tip, recent>> /\ answer' \in {answer, None, tip}
  BY <1>0, <1>1 DEF AnswerIsRecent
<1>2. CASE HTipMoves
  BY <1>0, <1>2 DEF HTipMoves, TipMoves, AnswerIsRecent
<1>3. CASE HEmit
  BY <1>0, <1>3 DEF HEmit, Emit, AnswerIsRecent
<1>. QED
  BY <1>1, <1>2, <1>3
  DEF HNext, Rest, Answer, AnswerNow, AnswerAtTimeout, LinkLost, GotTip, Ask, Failure,
      GetTipFails, WaitFails, ActorEnds, DropClient, Subscribe, Unsubscribe, End, Receive,
      ReceiveEvent, ReceiveLagged, ReceiveClosed, vars

LEMMA HistoryInvariance == HSpec => []HInv
<1>1. HInit => HInv
  <2>. SUFFICES ASSUME HInit PROVE HInv
    OBVIOUS
  <2>1. IInv /\ log = << >> /\ recent = {tip}
    BY InitHolds DEF HInit
  <2>2. Len(<< >>) = 0 /\ << >> \in Seq(Tips) /\ 0 < Cap
    BY CapAssumption
  <2>3. ring = << >> /\ answer = None /\ tip \in Tips /\ \A s \in Subs : unread[s] = 0
    BY DEF HInit, Init
  <2>. QED  BY <2>1, <2>2, <2>3 DEF HInv, RingIsTail, AnswerIsRecent
<1>2. HInv /\ [HNext]_<<vars, history>> => HInv'
  BY StepHolds, HistoryStutters, LogStep, RecentStep DEF HInv
<1>. QED  BY <1>1, <1>2, PTL DEF HSpec

(***************************************************************************)
(* The refinement.                                                         *)
(***************************************************************************)
LEMMA FeedInit == HInit => Feed!Init
<1>. SUFFICES ASSUME HInit PROVE Feed!Init
  OBVIOUS
<1>1. Len(<< >>) = 0
  OBVIOUS
<1>2. [s \in Subs |-> Len(log) - unread[s]] = [s \in Subs |-> 0]
  BY <1>1 DEF HInit, Init
<1>. QED  BY <1>2 DEF HInit, Init, Feed!Init

LEMMA FeedStep == HInv /\ [HNext]_<<vars, history>> => [Feed!Next]_(Feed!vars)
<1>. SUFFICES ASSUME HInv, [HNext]_<<vars, history>> PROVE [Feed!Next]_(Feed!vars)
  OBVIOUS
<1>. USE DEF history, task, receivers
<1>. DEFINE cursor == [s \in Subs |-> Len(log) - unread[s]]
<1>0. /\ unread \in [Subs -> 0 .. Cap + 1] /\ log \in Seq(Tips) /\ Len(log) \in Nat
      /\ sub \in [Subs -> {"none", "live", "ended"}] /\ Len(ring) \in 0 .. Cap
      /\ seen \in [Subs -> Tips \cup {None}]
      /\ \A s \in Subs : unread[s] <= Len(log) /\ (sub[s] # "live" => unread[s] = 0)
  BY DEF HInv, IInv, TypeOK, RingIsTail
<1>1. CASE UNCHANGED <<tip, recent, log, sub, unread, seen>>
  <2>1. cursor' = cursor
    BY <1>1
  <2>. QED  BY <1>1, <2>1 DEF Feed!vars
<1>2. CASE HTipMoves
  <2>1. cursor' = cursor /\ UNCHANGED <<log, sub, seen>>
    BY <1>2 DEF HTipMoves, TipMoves
  <2>2. \E t \in Tips : tip' = t /\ recent' = recent \cup {t}
    BY <1>2 DEF HTipMoves, TipMoves
  <2>. QED  BY <2>1, <2>2 DEF Feed!Next, Feed!Move
<1>3. CASE HEmit /\ Heard
  <2>1. /\ log' = Append(log, answer) /\ Len(log') = Len(log) + 1
        /\ answer \in Tips /\ answer \in recent
    BY <1>3, HeardFacts
  <2>2. /\ UNCHANGED <<tip, sub, seen>> /\ recent' = {tip}
    BY <1>3 DEF HEmit, Emit
  <2>3. cursor' = [s \in Subs |->
          IF sub[s] # "live" THEN Len(log) + 1
          ELSE IF cursor[s] + Cap < Len(log) THEN cursor[s] + 1 ELSE cursor[s]]
    <3>1. ASSUME NEW s \in Subs
          PROVE  Len(log') - unread'[s] =
                   IF sub[s] # "live" THEN Len(log) + 1
                   ELSE IF Len(log) - unread[s] + Cap < Len(log)
                     THEN Len(log) - unread[s] + 1 ELSE Len(log) - unread[s]
      <4>1. /\ unread'[s] = (IF sub[s] = "live" THEN Behind(unread[s]) ELSE 0)
            /\ unread[s] \in 0 .. Cap + 1
        BY <1>3, HeardBehind
      <4>. QED  BY <1>0, <2>1, <4>1, CapAssumption DEF Behind
    <3>. QED  BY <3>1
  <2>4. PICK e \in Tips : e = answer
    BY <2>1
  <2>5. Feed!Publish(e)
    BY <1>3, <2>1, <2>2, <2>3, <2>4 DEF Feed!Publish, Heard
  <2>. QED  BY <2>5 DEF Feed!Next
<1>4. CASE HEmit /\ ~Heard
  <2>1. /\ UNCHANGED <<tip, log, sub, seen>> /\ recent' = {tip}
    BY <1>4 DEF HEmit, Emit
  <2>2. \A s \in Subs : unread'[s] = unread[s]
    BY <1>0, <1>4, HeardBehind DEF Heard
  <2>3. cursor' = cursor
    BY <2>1, <2>2
  <2>. QED  BY <1>4, <2>1, <2>3 DEF Feed!Next, Feed!Unheard, Heard
<1>5. ASSUME NEW s \in Subs, Subscribe(s), UNCHANGED history PROVE Feed!Next
  <2>1. /\ UNCHANGED <<tip, recent, log, unread, seen>> /\ sub[s] = "none"
        /\ sub' = [sub EXCEPT ![s] = "live"]
    BY <1>5 DEF Subscribe
  <2>2. cursor' = [cursor EXCEPT ![s] = Len(log)]
    BY <1>0, <2>1
  <2>. QED  BY <2>1, <2>2 DEF Feed!Next, Feed!Join
<1>6. ASSUME NEW s \in Subs, sub[s] = "live", End(s), UNCHANGED history PROVE Feed!Next
  <2>1. /\ UNCHANGED <<tip, recent, log, seen>>
        /\ sub' = [sub EXCEPT ![s] = "ended"] /\ unread' = [unread EXCEPT ![s] = 0]
    BY <1>6 DEF End
  <2>2. cursor' = [cursor EXCEPT ![s] = Len(log)]
    <3>1. \A r \in Subs : Len(log') - unread'[r] = IF r = s THEN Len(log) ELSE cursor[r]
      BY <1>0, <2>1
    <3>. QED  BY <3>1
  <2>. QED  BY <1>6, <2>1, <2>2 DEF Feed!Next, Feed!Leave
<1>7. ASSUME NEW s \in Subs, ReceiveEvent(s), UNCHANGED history PROVE Feed!Next
  <2>1. /\ UNCHANGED <<tip, recent, log, sub>> /\ sub[s] = "live" /\ unread[s] \in 1 .. Cap
        /\ seen' = [seen EXCEPT ![s] = ring[Len(ring) - unread[s] + 1]]
        /\ unread' = [unread EXCEPT ![s] = @ - 1]
    BY <1>7 DEF ReceiveEvent
  <2>2. cursor' = [cursor EXCEPT ![s] = cursor[s] + 1]
    <3>1. \A r \in Subs :
            Len(log') - unread'[r] = IF r = s THEN cursor[s] + 1 ELSE cursor[r]
      BY <1>0, <2>1, CapAssumption
    <3>. QED  BY <3>1
  <2>3. ring[Len(ring) - unread[s] + 1] = log[cursor[s] + 1]
    <3>1. Len(ring) - unread[s] + 1 \in 1 .. Len(ring)
      BY <1>0, <2>1, CapAssumption DEF HInv, RingIsTail
    <3>2. ring[Len(ring) - unread[s] + 1]
            = log[Len(log) - Len(ring) + (Len(ring) - unread[s] + 1)]
      BY <3>1 DEF HInv, RingIsTail
    <3>3. Len(log) - Len(ring) + (Len(ring) - unread[s] + 1) = cursor[s] + 1
      BY <1>0, <2>1, CapAssumption
    <3>. QED  BY <3>2, <3>3
  <2>4. cursor[s] < Len(log) /\ Len(log) <= cursor[s] + Cap
    BY <1>0, <2>1, CapAssumption
  <2>. QED  BY <2>1, <2>2, <2>3, <2>4 DEF Feed!Next, Feed!Read
<1>8. ASSUME NEW s \in Subs, ReceiveLagged(s), UNCHANGED history PROVE Feed!Next
  <2>1. CASE s \in Resilient
    <3>1. /\ UNCHANGED <<tip, recent, log, sub, seen>> /\ sub[s] = "live" /\ unread[s] > Cap
          /\ unread' = [unread EXCEPT ![s] = Cap]
      BY <1>8, <2>1 DEF ReceiveLagged
    <3>2. cursor' = [cursor EXCEPT ![s] = Len(log) - Cap]
      BY <1>0, <3>1, CapAssumption
    <3>3. cursor[s] + Cap < Len(log)
      BY <1>0, <3>1, CapAssumption
    <3>. QED  BY <3>1, <3>2, <3>3 DEF Feed!Next, Feed!Miss
  <2>2. CASE s \notin Resilient
    BY <1>6, <1>8, <2>2 DEF ReceiveLagged
  <2>. QED  BY <2>1, <2>2
<1>. QED
  BY <1>1, <1>2, <1>3, <1>4, <1>5, <1>6, <1>7, <1>8
  DEF HNext, Rest, Answer, AnswerNow, AnswerAtTimeout, LinkLost, GotTip, Ask, Failure,
      GetTipFails, WaitFails, ActorEnds, DropClient, Unsubscribe, Receive, ReceiveClosed, vars

\* The monitor and its channel implement the log of TipFeed: every receiver of
\* MonitorClient::subscribe_tip_changes reads all events in order, or is told of the
\* gap, and each was a tip of the node since the event before it.
THEOREM MonitorImplementsFeed == HSpec => FeedPromise
BY FeedInit, FeedStep, HistoryInvariance, PTL DEF HSpec, FeedPromise, Feed!Spec
=============================================================================
