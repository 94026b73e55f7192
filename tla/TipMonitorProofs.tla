-------------------------- MODULE TipMonitorProofs --------------------------
(***************************************************************************)
(* Theorems about TipMonitor, for every set of tips and receivers and every *)
(* capacity of the channel.                                                *)
(***************************************************************************)
EXTENDS TipMonitor, TLAPS

\* The channel retains at most Cap events.
LEMMA PushedType ==
  ASSUME NEW q \in Seq(Tips), Len(q) <= Cap, NEW e \in Tips
  PROVE  /\ Pushed(q, e) \in Seq(Tips)
         /\ Len(Pushed(q, e)) = IF Len(q) < Cap THEN Len(q) + 1 ELSE Cap
<1>1. CASE Len(q) < Cap
  BY <1>1, CapAssumption DEF Pushed
<1>2. CASE ~(Len(q) < Cap)
  <2>1. Len(q) = Cap /\ q # << >>
    BY <1>2, CapAssumption
  <2>2. Tail(q) \in Seq(Tips) /\ Len(Tail(q)) = Cap - 1
    BY <2>1, CapAssumption
  <2>. QED  BY <1>2, <2>2, CapAssumption DEF Pushed
<1>. QED  BY <1>1, <1>2

\* What a receiver reads is still in the channel.
Retained == \A s \in Subs : Len(ring) = Cap \/ unread[s] <= Len(ring)

\* The token fires only on the way out, and then the first tip is not known.
IInv == TypeOK /\ Retained /\ StopIsEnd

LEMMA TypeStep == TypeOK /\ Retained /\ [Next]_vars => TypeOK'
<1>. SUFFICES ASSUME TypeOK, Retained, [Next]_vars PROVE TypeOK'
  OBVIOUS
<1>. USE DEF TypeOK, task, receivers
<1>1. CASE TipMoves
  BY <1>1 DEF TipMoves
<1>2. CASE Answer
  BY <1>2 DEF Answer, AnswerNow, AnswerAtTimeout
<1>3. CASE LinkLost
  BY <1>3 DEF LinkLost
<1>4. CASE GotTip
  BY <1>4 DEF GotTip
<1>5. CASE Ask
  BY <1>5 DEF Ask
<1>6. CASE Emit
  <2>1. ring' \in Seq(Tips) /\ Len(ring') <= Cap
    BY <1>6, PushedType, CapAssumption DEF Emit
  <2>2. unread' \in [Subs -> 0 .. Cap + 1]
    BY <1>6, CapAssumption DEF Emit, Behind
  <2>. QED  BY <1>6, <2>1, <2>2 DEF Emit
<1>7. CASE Failure
  BY <1>7 DEF Failure, GetTipFails, WaitFails
<1>8. CASE ActorEnds
  BY <1>8 DEF ActorEnds
<1>9. CASE DropClient
  BY <1>9 DEF DropClient
<1>10. ASSUME NEW s \in Subs, Subscribe(s) PROVE TypeOK'
  BY <1>10 DEF Subscribe
<1>11. ASSUME NEW s \in Subs, End(s) PROVE TypeOK'
  BY <1>11, CapAssumption DEF End
<1>12. ASSUME NEW s \in Subs, ReceiveEvent(s) PROVE TypeOK'
  <2>1. Len(ring) - unread[s] + 1 \in 1 .. Len(ring)
    BY <1>12, CapAssumption DEF ReceiveEvent, Retained
  <2>2. ring[Len(ring) - unread[s] + 1] \in Tips
    BY <2>1
  <2>3. unread[s] - 1 \in 0 .. Cap + 1
    BY <1>12, CapAssumption DEF ReceiveEvent
  <2>. QED  BY <1>12, <2>2, <2>3 DEF ReceiveEvent
<1>13. ASSUME NEW s \in Subs, ReceiveLagged(s) PROVE TypeOK'
  BY <1>11, <1>13, CapAssumption DEF ReceiveLagged
<1>14. CASE UNCHANGED vars
  BY <1>14 DEF vars
<1>. QED
  BY <1>1, <1>2, <1>3, <1>4, <1>5, <1>6, <1>7, <1>8, <1>9, <1>10, <1>11, <1>12, <1>13,
     <1>14
  DEF Next, Resume, Receive, Unsubscribe, ReceiveClosed

LEMMA RetainedStep == TypeOK /\ Retained /\ [Next]_vars => Retained'
<1>. SUFFICES ASSUME TypeOK, Retained, [Next]_vars, NEW s \in Subs
              PROVE  Len(ring') = Cap \/ unread'[s] <= Len(ring')
  BY DEF Retained
<1>1. Len(ring) \in 0 .. Cap /\ unread[s] \in 0 .. Cap + 1
  BY CapAssumption DEF TypeOK
<1>2. CASE UNCHANGED <<ring, unread>>
  BY <1>2 DEF Retained
<1>3. CASE Emit
  <2>1. CASE sub[s] # "live"
    <3>1. unread'[s] = 0 /\ Len(ring') \in Nat
      BY <1>3, <2>1, PushedType DEF Emit, TypeOK
    <3>. QED  BY <3>1
  <2>2. CASE sub[s] = "live"
    <3>1. Len(ring') = IF Len(ring) < Cap THEN Len(ring) + 1 ELSE Cap
      BY <1>3, <2>2, PushedType DEF Emit, Heard, TypeOK
    <3>2. unread'[s] = Behind(unread[s])
      BY <1>3, <2>2 DEF Emit
    <3>3. Behind(unread[s]) <= unread[s] + 1
      BY <1>1, CapAssumption DEF Behind
    <3>. QED
      BY <1>1, <3>1, <3>2, <3>3, CapAssumption DEF Retained, Behind
  <2>. QED  BY <2>1, <2>2
<1>4. ASSUME NEW r \in Subs, End(r) PROVE Len(ring') = Cap \/ unread'[s] <= Len(ring')
  <2>1. ring' = ring /\ unread'[s] \in {0, unread[s]}
    BY <1>4 DEF End, TypeOK
  <2>. QED  BY <1>1, <2>1, CapAssumption DEF Retained
<1>5. ASSUME NEW r \in Subs, ReceiveEvent(r)
      PROVE Len(ring') = Cap \/ unread'[s] <= Len(ring')
  <2>1. ring' = ring /\ unread'[s] \in {unread[s] - 1, unread[s]}
    BY <1>5 DEF ReceiveEvent, TypeOK
  <2>. QED  BY <1>1, <2>1, CapAssumption DEF Retained
<1>6. ASSUME NEW r \in Subs, ReceiveLagged(r)
      PROVE Len(ring') = Cap \/ unread'[s] <= Len(ring')
  <2>1. CASE r \notin Resilient
    BY <1>4, <1>6, <2>1 DEF ReceiveLagged
  <2>2. CASE r \in Resilient
    <3>1. Len(ring) = Cap /\ ring' = ring
      BY <1>6, <2>2, CapAssumption DEF ReceiveLagged, Retained, TypeOK
    <3>. QED  BY <3>1
  <2>. QED  BY <2>1, <2>2
<1>. QED
  BY <1>2, <1>3, <1>4, <1>5, <1>6
  DEF Next, Answer, AnswerNow, AnswerAtTimeout, Resume, GotTip, Ask, Failure, GetTipFails,
      WaitFails, TipMoves, LinkLost, ActorEnds, DropClient, Subscribe, Unsubscribe, Receive,
      ReceiveClosed, receivers, vars

LEMMA StopStep == TypeOK /\ StopIsEnd /\ [Next]_vars => StopIsEnd'
<1>. SUFFICES ASSUME TypeOK, StopIsEnd, [Next]_vars PROVE StopIsEnd'
  OBVIOUS
<1>1. CASE UNCHANGED <<pc, stop>>
  BY <1>1 DEF StopIsEnd
<1>2. CASE GotTip \/ Ask \/ Emit \/ WaitFails
  BY <1>2 DEF GotTip, Ask, Emit, WaitFails, StopIsEnd
<1>3. CASE GetTipFails \/ ActorEnds
  BY <1>3 DEF GetTipFails, ActorEnds, StopIsEnd
<1>. QED
  BY <1>1, <1>2, <1>3
  DEF Next, Answer, AnswerNow, AnswerAtTimeout, Resume, Failure, TipMoves, LinkLost,
      DropClient, Subscribe, Unsubscribe, End, Receive, ReceiveEvent, ReceiveLagged,
      ReceiveClosed, task, vars

LEMMA InitHolds == Init => IInv
<1>. SUFFICES ASSUME Init PROVE IInv
  OBVIOUS
<1>1. Len(<< >>) = 0 /\ << >> \in Seq(Tips) /\ 0 <= Cap /\ 0 \in 0 .. Cap + 1
  BY CapAssumption
<1>2. TypeOK
  BY <1>1 DEF Init, TypeOK
<1>3. Retained
  BY <1>1 DEF Init, Retained
<1>. QED  BY <1>2, <1>3 DEF Init, IInv, StopIsEnd

LEMMA StepHolds == IInv /\ [Next]_vars => IInv'
BY TypeStep, RetainedStep, StopStep DEF IInv

LEMMA Invariance == Spec => []IInv
BY InitHolds, StepHolds, PTL DEF Spec

\* The task and its channel keep their types; in particular no receiver ever
\* reads past what the channel retains.
THEOREM TypeCorrect == Spec => []TypeOK
<1>1. IInv => TypeOK
  BY DEF IInv
<1>. QED  BY <1>1, Invariance, PTL

\* The token of a monitor never fires while its loop runs.
THEOREM StopIsEndCorrect == Spec => []StopIsEnd
<1>1. IInv => StopIsEnd
  BY DEF IInv
<1>. QED  BY <1>1, Invariance, PTL

\* Once it knows a first tip the task never gives up by itself.
THEOREM LoopNeverLeftCorrect == Spec => LoopNeverLeft
<1>1. IInv /\ [Next]_vars =>
        [(pc \in {"ask", "wait"}) => (pc' \in {"ask", "wait", "dropped"})]_vars
  <2>. SUFFICES ASSUME IInv, [Next]_vars, pc \in {"ask", "wait"}
                PROVE  pc' \in {"ask", "wait", "dropped"}
    BY DEF vars
  <2>1. ~stop
    BY DEF IInv, StopIsEnd, TypeOK
  <2>2. CASE UNCHANGED pc
    BY <2>2
  <2>3. CASE Resume \/ Failure \/ ActorEnds
    BY <2>1, <2>3 DEF Resume, GotTip, Ask, Emit, Failure, GetTipFails, WaitFails, ActorEnds
  <2>. QED
    BY <2>2, <2>3
    DEF Next, Answer, AnswerNow, AnswerAtTimeout, TipMoves, LinkLost, DropClient,
        Subscribe, Unsubscribe, End, Receive, ReceiveEvent, ReceiveLagged, ReceiveClosed,
        task, vars
<1>. QED  BY <1>1, Invariance, PTL DEF Spec, LoopNeverLeft
=============================================================================
