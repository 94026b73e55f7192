---------------------------- MODULE SystemProofs ----------------------------
(***************************************************************************)
(* Theorems about System, for every set of calls and every budget.         *)
(***************************************************************************)
EXTENDS System, SequenceTheorems, TLAPS

USE DEF Tasks, Pending, Settled, BootStages, StopReasons

(***************************************************************************)
(* The run queue.                                                          *)
(***************************************************************************)
LEMMA WakeFacts ==
  ASSUME TypeOK, NEW t \in Tasks, runq' = Woken(t)
  PROVE  /\ runq' \in Seq(Tasks)
         /\ \A i, j \in 1 .. Len(runq') : runq'[i] = runq'[j] => i = j
<1>1. /\ runq \in Seq(Tasks) /\ Len(runq) \in Nat
      /\ \A i, j \in 1 .. Len(runq) : runq[i] = runq[j] => i = j
  BY DEF TypeOK
<1>2. CASE Queued(t)
  BY <1>1, <1>2 DEF Woken
<1>3. CASE ~Queued(t)
  <2>1. /\ runq' \in Seq(Tasks) /\ Len(runq') = Len(runq) + 1
        /\ \A i \in 1 .. Len(runq) : runq'[i] = runq[i]
        /\ runq'[Len(runq) + 1] = t
    BY <1>1, <1>3, AppendProperties DEF Woken
  <2>2. \A i \in 1 .. Len(runq) : runq[i] # t
    BY <1>3 DEF Queued
  <2>. QED  BY <1>1, <2>1, <2>2
<1>. QED  BY <1>2, <1>3

LEMMA PollFacts ==
  ASSUME TypeOK, Poll
  PROVE  /\ runq' \in Seq(Tasks)
         /\ \A i, j \in 1 .. Len(runq') : runq'[i] = runq'[j] => i = j
         /\ running' \in Tasks
<1>1. runq \in Seq(Tasks) /\ runq # << >> /\ running' = Head(runq) /\ runq' = Tail(runq)
  BY DEF TypeOK, Poll
<1>2. /\ Len(runq) \in Nat /\ Len(runq) >= 1 /\ Head(runq) = runq[1]
      /\ Tail(runq) \in Seq(Tasks) /\ Len(Tail(runq)) = Len(runq) - 1
      /\ \A i \in 1 .. Len(runq) - 1 : Tail(runq)[i] = runq[i + 1]
  BY <1>1, HeadTailProperties
<1>3. running' \in Tasks
  BY <1>1, <1>2
<1>4. \A i, j \in 1 .. Len(runq') : runq'[i] = runq'[j] => i = j
  <2>. SUFFICES ASSUME NEW i \in 1 .. Len(runq'), NEW j \in 1 .. Len(runq'),
                       runq'[i] = runq'[j]
                PROVE  i = j
    OBVIOUS
  <2>1. i + 1 \in 1 .. Len(runq) /\ j + 1 \in 1 .. Len(runq) /\ runq[i + 1] = runq[j + 1]
    BY <1>1, <1>2
  <2>2. i + 1 = j + 1
    BY <2>1 DEF TypeOK
  <2>. QED  BY <1>1, <1>2, <2>2
<1>. QED  BY <1>1, <1>2, <1>3, <1>4

LEMMA SendFacts ==
  ASSUME TypeOK, NEW t \in Tasks, Send(t)
  PROVE  /\ runq' \in Seq(Tasks)
         /\ \A i, j \in 1 .. Len(runq') : runq'[i] = runq'[j] => i = j
         /\ req' \in [Tasks -> {"none"} \cup Pending \cup Settled]
<1>1. req' \in [Tasks -> {"none"} \cup Pending \cup Settled]
  BY DEF Send, Sent, TypeOK
<1>2. CASE link = "down"
  BY <1>1, <1>2 DEF Send, SentWakes, TypeOK
<1>3. CASE link # "down"
  BY <1>1, <1>3, WakeFacts DEF Send, SentWakes
<1>. QED  BY <1>2, <1>3

LEMMA SameQueue ==
  ASSUME TypeOK, UNCHANGED runq
  PROVE  /\ runq' \in Seq(Tasks)
         /\ \A i, j \in 1 .. Len(runq') : runq'[i] = runq'[j] => i = j
BY DEF TypeOK

LEMMA StopFacts ==
  ASSUME TypeOK, NEW reason \in StopReasons, Stop(reason)
  PROVE  TypeOK'
<1>1. runq' \in Seq(Tasks) /\ \A i, j \in 1 .. Len(runq') : runq'[i] = runq'[j] => i = j
  BY DEF Stop
<1>2. /\ at' \in [Starts -> {"unborn", "spawned", "getTip", "ask", "wait", "ended"}]
      /\ req' \in [Tasks -> {"none"} \cup Pending \cup Settled]
      /\ status' \in [Calls -> {"unused", "waiting", "abandoned", "ok", "error", "disconnected"}]
  BY DEF Stop, TypeOK
<1>3. phase' = reason /\ handling' = None /\ running' = None /\ channel' = << >>
      /\ UNCHANGED <<link, budget, cancelled, handles>>
  BY DEF Stop
<1>4. channel' \in Seq(Calls)
  BY <1>3
<1>. QED  BY <1>1, <1>2, <1>3, <1>4 DEF TypeOK

LEMMA SpendFacts ==
  ASSUME TypeOK, Spend
  PROVE  budget' \in 0 .. Budget
<1>1. budget \in 0 .. Budget
  BY DEF TypeOK
<1>. QED  BY <1>1, BudgetAssumption DEF Spend

(***************************************************************************)
(* Type correctness.                                                       *)
(***************************************************************************)
LEMMA TypeStep == TypeOK /\ [Next]_vars => TypeOK'
<1>. SUFFICES ASSUME TypeOK, [Next]_vars PROVE TypeOK'
  OBVIOUS
<1>. USE DEF thread, clients
<1>. DEFINE QueueOK == /\ runq \in Seq(Tasks)
                       /\ \A i, j \in 1 .. Len(runq) : runq[i] = runq[j] => i = j
<1>1. ASSUME NEW c \in Calls, Issue(c) PROVE TypeOK'
  <2>1. QueueOK'
    <3>1. "main" \in Tasks
      OBVIOUS
    <3>. QED  BY <1>1, <3>1, WakeFacts, SameQueue DEF Issue
  <2>2. channel' \in Seq(Calls)
    <3>1. channel \in Seq(Calls)
      BY DEF TypeOK
    <3>2. Append(channel, c) \in Seq(Calls)
      BY <3>1
    <3>3. channel' \in {channel, Append(channel, c)}
      BY <1>1 DEF Issue
    <3>. QED  BY <3>1, <3>2, <3>3
  <2>3. status' \in [Calls -> {"unused", "waiting", "abandoned", "ok", "error", "disconnected"}]
    BY <1>1 DEF Issue, TypeOK
  <2>4. UNCHANGED <<phase, handling, at, req, link, running, budget, cancelled, handles>>
    BY <1>1 DEF Issue
  <2>. QED  BY <2>1, <2>2, <2>3, <2>4 DEF TypeOK
<1>2. CASE DropHandles
  <2>1. QueueOK'
    BY <1>2, WakeFacts DEF DropHandles
  <2>2. status' \in [Calls -> {"unused", "waiting", "abandoned", "ok", "error", "disconnected"}]
    BY <1>2 DEF DropHandles, TypeOK
  <2>3. handles' \in BOOLEAN
    BY <1>2 DEF DropHandles
  <2>4. UNCHANGED <<phase, handling, at, req, link, running, budget, channel, cancelled>>
    BY <1>2 DEF DropHandles
  <2>. QED  BY <2>1, <2>2, <2>3, <2>4 DEF TypeOK
<1>3. CASE Accept \/ \E t \in Tasks : NodeAnswers(t)
  <2>1. QueueOK'
    BY <1>3, WakeFacts DEF Accept, NodeAnswers
  <2>2. req' \in [Tasks -> {"none"} \cup Pending \cup Settled]
    BY <1>3 DEF Accept, NodeAnswers, TypeOK
  <2>3. UNCHANGED <<phase, handling, at, link, running, budget, clients>>
    BY <1>3 DEF Accept, NodeAnswers
  <2>. QED  BY <2>1, <2>2, <2>3 DEF TypeOK
<1>4. CASE LinkLost
  <2>1. QueueOK'
    BY <1>4, WakeFacts DEF LinkLost
  <2>. QED  BY <1>4, <2>1 DEF LinkLost, TypeOK
<1>5. CASE Poll
  <2>1. QueueOK' /\ running' \in Tasks
    BY <1>5, PollFacts
  <2>2. budget' \in 0 .. Budget
    BY <1>5, BudgetAssumption DEF Poll
  <2>3. UNCHANGED <<phase, handling, at, req, link, clients>>
    BY <1>5 DEF Poll
  <2>. QED  BY <2>1, <2>2, <2>3 DEF TypeOK
<1>6. ASSUME NEW t \in Tasks, Suspend(t) PROVE TypeOK'
  <2>1. QueueOK'
    BY <1>6, SameQueue DEF Suspend
  <2>. QED  BY <1>6, <2>1 DEF Suspend, TypeOK
<1>7. ASSUME NEW t \in Tasks, Yield(t) PROVE TypeOK'
  <2>1. QueueOK'
    BY <1>7, WakeFacts DEF Yield
  <2>. QED  BY <1>7, <2>1 DEF Yield, TypeOK
<1>8. CASE Flush \/ Disconnect
  <2>1. QueueOK'
    BY <1>8, SameQueue DEF Flush, Disconnect
  <2>2. req' \in [Tasks -> {"none"} \cup Pending \cup Settled] /\ link' \in {"up", "cut", "down"}
    BY <1>8 DEF Flush, Disconnect, TypeOK
  <2>3. UNCHANGED <<phase, handling, at, thread, clients>>
    BY <1>8 DEF Flush, Disconnect
  <2>. QED  BY <2>1, <2>2, <2>3 DEF TypeOK
<1>9. ASSUME NEW t \in Tasks, Dispatch(t) \/ FailRequest(t) PROVE TypeOK'
  <2>1. QueueOK'
    BY <1>9, WakeFacts DEF Dispatch, FailRequest
  <2>2. req' \in [Tasks -> {"none"} \cup Pending \cup Settled]
    BY <1>9 DEF Dispatch, FailRequest, TypeOK
  <2>3. UNCHANGED <<phase, handling, at, link, running, budget, clients>>
    BY <1>9 DEF Dispatch, FailRequest
  <2>. QED  BY <2>1, <2>2, <2>3 DEF TypeOK
<1>10. CASE BootAsk
  <2>1. QueueOK' /\ req' \in [Tasks -> {"none"} \cup Pending \cup Settled]
    <3>1. CASE phase = "connect"
      BY <1>10, <3>1, SameQueue DEF BootAsk, TypeOK
    <3>2. CASE phase # "connect"
      BY <1>10, <3>2, SendFacts DEF BootAsk
    <3>. QED  BY <3>1, <3>2
  <2>2. UNCHANGED <<phase, handling, at, link, running, budget, clients>>
    BY <1>10 DEF BootAsk
  <2>. QED  BY <2>1, <2>2 DEF TypeOK
<1>11. CASE BootStep
  <2>1. QueueOK'
    <3>1. CASE phase = "connect"
      BY <1>11, <3>1, WakeFacts DEF BootStep
    <3>2. CASE phase # "connect"
      BY <1>11, <3>2, SameQueue DEF BootStep
    <3>. QED  BY <3>1, <3>2
  <2>2. req' \in [Tasks -> {"none"} \cup Pending \cup Settled]
    BY <1>11 DEF BootStep, TypeOK
  <2>3. phase' \in BootStages \cup {"running"}
    BY <1>11 DEF BootStep, Booting, NextStage
  <2>4. UNCHANGED <<handling, at, link, running, budget, clients>>
    BY <1>11 DEF BootStep
  <2>. QED  BY <2>1, <2>2, <2>3, <2>4 DEF TypeOK
<1>12. CASE BootFail \/ Drain \/ Panic
  BY <1>12, StopFacts DEF BootFail, Drain, Panic
<1>13. CASE Take
  <2>1. QueueOK' /\ req' \in [Tasks -> {"none"} \cup Pending \cup Settled]
    BY <1>13, SendFacts DEF Take
  <2>2. channel \in Seq(Calls) /\ channel # << >>
    BY <1>13 DEF Take, TypeOK
  <2>3. handling' \in Calls /\ channel' \in Seq(Calls)
    BY <1>13, <2>2 DEF Take
  <2>4. budget' \in 0 .. Budget
    BY <1>13, SpendFacts DEF Take
  <2>5. UNCHANGED <<phase, at, link, running, status, cancelled, handles>>
    BY <1>13 DEF Take
  <2>. QED  BY <2>1, <2>3, <2>4, <2>5 DEF TypeOK
<1>14. CASE Finish
  <2>1. QueueOK'
    <3>1. handling \in Starts => handling \in Tasks
      OBVIOUS
    <3>. QED  BY <1>14, <3>1, WakeFacts, SameQueue DEF Finish
  <2>2. req' \in [Tasks -> {"none"} \cup Pending \cup Settled]
    BY <1>14 DEF Finish, TypeOK
  <2>3. at' \in [Starts -> {"unborn", "spawned", "getTip", "ask", "wait", "ended"}]
    BY <1>14 DEF Finish, TypeOK
  <2>4. status' \in [Calls -> {"unused", "waiting", "abandoned", "ok", "error", "disconnected"}]
    BY <1>14 DEF Finish, Deliver, TypeOK
  <2>5. handling' = None /\ UNCHANGED <<phase, link, running, budget, channel, cancelled, handles>>
    BY <1>14 DEF Finish
  <2>. QED  BY <2>1, <2>2, <2>3, <2>4, <2>5 DEF TypeOK
<1>15. ASSUME NEW m \in Starts, Ask(m) PROVE TypeOK'
  <2>1. QueueOK' /\ req' \in [Tasks -> {"none"} \cup Pending \cup Settled]
    BY <1>15, SendFacts DEF Ask
  <2>2. at' \in [Starts -> {"unborn", "spawned", "getTip", "ask", "wait", "ended"}]
    BY <1>15 DEF Ask, GoTo, TypeOK
  <2>3. UNCHANGED <<phase, handling, link, running, budget, clients>>
    BY <1>15 DEF Ask
  <2>. QED  BY <2>1, <2>2, <2>3 DEF TypeOK
<1>16. ASSUME NEW m \in Starts, GotTip(m) \/ GetTipFails(m) \/ WaitReturns(m) PROVE TypeOK'
  <2>1. QueueOK'
    BY <1>16, SameQueue DEF GotTip, GetTipFails, WaitReturns
  <2>2. at' \in [Starts -> {"unborn", "spawned", "getTip", "ask", "wait", "ended"}]
    BY <1>16 DEF GotTip, GetTipFails, WaitReturns, GoTo, TypeOK
  <2>3. req' \in [Tasks -> {"none"} \cup Pending \cup Settled]
    BY <1>16 DEF GotTip, GetTipFails, WaitReturns, TypeOK
  <2>4. running' \in Tasks \cup {None}
    BY <1>16 DEF GotTip, GetTipFails, WaitReturns, TypeOK
  <2>6. budget' \in 0 .. Budget
    BY <1>16 DEF GotTip, GetTipFails, WaitReturns, TypeOK
  <2>5. UNCHANGED <<phase, handling, link, clients>>
    BY <1>16 DEF GotTip, GetTipFails, WaitReturns
  <2>. QED  BY <2>1, <2>2, <2>3, <2>4, <2>5, <2>6 DEF TypeOK
<1>17. ASSUME NEW c \in Calls, CancelToken(c) PROVE TypeOK'
  <2>1. QueueOK'
    <3>1. "main" \in Tasks
      OBVIOUS
    <3>. QED  BY <1>17, <3>1, WakeFacts, SameQueue DEF CancelToken
  <2>2. cancelled' \subseteq Echoes
    BY <1>17 DEF CancelToken, TypeOK
  <2>3. UNCHANGED <<phase, handling, at, req, link, running, budget, channel, status, handles>>
    BY <1>17 DEF CancelToken
  <2>. QED  BY <2>1, <2>2, <2>3 DEF TypeOK
<1>18. CASE TakeNotFound
  <2>1. QueueOK'
    BY <1>18, SameQueue DEF TakeNotFound
  <2>2. channel \in Seq(Calls) /\ channel # << >>
    BY <1>18 DEF TakeNotFound, TypeOK
  <2>3. channel' \in Seq(Calls)
    BY <1>18, <2>2 DEF TakeNotFound
  <2>4. status' \in [Calls -> {"unused", "waiting", "abandoned", "ok", "error", "disconnected"}]
    BY <1>18 DEF TakeNotFound, Deliver, TypeOK
  <2>5. budget' \in 0 .. Budget
    BY <1>18, SpendFacts DEF TakeNotFound
  <2>6. UNCHANGED <<phase, handling, at, req, link, running, cancelled, handles>>
    BY <1>18 DEF TakeNotFound
  <2>. QED  BY <2>1, <2>3, <2>4, <2>5, <2>6 DEF TypeOK
<1>19. CASE EchoCancelled
  <2>1. QueueOK'
    BY <1>19, SameQueue DEF EchoCancelled
  <2>2. /\ status' \in [Calls -> {"unused", "waiting", "abandoned", "ok", "error", "disconnected"}]
        /\ req' \in [Tasks -> {"none"} \cup Pending \cup Settled]
    BY <1>19 DEF EchoCancelled, Deliver, TypeOK
  <2>3. handling' = None
        /\ UNCHANGED <<phase, at, link, running, budget, channel, cancelled, handles>>
    BY <1>19 DEF EchoCancelled
  <2>. QED  BY <2>1, <2>2, <2>3 DEF TypeOK
<1>20. CASE UNCHANGED vars
  <2>1. QueueOK'
    BY <1>20, SameQueue DEF vars
  <2>. QED  BY <1>20, <2>1 DEF vars, TypeOK
<1>. QED
  BY <1>1, <1>2, <1>3, <1>4, <1>5, <1>6, <1>7, <1>8, <1>9, <1>10, <1>11, <1>12, <1>13,
     <1>14, <1>15, <1>16, <1>17, <1>18, <1>19, <1>20
  DEF Next, Thread, Outside, RpcStep, RpcIdle, ActorStep, ActorWaits, ActorYields,
      MonitorStep, MonitorWaits

LEMMA InitTyped == Init => TypeOK
<1>1. <<"main">> \in Seq(Tasks) /\ << >> \in Seq(Calls) /\ Len(<<"main">>) = 1
  OBVIOUS
<1>2. 0 \in 0 .. Budget
  BY BudgetAssumption
<1>3. Init => handles \in BOOLEAN /\ cancelled \subseteq Echoes
  BY DEF Init
<1>4. Init => /\ phase = "connect" /\ handling = None /\ at = [m \in Starts |-> "unborn"]
              /\ req = [t \in Tasks |-> "none"] /\ link = "up" /\ runq = <<"main">>
              /\ running = None /\ budget = 0 /\ channel = << >>
              /\ status = [c \in Calls |-> "unused"]
  BY DEF Init
<1>5. ASSUME Init PROVE \A i, j \in 1 .. Len(runq) : runq[i] = runq[j] => i = j
  <2>1. Len(runq) = 1
    BY <1>1, <1>4, <1>5
  <2>2. \A i, j \in 1 .. 1 : i = j
    OBVIOUS
  <2>. QED  BY <2>1, <2>2
<1>6. ASSUME Init PROVE runq \in Seq(Tasks) /\ channel \in Seq(Calls) /\ budget \in 0 .. Budget
  BY <1>1, <1>2, <1>4, <1>6
<1>. QED  BY <1>3, <1>4, <1>5, <1>6 DEF TypeOK

\* Every variable of the thread keeps its type, and no task is queued twice
\* (actor.rs:138).
THEOREM TypeCorrect == Spec => []TypeOK
BY InitTyped, TypeStep, PTL DEF Spec

(***************************************************************************)
(* The refinement.                                                         *)
(***************************************************************************)
LEMMA OutcomeFacts ==
  ASSUME TypeOK, NEW c \in Calls
  PROVE  /\ Outcome[c] = "waiting" <=> status[c] = "waiting"
         /\ Outcome[c] = "unused" <=> status[c] = "unused"
BY DEF Outcome, TypeOK

\* What deliver does is to answer a caller that still waits.
LEMMA Delivered ==
  ASSUME TypeOK, NEW c \in Calls, NEW v \in Settled, status' = Deliver(c, v)
  PROVE  Loop!Answer(c)
BY DEF Deliver, Outcome, TypeOK, Loop!Answer

LEMMA Unserved == {None} \ {None} = {} /\ \A c \in Calls : {c} \ {None} = {c}
BY NoneAssumption

LEMMA Closes ==
  ASSUME TypeOK, ~Stopped, NEW reason \in StopReasons, Stop(reason)
  PROVE  Loop!Close
<1>1. Stopped' /\ channel' = << >> /\ handling' = None
  BY DEF Stop, Stopped
<1>2. Outcome' =
        [c \in Calls |-> IF Outcome[c] = "waiting" THEN "disconnected" ELSE Outcome[c]]
  BY DEF Stop, Outcome, TypeOK
<1>. QED  BY <1>1, <1>2, Unserved DEF Loop!Close

LEMMA LoopInit == Init => Loop!Init
<1>. SUFFICES ASSUME Init PROVE Loop!Init
  OBVIOUS
<1>1. channel = << >> /\ handling = None /\ ~Stopped
  BY DEF Init, Stopped
<1>2. Outcome = [c \in Calls |-> "unused"]
  BY DEF Init, Outcome
<1>. QED  BY <1>1, <1>2, Unserved DEF Loop!Init

LEMMA LoopStep == TypeOK /\ [Next]_vars => [Loop!Next]_(Loop!loopVars)
<1>. SUFFICES ASSUME TypeOK, [Next]_vars PROVE [Loop!Next]_(Loop!loopVars)
  OBVIOUS
<1>. USE DEF thread, clients
<1>1. ASSUME NEW c \in Calls, Issue(c) PROVE Loop!Submit(c)
  <2>1. Outcome[c] = "unused" /\ UNCHANGED <<phase, handling>>
    BY <1>1, OutcomeFacts DEF Issue
  <2>2. CASE Stopped
    <3>1. channel' = channel /\ status' = [status EXCEPT ![c] = "disconnected"]
      BY <1>1, <2>2 DEF Issue
    <3>2. Outcome' = [Outcome EXCEPT ![c] = "disconnected"]
      BY <3>1 DEF Outcome, TypeOK
    <3>. QED  BY <2>1, <2>2, <3>1, <3>2 DEF Loop!Submit, Stopped
  <2>3. CASE ~Stopped
    <3>1. channel' = Append(channel, c) /\ status' = [status EXCEPT ![c] = "waiting"]
      BY <1>1, <2>3 DEF Issue
    <3>2. Outcome' = [Outcome EXCEPT ![c] = "waiting"]
      BY <3>1 DEF Outcome, TypeOK
    <3>. QED  BY <2>1, <2>3, <3>1, <3>2 DEF Loop!Submit, Stopped
  <2>. QED  BY <2>2, <2>3
<1>2. CASE DropHandles
  <2>. DEFINE S == {c \in Calls : status[c] = "waiting"}
  <2>1. UNCHANGED <<phase, handling, channel>>
    BY <1>2 DEF DropHandles
  <2>2. Outcome' = [c \in Calls |-> IF c \in S THEN "abandoned" ELSE Outcome[c]]
    BY <1>2 DEF DropHandles, Outcome
  <2>3. \A c \in S : Outcome[c] = "waiting"
    BY DEF Outcome
  <2>4. Loop!GiveUp(S)
    BY <2>1, <2>2, <2>3 DEF Loop!GiveUp, Stopped
  <2>5. S \in SUBSET Calls
    OBVIOUS
  <2>. QED  BY <2>4, <2>5 DEF Loop!Next
<1>3. CASE Take
  <2>1. /\ phase = "running" /\ handling = None /\ channel # << >>
        /\ handling' = Head(channel) /\ channel' = Tail(channel)
        /\ UNCHANGED <<phase, status>>
    BY <1>3 DEF Take, Receiving
  <2>2. Head(channel) \in Calls
    BY <2>1 DEF TypeOK
  <2>3. ~Stopped /\ UNCHANGED <<Outcome, Stopped>>
    BY <2>1 DEF Stopped, Outcome
  <2>4. Loop!Begin
    BY <2>1, <2>2, <2>3, Unserved DEF Loop!Begin, Loop!Free
  <2>. QED  BY <2>4 DEF Loop!Next
<1>4. CASE TakeNotFound
  <2>1. /\ phase = "running" /\ handling = None /\ channel # << >>
        /\ channel' = Tail(channel) /\ UNCHANGED <<phase, handling>>
        /\ status' = Deliver(Head(channel), "error")
    BY <1>4 DEF TakeNotFound, Receiving
  <2>2. Head(channel) \in Calls
    BY <2>1 DEF TypeOK
  <2>3. Loop!Answer(Head(channel))
    BY <2>1, <2>2, Delivered
  <2>4. ~Stopped /\ UNCHANGED Stopped
    BY <2>1 DEF Stopped
  <2>5. Loop!AnswerAtOnce
    BY <2>1, <2>3, <2>4, Unserved DEF Loop!AnswerAtOnce, Loop!Free
  <2>. QED  BY <2>5 DEF Loop!Next
<1>5. CASE Finish \/ EchoCancelled
  <2>1. handling \in Calls /\ handling' = None /\ UNCHANGED <<phase, channel>>
    BY <1>5 DEF Finish, EchoCancelled, Looking, TypeOK
  <2>2. Loop!Answer(handling)
    <3>1. CASE Finish
      BY <2>1, <3>1, Delivered DEF Finish
    <3>2. CASE EchoCancelled
      BY <2>1, <3>2, Delivered DEF EchoCancelled
    <3>. QED  BY <1>5, <3>1, <3>2
  <2>3. Loop!Done(handling)
    BY <2>1, <2>2, Unserved DEF Loop!Done, Stopped
  <2>. QED  BY <2>1, <2>3 DEF Loop!Next
<1>6. CASE BootFail \/ Panic \/ Drain
  <2>1. ~Stopped
    BY <1>6 DEF BootFail, Booting, Panic, Drain, Receiving, Stopped
  <2>2. Loop!Close
    BY <1>6, <2>1, Closes DEF BootFail, Panic, Drain
  <2>. QED  BY <2>2 DEF Loop!Next
<1>7. CASE BootStep
  <2>1. ~Stopped /\ ~Stopped' /\ UNCHANGED <<handling, channel, status>>
    BY <1>7 DEF BootStep, Booting, NextStage, Stopped
  <2>2. Outcome' = Outcome /\ Stopped' = Stopped
    BY <2>1 DEF Outcome, Stopped
  <2>. QED  BY <2>1, <2>2 DEF Loop!loopVars
<1>8. CASE \/ \E c \in Calls : CancelToken(c)
           \/ \E t \in Tasks : NodeAnswers(t) \/ Dispatch(t) \/ FailRequest(t)
           \/ \E t \in Tasks : Suspend(t) \/ Yield(t)
           \/ Accept \/ LinkLost \/ Poll \/ Flush \/ Disconnect \/ BootAsk
           \/ \E m \in Starts : Ask(m) \/ GotTip(m) \/ GetTipFails(m) \/ WaitReturns(m)
           \/ UNCHANGED vars
  <2>1. UNCHANGED <<phase, handling, channel, status>>
    BY <1>8
    DEF CancelToken, NodeAnswers, Dispatch, FailRequest, Suspend, Yield, Accept, LinkLost,
        Poll, Flush, Disconnect, BootAsk, Ask, GotTip, GetTipFails, WaitReturns, vars
  <2>2. Outcome' = Outcome /\ Stopped' = Stopped
    BY <2>1 DEF Outcome, Stopped
  <2>. QED  BY <2>1, <2>2 DEF Loop!loopVars
<1>. QED
  BY <1>1, <1>2, <1>3, <1>4, <1>5, <1>6, <1>7, <1>8
  DEF Next, Thread, Outside, RpcStep, RpcIdle, ActorStep, ActorWaits, ActorYields,
      MonitorStep, MonitorWaits, Loop!Next

\* Whatever else the thread is busy with, callers see one command served at a time,
\* in the order they were sent, and each answered unless the thread ends
\* (actor.rs:464-471 under the LocalSet of 138-158).
THEOREM ImplementsLoop == Spec => LoopSpec
BY LoopInit, LoopStep, TypeCorrect, PTL DEF Spec, LoopSpec, Loop!Spec
=============================================================================
