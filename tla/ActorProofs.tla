---------------------------- MODULE ActorProofs ----------------------------
(***************************************************************************)
(* Theorems about Actor, for every set of calls, kinds, sizes and widths.  *)
(***************************************************************************)
EXTENDS Actor, SequenceTheorems, TLAPS

USE DEF BootStages, StopReasons, ClientKinds, MonitorKinds, Failures

\* The reserved weight is a number whatever the width of the product.
LEMMA WeightIsNat ==
  ASSUME NEW size \in 0 .. U32Mod - 1
  PROVE  ReservedWeight(size) \in Nat /\ ReservedWeight(size) >= MinReserved
<1>1. size * 4 \in Nat
  BY WidthAssumption
<1>2. (size * 4) % U32Mod \in Nat
  BY <1>1, WidthAssumption
<1>. QED  BY <1>2, WidthAssumption DEF ReservedWeight

LEMMA SizeIsU32 ==
  ASSUME TypeOK, NEW c \in Calls
  PROVE  cmd[c].size \in 0 .. U32Mod - 1
<1>1. cmd[c].size \in Sizes \cup {0}
  BY DEF TypeOK, Requests
<1>2. Sizes \cup {0} \subseteq 0 .. U32Mod - 1
  BY WidthAssumption
<1>. QED  BY <1>1, <1>2

\* Ending the thread leaves well-typed values behind.
LEMMA StopType ==
  ASSUME TypeOK, NEW reason \in StopReasons, Stop(reason)
  PROVE  TypeOK'
<1>1. monitors' \in [1 .. nextId' - 1 -> Nat]
  <2>1. monitors' = << >> /\ nextId' = 1
    BY DEF Stop
  <2>2. 1 .. 0 = {}
    OBVIOUS
  <2>. QED  BY <2>1, <2>2
<1>2. queue' \in Seq(Calls) /\ inflight' \subseteq Calls
  BY DEF Stop
<1>3. carried' \in [Calls -> Nat]
  BY DEF Stop
<1>4. status' \in [Calls -> {"unused", "waiting", "abandoned", "ok"} \cup Failures]
  BY DEF Stop, TypeOK
<1>5. nextId' \in Nat \ {0}
  BY DEF Stop
<1>. QED  BY <1>1, <1>2, <1>3, <1>4, <1>5 DEF Stop, TypeOK, callers, Requests

\* Taking a call off the channel keeps the channel a sequence of calls.
LEMMA TakeType ==
  ASSUME TypeOK, NEW c \in Calls, MayTake(c)
  PROVE  Tail(queue) \in Seq(Calls)
BY DEF TypeOK, MayTake

\* So does every outcome that is delivered keep the status of calls typed.
LEMMA DeliverType ==
  ASSUME TypeOK, NEW c \in Calls, NEW outcome \in {"ok"} \cup Failures
  PROVE  Deliver(c, outcome) \in
           [Calls -> {"unused", "waiting", "abandoned", "ok"} \cup Failures]
BY DEF TypeOK, Deliver

LEMMA ToldType ==
  ASSUME TypeOK, NEW c \in Calls, NEW version \in Nat, Told(c, version)
  PROVE  got' \in [Calls -> Nat]
<1>1. (IF status[c] = "waiting" THEN version ELSE got[c]) \in Nat
  BY DEF TypeOK
<1>. QED  BY <1>1 DEF Told, TypeOK

LEMMA IssueType ==
  ASSUME TypeOK, NEW c \in Calls, NEW request \in Requests, Issue(c, request)
  PROVE  TypeOK'
<1>1. cmd' \in [Calls -> Requests]
  BY DEF Issue, TypeOK
<1>2. status' \in [Calls -> {"unused", "waiting", "abandoned", "ok"} \cup Failures]
  BY DEF Issue, TypeOK
<1>3. queue' \in Seq(Calls)
  <2>1. Append(queue, c) \in Seq(Calls)
    BY DEF TypeOK
  <2>. QED  BY <2>1 DEF Issue, TypeOK
<1>. QED  BY <1>1, <1>2, <1>3 DEF Issue, TypeOK, table, Requests

LEMMA TypeStep == TypeOK /\ [Next]_vars => TypeOK'
<1>. SUFFICES ASSUME TypeOK, [Next]_vars PROVE TypeOK'
  OBVIOUS
<1>1. ASSUME NEW c \in Calls, InvokeClient(c) PROVE TypeOK'
  <2>1. PICK k \in Kinds \cap ClientKinds, n \in Sizes \cup {0} :
          Issue(c, [kind |-> k, monitor |-> 0, size |-> n])
    BY <1>1 DEF InvokeClient
  <2>2. [kind |-> k, monitor |-> 0, size |-> n] \in Requests
    BY DEF Requests
  <2>. QED  BY <2>1, <2>2, IssueType
<1>2. ASSUME NEW c \in Calls, InvokeMonitor(c) PROVE TypeOK'
  <2>1. PICK k \in Kinds \cap MonitorKinds, m \in held :
          Issue(c, [kind |-> k, monitor |-> m, size |-> 0])
    BY <1>2 DEF InvokeMonitor
  <2>2. [kind |-> k, monitor |-> m, size |-> 0] \in Requests
    BY DEF Requests, TypeOK
  <2>. QED  BY <2>1, <2>2, IssueType
<1>3. ASSUME NEW c \in Calls, Abandon(c) PROVE TypeOK'
  BY <1>3 DEF Abandon, TypeOK, callers, table, Requests
<1>4. ASSUME NEW c \in Calls, CancelToken(c) PROVE TypeOK'
  BY <1>4 DEF CancelToken, TypeOK, table, Requests
<1>5. ASSUME NEW c \in Calls, TakeClientCall(c) PROVE TypeOK'
  BY <1>5, TakeType DEF TakeClientCall, Send, TypeOK, callers, table, Requests
<1>6. ASSUME NEW c \in Calls, TakeStart(c) PROVE TypeOK'
  <2>1. CASE Stop("panicked")
    BY <2>1, StopType
  <2>2. CASE Send(c, ReservedWeight(cmd[c].size))
    <3>1. ReservedWeight(cmd[c].size) \in Nat
      BY SizeIsU32, WeightIsNat
    <3>. QED
      BY <1>6, <2>2, <3>1, TakeType DEF TakeStart, Send, TypeOK, callers, table, Requests
  <2>. QED  BY <1>6, <2>1, <2>2 DEF TakeStart
<1>7. ASSUME NEW c \in Calls, TakeMonitorCall(c) PROVE TypeOK'
  <2>1. CASE cmd[c].monitor \in DOMAIN monitors /\ Send(c, monitors[cmd[c].monitor])
    <3>1. monitors[cmd[c].monitor] \in Nat
      BY <2>1 DEF TypeOK
    <3>. QED
      BY <1>7, <2>1, <3>1, TakeType
      DEF TakeMonitorCall, Send, TypeOK, callers, table, Requests
  <2>2. CASE NotFound(c)
    BY <1>7, <2>2, TakeType, DeliverType
    DEF TakeMonitorCall, NotFound, TypeOK, callers, table, Requests
  <2>. QED  BY <1>7, <2>1, <2>2 DEF TakeMonitorCall
<1>8. ASSUME NEW c \in Calls, TakeUnimplemented(c) PROVE TypeOK'
  <2>1. CASE Stop("panicked")
    BY <2>1, StopType
  <2>2. CASE NotFound(c)
    BY <1>8, <2>2, TakeType, DeliverType
    DEF TakeUnimplemented, NotFound, TypeOK, callers, table, Requests
  <2>. QED  BY <1>8, <2>1, <2>2 DEF TakeUnimplemented
<1>9. ASSUME NEW c \in Calls, Reply(c) PROVE TypeOK'
  <2>1. PICK payload \in Payloads :
          LET outcome == Extract(cmd[c].kind, payload) IN
          IF outcome = "panic" THEN Stop("panicked")
          ELSE /\ Leave(c)
               /\ status' = Deliver(c, outcome)
               /\ IF outcome = "ok" /\ cmd[c].kind \in MonitorKinds
                    THEN Told(c, carried[c]) ELSE UNCHANGED got
               /\ UNCHANGED <<phase, link, queue, callers, table>>
    BY <1>9 DEF Reply
  <2>2. CASE Extract(cmd[c].kind, payload) = "panic"
    BY <2>1, <2>2, StopType
  <2>3. CASE Extract(cmd[c].kind, payload) # "panic"
    <3>1. Extract(cmd[c].kind, payload) \in {"ok"} \cup Failures
      BY <2>3 DEF Extract
    <3>2. got' \in [Calls -> Nat]
      <4>1. carried[c] \in Nat
        BY DEF TypeOK
      <4>. QED  BY <2>1, <2>3, <4>1, ToldType DEF TypeOK
    <3>3. status' \in [Calls -> {"unused", "waiting", "abandoned", "ok"} \cup Failures]
      <4>1. status' = Deliver(c, Extract(cmd[c].kind, payload))
        BY <2>1, <2>3
      <4>. QED  BY <3>1, <4>1, DeliverType
    <3>4. Leave(c) /\ UNCHANGED <<phase, link, queue, callers, table>>
      BY <2>1, <2>3
    <3>5. inflight' \subseteq Calls /\ carried' \in [Calls -> Nat]
      BY <3>4 DEF Leave, TypeOK
    <3>. QED
      BY <3>2, <3>3, <3>4, <3>5 DEF TypeOK, callers, table, Requests
  <2>. QED  BY <2>2, <2>3
<1>10. ASSUME NEW c \in Calls, FinishCreate(c) PROVE TypeOK'
  <2>1. made + 1 \in Nat /\ monitors' \in [1 .. nextId - 1 -> Nat]
    BY <1>10 DEF FinishCreate, Renewed, TypeOK
  <2>2. got' \in [Calls -> Nat]
    BY <1>10, <2>1, ToldType DEF FinishCreate
  <2>. QED
    BY <1>10, <2>1, <2>2, DeliverType DEF FinishCreate, Leave, TypeOK, callers, Requests
<1>11. ASSUME NEW c \in Calls, FinishStart(c) PROVE TypeOK'
  <2>1. monitors' \in [1 .. nextId' - 1 -> Nat] /\ nextId' \in Nat \ {0}
    BY <1>11 DEF FinishStart, Opened, TypeOK
  <2>2. held' \subseteq Nat
    BY <1>11 DEF FinishStart, TypeOK
  <2>3. made + 1 \in Nat
    BY DEF TypeOK
  <2>4. got' \in [Calls -> Nat]
    BY <1>11, <2>3, ToldType DEF FinishStart
  <2>. QED
    BY <1>11, <2>1, <2>2, <2>3, <2>4, DeliverType
    DEF FinishStart, Leave, TypeOK, Requests
<1>12. ASSUME NEW c \in Calls, FinishWaitNext(c) PROVE TypeOK'
  <2>1. made + 1 \in Nat
    BY DEF TypeOK
  <2>2. got' \in [Calls -> Nat]
    BY <1>12, <2>1, ToldType DEF FinishWaitNext, TypeOK
  <2>3. monitors' \in [1 .. nextId - 1 -> Nat] /\ made' \in Nat
    BY <1>12, <2>1 DEF FinishWaitNext, TypeOK
  <2>4. status' \in [Calls -> {"unused", "waiting", "abandoned", "ok"} \cup Failures]
    BY <1>12, DeliverType DEF FinishWaitNext
  <2>5. inflight' \subseteq Calls /\ carried' \in [Calls -> Nat]
    BY <1>12 DEF FinishWaitNext, Leave, TypeOK
  <2>. QED
    BY <1>12, <2>2, <2>3, <2>4, <2>5 DEF FinishWaitNext, TypeOK, callers, Requests
<1>13. ASSUME NEW c \in Calls, Fail(c) PROVE TypeOK'
  BY <1>13, DeliverType DEF Fail, Leave, TypeOK, callers, table, Requests
<1>14. ASSUME NEW c \in Calls, EchoCancelled(c) PROVE TypeOK'
  BY <1>14, DeliverType DEF EchoCancelled, Leave, TypeOK, callers, table, Requests
<1>15. ASSUME NEW m \in held, DropMonitorClient(m) PROVE TypeOK'
  BY <1>15 DEF DropMonitorClient, TypeOK, table, Requests
<1>16. CASE DropIpc
  BY <1>16 DEF DropIpc, TypeOK, table, Requests
<1>17. CASE BootStep
  BY <1>17 DEF BootStep, NextStage, TypeOK, callers, table, Requests
<1>18. CASE BootFail
  BY <1>18, StopType DEF BootFail
<1>19. CASE LinkLost
  BY <1>19 DEF LinkLost, TypeOK, callers, table, Requests
<1>20. CASE Drain
  BY <1>20, StopType DEF Drain
<1>21. CASE UNCHANGED vars
  BY <1>21 DEF vars, TypeOK, callers, table, Requests
<1>. QED
  BY <1>1, <1>2, <1>3, <1>4, <1>5, <1>6, <1>7, <1>8, <1>9, <1>10, <1>11, <1>12,
     <1>13, <1>14, <1>15, <1>16, <1>17, <1>18, <1>19, <1>20, <1>21
  DEF Next, Take, Finish

\* Every variable keeps its type: the ids in the table are 1 up to the one
\* before next_monitor_id, whatever calls are made and however they fail.
THEOREM TypeCorrect == Spec => []TypeOK
<1>1. Init => TypeOK
  <2>. SUFFICES ASSUME Init PROVE TypeOK
    OBVIOUS
  <2>1. monitors \in [1 .. nextId - 1 -> Nat]
    <3>1. monitors = << >> /\ 1 .. nextId - 1 = {}
      BY DEF Init
    <3>. QED  BY <3>1
  <2>. QED  BY <2>1 DEF Init, TypeOK, Requests, NoCmd
<1>. QED  BY <1>1, TypeStep, PTL DEF Spec

(***************************************************************************)
(* The safety invariants.  None of them is inductive alone: a caller has   *)
(* one reply owner because commands leave the channel once; a template in  *)
(* flight is current because nothing else is in flight; a call names a     *)
(* monitor of the table because its handle did when it was issued.         *)
(***************************************************************************)

\* The actor awaits one request at a time.
Serial == \A c, d \in inflight : c = d

StoppedIsEmpty == Stopped => queue = << >> /\ inflight = {}

HandlesNameMonitors == Stopped \/ held \subseteq DOMAIN monitors

PendingNamesMonitors ==
  \A c \in Pending : cmd[c].kind \in MonitorKinds => cmd[c].monitor \in DOMAIN monitors

\* The handlers that are todo!() send nothing.
InFlightImplemented == \A c \in inflight : cmd[c].kind # "unimplemented"

\* What a call asks is settled when it is made, and not before.
UnusedIsBlank == \A c \in Calls : status[c] = "unused" <=> cmd[c] = NoCmd

IInv ==
  /\ TypeOK
  /\ UnusedIsBlank
  /\ OneReplyOwner
  /\ Serial
  /\ StoppedIsEmpty
  /\ HandlesNameMonitors
  /\ PendingNamesMonitors
  /\ InFlightTemplateCurrent
  /\ InFlightImplemented
  /\ NoMonitorNotFound
  /\ DisconnectedMeansStopped
  /\ StartReservesRoom

\* What recv does to the set of calls in the channel.
LEMMA ChannelTake ==
  ASSUME NEW q \in Seq(Calls), q # << >>, IsInjective(q)
  PROVE  /\ Head(q) \in Range(q)
         /\ Range(Tail(q)) = Range(q) \ {Head(q)}
         /\ IsInjective(Tail(q))
<1>1. /\ Len(q) \in Nat \ {0} /\ DOMAIN q = 1 .. Len(q) /\ Head(q) = q[1]
      /\ DOMAIN Tail(q) = 1 .. Len(q) - 1
      /\ \A i \in 1 .. Len(q) - 1 : Tail(q)[i] = q[i + 1]
  OBVIOUS
<1>2. Head(q) \in Range(q)
  BY <1>1 DEF Range
<1>3. Range(Tail(q)) \subseteq Range(q) \ {Head(q)}
  <2>1. ASSUME NEW i \in 1 .. Len(q) - 1
        PROVE  Tail(q)[i] \in Range(q) /\ Tail(q)[i] # Head(q)
    <3>1. i + 1 \in DOMAIN q /\ 1 \in DOMAIN q /\ i + 1 # 1
      BY <1>1
    <3>. QED  BY <1>1, <3>1 DEF Range, IsInjective
  <2>. QED  BY <1>1, <2>1 DEF Range
<1>4. Range(q) \ {Head(q)} \subseteq Range(Tail(q))
  <2>1. ASSUME NEW i \in 1 .. Len(q), q[i] # Head(q)
        PROVE  q[i] \in Range(Tail(q))
    <3>1. i - 1 \in 1 .. Len(q) - 1
      BY <1>1, <2>1
    <3>2. Tail(q)[i - 1] = q[i]
      BY <1>1, <3>1
    <3>. QED  BY <1>1, <3>1, <3>2 DEF Range
  <2>. QED  BY <1>1, <2>1 DEF Range
<1>5. IsInjective(Tail(q))
  <2>1. ASSUME NEW i \in 1 .. Len(q) - 1, NEW j \in 1 .. Len(q) - 1,
               Tail(q)[i] = Tail(q)[j]
        PROVE  i = j
    <3>1. i + 1 \in DOMAIN q /\ j + 1 \in DOMAIN q /\ q[i + 1] = q[j + 1]
      BY <1>1, <2>1
    <3>2. i + 1 = j + 1
      BY <3>1 DEF IsInjective
    <3>. QED  BY <3>2
  <2>. QED  BY <1>1, <2>1 DEF IsInjective
<1>. QED  BY <1>2, <1>3, <1>4, <1>5

\* What send does to it.
LEMMA ChannelSend ==
  ASSUME NEW q \in Seq(Calls), NEW c \in Calls, c \notin Range(q), IsInjective(q)
  PROVE  Range(Append(q, c)) = Range(q) \cup {c} /\ IsInjective(Append(q, c))
<1>1. /\ Len(q) \in Nat /\ DOMAIN q = 1 .. Len(q)
      /\ DOMAIN Append(q, c) = 1 .. Len(q) + 1
      /\ \A i \in 1 .. Len(q) : Append(q, c)[i] = q[i]
      /\ Append(q, c)[Len(q) + 1] = c
  OBVIOUS
<1>2. \A i \in 1 .. Len(q) + 1 : i \in 1 .. Len(q) \/ i = Len(q) + 1
  BY <1>1
<1>3. Range(Append(q, c)) \subseteq Range(q) \cup {c}
  BY <1>1, <1>2 DEF Range
<1>4. Range(q) \cup {c} \subseteq Range(Append(q, c))
  <2>1. \A i \in 1 .. Len(q) : i \in 1 .. Len(q) + 1
    BY <1>1
  <2>2. Len(q) + 1 \in 1 .. Len(q) + 1
    BY <1>1
  <2>. QED  BY <1>1, <2>1, <2>2 DEF Range
<1>5. IsInjective(Append(q, c))
  <2>1. ASSUME NEW i \in 1 .. Len(q) + 1, NEW j \in 1 .. Len(q) + 1,
               Append(q, c)[i] = Append(q, c)[j]
        PROVE  i = j
    BY <1>1, <1>2, <2>1 DEF Range, IsInjective
  <2>. QED  BY <1>1, <2>1 DEF IsInjective
<1>. QED  BY <1>3, <1>4, <1>5

LEMMA EmptyChannel == Range(<< >>) = {} /\ IsInjective(<< >>)
BY DEF Range, IsInjective

\* Sizes wrap only beyond the width.
LEMMA WeightCovers ==
  ASSUME NEW size \in 0 .. U32Mod - 1, ~Overflows(size)
  PROVE  ReservedWeight(size) >= 4 * size
<1>1. size * 4 \in 0 .. U32Mod - 1
  BY WidthAssumption DEF Overflows
<1>2. (size * 4) % U32Mod = size * 4
  BY <1>1, WidthAssumption
<1>. QED  BY <1>1, <1>2, WidthAssumption DEF ReservedWeight

LEMMA StopPreserves ==
  ASSUME IInv, NEW reason \in StopReasons, Stop(reason), TypeOK'
  PROVE  IInv'
<1>1. Pending' = {} /\ IsInjective(queue')
  BY EmptyChannel DEF Stop, Pending
<1>2. Stopped'
  BY DEF Stop, Stopped
<1>3. {c \in Calls : status[c] = "waiting"}' = {} /\ NoMonitorNotFound'
  BY DEF Stop, IInv, TypeOK, NoMonitorNotFound
<1>4. OneReplyOwner'
  BY <1>1, <1>3 DEF OneReplyOwner, Pending
<1>5. /\ Serial' /\ StoppedIsEmpty' /\ InFlightTemplateCurrent' /\ StartReservesRoom'
      /\ PendingNamesMonitors' /\ InFlightImplemented'
  BY <1>1 DEF Stop, Serial, StoppedIsEmpty, InFlightTemplateCurrent, StartReservesRoom,
              PendingNamesMonitors, InFlightImplemented
<1>6. UnusedIsBlank'
  BY DEF Stop, callers, IInv, UnusedIsBlank
<1>. QED
  BY <1>2, <1>3, <1>4, <1>5, <1>6 DEF IInv, HandlesNameMonitors, DisconnectedMeansStopped

\* A new call either joins the channel or is refused by a dead thread.
LEMMA IssuePreserves ==
  ASSUME IInv, NEW c \in Calls, NEW request \in Requests, Issue(c, request), TypeOK',
         request.kind \in Kinds,
         Stopped \/ (request.kind \in MonitorKinds => request.monitor \in DOMAIN monitors)
  PROVE  IInv'
<1>1. c \notin Pending
  BY DEF Issue, IInv, OneReplyOwner
<1>2. /\ UNCHANGED <<phase, inflight, carried, held, monitors, nextId>>
      /\ Stopped' = Stopped
      /\ cmd' = [cmd EXCEPT ![c] = request]
  BY DEF Issue, table, Stopped
<1>3. \A d \in Calls \ {c} : cmd'[d] = cmd[d] /\ status'[d] = status[d]
  BY DEF Issue, IInv, TypeOK
<1>4. cmd'[c] = request
  BY <1>2 DEF IInv, TypeOK
<1>5. inflight \subseteq Calls \ {c}
  BY <1>1 DEF Pending, IInv, TypeOK
<1>6. Serial' /\ InFlightTemplateCurrent' /\ StartReservesRoom' /\ InFlightImplemented'
  BY <1>2, <1>3, <1>5
  DEF IInv, Serial, InFlightTemplateCurrent, StartReservesRoom, InFlightImplemented
<1>7. HandlesNameMonitors'
  BY <1>2 DEF IInv, HandlesNameMonitors
<1>8. UnusedIsBlank'
  <2>1. status'[c] # "unused"
    BY DEF Issue, IInv, TypeOK
  <2>2. cmd'[c] # NoCmd
    BY <1>4, KindsAssumption DEF NoCmd
  <2>. QED  BY <1>3, <2>1, <2>2 DEF IInv, UnusedIsBlank
<1>9. CASE Stopped
  <2>1. queue' = queue /\ status'[c] = "disconnected"
    BY <1>9 DEF Issue, IInv, TypeOK
  <2>2. Pending' = Pending
    BY <1>2, <2>1 DEF Pending
  <2>3. Pending = {}
    BY <1>9, EmptyChannel DEF IInv, StoppedIsEmpty, Pending
  <2>4. OneReplyOwner'
    BY <1>2, <1>3, <2>1, <2>2, <2>3 DEF IInv, OneReplyOwner, Pending
  <2>5. StoppedIsEmpty' /\ PendingNamesMonitors' /\ NoMonitorNotFound'
    BY <1>2, <1>3, <2>1, <2>2, <2>3
    DEF IInv, StoppedIsEmpty, PendingNamesMonitors, NoMonitorNotFound
  <2>. QED
    BY <1>2, <1>6, <1>7, <1>9, <1>8, <2>4, <2>5 DEF IInv, DisconnectedMeansStopped
<1>10. CASE ~Stopped
  <2>1. queue' = Append(queue, c) /\ status'[c] = "waiting"
    BY <1>10 DEF Issue, IInv, TypeOK
  <2>2. Range(queue') = Range(queue) \cup {c} /\ IsInjective(queue')
    BY <1>1, <2>1, ChannelSend DEF Pending, IInv, TypeOK, OneReplyOwner
  <2>3. Pending' = Pending \cup {c}
    BY <1>2, <2>2 DEF Pending
  <2>4. OneReplyOwner'
    <3>1. Range(queue') \cap inflight' = {}
      BY <1>1, <1>2, <2>2 DEF IInv, OneReplyOwner, Pending
    <3>2. Pending' \subseteq {d \in Calls : status'[d] \in {"waiting", "abandoned"}}
      BY <1>3, <2>1, <2>3 DEF IInv, OneReplyOwner
    <3>3. {d \in Calls : status'[d] = "waiting"} \subseteq Pending'
      BY <1>3, <2>3 DEF IInv, OneReplyOwner
    <3>. QED  BY <2>2, <3>1, <3>2, <3>3 DEF OneReplyOwner
  <2>5. PendingNamesMonitors'
    BY <1>1, <1>2, <1>3, <1>4, <1>10, <2>3 DEF IInv, PendingNamesMonitors, OneReplyOwner
  <2>6. StoppedIsEmpty' /\ NoMonitorNotFound' /\ DisconnectedMeansStopped'
    BY <1>2, <1>3, <1>10, <2>1
    DEF IInv, StoppedIsEmpty, NoMonitorNotFound, DisconnectedMeansStopped
  <2>. QED  BY <1>6, <1>7, <1>8, <2>4, <2>5, <2>6 DEF IInv
<1>. QED  BY <1>9, <1>10

\* Steps of callers and of start-up that touch neither the channel nor the
\* table, and at most make a waiting caller give up or a handle disappear.
LEMMA QuietPreserves ==
  ASSUME IInv, TypeOK',
         UNCHANGED <<queue, inflight, cmd, carried, table>>,
         \A c \in Calls : \/ status'[c] = status[c]
                          \/ (status[c] = "waiting" /\ status'[c] = "abandoned"),
         held' \subseteq held,
         Stopped' = Stopped
  PROVE  IInv'
<1>1. Pending' = Pending
  BY DEF Pending
<1>2. OneReplyOwner'
  BY <1>1 DEF IInv, OneReplyOwner
<1>3. /\ Serial' /\ StoppedIsEmpty' /\ HandlesNameMonitors'
      /\ InFlightTemplateCurrent' /\ StartReservesRoom' /\ InFlightImplemented'
  BY DEF IInv, Serial, StoppedIsEmpty, HandlesNameMonitors, InFlightTemplateCurrent,
         StartReservesRoom, InFlightImplemented, table
<1>4. PendingNamesMonitors'
  BY <1>1 DEF IInv, PendingNamesMonitors, table
<1>5. NoMonitorNotFound' /\ DisconnectedMeansStopped' /\ UnusedIsBlank'
  BY DEF IInv, NoMonitorNotFound, DisconnectedMeansStopped, UnusedIsBlank
<1>. QED  BY <1>2, <1>3, <1>4, <1>5 DEF IInv

LEMMA SilentPreserves ==
  ASSUME IInv, TypeOK',
         UNCHANGED <<queue, inflight, cmd, status, carried, table>>,
         held' \subseteq held,
         Stopped' = Stopped
  PROVE  IInv'
<1>1. status' = status
  OBVIOUS
<1>2. \A c \in Calls : \/ status'[c] = status[c]
                       \/ (status[c] = "waiting" /\ status'[c] = "abandoned")
  BY <1>1
<1>. QED  BY <1>2, QuietPreserves

\* A command moves from the channel to the await.
LEMMA SendPreserves ==
  ASSUME IInv, TypeOK', NEW c \in Calls, NEW payload, MayTake(c), Send(c, payload),
         cmd[c].kind # "unimplemented",
         cmd[c].kind \in {"read", "submit", "waitNext"} => payload = monitors[cmd[c].monitor],
         cmd[c].kind = "start" => /\ payload = ReservedWeight(cmd[c].size)
                                  /\ ~(OverflowChecks /\ Overflows(cmd[c].size))
  PROVE  IInv'
<1>1. c = Head(queue) /\ c \in Range(queue) /\ inflight = {} /\ inflight' = {c}
  BY ChannelTake DEF MayTake, Send, IInv, TypeOK, OneReplyOwner
<1>2. Range(queue') = Range(queue) \ {c} /\ IsInjective(queue')
  BY <1>1, ChannelTake DEF MayTake, Send, IInv, TypeOK, OneReplyOwner
<1>3. Pending' = Pending
  BY <1>1, <1>2 DEF Pending
<1>4. OneReplyOwner'
  BY <1>1, <1>2, <1>3 DEF IInv, OneReplyOwner, Send
<1>5. carried'[c] = payload /\ UNCHANGED <<phase, status, cmd, held, monitors>>
  BY DEF Send, IInv, TypeOK, callers, table
<1>6. Serial' /\ StoppedIsEmpty' /\ HandlesNameMonitors'
  BY <1>1, <1>5
  DEF IInv, Serial, StoppedIsEmpty, HandlesNameMonitors, MayTake, Stopped
<1>7. PendingNamesMonitors'
  BY <1>3, <1>5 DEF IInv, PendingNamesMonitors
<1>8. InFlightTemplateCurrent'
  BY <1>1, <1>5 DEF IInv, PendingNamesMonitors, InFlightTemplateCurrent, Pending
<1>9. StartReservesRoom'
  BY <1>1, <1>5, SizeIsU32, WeightIsNat, WeightCovers
  DEF IInv, StartReservesRoom
<1>10. /\ NoMonitorNotFound' /\ DisconnectedMeansStopped' /\ InFlightImplemented'
       /\ UnusedIsBlank'
  BY <1>1, <1>5
  DEF IInv, NoMonitorNotFound, DisconnectedMeansStopped, InFlightImplemented, UnusedIsBlank,
      Stopped
<1>. QED  BY <1>4, <1>6, <1>7, <1>8, <1>9, <1>10 DEF IInv

\* The command in flight ends with a reply; the table may have grown.
LEMMA LeavePreserves ==
  ASSUME IInv, TypeOK', NEW c \in inflight, Leave(c),
         NEW outcome \in {"ok", "rpcError", "cancelled"},
         status' = Deliver(c, outcome),
         UNCHANGED <<phase, queue, cmd>>,
         DOMAIN monitors \subseteq DOMAIN monitors',
         held' \subseteq held \cup DOMAIN monitors'
  PROVE  IInv'
<1>1. inflight' = {} /\ c \in Calls /\ c \notin Range(queue)
  BY DEF Leave, IInv, Serial, OneReplyOwner, TypeOK
<1>2. Pending' = Range(queue) /\ Pending = Range(queue) \cup {c}
  BY <1>1 DEF Pending, IInv, Serial
<1>3. /\ status'[c] = IF status[c] = "waiting" THEN outcome ELSE status[c]
      /\ \A d \in Calls \ {c} : status'[d] = status[d]
  BY <1>1 DEF Deliver, IInv, TypeOK
<1>4. status[c] \in {"waiting", "abandoned"} /\ ~Stopped
  BY <1>2 DEF IInv, OneReplyOwner, StoppedIsEmpty
<1>5. OneReplyOwner'
  <2>1. Pending' \subseteq {d \in Calls : status'[d] \in {"waiting", "abandoned"}}
    BY <1>1, <1>2, <1>3 DEF IInv, OneReplyOwner
  <2>2. {d \in Calls : status'[d] = "waiting"} \subseteq Pending'
    BY <1>1, <1>2, <1>3, <1>4 DEF IInv, OneReplyOwner
  <2>. QED  BY <1>1, <2>1, <2>2 DEF IInv, OneReplyOwner
<1>6. /\ Serial' /\ StoppedIsEmpty' /\ InFlightTemplateCurrent' /\ StartReservesRoom'
      /\ InFlightImplemented'
  BY <1>1, <1>4
  DEF IInv, Serial, StoppedIsEmpty, InFlightTemplateCurrent, StartReservesRoom,
      InFlightImplemented, Stopped
<1>7. HandlesNameMonitors'
  BY <1>4 DEF IInv, HandlesNameMonitors, Stopped
<1>8. PendingNamesMonitors'
  BY <1>2 DEF IInv, PendingNamesMonitors
<1>9. NoMonitorNotFound' /\ DisconnectedMeansStopped' /\ UnusedIsBlank'
  BY <1>1, <1>3, <1>4
  DEF IInv, NoMonitorNotFound, DisconnectedMeansStopped, UnusedIsBlank
<1>. QED  BY <1>5, <1>6, <1>7, <1>8, <1>9 DEF IInv

\* A call just taken that concerns a monitor finds it in the table.
LEMMA TakenNamesMonitor ==
  ASSUME IInv, NEW c \in Calls, MayTake(c), cmd[c].kind \in MonitorKinds
  PROVE  cmd[c].monitor \in DOMAIN monitors
<1>1. c \in Range(queue)
  BY ChannelTake DEF MayTake, IInv, TypeOK, OneReplyOwner
<1>. QED  BY <1>1 DEF IInv, PendingNamesMonitors, Pending

LEMMA InvStep == IInv /\ [Next]_vars => IInv'
<1>. SUFFICES ASSUME IInv, [Next]_vars PROVE IInv'
  OBVIOUS
<1>0. TypeOK'
  BY TypeStep DEF IInv
<1>1. ASSUME NEW c \in Calls, InvokeClient(c) PROVE IInv'
  <2>1. PICK k \in Kinds \cap ClientKinds, n \in Sizes \cup {0} :
          Issue(c, [kind |-> k, monitor |-> 0, size |-> n])
    BY <1>1 DEF InvokeClient
  <2>2. /\ [kind |-> k, monitor |-> 0, size |-> n] \in Requests
        /\ [kind |-> k, monitor |-> 0, size |-> n].kind \in Kinds \ MonitorKinds
    BY DEF Requests
  <2>. QED  BY <1>0, <2>1, <2>2, IssuePreserves
<1>2. ASSUME NEW c \in Calls, InvokeMonitor(c) PROVE IInv'
  <2>1. PICK k \in Kinds \cap MonitorKinds, m \in held :
          Issue(c, [kind |-> k, monitor |-> m, size |-> 0])
    BY <1>2 DEF InvokeMonitor
  <2>2. /\ [kind |-> k, monitor |-> m, size |-> 0] \in Requests
        /\ [kind |-> k, monitor |-> m, size |-> 0].kind \in Kinds
    BY DEF Requests, IInv, TypeOK
  <2>3. Stopped \/ m \in DOMAIN monitors
    BY DEF IInv, HandlesNameMonitors
  <2>. QED  BY <1>0, <2>1, <2>2, <2>3, IssuePreserves
<1>3. ASSUME NEW c \in Calls, Abandon(c) PROVE IInv'
  <2>1. \A d \in Calls : \/ status'[d] = status[d]
                         \/ (status[d] = "waiting" /\ status'[d] = "abandoned")
    <3>1. status' = [status EXCEPT ![c] = "abandoned"] /\ status[c] = "waiting"
      BY <1>3 DEF Abandon
    <3>2. status \in [Calls -> {"unused", "waiting", "abandoned", "ok"} \cup Failures]
      BY DEF IInv, TypeOK
    <3>. QED  BY <3>1, <3>2
  <2>. QED  BY <1>0, <1>3, <2>1, QuietPreserves DEF Abandon, callers, table, Stopped
<1>4. ASSUME NEW c \in Calls, CancelToken(c) PROVE IInv'
  BY <1>0, <1>4, SilentPreserves DEF CancelToken, Stopped
<1>5. ASSUME NEW c \in Calls, TakeClientCall(c) PROVE IInv'
  BY <1>0, <1>5, SendPreserves DEF TakeClientCall
<1>6. ASSUME NEW c \in Calls, TakeStart(c) PROVE IInv'
  BY <1>0, <1>6, StopPreserves, SendPreserves DEF TakeStart
<1>7. ASSUME NEW c \in Calls, TakeMonitorCall(c) PROVE IInv'
  <2>1. MayTake(c) /\ cmd[c].kind \in {"read", "submit", "waitNext"}
    BY <1>7 DEF TakeMonitorCall
  <2>2. Send(c, monitors[cmd[c].monitor])
    BY <1>7, <2>1, TakenNamesMonitor DEF TakeMonitorCall
  <2>. QED  BY <1>0, <2>1, <2>2, SendPreserves
<1>8. ASSUME NEW c \in Calls, TakeUnimplemented(c) PROVE IInv'
  <2>1. Stop("panicked")
    BY <1>8, TakenNamesMonitor DEF TakeUnimplemented
  <2>. QED  BY <1>0, <2>1, StopPreserves
<1>9. ASSUME NEW c \in Calls, Reply(c) PROVE IInv'
  <2>1. PICK payload \in Payloads :
          LET outcome == Extract(cmd[c].kind, payload) IN
          IF outcome = "panic" THEN Stop("panicked")
          ELSE /\ Leave(c)
               /\ status' = Deliver(c, outcome)
               /\ IF outcome = "ok" /\ cmd[c].kind \in MonitorKinds
                    THEN Told(c, carried[c]) ELSE UNCHANGED got
               /\ UNCHANGED <<phase, link, queue, callers, table>>
    BY <1>9 DEF Reply
  <2>2. CASE Extract(cmd[c].kind, payload) = "panic"
    BY <1>0, <2>1, <2>2, StopPreserves
  <2>3. CASE Extract(cmd[c].kind, payload) # "panic"
    <3>1. Extract(cmd[c].kind, payload) \in {"ok", "rpcError", "cancelled"}
      BY <2>3 DEF Extract
    <3>2. /\ c \in inflight /\ Leave(c)
          /\ status' = Deliver(c, Extract(cmd[c].kind, payload))
          /\ UNCHANGED <<phase, queue, cmd, held, monitors>>
      BY <1>9, <2>1, <2>3 DEF Reply, callers, table
    <3>. QED  BY <1>0, <3>1, <3>2, LeavePreserves
  <2>. QED  BY <2>2, <2>3
<1>10. ASSUME NEW c \in Calls, FinishCreate(c) PROVE IInv'
  BY <1>0, <1>10, LeavePreserves DEF FinishCreate, Renewed, callers
<1>11. ASSUME NEW c \in Calls, FinishStart(c) PROVE IInv'
  <2>1. DOMAIN monitors' = DOMAIN monitors \cup {nextId} /\ held' \subseteq held \cup {nextId}
    BY <1>11 DEF FinishStart, Opened
  <2>. QED  BY <1>0, <1>11, <2>1, LeavePreserves DEF FinishStart
<1>12. ASSUME NEW c \in Calls, FinishWaitNext(c) PROVE IInv'
  <2>1. cmd[c].monitor \in DOMAIN monitors
    BY <1>12 DEF FinishWaitNext, IInv, InFlightTemplateCurrent
  <2>2. status' = Deliver(c, "ok") /\ DOMAIN monitors' = DOMAIN monitors
    BY <1>12, <2>1 DEF FinishWaitNext
  <2>. QED  BY <1>0, <1>12, <2>2, LeavePreserves DEF FinishWaitNext, callers
<1>13. ASSUME NEW c \in Calls, Fail(c) PROVE IInv'
  BY <1>0, <1>13, LeavePreserves DEF Fail, callers, table
<1>14. ASSUME NEW c \in Calls, EchoCancelled(c) PROVE IInv'
  BY <1>0, <1>14, LeavePreserves DEF EchoCancelled, callers, table
<1>15. ASSUME NEW m \in held, DropMonitorClient(m) PROVE IInv'
  BY <1>0, <1>15, SilentPreserves DEF DropMonitorClient, Stopped
<1>16. CASE DropIpc
  BY <1>0, <1>16, SilentPreserves DEF DropIpc, Stopped
<1>17. CASE BootStep
  <2>1. Stopped' = Stopped
    BY <1>17 DEF BootStep, NextStage, Stopped
  <2>. QED  BY <1>0, <1>17, <2>1, SilentPreserves DEF BootStep, callers
<1>18. CASE BootFail
  BY <1>0, <1>18, StopPreserves DEF BootFail
<1>19. CASE LinkLost
  BY <1>0, <1>19, SilentPreserves DEF LinkLost, callers, Stopped
<1>20. CASE Drain
  BY <1>0, <1>20, StopPreserves DEF Drain
<1>21. CASE UNCHANGED vars
  BY <1>0, <1>21, SilentPreserves DEF vars, callers, Stopped
<1>. QED
  BY <1>1, <1>2, <1>3, <1>4, <1>5, <1>6, <1>7, <1>8, <1>9, <1>10, <1>11, <1>12,
     <1>13, <1>14, <1>15, <1>16, <1>17, <1>18, <1>19, <1>20, <1>21
  DEF Next, Take, Finish

LEMMA InvInit == Init => IInv
<1>. SUFFICES ASSUME Init PROVE IInv
  OBVIOUS
<1>1. monitors = << >> /\ 1 .. nextId - 1 = {}
  BY DEF Init
<1>2. TypeOK
  BY <1>1 DEF Init, TypeOK, Requests, NoCmd
<1>3. Pending = {} /\ IsInjective(queue)
  BY EmptyChannel DEF Init, Pending
<1>. QED
  BY <1>1, <1>2, <1>3
  DEF Init, IInv, OneReplyOwner, Serial, StoppedIsEmpty, HandlesNameMonitors,
      PendingNamesMonitors, InFlightTemplateCurrent, NoMonitorNotFound,
      InFlightImplemented, DisconnectedMeansStopped, StartReservesRoom, UnusedIsBlank,
      Stopped, Pending

LEMMA Invariance == Spec => []IInv
BY InvInit, InvStep, PTL DEF Spec

\* Every waiting caller has one live reply sender and a dead thread leaves
\* nobody waiting: no interleaving of callers, node, cancellation and failure
\* loses or duplicates a reply.
THEOREM OneReplyOwnerCorrect == Spec => []OneReplyOwner
<1>1. IInv => OneReplyOwner
  BY DEF IInv
<1>. QED  BY <1>1, Invariance, PTL

\* MonitorNotFound is never reported.
THEOREM NoMonitorNotFoundCorrect == Spec => []NoMonitorNotFound
<1>1. IInv => NoMonitorNotFound
  BY DEF IInv
<1>. QED  BY <1>1, Invariance, PTL

\* ActorDisconnected is reported only by a thread that has ended.
THEOREM DisconnectedCorrect == Spec => []DisconnectedMeansStopped
<1>1. IInv => DisconnectedMeansStopped
  BY DEF IInv
<1>. QED  BY <1>1, Invariance, PTL

\* A monitor call is always about the template its monitor holds.
THEOREM TemplateCurrentCorrect == Spec => []InFlightTemplateCurrent
<1>1. IInv => InFlightTemplateCurrent
  BY DEF IInv
<1>. QED  BY <1>1, Invariance, PTL

\* A start_monitoring request reserves enough room, for every width of the
\* product and every size, unless the product wraps unchecked.
THEOREM StartReservesRoomCorrect == Spec => []StartReservesRoom
<1>1. IInv => StartReservesRoom
  BY DEF IInv
<1>. QED  BY <1>1, Invariance, PTL

(***************************************************************************)
(* The actor implements MonitorStore.                                      *)
(***************************************************************************)
LEMMA StutterMaps ==
  ASSUME Settled' = Settled, Stopped' = Stopped, UNCHANGED <<cmd, monitors, made, got>>
  PROVE  UNCHANGED Store!storeVars
BY DEF Store!storeVars

LEMMA IssueMaps ==
  ASSUME IInv, IInv', NEW c \in Calls, NEW request, Issue(c, request)
  PROVE  Store!Refuse(c) \/ Store!Call(c)
<1>1. UNCHANGED <<monitors, made, got>> /\ Stopped' = Stopped
  BY DEF Issue, table, Stopped
<1>2. c \notin Pending /\ c \notin Settled
  BY DEF Issue, IInv, OneReplyOwner, Settled
<1>3. \A d \in Calls \ {c} : status'[d] = status[d]
  BY DEF Issue, IInv, TypeOK
<1>4. Store!Ask(c)
  <2>1. cmd[c] = NoCmd
    BY DEF Issue, IInv, UnusedIsBlank
  <2>2. cmd' \in [Calls -> Requests] /\ \A d \in Calls \ {c} : cmd'[d] = cmd[d]
    BY DEF Issue, IInv, TypeOK
  <2>3. cmd'[c] # NoCmd
    BY DEF Issue, IInv, TypeOK, UnusedIsBlank
  <2>. QED  BY <2>1, <2>2, <2>3 DEF Store!Ask
<1>5. CASE Stopped
  <2>1. Pending' = Pending /\ status'[c] = "disconnected"
    BY <1>5 DEF Issue, IInv, TypeOK, Pending
  <2>2. Settled' = Settled \cup {c}
    BY <1>2, <1>3, <2>1 DEF Settled
  <2>. QED  BY <1>1, <1>5, <1>4, <2>2 DEF Store!Refuse
<1>6. CASE ~Stopped
  <2>1. Range(queue') = Range(queue) \cup {c}
    BY <1>2, <1>6, ChannelSend DEF Issue, Pending, IInv, TypeOK, OneReplyOwner
  <2>2. Pending' = Pending \cup {c}
    BY <2>1 DEF Issue, Pending
  <2>3. Settled' = Settled
    BY <1>2, <1>3, <2>2 DEF Settled
  <2>. QED  BY <1>1, <1>4, <1>6, <2>3 DEF Store!Call
<1>. QED  BY <1>5, <1>6

\* The calls that were made are those that ask something.
LEMMA AskedIsUsed ==
  ASSUME IInv
  PROVE  Store!Asked = {c \in Calls : status[c] # "unused"}
BY DEF IInv, UnusedIsBlank, Store!Asked

LEMMA StopMaps ==
  ASSUME IInv, IInv', NEW reason \in StopReasons, ~Stopped, Stop(reason)
  PROVE  Store!Close
<1>1. Stopped' /\ monitors' = << >> /\ UNCHANGED <<cmd, made, got>>
  BY DEF Stop, Stopped, callers
<1>2. Pending' = {}
  BY EmptyChannel DEF Stop, Pending
<1>3. \A d \in Calls : status'[d] # "unused" <=> status[d] # "unused"
  BY DEF Stop
<1>4. Settled' = Store!Asked
  BY <1>2, <1>3, AskedIsUsed DEF Settled
<1>. QED  BY <1>1, <1>4 DEF Store!Close

LEMMA LeaveMaps ==
  ASSUME IInv, IInv', NEW c \in inflight, Leave(c),
         NEW outcome \in {"ok", "rpcError", "cancelled"},
         status' = Deliver(c, outcome), UNCHANGED <<phase, queue, cmd>>
  PROVE  Store!Settle(c)
<1>1. inflight' = {} /\ c \in Calls /\ c \notin Range(queue) /\ c \in Pending
  BY DEF Leave, IInv, Serial, OneReplyOwner, TypeOK, Pending
<1>2. Pending' = Pending \ {c}
  BY <1>1 DEF Pending, IInv, Serial
<1>3. status[c] \in {"waiting", "abandoned"} /\ ~Stopped /\ Stopped' = Stopped
  BY <1>1 DEF IInv, OneReplyOwner, StoppedIsEmpty, Stopped
<1>4. /\ status'[c] # "unused"
      /\ \A d \in Calls \ {c} : status'[d] = status[d]
  BY <1>1, <1>3 DEF Deliver, IInv, TypeOK
<1>5. Settled' = Settled \cup {c} /\ c \notin Settled
  BY <1>1, <1>2, <1>4 DEF Settled
<1>6. c \in Store!Asked
  BY <1>1, <1>3, AskedIsUsed
<1>. QED  BY <1>3, <1>5, <1>6 DEF Store!Settle

LEMMA ToldMaps ==
  ASSUME TypeOK, NEW c \in Calls, NEW version, Told(c, version)
  PROVE  Store!Tell(c, version)
<1>1. CASE status[c] = "waiting"
  BY <1>1 DEF Told, Store!Tell
<1>2. CASE status[c] # "waiting"
  <2>1. got' = got
    BY <1>2 DEF Told, TypeOK
  <2>. QED  BY <2>1 DEF Store!Tell
<1>. QED  BY <1>1, <1>2

\* Inserting at next_monitor_id extends the table by one entry at its end.
LEMMA OpenedIsAppend ==
  ASSUME TypeOK, NEW version \in Nat
  PROVE  Opened(version) = Append(monitors, version)
<1>1. /\ monitors \in Seq(Nat) /\ Len(monitors) = nextId - 1
      /\ nextId \in Nat \ {0} /\ DOMAIN monitors = 1 .. nextId - 1
  BY DEF TypeOK
<1>2. /\ Append(monitors, version) \in Seq(Nat)
      /\ Len(Append(monitors, version)) = nextId
      /\ \A m \in 1 .. nextId :
           Append(monitors, version)[m] = IF m = nextId THEN version ELSE monitors[m]
  BY <1>1
<1>3. /\ Opened(version) \in [1 .. nextId -> Nat]
      /\ \A m \in 1 .. nextId :
           Opened(version)[m] = IF m = nextId THEN version ELSE monitors[m]
  BY <1>1 DEF Opened, TypeOK
<1>4. Opened(version) \in Seq(Nat) /\ Len(Opened(version)) = nextId
  BY <1>1, <1>3
<1>. QED  BY <1>1, <1>2, <1>3, <1>4, SeqEqual

LEMMA InitMaps == Init => Store!Init
<1>. SUFFICES ASSUME Init PROVE Store!Init
  OBVIOUS
<1>1. Settled = {} /\ ~Stopped
  BY DEF Init, Settled, Stopped
<1>. QED  BY <1>1 DEF Init, Store!Init

LEMMA StoreStep == IInv /\ IInv' /\ [Next]_vars => [Store!Next]_(Store!storeVars)
<1>. SUFFICES ASSUME IInv, IInv', [Next]_vars
              PROVE  Store!Next \/ UNCHANGED Store!storeVars
  OBVIOUS
<1>1. ASSUME NEW c \in Calls, NEW request, Issue(c, request) PROVE Store!Next
  BY <1>1, IssueMaps DEF Store!Next
<1>2. ASSUME NEW c \in Calls, InvokeClient(c) PROVE Store!Next
  BY <1>1, <1>2 DEF InvokeClient
<1>3. ASSUME NEW c \in Calls, InvokeMonitor(c) PROVE Store!Next
  BY <1>1, <1>3 DEF InvokeMonitor
<1>4. ASSUME NEW reason \in StopReasons, ~Stopped, Stop(reason) PROVE Store!Next
  BY <1>4, StopMaps DEF Store!Next
<1>5. ASSUME UNCHANGED <<cmd, queue, inflight, status, got, table>>, Stopped' = Stopped
      PROVE  UNCHANGED Store!storeVars
  BY <1>5, StutterMaps DEF Settled, Pending, table
<1>6. ASSUME NEW c \in Calls, Abandon(c) PROVE UNCHANGED Store!storeVars
  <2>1. Settled' = Settled
    BY <1>6 DEF Abandon, Settled, Pending, IInv, TypeOK
  <2>. QED  BY <1>6, <2>1, StutterMaps DEF Abandon, callers, table, Stopped
<1>7. ASSUME NEW c \in Calls, NEW payload, MayTake(c), Send(c, payload)
      PROVE  UNCHANGED Store!storeVars
  <2>1. c \in Range(queue) /\ Range(queue') = Range(queue) \ {c}
    BY <1>7, ChannelTake DEF MayTake, Send, IInv, TypeOK, OneReplyOwner
  <2>2. Pending' = Pending
    BY <1>7, <2>1 DEF Send, Pending
  <2>3. Settled' = Settled
    BY <1>7, <2>2 DEF Send, Settled
  <2>. QED  BY <1>7, <2>3, StutterMaps DEF Send, callers, table, Stopped
<1>8. ASSUME NEW c \in Calls, Take(c) PROVE Store!Next \/ UNCHANGED Store!storeVars
  <2>1. MayTake(c) /\ ~Stopped
    BY <1>8
    DEF Take, TakeClientCall, TakeStart, TakeMonitorCall, TakeUnimplemented, MayTake, Stopped
  <2>2. cmd[c].kind \in MonitorKinds => cmd[c].monitor \in DOMAIN monitors
    BY <2>1, TakenNamesMonitor
  <2>. QED
    BY <1>4, <1>7, <1>8, <2>1, <2>2
    DEF Take, TakeClientCall, TakeStart, TakeMonitorCall, TakeUnimplemented
<1>9. ASSUME NEW c \in Calls, Reply(c) PROVE Store!Next
  <2>1. PICK payload \in Payloads :
          LET outcome == Extract(cmd[c].kind, payload) IN
          IF outcome = "panic" THEN Stop("panicked")
          ELSE /\ Leave(c)
               /\ status' = Deliver(c, outcome)
               /\ IF outcome = "ok" /\ cmd[c].kind \in MonitorKinds
                    THEN Told(c, carried[c]) ELSE UNCHANGED got
               /\ UNCHANGED <<phase, link, queue, callers, table>>
    BY <1>9 DEF Reply
  <2>2. c \in inflight /\ ~Stopped
    BY <1>9 DEF Reply, IInv, StoppedIsEmpty
  <2>3. CASE Extract(cmd[c].kind, payload) = "panic"
    BY <1>4, <2>1, <2>2, <2>3
  <2>4. CASE Extract(cmd[c].kind, payload) # "panic"
    <3>1. Extract(cmd[c].kind, payload) \in {"ok", "rpcError", "cancelled"}
      BY <2>4 DEF Extract
    <3>2. /\ Leave(c) /\ status' = Deliver(c, Extract(cmd[c].kind, payload))
          /\ UNCHANGED <<phase, queue, cmd, monitors, made>>
      BY <2>1, <2>4 DEF callers, table
    <3>3. Store!Settle(c)
      BY <2>2, <3>1, <3>2, LeaveMaps
    <3>4. CASE UNCHANGED got
      <4>1. Store!Skip(c)
        BY <3>2, <3>3, <3>4 DEF Store!Skip
      <4>. QED  BY <4>1 DEF Store!Next
    <3>5. CASE cmd[c].kind \in MonitorKinds /\ Told(c, carried[c])
      <4>1. cmd[c].kind \in {"read", "submit"} \/ cmd[c].kind = "unimplemented"
        BY <1>9, <3>5 DEF Reply, TemplateKinds
      <4>2. CASE cmd[c].kind \in {"read", "submit"}
        <5>1. /\ cmd[c].monitor \in DOMAIN monitors
              /\ carried[c] = monitors[cmd[c].monitor]
          BY <2>2, <4>2 DEF IInv, InFlightTemplateCurrent
        <5>2. Store!Read(c)
          BY <4>2, <3>2, <3>3, <3>5, <5>1, ToldMaps DEF Store!Read, IInv
        <5>. QED  BY <5>1, <5>2 DEF Store!Next
      <4>3. CASE cmd[c].kind = "unimplemented"
        BY <2>2, <4>3 DEF IInv, InFlightImplemented
      <4>. QED  BY <4>1, <4>2, <4>3
    <3>. QED  BY <2>1, <2>4, <3>4, <3>5
  <2>. QED  BY <2>3, <2>4
<1>10. ASSUME NEW c \in Calls, FinishCreate(c) PROVE Store!Next
  <2>1. Store!Settle(c) /\ Store!Tell(c, made + 1)
    BY <1>10, LeaveMaps, ToldMaps DEF FinishCreate, callers, IInv
  <2>2. Store!RenewAll(c)
    BY <1>10, <2>1 DEF FinishCreate, Renewed, Store!RenewAll
  <2>. QED  BY <2>2 DEF Store!Next
<1>11. ASSUME NEW c \in Calls, FinishStart(c) PROVE Store!Next
  <2>1. Store!Settle(c) /\ Store!Tell(c, made + 1)
    BY <1>11, LeaveMaps, ToldMaps DEF FinishStart, IInv
  <2>2. made + 1 \in Nat
    BY DEF IInv, TypeOK
  <2>3. monitors' = Append(monitors, made + 1)
    BY <1>11, <2>2, OpenedIsAppend DEF FinishStart, IInv
  <2>4. Store!Open(c)
    BY <1>11, <2>1, <2>3 DEF FinishStart, Store!Open
  <2>. QED  BY <2>4 DEF Store!Next
<1>12. ASSUME NEW c \in Calls, FinishWaitNext(c) PROVE Store!Next
  <2>1. cmd[c].monitor \in DOMAIN monitors
    BY <1>12 DEF FinishWaitNext, IInv, InFlightTemplateCurrent
  <2>2. Store!Settle(c) /\ Store!Tell(c, made + 1)
    BY <1>12, <2>1, LeaveMaps, ToldMaps DEF FinishWaitNext, callers, IInv
  <2>3. Store!Advance(c)
    BY <1>12, <2>1, <2>2 DEF FinishWaitNext, Store!Advance
  <2>. QED  BY <2>1, <2>3 DEF Store!Next
<1>13. ASSUME NEW c \in Calls, Fail(c) \/ EchoCancelled(c) PROVE Store!Next
  <2>1. Store!Settle(c) /\ UNCHANGED <<monitors, made, got>>
    BY <1>13, LeaveMaps DEF Fail, EchoCancelled, callers, table
  <2>2. Store!Skip(c)
    BY <2>1 DEF Store!Skip
  <2>. QED  BY <2>2 DEF Store!Next
<1>14. ASSUME NEW c \in Calls, CancelToken(c) PROVE UNCHANGED Store!storeVars
  BY <1>5, <1>14 DEF CancelToken, Stopped
<1>15. ASSUME NEW m \in held, DropMonitorClient(m) PROVE UNCHANGED Store!storeVars
  BY <1>5, <1>15 DEF DropMonitorClient, Stopped
<1>16. CASE DropIpc
  BY <1>5, <1>16 DEF DropIpc, Stopped
<1>17. CASE BootStep
  <2>1. Stopped' = Stopped
    BY <1>17 DEF BootStep, NextStage, Stopped
  <2>. QED  BY <1>5, <1>17, <2>1 DEF BootStep, callers
<1>18. CASE BootFail
  BY <1>4, <1>18 DEF BootFail, Stopped
<1>19. CASE LinkLost
  BY <1>5, <1>19 DEF LinkLost, callers, Stopped
<1>20. CASE Drain
  BY <1>4, <1>20 DEF Drain, Stopped
<1>21. CASE UNCHANGED vars
  BY <1>5, <1>21 DEF vars, callers, Stopped
<1>. QED
  BY <1>2, <1>3, <1>6, <1>8, <1>9, <1>10, <1>11, <1>12, <1>13, <1>14, <1>15, <1>16,
     <1>17, <1>18, <1>19, <1>20, <1>21
  DEF Next, Finish

\* Every behaviour of the actor is, seen through the table of monitors, one in
\* which calls take effect one at a time, at most once and all or nothing.
THEOREM ImplementsStore == Spec => StoreSpec
BY InitMaps, Invariance, StoreStep, PTL DEF Spec, StoreSpec, Store!Spec

(***************************************************************************)
(* The actor implements CommandLoop.                                       *)
(***************************************************************************)
LEMMA OutcomeFacts ==
  ASSUME TypeOK, NEW c \in Calls
  PROVE  /\ Outcome[c] = "waiting" <=> status[c] = "waiting"
         /\ Outcome[c] = "unused" <=> status[c] = "unused"
BY DEF Outcome, TypeOK

\* What deliver does is to answer a caller that still waits.
LEMMA Delivered ==
  ASSUME TypeOK, NEW c \in Calls,
         NEW outcome \in {"ok", "rpcError", "cancelled", "notFound"},
         status' = Deliver(c, outcome)
  PROVE  Loop!Answer(c)
BY DEF Deliver, Outcome, TypeOK, Loop!Answer

LEMMA IssueSubmits ==
  ASSUME TypeOK, NEW c \in Calls, NEW request, Issue(c, request)
  PROVE  Loop!Submit(c)
<1>1. Outcome[c] = "unused" /\ UNCHANGED <<phase, inflight>> /\ Stopped' = Stopped
  BY OutcomeFacts DEF Issue, Stopped
<1>2. CASE Stopped
  <2>1. queue' = queue /\ status' = [status EXCEPT ![c] = "disconnected"]
    BY <1>2 DEF Issue
  <2>2. Outcome' = [Outcome EXCEPT ![c] = "disconnected"]
    BY <2>1 DEF Outcome, TypeOK
  <2>. QED  BY <1>1, <1>2, <2>1, <2>2 DEF Loop!Submit
<1>3. CASE ~Stopped
  <2>1. queue' = Append(queue, c) /\ status' = [status EXCEPT ![c] = "waiting"]
    BY <1>3 DEF Issue
  <2>2. Outcome' = [Outcome EXCEPT ![c] = "waiting"]
    BY <2>1 DEF Outcome, TypeOK
  <2>. QED  BY <1>1, <1>3, <2>1, <2>2 DEF Loop!Submit
<1>. QED  BY <1>2, <1>3

LEMMA StopCloses ==
  ASSUME TypeOK, ~Stopped, NEW reason \in StopReasons, Stop(reason)
  PROVE  Loop!Close
<1>1. Stopped' /\ queue' = << >> /\ inflight' = {}
  BY DEF Stop, Stopped
<1>2. Outcome' =
        [c \in Calls |-> IF Outcome[c] = "waiting" THEN "disconnected" ELSE Outcome[c]]
  BY DEF Stop, Outcome, TypeOK
<1>3. Stopped' = TRUE
  BY DEF Stop, Stopped
<1>. QED  BY <1>1, <1>2, <1>3 DEF Loop!Close

\* The command in flight is the only one, so its reply leaves the loop idle.
LEMMA LeaveFinishes ==
  ASSUME IInv, NEW c \in inflight, Leave(c),
         NEW outcome \in {"ok", "rpcError", "cancelled"},
         status' = Deliver(c, outcome), UNCHANGED <<phase, queue>>
  PROVE  Loop!Done(c)
<1>1. c \in Calls /\ inflight' = {}
  BY DEF Leave, IInv, Serial, TypeOK
<1>2. Loop!Answer(c)
  BY <1>1, Delivered DEF IInv
<1>3. Stopped' = Stopped
  BY DEF Stopped
<1>. QED  BY <1>1, <1>2, <1>3 DEF Loop!Done

LEMMA LoopInit == Init => Loop!Init
<1>. SUFFICES ASSUME Init PROVE Loop!Init
  OBVIOUS
<1>1. queue = << >> /\ inflight = {} /\ Stopped = FALSE
  BY DEF Init, Stopped
<1>2. Outcome = [c \in Calls |-> "unused"]
  BY DEF Init, Outcome
<1>. QED  BY <1>1, <1>2 DEF Loop!Init

LEMMA LoopStep == IInv /\ [Next]_vars => [Loop!Next]_(Loop!loopVars)
<1>. SUFFICES ASSUME IInv, [Next]_vars PROVE Loop!Next \/ UNCHANGED Loop!loopVars
  OBVIOUS
<1>0. TypeOK
  BY DEF IInv
<1>1. ASSUME NEW c \in Calls, InvokeClient(c) \/ InvokeMonitor(c) PROVE Loop!Next
  BY <1>0, <1>1, IssueSubmits DEF InvokeClient, InvokeMonitor, Loop!Next
<1>2. ASSUME NEW c \in Calls, Abandon(c) PROVE Loop!Next
  <2>1. /\ status[c] = "waiting" /\ UNCHANGED <<phase, queue, inflight>>
        /\ status' = [status EXCEPT ![c] = "abandoned"]
    BY <1>2 DEF Abandon
  <2>2. Outcome' = [d \in Calls |-> IF d \in {c} THEN "abandoned" ELSE Outcome[d]]
    BY <1>0, <2>1 DEF Outcome, TypeOK
  <2>3. Outcome[c] = "waiting" /\ Stopped' = Stopped
    BY <2>1, <1>0, OutcomeFacts DEF Stopped
  <2>4. Loop!GiveUp({c})
    BY <2>1, <2>2, <2>3 DEF Loop!GiveUp
  <2>5. {c} \in SUBSET Calls
    OBVIOUS
  <2>. QED  BY <2>4, <2>5 DEF Loop!Next
<1>3. ASSUME NEW c \in Calls, MayTake(c), NEW payload, Send(c, payload) PROVE Loop!Next
  <2>1. /\ ~Stopped /\ inflight = {} /\ queue # << >> /\ c = Head(queue)
        /\ queue' = Tail(queue) /\ inflight' = {c} /\ UNCHANGED <<phase, status>>
    BY <1>3 DEF MayTake, Send, Stopped
  <2>2. Outcome' = Outcome /\ Stopped' = Stopped
    BY <2>1 DEF Outcome, Stopped
  <2>. QED  BY <2>1, <2>2 DEF Loop!Next, Loop!Begin, Loop!Free
<1>4. ASSUME NEW c \in Calls, MayTake(c), NotFound(c) PROVE Loop!Next
  <2>1. /\ ~Stopped /\ inflight = {} /\ queue # << >> /\ c = Head(queue)
        /\ queue' = Tail(queue) /\ UNCHANGED <<phase, inflight>>
    BY <1>4 DEF MayTake, NotFound, Stopped
  <2>2. Loop!Answer(c) /\ Stopped' = Stopped
    BY <1>0, <1>4, <2>1, Delivered DEF NotFound, Stopped
  <2>. QED  BY <2>1, <2>2 DEF Loop!Next, Loop!AnswerAtOnce, Loop!Free
<1>5. ASSUME NEW reason \in StopReasons, ~Stopped, Stop(reason) PROVE Loop!Next
  BY <1>0, <1>5, StopCloses DEF Loop!Next
<1>6. ASSUME NEW c \in Calls, Take(c) PROVE Loop!Next
  <2>1. MayTake(c) /\ ~Stopped
    BY <1>6
    DEF Take, TakeClientCall, TakeStart, TakeMonitorCall, TakeUnimplemented, MayTake, Stopped
  <2>. QED
    BY <1>3, <1>4, <1>5, <1>6, <2>1
    DEF Take, TakeClientCall, TakeStart, TakeMonitorCall, TakeUnimplemented
<1>7. ASSUME NEW c \in Calls, Reply(c) PROVE Loop!Next
  <2>1. PICK payload \in Payloads :
          LET outcome == Extract(cmd[c].kind, payload) IN
          IF outcome = "panic" THEN Stop("panicked")
          ELSE /\ Leave(c)
               /\ status' = Deliver(c, outcome)
               /\ IF outcome = "ok" /\ cmd[c].kind \in MonitorKinds
                    THEN Told(c, carried[c]) ELSE UNCHANGED got
               /\ UNCHANGED <<phase, link, queue, callers, table>>
    BY <1>7 DEF Reply
  <2>2. c \in inflight /\ ~Stopped
    BY <1>7 DEF Reply, IInv, StoppedIsEmpty
  <2>3. CASE Extract(cmd[c].kind, payload) = "panic"
    BY <1>5, <2>1, <2>2, <2>3
  <2>4. CASE Extract(cmd[c].kind, payload) # "panic"
    <3>1. Extract(cmd[c].kind, payload) \in {"ok", "rpcError", "cancelled"}
      BY <2>4 DEF Extract
    <3>2. Loop!Done(c)
      BY <2>1, <2>2, <2>4, <3>1, LeaveFinishes
    <3>. QED  BY <3>2 DEF Loop!Next
  <2>. QED  BY <2>3, <2>4
<1>8. ASSUME NEW c \in Calls, FinishCreate(c) \/ FinishStart(c) PROVE Loop!Next
  <2>1. Loop!Done(c)
    BY <1>8, LeaveFinishes DEF FinishCreate, FinishStart
  <2>. QED  BY <2>1 DEF Loop!Next
<1>9. ASSUME NEW c \in Calls, FinishWaitNext(c) PROVE Loop!Next
  <2>1. cmd[c].monitor \in DOMAIN monitors
    BY <1>9 DEF FinishWaitNext, IInv, InFlightTemplateCurrent
  <2>2. Loop!Done(c)
    BY <1>9, <2>1, LeaveFinishes DEF FinishWaitNext
  <2>. QED  BY <2>2 DEF Loop!Next
<1>10. ASSUME NEW c \in Calls, Fail(c) \/ EchoCancelled(c) PROVE Loop!Next
  <2>1. Loop!Done(c)
    BY <1>10, LeaveFinishes DEF Fail, EchoCancelled
  <2>. QED  BY <2>1 DEF Loop!Next
<1>11. CASE BootFail \/ Drain
  BY <1>5, <1>11 DEF BootFail, Drain, Stopped
<1>12. ASSUME UNCHANGED <<queue, inflight, status>>, Stopped' = Stopped
       PROVE  UNCHANGED Loop!loopVars
  <2>1. Outcome' = Outcome
    BY <1>12 DEF Outcome
  <2>. QED  BY <1>12, <2>1 DEF Loop!loopVars
<1>13. CASE BootStep
  <2>1. Stopped' = Stopped
    BY <1>13 DEF BootStep, NextStage, Stopped
  <2>. QED  BY <1>12, <1>13, <2>1 DEF BootStep
<1>14. CASE \/ \E c \in Calls : CancelToken(c)
            \/ \E m \in held : DropMonitorClient(m)
            \/ DropIpc \/ LinkLost \/ UNCHANGED vars
  <2>1. UNCHANGED <<phase, queue, inflight, status>>
    BY <1>14 DEF CancelToken, DropMonitorClient, DropIpc, LinkLost, vars
  <2>2. Stopped' = Stopped
    BY <2>1 DEF Stopped
  <2>. QED  BY <1>12, <2>1, <2>2
<1>. QED
  BY <1>1, <1>2, <1>6, <1>7, <1>8, <1>9, <1>10, <1>11, <1>13, <1>14 DEF Next, Finish

\* Callers see one command served at a time, in the order they were sent, and each
\* answered unless its caller gives up or the thread ends, whatever the commands
\* are and however they fail (actor.rs:453-471).
THEOREM ImplementsLoop == Spec => LoopSpec
BY LoopInit, LoopStep, Invariance, PTL DEF Spec, LoopSpec, Loop!Spec

(***************************************************************************)
(* What MonitorStore promises holds of the actor.                          *)
(***************************************************************************)
Promise == INSTANCE MonitorStoreProofs WITH
  store <- monitors, settled <- Settled, closed <- Stopped

LEMMA SameStore ==
  /\ Store!Init <=> Promise!Init
  /\ [Store!Next]_(Store!storeVars) <=> [Promise!Next]_(Promise!storeVars)
BY DEF Store!Init, Store!Next, Store!Call, Store!Refuse, Store!Open, Store!RenewAll,
       Store!Advance, Store!Read, Store!Skip, Store!Close, Store!Settle, Store!Tell, Store!Ask,
       Store!Asked, Store!storeVars,
       Promise!Init, Promise!Next, Promise!Call, Promise!Refuse, Promise!Open, Promise!RenewAll,
       Promise!Advance, Promise!Read, Promise!Skip, Promise!Close, Promise!Settle, Promise!Tell,
       Promise!Ask, Promise!Asked, Promise!storeVars

\* So are the monitors an answer is about.
LEMMA SameConcerns ==
  [\A c, d \in Calls :
     got'[c] # got[c] /\ Promise!Concerns(d, cmd[c].monitor) =>
       got[d] <= got'[c]]_(Promise!storeVars)
  => [\A c, d \in Calls :
        got'[c] # got[c] /\ Store!Concerns(d, cmd[c].monitor) =>
          got[d] <= got'[c]]_(Store!storeVars)
BY DEF Promise!Concerns, Store!Concerns, Promise!storeVars, Store!storeVars

\* Two clients of one monitor never see its template go back, whatever is queued,
\* cancelled or abandoned between their calls.
THEOREM TemplatesNeverGoBack == Spec => AnswersNeverGoBack
<1>1. Spec => Promise!AnswersNeverGoBack
  BY ImplementsStore, SameStore, Promise!NeverGoesBack, PTL
  DEF StoreSpec, Store!Spec, Promise!Spec
<1>. QED
  BY <1>1, SameConcerns, PTL
  DEF AnswersNeverGoBack, Store!AnswersNeverGoBack, Promise!AnswersNeverGoBack

\* A caller gets one answer.
THEOREM OneAnswerEach == Spec => Promise!AnsweredOnce
BY ImplementsStore, SameStore, Promise!OneAnswer, PTL
DEF StoreSpec, Store!Spec, Promise!Spec
=============================================================================
