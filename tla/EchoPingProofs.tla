--------------------------- MODULE EchoPingProofs ---------------------------
(***************************************************************************)
(* Theorems about EchoPing, for every set of calls.  The actor's part is   *)
(* taken from ActorProofs: the example only makes calls, fires tokens and  *)
(* drops its handle, so the invariant of the actor, IInv, is kept.         *)
(***************************************************************************)
EXTENDS EchoPing, ActorProofs, FiniteSetTheorems

USE DEF MonitorKinds, Failures

(***************************************************************************)
(* The inductive invariant.                                                *)
(***************************************************************************)

\* The loop is never gone from a call it has made: whoever waits is awaited.
OneWaits ==
  \A c \in Calls :
    /\ status[c] = "waiting" => awaited = c /\ at = (IF c = Bye THEN "destroy" ELSE "ping")
    /\ status[c] # "abandoned"

LoopPlace ==
  /\ at \in {"select", "ping", "destroy", "ended"}
  /\ token \in BOOLEAN
  /\ IF at = "ping" THEN awaited \in Pings /\ status[awaited] # "unused" ELSE awaited = Bye
  /\ at \in {"select", "ping"} => status[Bye] = "unused"
  /\ at = "ended" => status[Bye] # "waiting"

Made == {c \in Pings : status[c] # "unused"}

\* The pings the loop is done with.
Over == IF at = "ping" THEN Made \ {awaited} ELSE Made

Tally ==
  /\ IsFiniteSet(Made)
  /\ sent = Cardinality(Made)
  /\ lost = Cardinality({c \in Over : status[c] # "ok"})

PInv == IInv /\ OneWaits /\ LoopPlace /\ Tally

(***************************************************************************)
(* The thread.                                                             *)
(***************************************************************************)
LEMMA ThreadIsActor == Thread => Next
BY DEF Thread, Next, Take, Finish

\* All it does to a call is to end the wait of its caller.
LEMMA ThreadStatus ==
  ASSUME TypeOK, Thread, NEW c \in Calls
  PROVE  \/ status'[c] = status[c]
         \/ status[c] = "waiting" /\ status'[c] \in {"ok"} \cup Failures
<1>1. ASSUME NEW d \in Calls, NEW outcome \in {"ok"} \cup Failures,
             status' = Deliver(d, outcome)
      PROVE  \/ status'[c] = status[c]
             \/ status[c] = "waiting" /\ status'[c] \in {"ok"} \cup Failures
  BY <1>1 DEF Deliver, TypeOK
<1>2. ASSUME NEW reason, Stop(reason)
      PROVE  \/ status'[c] = status[c]
             \/ status[c] = "waiting" /\ status'[c] \in {"ok"} \cup Failures
  BY <1>2 DEF Stop
<1>3. ASSUME NEW d \in Calls, TakeClientCall(d) PROVE status' = status
  BY <1>3 DEF TakeClientCall, Send
<1>4. ASSUME NEW d \in Calls, Reply(d)
      PROVE  \/ \E reason : Stop(reason)
             \/ \E outcome \in {"ok"} \cup Failures : status' = Deliver(d, outcome)
  BY <1>4 DEF Reply, Extract
<1>5. ASSUME NEW d \in Calls, Fail(d) \/ EchoCancelled(d)
      PROVE  \E outcome \in {"ok"} \cup Failures : status' = Deliver(d, outcome)
  BY <1>5 DEF Fail, EchoCancelled
<1>6. ASSUME BootStep \/ LinkLost PROVE status' = status
  BY <1>6 DEF BootStep, LinkLost
<1>7. ASSUME BootFail \/ Drain PROVE \E reason : Stop(reason)
  BY <1>7 DEF BootFail, Drain
<1>. QED
  BY <1>1, <1>2, <1>3, <1>4, <1>5, <1>6, <1>7 DEF Thread

LEMMA ThreadPreserves ==
  ASSUME PInv, Thread, UNCHANGED <<loop, token>>
  PROVE  PInv'
<1>1. IInv'
  BY ThreadIsActor, InvStep DEF PInv
<1>2. \A c \in Calls : \/ status'[c] = status[c]
                       \/ status[c] = "waiting" /\ status'[c] \in {"ok"} \cup Failures
  BY ThreadStatus DEF PInv, IInv
<1>3. OneWaits'
  BY <1>2 DEF PInv, OneWaits, loop
<1>4. LoopPlace'
  BY <1>2, ByeAssumption DEF PInv, LoopPlace, Pings, loop
<1>5. Tally'
  <2>1. Made' = Made
    BY <1>2 DEF Made, Pings
  <2>2. Over' = Over /\ Over \subseteq Pings
    BY <2>1 DEF Over, Made, loop
  <2>3. \A c \in Over : status'[c] = status[c]
    BY <1>2, <2>2 DEF PInv, OneWaits, Over, Pings
  <2>. QED  BY <2>1, <2>2, <2>3 DEF PInv, Tally, loop
<1>. QED  BY <1>1, <1>3, <1>4, <1>5 DEF PInv

(***************************************************************************)
(* The loop.                                                               *)
(***************************************************************************)
LEMMA IssueStatus ==
  ASSUME TypeOK, NEW c \in Calls, NEW request, Issue(c, request)
  PROVE  /\ status[c] = "unused" /\ status'[c] \in {"waiting", "disconnected"}
         /\ \A d \in Calls \ {c} : status'[d] = status[d]
BY DEF Issue, TypeOK

LEMMA PingPreserves ==
  ASSUME PInv, NEW c \in Pings, Ping(c)
  PROVE  PInv'
<1>. DEFINE request == [kind |-> "echo", monitor |-> 0, size |-> 0]
<1>1. c \in Calls /\ c # Bye /\ request \in Requests /\ request.kind \in Kinds \ MonitorKinds
  BY PingKindsAssumption DEF Pings, Requests
<1>2. Issue(c, request)
  BY DEF Ping
<1>3. TypeOK'
  BY <1>1, <1>2, IssueType DEF PInv, IInv
<1>. HIDE DEF request
<1>4. IInv'
  BY <1>1, <1>2, <1>3, IssuePreserves DEF PInv
<1>5. /\ status[c] = "unused" /\ status'[c] \in {"waiting", "disconnected"}
      /\ \A d \in Calls \ {c} : status'[d] = status[d]
  BY <1>1, <1>2, IssueStatus DEF PInv, IInv
<1>6. OneWaits'
  BY <1>1, <1>5 DEF PInv, OneWaits, Ping
<1>7. LoopPlace'
  BY <1>1, <1>5, ByeAssumption DEF PInv, LoopPlace, Ping
<1>8. Tally'
  <2>1. Made' = Made \cup {c} /\ c \notin Made
    BY <1>5 DEF Made, Pings
  <2>2. Over' = Made /\ Over = Made
    BY <2>1 DEF Over, Ping
  <2>3. {d \in Over : status[d] # "ok"}' = {d \in Over : status[d] # "ok"}
    BY <1>5, <2>1, <2>2 DEF Made, Pings
  <2>. QED  BY <2>1, <2>3, FS_AddElement DEF PInv, Tally, Ping
<1>. QED  BY <1>4, <1>6, <1>7, <1>8 DEF PInv

LEMMA PingReturnsPreserves ==
  ASSUME PInv, PingReturns
  PROVE  PInv'
<1>1. IInv'
  BY InvStep DEF PInv, PingReturns
<1>2. status' = status /\ awaited \in Made /\ awaited \in Pings
  BY DEF PInv, LoopPlace, Made, PingReturns, vars
<1>3. OneWaits'
  BY <1>2 DEF PInv, OneWaits, PingReturns, Returned
<1>4. LoopPlace'
  BY <1>2 DEF PInv, LoopPlace, PingReturns
<1>5. Tally'
  <2>. DEFINE Lost == {c \in Over : status[c] # "ok"}
  <2>1. Made' = Made /\ Over' = Made /\ Over = Made \ {awaited}
    BY <1>2 DEF Made, Over, PingReturns
  <2>2. Lost' = IF status[awaited] = "ok" THEN Lost ELSE Lost \cup {awaited}
    BY <1>2, <2>1
  <2>3. IsFiniteSet(Lost) /\ awaited \notin Lost
    BY <2>1, FS_Subset DEF PInv, Tally
  <2>4. lost = Cardinality(Lost) /\ lost' = IF status[awaited] = "ok" THEN lost ELSE lost + 1
    BY DEF PInv, Tally, PingReturns
  <2>5. lost' = Cardinality(Lost')
    <3>. HIDE DEF Lost
    <3>. QED  BY <2>2, <2>3, <2>4, FS_AddElement
  <2>. QED  BY <2>1, <2>5 DEF PInv, Tally, PingReturns
<1>. QED  BY <1>1, <1>3, <1>4, <1>5 DEF PInv

LEMMA BreakPreserves ==
  ASSUME PInv, Break
  PROVE  PInv'
<1>. DEFINE request == [kind |-> "destroy", monitor |-> 0, size |-> 0]
<1>1. Bye \in Calls /\ request \in Requests /\ request.kind \in Kinds \ MonitorKinds
  BY ByeAssumption, PingKindsAssumption DEF Requests
<1>2. Issue(Bye, request)
  BY DEF Break
<1>3. TypeOK'
  BY <1>1, <1>2, IssueType DEF PInv, IInv
<1>. HIDE DEF request
<1>4. IInv'
  BY <1>1, <1>2, <1>3, IssuePreserves DEF PInv
<1>5. /\ status'[Bye] \in {"waiting", "disconnected"}
      /\ \A d \in Calls \ {Bye} : status'[d] = status[d]
  BY <1>1, <1>2, IssueStatus DEF PInv, IInv
<1>6. OneWaits'
  BY <1>5 DEF PInv, OneWaits, LoopPlace, Break
<1>7. LoopPlace'
  BY <1>5 DEF PInv, LoopPlace, Break
<1>8. Tally'
  <2>1. Made' = Made /\ Over' = Over /\ Over \subseteq Calls \ {Bye}
    BY <1>5 DEF Made, Over, Pings, Break
  <2>. QED  BY <1>5, <2>1 DEF PInv, Tally, Break
<1>. QED  BY <1>4, <1>6, <1>7, <1>8 DEF PInv

\* Ctrl+C and the end of the program change nothing the actor counts on.
LEMMA InterruptPreserves ==
  ASSUME PInv, Interrupt
  PROVE  PInv'
<1>1. TypeOK'
  BY DEF PInv, IInv, TypeOK, Interrupt, Pings, table, Requests
<1>2. IInv'
  BY <1>1, SilentPreserves DEF PInv, Interrupt, Stopped
<1>3. status' = status /\ UNCHANGED loop
  BY DEF Interrupt
<1>4. OneWaits' /\ LoopPlace'
  BY <1>3 DEF PInv, OneWaits, LoopPlace, Interrupt, loop
<1>5. Tally'
  BY <1>3 DEF PInv, Tally, Made, Over, loop
<1>. QED  BY <1>2, <1>4, <1>5 DEF PInv

LEMMA ExitPreserves ==
  ASSUME PInv, Exit
  PROVE  PInv'
<1>1. TypeOK'
  BY DEF PInv, IInv, TypeOK, Exit, table, Requests
<1>2. IInv'
  BY <1>1, SilentPreserves DEF PInv, Exit, Stopped
<1>3. status' = status /\ UNCHANGED <<awaited, sent, lost>> /\ at = "destroy" /\ at' = "ended"
  BY DEF Exit
<1>4. OneWaits' /\ LoopPlace'
  BY <1>3 DEF PInv, OneWaits, LoopPlace, Exit, Returned, Pings
<1>5. Tally'
  BY <1>3 DEF PInv, Tally, Made, Over
<1>. QED  BY <1>2, <1>4, <1>5 DEF PInv

LEMMA PingInvStep == PInv /\ [PingNext]_pingVars => PInv'
<1>. SUFFICES ASSUME PInv, [PingNext]_pingVars PROVE PInv'
  OBVIOUS
<1>1. CASE UNCHANGED pingVars
  <2>1. IInv'
    BY <1>1, InvStep DEF PInv, pingVars
  <2>2. OneWaits' /\ LoopPlace' /\ Tally'
    BY <1>1 DEF PInv, OneWaits, LoopPlace, Tally, Made, Over, pingVars, loop, vars
  <2>. QED  BY <2>1, <2>2 DEF PInv
<1>. QED
  BY <1>1, ThreadPreserves, PingPreserves, PingReturnsPreserves, BreakPreserves,
     InterruptPreserves, ExitPreserves DEF PingNext

LEMMA PingInvInit == PingInit => PInv
<1>. SUFFICES ASSUME PingInit PROVE PInv
  OBVIOUS
<1>1. IInv
  BY InvInit DEF PingInit
<1>2. Made = {} /\ Over = {}
  BY DEF PingInit, Init, Made, Over, Pings
<1>3. Tally
  BY <1>2, FS_EmptySet DEF Tally, PingInit
<1>4. OneWaits /\ LoopPlace
  BY ByeAssumption DEF OneWaits, LoopPlace, PingInit, Init
<1>. QED  BY <1>1, <1>3, <1>4 DEF PInv

LEMMA PingInvariance == PingSpec => []PInv
BY PingInvInit, PingInvStep, PTL DEF PingSpec

(***************************************************************************)
(* The properties.                                                         *)
(***************************************************************************)

\* The variables of the loop and of the actor keep their types; no more pings are
\* counted as lost than were sent.
THEOREM PingTypeCorrect == PingSpec => []PingTypeOK
<1>1. PInv => PingTypeOK
  <2>. SUFFICES ASSUME PInv PROVE PingTypeOK
    OBVIOUS
  <2>. DEFINE Lost == {c \in Over : status[c] # "ok"}
  <2>1. Lost \in SUBSET Made
    BY DEF Over
  <2>2. /\ Cardinality(Made) \in Nat /\ Cardinality(Lost) \in Nat
        /\ Cardinality(Lost) <= Cardinality(Made)
    BY <2>1, FS_Subset, FS_CardinalityType DEF PInv, Tally
  <2>3. sent \in Nat /\ lost \in 0 .. sent
    BY <2>2 DEF PInv, Tally
  <2>4. awaited \in Calls
    BY ByeAssumption DEF PInv, LoopPlace, Pings
  <2>. QED  BY <2>3, <2>4 DEF PInv, IInv, LoopPlace, PingTypeOK
<1>. QED  BY <1>1, PingInvariance, PTL

\* The actor never has two calls of the example, in the channel or out.
THEOREM OneAtATimeCorrect == PingSpec => []OneAtATime
<1>1. PInv => OneAtATime
  <2>. SUFFICES ASSUME PInv PROVE OneAtATime
    OBVIOUS
  <2>1. \A c \in Pending : c \in Calls /\ status[c] = "waiting"
    BY DEF PInv, IInv, OneReplyOwner, OneWaits
  <2>2. \A c \in Pending : at = (IF c = Bye THEN "destroy" ELSE "ping") /\ awaited = c
    BY <2>1 DEF PInv, OneWaits
  <2>3. queue \in Seq(Calls) /\ Len(queue) \in Nat /\ IsInjective(queue)
    BY DEF PInv, IInv, TypeOK, OneReplyOwner
  <2>4. \A i \in 1 .. Len(queue) : queue[i] = awaited /\ awaited \notin inflight
    <3>1. Range(queue) \subseteq Pending /\ Range(queue) \cap inflight = {}
      BY DEF Pending, PInv, IInv, OneReplyOwner
    <3>2. \A i \in 1 .. Len(queue) : queue[i] \in Range(queue)
      BY <2>3 DEF Range
    <3>. QED  BY <2>2, <3>1, <3>2
  <2>5. Len(queue) <= 1
    BY <2>3, <2>4 DEF IsInjective
  <2>6. CASE inflight = {}
    BY <2>2, <2>3, <2>5, <2>6, FS_EmptySet DEF OneAtATime
  <2>7. CASE inflight # {}
    <3>1. inflight = {awaited}
      BY <2>2, <2>7 DEF Pending
    <3>2. Len(queue) = 0
      BY <2>3, <2>4, <3>1
    <3>3. Cardinality(inflight) = 1
      BY <3>1, FS_Singleton
    <3>. QED  BY <2>2, <3>2, <3>3 DEF OneAtATime
  <2>. QED  BY <2>6, <2>7
<1>. QED  BY <1>1, PingInvariance, PTL

\* Whatever happened to each ping, the totals count every one of them once.
THEOREM TotalsCorrect == PingSpec => []TotalsAreRight
<1>1. PInv => TotalsAreRight
  <2>. SUFFICES ASSUME PInv, at # "ping" PROVE TotalsAreRight
    BY DEF TotalsAreRight
  <2>1. {c \in Over : status[c] # "ok"} = {c \in Pings : status[c] \notin {"unused", "ok"}}
    BY DEF Over, Made
  <2>. QED  BY <2>1 DEF PInv, Tally, Made, TotalsAreRight
<1>. QED  BY <1>1, PingInvariance, PTL

(***************************************************************************)
(* What the example never meets.                                           *)
(***************************************************************************)

\* Its calls start no monitor, and no answer to them can panic the thread.
Calm ==
  /\ monitors = << >>
  /\ phase # "panicked"
  /\ \A c \in Calls : cmd[c].kind \in {"none", "echo", "destroy"}

LEMMA CalmInit == PingInit => Calm
BY DEF PingInit, Init, Calm, NoCmd

LEMMA CalmThread == TypeOK /\ Calm /\ Thread => Calm'
<1>. SUFFICES ASSUME TypeOK, Calm, Thread PROVE Calm'
  OBVIOUS
<1>1. ASSUME NEW reason \in {"initFailed", "drained"}, Stop(reason) PROVE Calm'
  BY <1>1 DEF Stop, Calm, callers
<1>2. ASSUME NEW c \in Calls, TakeClientCall(c) PROVE Calm'
  BY <1>2 DEF TakeClientCall, Send, Calm, callers, table
<1>3. ASSUME NEW c \in Calls, Reply(c) PROVE Calm'
  <2>1. \A payload : Extract(cmd[c].kind, payload) # "panic"
    BY DEF Calm, Extract, BlockRefKinds
  <2>. QED  BY <1>3, <2>1 DEF Reply, Calm, callers, table
<1>4. ASSUME NEW c \in Calls, Fail(c) \/ EchoCancelled(c) PROVE Calm'
  BY <1>4 DEF Fail, EchoCancelled, Calm, callers, table
<1>5. CASE BootStep \/ LinkLost
  BY <1>5 DEF BootStep, BootStages, NextStage, LinkLost, Calm, callers, table
<1>6. CASE BootFail \/ Drain
  BY <1>1, <1>6 DEF BootFail, Drain
<1>. QED  BY <1>2, <1>3, <1>4, <1>5, <1>6 DEF Thread

LEMMA CalmStep == TypeOK /\ Calm /\ [PingNext]_pingVars => Calm'
<1>. SUFFICES ASSUME TypeOK, Calm, [PingNext]_pingVars PROVE Calm'
  OBVIOUS
<1>1. ASSUME NEW c \in Calls, NEW request, request.kind \in {"echo", "destroy"}, Issue(c, request)
      PROVE  Calm'
  <2>1. \A d \in Calls : cmd'[d] = IF d = c THEN request ELSE cmd[d]
    BY <1>1 DEF Issue, TypeOK
  <2>. QED  BY <1>1, <2>1 DEF Issue, Calm, table
<1>2. ASSUME NEW c \in Calls, Ping(c) PROVE Calm'
  BY <1>1, <1>2 DEF Ping
<1>3. CASE Break
  BY <1>1, <1>3, ByeAssumption DEF Break
<1>4. CASE Interrupt \/ PingReturns \/ Exit \/ UNCHANGED pingVars
  BY <1>4 DEF Interrupt, PingReturns, Exit, pingVars, vars, Calm, callers, table
<1>. QED  BY <1>2, <1>3, <1>4, CalmThread DEF PingNext, Pings

LEMMA StaysCalm == PingSpec => []Calm
<1>1. PInv => TypeOK
  BY DEF PInv, IInv
<1>. QED  BY <1>1, CalmInit, CalmStep, PingInvariance, PTL DEF PingSpec

\* The case in which the liveness properties of Actor promise nothing, a lost link
\* with a monitor in the table, never arises; nor does the thread panic.
THEOREM EchoNeverStarves == PingSpec => [](~Starved /\ phase # "panicked")
<1>1. Calm => ~Starved /\ phase # "panicked"
  BY DEF Calm, Starved
<1>. QED  BY <1>1, StaysCalm, PTL

\* Nothing is lost by the shorter list of actions in Thread: whatever command the
\* actor takes or finishes for this program, it does by one of them.
THEOREM ThreadIsWhole ==
  PingSpec => [][\A c \in Calls : Take(c) \/ Finish(c) => Thread]_vars
<1>1. ASSUME Calm, NEW c \in Calls, Take(c) \/ Finish(c) PROVE Thread
  BY <1>1
  DEF Calm, Take, Finish, Thread, TakeStart, TakeMonitorCall, TakeUnimplemented,
      FinishCreate, FinishStart, FinishWaitNext
<1>2. Calm => [\A c \in Calls : Take(c) \/ Finish(c) => Thread]_vars
  BY <1>1
<1>. QED  BY <1>2, StaysCalm, PTL

(***************************************************************************)
(* The example and its actor together still implement MonitorStore: what   *)
(* the program adds to Actor, one token for all pings and a counter for    *)
(* them, is invisible there.                                               *)
(***************************************************************************)
LEMMA PingStoreStep ==
  PInv /\ PInv' /\ [PingNext]_pingVars => [Store!Next]_(Store!storeVars)
<1>. SUFFICES ASSUME PInv, PInv', [PingNext]_pingVars
              PROVE  [Store!Next]_(Store!storeVars)
  OBVIOUS
<1>1. IInv /\ IInv'
  BY DEF PInv
<1>2. ASSUME NEW c \in Calls, NEW request, Issue(c, request) PROVE Store!Next
  BY <1>1, <1>2, IssueMaps DEF Store!Next
<1>3. ASSUME UNCHANGED <<phase, queue, inflight, cmd, status, got, table>>
      PROVE  UNCHANGED Store!storeVars
  BY <1>3, StutterMaps DEF Settled, Pending, Stopped, table
<1>4. CASE Thread
  BY <1>1, <1>4, ThreadIsActor, StoreStep
<1>5. CASE Interrupt \/ PingReturns \/ Exit \/ UNCHANGED pingVars
  BY <1>3, <1>5 DEF Interrupt, PingReturns, Exit, pingVars, vars, callers
<1>6. CASE Break \/ \E c \in Pings : Ping(c)
  BY <1>2, <1>6, ByeAssumption DEF Break, Ping, Pings
<1>. QED  BY <1>4, <1>5, <1>6 DEF PingNext

\* The calls of the example, destroy included, take effect one at a time, at most
\* once and all or nothing.
THEOREM PingImplementsStore == PingSpec => StoreSpec
<1>1. PingInit => Store!Init
  BY InitMaps DEF PingInit
<1>. QED
  BY <1>1, PingInvariance, PingStoreStep, PTL DEF PingSpec, StoreSpec, Store!Spec
=============================================================================
