------------------------------- MODULE System -------------------------------
(***************************************************************************)
(* The thread behind a BitcoinCapnp (spawn in actor.rs).  One LocalSet on  *)
(* a single thread polls the actor, the RpcSystem and every tip monitor,   *)
(* one at a time; a task keeps the thread until it awaits something that   *)
(* is not there.  Actor assumes that the thread takes its turns; this      *)
(* module is about when it does, above all when the link is dead and a tip *)
(* monitor retries its wait without a pause.                               *)
(*                                                                         *)
(* tokio and capnp_rpc are external, modelled from how the crate uses      *)
(* them.  Tasks are polled in the order they were woken.  A receive from   *)
(* the command channel spends the budget of the poll and yields when there *)
(* is none left; select! yields without a budget but spends nothing, and   *)
(* neither does awaiting a promise.                                        *)
(***************************************************************************)
EXTENDS Naturals, Sequences

CONSTANTS
  Calls,     \* one element per invocation of a client method
  Starts,    \* those that are start_monitoring: each names the task it spawns
  Echoes,    \* those that are echo: each comes with a CancellationToken
  Budget,    \* what a task may receive in one poll; 128 in tokio
  None

Tasks == {"main", "rpc"} \cup Starts

ASSUME CallsAssumption ==
  /\ Starts \cup Echoes \subseteq Calls
  /\ Starts \cap Echoes = {}
  /\ {"main", "rpc"} \cap Calls = {}
ASSUME BudgetAssumption == Budget \in Nat \ {0}
ASSUME NoneAssumption == None \notin Calls \cup {"main", "rpc"}

VARIABLES
  phase,     \* a stage of init_actor, "running", or why the thread ended
  handling,  \* the command handle awaits an answer for, or None
  at,        \* where the monitor task of each start_monitoring is
  req,       \* the request each task awaits: how far it has come
  link,      \* "up", "cut" (not noticed yet) or "down"
  runq,      \* tasks that have been woken
  running,   \* the task that is polled, or None
  budget,    \* what it may still receive
  channel,   \* the command channel
  status,    \* what each caller knows of its call
  cancelled, \* echoes whose token has fired
  handles    \* some handle of a client is alive

thread == <<runq, running, budget>>
clients == <<channel, status, cancelled, handles>>
vars == <<phase, handling, at, req, link, thread, clients>>

BootStages == {"connect", "construct", "makeThread", "makeMining", "makeEcho"}
StopReasons == {"initFailed", "panicked", "drained"}
Stopped == phase \in StopReasons

Pending == {"buffered", "out", "answered", "refused"}
Settled == {"ok", "error"}

Init ==
  /\ phase = "connect"
  /\ handling = None
  /\ at = [m \in Starts |-> "unborn"]
  /\ req = [t \in Tasks |-> "none"]
  /\ link = "up"
  /\ runq = <<"main">> /\ running = None /\ budget = 0
  /\ channel = << >>
  /\ status = [c \in Calls |-> "unused"]
  /\ cancelled = {}
  /\ handles = TRUE

\* Waking a task that is polled queues it again; one that is queued stays.
Queued(t) == \E i \in 1 .. Len(runq) : runq[i] = t
Woken(t) == IF Queued(t) THEN runq ELSE Append(runq, t)

(***************************************************************************)
(* The other threads, the node and the operating system, at any time.      *)
(***************************************************************************)
Issue(c) ==
  /\ handles
  /\ status[c] = "unused"
  /\ IF Stopped
       THEN status' = [status EXCEPT ![c] = "disconnected"] /\ UNCHANGED <<channel, runq>>
       ELSE /\ status' = [status EXCEPT ![c] = "waiting"]
            /\ channel' = Append(channel, c)
            /\ runq' = Woken("main")
  /\ UNCHANGED <<phase, handling, at, req, link, running, budget, cancelled, handles>>

\* The last sender goes, and with it whoever still waits.
DropHandles ==
  /\ handles
  /\ ~Stopped
  /\ handles' = FALSE
  /\ status' = [c \in Calls |-> IF status[c] = "waiting" THEN "abandoned" ELSE status[c]]
  /\ runq' = Woken("main")
  /\ UNCHANGED <<phase, handling, at, req, link, running, budget, channel, cancelled>>

\* Only await_response looks at the token, so it wakes the actor only there.
CancelToken(c) ==
  /\ c \in Echoes \ cancelled
  /\ status[c] \in {"waiting", "abandoned"}
  /\ cancelled' = cancelled \cup {c}
  /\ runq' = IF handling = c THEN Woken("main") ELSE runq
  /\ UNCHANGED <<phase, handling, at, req, link, running, budget, channel, status, handles>>

\* connect awaits the socket itself, before there is an RpcSystem.
Accept ==
  /\ phase = "connect"
  /\ req["main"] = "out"
  /\ \E answer \in Settled : req' = [req EXCEPT !["main"] = answer]
  /\ runq' = Woken("main")
  /\ UNCHANGED <<phase, handling, at, link, running, budget, clients>>

NodeAnswers(t) ==
  /\ phase # "connect"
  /\ link = "up"
  /\ req[t] = "out"
  /\ \E answer \in {"answered", "refused"} : req' = [req EXCEPT ![t] = answer]
  /\ runq' = Woken("rpc")
  /\ UNCHANGED <<phase, handling, at, link, running, budget, clients>>

LinkLost ==
  /\ phase \notin {"connect"} \cup StopReasons
  /\ link = "up"
  /\ link' = "cut"
  /\ runq' = Woken("rpc")
  /\ UNCHANGED <<phase, handling, at, req, running, budget, clients>>

(***************************************************************************)
(* The executor.                                                           *)
(***************************************************************************)
Poll ==
  /\ running = None
  /\ runq # << >>
  /\ running' = Head(runq)
  /\ runq' = Tail(runq)
  /\ budget' = Budget
  /\ UNCHANGED <<phase, handling, at, req, link, clients>>

Polled(t) == running = t

Suspend(t) ==
  /\ Polled(t)
  /\ running' = None
  /\ UNCHANGED <<phase, handling, at, req, link, runq, budget, clients>>

\* The budget is used up: the task wakes itself and is polled after the others.
Yield(t) ==
  /\ Polled(t)
  /\ budget = 0
  /\ running' = None
  /\ runq' = Woken(t)
  /\ UNCHANGED <<phase, handling, at, req, link, budget, clients>>

SpendMutant == budget' = budget - 1      \* recv does not look at the budget

Spend == budget > 0 /\ budget' = budget - 1

SentMutant == "buffered"      \* it is left to an RpcSystem that has ended

\* A request on a connection that is known to be gone has failed already.
Sent == IF link = "down" THEN "error" ELSE "buffered"
SentWakes == IF link = "down" THEN runq ELSE Woken("rpc")

Send(t) ==
  /\ req' = [req EXCEPT ![t] = Sent]
  /\ runq' = SentWakes

Stop(reason) ==
  /\ phase' = reason
  /\ handling' = None
  /\ at' = [m \in Starts |-> IF at[m] = "unborn" THEN "unborn" ELSE "ended"]
  /\ req' = [t \in Tasks |-> "none"]
  /\ runq' = << >> /\ running' = None
  /\ channel' = << >>
  /\ status' = [c \in Calls |-> IF status[c] = "waiting" THEN "disconnected" ELSE status[c]]
  /\ UNCHANGED <<link, budget, cancelled, handles>>

(***************************************************************************)
(* The RpcSystem: writes requests, hands out answers, fails every request  *)
(* when the link is gone.                                                  *)
(***************************************************************************)
Flush ==
  /\ Polled("rpc")
  /\ link = "up"
  /\ \E t \in Tasks : req[t] = "buffered"
  /\ req' = [t \in Tasks |-> IF req[t] = "buffered" THEN "out" ELSE req[t]]
  /\ UNCHANGED <<phase, handling, at, link, thread, clients>>

\* What had arrived before the end of the stream is handed out first.
Dispatch(t) ==
  /\ Polled("rpc")
  /\ link # "down"
  /\ req[t] \in {"answered", "refused"}
  /\ req' = [req EXCEPT ![t] = IF @ = "answered" THEN "ok" ELSE "error"]
  /\ runq' = Woken(t)
  /\ UNCHANGED <<phase, handling, at, link, running, budget, clients>>

Arrived == \E t \in Tasks : req[t] \in {"answered", "refused"}

Disconnect ==
  /\ Polled("rpc")
  /\ link = "cut"
  /\ ~Arrived
  /\ link' = "down"
  /\ UNCHANGED <<phase, handling, at, req, thread, clients>>

FailRequest(t) ==
  /\ Polled("rpc")
  /\ link = "down"
  /\ req[t] \in Pending
  /\ req' = [req EXCEPT ![t] = "error"]
  /\ runq' = Woken(t)
  /\ UNCHANGED <<phase, handling, at, link, running, budget, clients>>

RpcIdle ==
  /\ link # "cut"
  /\ ~Arrived
  /\ \A t \in Tasks : req[t] # "buffered" /\ (link = "down" => req[t] \notin Pending)
  /\ Suspend("rpc")

RpcStep ==
  \/ Flush \/ Disconnect \/ RpcIdle
  \/ \E t \in Tasks : Dispatch(t) \/ FailRequest(t)

(***************************************************************************)
(* The actor: init_actor, then recv and handle in turn.                    *)
(***************************************************************************)
NextStage ==
  [s \in BootStages |->
     CASE s = "connect"    -> "construct"
       [] s = "construct"  -> "makeThread"
       [] s = "makeThread" -> "makeMining"
       [] s = "makeMining" -> "makeEcho"
       [] s = "makeEcho"   -> "running"]

Booting == Polled("main") /\ phase \in BootStages

BootAsk ==
  /\ Booting
  /\ req["main"] = "none"
  /\ IF phase = "connect"
       THEN req' = [req EXCEPT !["main"] = "out"] /\ UNCHANGED runq
       ELSE Send("main")
  /\ UNCHANGED <<phase, handling, at, link, running, budget, clients>>

\* connect ends with spawn_local of the RpcSystem.
BootStep ==
  /\ Booting
  /\ req["main"] = "ok"
  /\ phase' = NextStage[phase]
  /\ req' = [req EXCEPT !["main"] = "none"]
  /\ runq' = IF phase = "connect" THEN Woken("rpc") ELSE runq
  /\ UNCHANGED <<handling, at, link, running, budget, clients>>

BootFail ==
  /\ Booting
  /\ req["main"] = "error"
  /\ Stop("initFailed")

Receiving == Polled("main") /\ phase = "running" /\ handling = None

\* deliver: a caller that has dropped its receiver learns nothing.
Deliver(c, outcome) == [status EXCEPT ![c] = IF @ = "waiting" THEN outcome ELSE @]

Take ==
  /\ Receiving
  /\ Spend
  /\ channel # << >>
  /\ handling' = Head(channel)
  /\ channel' = Tail(channel)
  /\ Send("main")
  /\ UNCHANGED <<phase, at, link, running, status, cancelled, handles>>

\* The command of a MonitorClient whose monitor is not in the table, which this
\* module leaves out, is answered without a request and without an await.
TakeNotFound ==
  /\ Receiving
  /\ Spend
  /\ channel # << >>
  /\ Head(channel) \notin Starts \cup Echoes
  /\ status' = Deliver(Head(channel), "error")
  /\ channel' = Tail(channel)
  /\ UNCHANGED <<phase, handling, at, req, link, runq, running, cancelled, handles>>

\* todo!() in a getter, the overflow in start_monitoring; in a block reference
\* that is returned, the hash that cannot be read.
Panic ==
  /\ \/ Receiving /\ budget > 0 /\ channel # << >> /\ Head(channel) \notin Echoes
     \/ /\ Polled("main")
        /\ phase = "running"
        /\ handling \notin Starts \cup Echoes
        /\ req["main"] = "ok"
  /\ Stop("panicked")

Drain ==
  /\ Receiving
  /\ budget > 0
  /\ channel = << >>
  /\ ~handles
  /\ Stop("drained")

\* The select! over an echo and its token looks at neither without a budget.
Looking ==
  /\ Polled("main")
  /\ phase = "running"
  /\ handling # None
  /\ handling \in Echoes => budget > 0

FinishMutant ==           \* an error leaves by `?` and the reply is dropped
  /\ Looking
  /\ req["main"] \in Settled
  /\ handling' = None
  /\ req' = [req EXCEPT !["main"] = "none"]
  /\ status' = Deliver(handling, IF req["main"] = "ok" THEN "ok" ELSE "disconnected")
  /\ IF handling \in Starts /\ req["main"] = "ok"
       THEN at' = [at EXCEPT ![handling] = "spawned"] /\ runq' = Woken(handling)
       ELSE UNCHANGED <<at, runq>>
  /\ UNCHANGED <<phase, link, running, budget, channel, cancelled, handles>>

\* start_monitoring spawns its task whether or not anybody waits.
Finish ==
  /\ Looking
  /\ req["main"] \in Settled
  /\ handling' = None
  /\ req' = [req EXCEPT !["main"] = "none"]
  /\ status' = Deliver(handling, req["main"])
  /\ IF handling \in Starts /\ req["main"] = "ok"
       THEN at' = [at EXCEPT ![handling] = "spawned"] /\ runq' = Woken(handling)
       ELSE UNCHANGED <<at, runq>>
  /\ UNCHANGED <<phase, link, running, budget, channel, cancelled, handles>>

\* The promise is dropped; the Finish message this sends concerns no task.
EchoCancelled ==
  /\ Looking
  /\ handling \in cancelled
  /\ handling' = None
  /\ req' = [req EXCEPT !["main"] = "none"]
  /\ status' = Deliver(handling, "error")
  /\ UNCHANGED <<phase, at, link, runq, running, budget, channel, cancelled, handles>>

ActorWaits ==
  /\ \/ phase \in BootStages /\ req["main"] \in Pending
     \/ Looking /\ req["main"] \in Pending /\ handling \notin cancelled
     \/ Receiving /\ budget > 0 /\ channel = << >> /\ handles
  /\ Suspend("main")

ActorYields == (Receiving \/ handling \in Echoes) /\ Yield("main")

ActorStep ==
  \/ BootAsk \/ BootStep \/ BootFail
  \/ Take \/ TakeNotFound \/ Panic \/ Drain
  \/ Finish \/ EchoCancelled \/ ActorWaits \/ ActorYields

(***************************************************************************)
(* A tip monitor.                                                          *)
(***************************************************************************)
GoTo(m, place) == at' = [at EXCEPT ![m] = place]

\* The requests of get_tip and of wait_tip_changed.
Ask(m) ==
  /\ Polled(m)
  /\ at[m] \in {"spawned", "ask"}
  /\ GoTo(m, IF at[m] = "spawned" THEN "getTip" ELSE "wait")
  /\ Send(m)
  /\ UNCHANGED <<phase, handling, link, running, budget, clients>>

GotTip(m) ==
  /\ Polled(m)
  /\ at[m] = "getTip"
  /\ req[m] = "ok"
  /\ GoTo(m, "ask")
  /\ req' = [req EXCEPT ![m] = "none"]
  /\ UNCHANGED <<phase, handling, link, thread, clients>>

GetTipFailsMutant(m) ==   \* the first get_tip is retried as well
  /\ Polled(m)
  /\ at[m] = "getTip"
  /\ req[m] = "error"
  /\ GoTo(m, "spawned")
  /\ req' = [req EXCEPT ![m] = "none"]
  /\ UNCHANGED <<phase, handling, link, runq, running, budget, clients>>

\* The stop token fires and the task returns.
GetTipFails(m) ==
  /\ Polled(m)
  /\ at[m] = "getTip"
  /\ req[m] = "error"
  /\ GoTo(m, "ended")
  /\ req' = [req EXCEPT ![m] = "none"]
  /\ running' = None
  /\ UNCHANGED <<phase, handling, link, runq, budget, clients>>

\* A change is broadcast, an error is logged; either way the loop asks again
\* in the same poll.
WaitReturns(m) ==
  /\ Polled(m)
  /\ at[m] = "wait"
  /\ req[m] \in Settled
  /\ GoTo(m, "ask")
  /\ req' = [req EXCEPT ![m] = "none"]
  /\ UNCHANGED <<phase, handling, link, thread, clients>>

MonitorWaits(m) == req[m] \in Pending /\ Suspend(m)

MonitorStep(m) ==
  Ask(m) \/ GotTip(m) \/ GetTipFails(m) \/ WaitReturns(m) \/ MonitorWaits(m)

(***************************************************************************)
(* The system.                                                             *)
(***************************************************************************)
Thread == Poll \/ RpcStep \/ ActorStep \/ \E m \in Starts : MonitorStep(m)

Outside ==
  \/ \E c \in Calls : Issue(c) \/ CancelToken(c)
  \/ \E t \in Tasks : NodeAnswers(t)
  \/ DropHandles \/ Accept \/ LinkLost

Next == Thread \/ Outside

\* The operating system runs the thread.  No task is promised anything.
Spec == Init /\ [][Next]_vars /\ WF_vars(Thread)

(***************************************************************************)
(* Properties.                                                             *)
(***************************************************************************)
ActorCan ==
  \/ phase \in BootStages /\ req["main"] \notin Pending
  \/ phase = "running" /\ handling # None /\ (req["main"] \in Settled \/ handling \in cancelled)
  \/ phase = "running" /\ handling = None /\ (channel # << >> \/ ~handles)

RpcCan ==
  \/ link = "cut"
  \/ /\ link = "up"
     /\ phase # "connect"
     /\ \E t \in Tasks : req[t] \in {"buffered", "answered", "refused"}

MonitorCan(m) ==
  \/ at[m] \in {"spawned", "ask"}
  \/ at[m] \in {"getTip", "wait"} /\ req[m] \in Settled

CanGoOn(t) ==
  \/ t = "main" /\ ActorCan
  \/ t = "rpc" /\ RpcCan
  \/ t \in Starts /\ MonitorCan(t)

TypeOK ==
  /\ phase \in BootStages \cup {"running"} \cup StopReasons
  /\ handling \in Calls \cup {None}
  /\ at \in [Starts -> {"unborn", "spawned", "getTip", "ask", "wait", "ended"}]
  /\ req \in [Tasks -> {"none"} \cup Pending \cup Settled]
  /\ link \in {"up", "cut", "down"}
  /\ runq \in Seq(Tasks)
  /\ \A i, j \in 1 .. Len(runq) : runq[i] = runq[j] => i = j
  /\ running \in Tasks \cup {None}
  /\ budget \in 0 .. Budget
  /\ channel \in Seq(Calls)
  /\ status \in [Calls -> {"unused", "waiting", "abandoned", "ok", "error", "disconnected"}]
  /\ cancelled \subseteq Echoes
  /\ handles \in BOOLEAN

\* A monitor whose wait cannot but fail at once.
Spinning(m) == link = "down" /\ at[m] \in {"ask", "wait"}

\* As long as no monitor spins, every task that can go on gets the thread, with
\* the others busy as they may.  This is what Scheduling of Actor assumes.
EveryTaskRuns ==
  \A t \in Tasks : CanGoOn(t) ~> Polled(t) \/ Stopped \/ \E m \in Starts : Spinning(m)

\* Losing the link releases the callers, unless there is a monitor to spin.
LinkLossReleases ==
  \A c \in Calls :
    link # "up" /\ status[c] = "waiting" ~>
      status[c] # "waiting" \/ \E m \in Starts : Spinning(m)

\* The run queue, the requests and the budgets are invisible to the callers: they
\* see the command loop that Actor implements too.
Outcome ==
  [c \in Calls |-> IF status[c] \in Settled THEN "answered" ELSE status[c]]
Loop == INSTANCE CommandLoop WITH
  queue <- channel,
  serving <- {handling} \ {None},
  status <- Outcome,
  over <- Stopped
LoopSpec == Loop!Spec

\* actor.rs:473-475 says of make_req that Cap'n Proto errors reach the caller
\* instead of being lost to the actor loop: here, that of a lost connection.
ErrorsReachCaller ==
  \A c \in Calls :
    handling = c /\ req["main"] = "error" /\ status[c] = "waiting" ~> status[c] # "waiting"
=============================================================================
