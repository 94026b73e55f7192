------------------------------- MODULE Actor -------------------------------
(***************************************************************************)
(* The actor thread of the crate (actor.rs) together with the client       *)
(* methods that talk to it (mining.rs, echo.rs).  Callers push commands    *)
(* into an unbounded FIFO channel, each with a one-shot reply channel; the *)
(* actor takes one command at a time, sends one request to the node and    *)
(* awaits its answer before it looks at the channel again.  It owns the    *)
(* table of monitors, each with its current block template.                *)
(*                                                                         *)
(* Templates are numbered in the order the node makes them.  The tip       *)
(* monitors the actor spawns are the subject of TipMonitor.                *)
(***************************************************************************)
EXTENDS Naturals, Sequences, FiniteSets, Functions

CONSTANTS
  Calls,           \* one element per invocation of a client method
  Kinds,           \* the kinds of call an instance explores
  Sizes,           \* values of coinbase_output_max_additional_size
  U32Mod,          \* number of values of a u32
  MinReserved,     \* the floor of block_reserved_weight
  OverflowChecks   \* whether the build panics on integer overflow

BootStages == {"connect", "construct", "makeThread", "makeMining", "makeEcho"}
StopReasons == {"initFailed", "panicked", "drained"}

\* Getters of a template all behave alike, and so do the two bool queries of
\* Mining and the four getters whose handler is todo!().
ClientKinds == {"flag", "getTip", "waitTip", "echo", "destroy", "create", "start"}
MonitorKinds == {"read", "submit", "waitNext", "unimplemented"}
TemplateKinds == {"create", "start", "waitNext"}
BlockRefKinds == {"getTip", "waitTip"}
InfallibleKinds == {"flag", "destroy", "submit"}

Payloads == {"value", "malformed", "badHash"}
Failures == {"rpcError", "cancelled", "disconnected", "notFound"}

ASSUME KindsAssumption == Kinds \subseteq ClientKinds \cup MonitorKinds
ASSUME WidthAssumption ==
  /\ U32Mod \in Nat \ {0}
  /\ Sizes \subseteq 0 .. U32Mod - 1
  /\ MinReserved \in Nat
ASSUME ChecksAssumption == OverflowChecks \in BOOLEAN

VARIABLES
  phase,       \* a stage of init_actor, "running", or why the thread ended
  link,        \* "up" or "lost": the UNIX socket, once connected
  queue,       \* the command channel
  inflight,    \* calls whose request the actor is awaiting
  cmd,         \* what each call asks: kind, monitor, size
  status,      \* what each caller knows of its call
  carried,     \* what the request in flight carries: a template or a weight
  monitors,    \* monitors[id] is the version of the template of monitor id
  nextId,      \* next_monitor_id
  made,        \* templates made by the node so far
  got,         \* the template version an Ok answer was about, or 0
  cancelled,   \* calls whose CancellationToken has fired
  ipc,         \* some clone of the BitcoinCapnp handle is alive
  held         \* monitors of which a MonitorClient is alive

callers == <<cmd, cancelled, ipc, held>>
table == <<monitors, nextId, made>>
vars == <<phase, link, queue, inflight, status, carried, got, callers, table>>

Stopped == phase \in StopReasons
Pending == Range(queue) \cup inflight

NoCmd == [kind |-> "none", monitor |-> 0, size |-> 0]

Init ==
  /\ phase = "connect"
  /\ link = "up"
  /\ queue = << >>
  /\ inflight = {}
  /\ cmd = [c \in Calls |-> NoCmd]
  /\ status = [c \in Calls |-> "unused"]
  /\ carried = [c \in Calls |-> 0]
  /\ monitors = << >>
  /\ nextId = 1
  /\ made = 0
  /\ got = [c \in Calls |-> 0]
  /\ cancelled = {}
  /\ ipc = TRUE
  /\ held = {}

(***************************************************************************)
(* The callers.                                                            *)
(***************************************************************************)

\* A client method builds its command and sends it; send fails exactly when
\* the receiver is gone, that is when the thread has ended.
Issue(c, request) ==
  /\ status[c] = "unused"
  /\ cmd' = [cmd EXCEPT ![c] = request]
  /\ IF Stopped
       THEN status' = [status EXCEPT ![c] = "disconnected"] /\ UNCHANGED queue
       ELSE status' = [status EXCEPT ![c] = "waiting"] /\ queue' = Append(queue, c)
  /\ UNCHANGED <<phase, link, inflight, carried, got, cancelled, ipc, held, table>>

InvokeClient(c) ==
  /\ ipc
  /\ \E k \in Kinds \cap ClientKinds :
       \E n \in IF k = "start" THEN Sizes ELSE {0} :
          Issue(c, [kind |-> k, monitor |-> 0, size |-> n])

InvokeMonitor(c) ==
  \E k \in Kinds \cap MonitorKinds, m \in held :
     Issue(c, [kind |-> k, monitor |-> m, size |-> 0])

\* The caller drops the future of its call (a timeout, a select!): the reply
\* channel closes and the command stays where it is.
Abandon(c) ==
  /\ status[c] = "waiting"
  /\ status' = [status EXCEPT ![c] = "abandoned"]
  /\ UNCHANGED <<phase, link, queue, inflight, carried, got, callers, table>>

CancelToken(c) ==
  /\ cmd[c].kind = "echo"
  /\ status[c] \in {"waiting", "abandoned"}
  /\ cancelled' = cancelled \cup {c}
  /\ UNCHANGED <<phase, link, queue, inflight, cmd, status, carried, got, ipc, held, table>>

\* Handles go away only when no call borrows them.
DropIpc ==
  /\ ipc
  /\ \A c \in Calls : status[c] = "waiting" => cmd[c].kind \in MonitorKinds
  /\ ipc' = FALSE
  /\ UNCHANGED <<phase, link, queue, inflight, cmd, status, carried, got, cancelled, held, table>>

DropMonitorClient(m) ==
  /\ m \in held
  /\ \A c \in Calls :
       status[c] = "waiting" => cmd[c].kind \notin MonitorKinds \/ cmd[c].monitor # m
  /\ held' = held \ {m}
  /\ UNCHANGED <<phase, link, queue, inflight, cmd, status, carried, got, cancelled, ipc, table>>

(***************************************************************************)
(* The thread ends: the receiver, every queued command, the future of the  *)
(* command in flight and the Actor with its table are dropped, so every    *)
(* caller that still waits on a reply channel sees it closed.              *)
(***************************************************************************)
StopMutant(reason) ==     \* the callers in the queue are forgotten
  /\ phase' = reason
  /\ status' = [c \in Calls |-> IF status[c] = "waiting" /\ c \in inflight
                                THEN "disconnected" ELSE status[c]]
  /\ queue' = << >>
  /\ inflight' = {}
  /\ carried' = [c \in Calls |-> 0]
  /\ monitors' = << >>
  /\ nextId' = 1
  /\ UNCHANGED <<link, made, got, callers>>

Stop(reason) ==
  /\ phase' = reason
  /\ status' = [c \in Calls |-> IF status[c] = "waiting"
                                THEN "disconnected" ELSE status[c]]
  /\ queue' = << >>
  /\ inflight' = {}
  /\ carried' = [c \in Calls |-> 0]
  /\ monitors' = << >>
  /\ nextId' = 1
  /\ UNCHANGED <<link, made, got, callers>>

(***************************************************************************)
(* Start-up: connect, make the server thread, make the two clients.  Each  *)
(* stage ends with an answer of the node or an error; there is no timeout. *)
(***************************************************************************)
NextStage ==
  [s \in BootStages |->
     CASE s = "connect"    -> "construct"
       [] s = "construct"  -> "makeThread"
       [] s = "makeThread" -> "makeMining"
       [] s = "makeMining" -> "makeEcho"
       [] s = "makeEcho"   -> "running"]

BootStep ==
  /\ phase \in BootStages
  /\ link = "up"
  /\ phase' = NextStage[phase]
  /\ UNCHANGED <<link, queue, inflight, status, carried, got, callers, table>>

BootFailMutant ==         \* the error is logged and the receiver kept
  /\ phase \in BootStages
  /\ phase' = "initFailed"
  /\ UNCHANGED <<link, queue, inflight, status, carried, got, callers, table>>

BootFail == phase \in BootStages /\ Stop("initFailed")

\* The node goes away.
LinkLost ==
  /\ link = "up"
  /\ phase \in {"construct", "makeThread", "makeMining", "makeEcho", "running"}
  /\ link' = "lost"
  /\ UNCHANGED <<phase, queue, inflight, status, carried, got, callers, table>>

(***************************************************************************)
(* run and handle up to the first await: take a command, send its request. *)
(***************************************************************************)
MayTakeMutant(c) == phase = "running" /\ queue # << >> /\ c = Head(queue)

\* run awaits handle before it calls recv again.
MayTake(c) ==
  /\ phase = "running"
  /\ inflight = {}
  /\ queue # << >>
  /\ c = Head(queue)

Send(c, payload) ==
  /\ queue' = Tail(queue)
  /\ inflight' = inflight \cup {c}
  /\ carried' = [carried EXCEPT ![c] = payload]
  /\ UNCHANGED <<phase, link, status, got, callers, table>>

\* deliver: a caller that has dropped its receiver learns nothing.
DeliverMutant(c, outcome) ==    \* an error leaves by `?` and drops the reply
  [status EXCEPT ![c] = IF @ # "waiting" THEN @
                        ELSE IF outcome = "rpcError" THEN "disconnected" ELSE outcome]

Deliver(c, outcome) ==
  [status EXCEPT ![c] = IF @ = "waiting" THEN outcome ELSE @]

NotFound(c) ==
  /\ queue' = Tail(queue)
  /\ status' = Deliver(c, "notFound")
  /\ UNCHANGED <<phase, link, inflight, carried, got, callers, table>>

TakeClientCall(c) ==
  /\ MayTake(c)
  /\ cmd[c].kind \in ClientKinds \ {"start"}
  /\ Send(c, 0)

\* (size * 4) as u64, floored: the product is a u32 and wraps in a build
\* without overflow checks.
ReservedWeightMutant(size) ==
  LET weight == size % U32Mod IN IF weight > MinReserved THEN weight ELSE MinReserved

ReservedWeight(size) ==
  LET weight == (size * 4) % U32Mod
  IN  IF weight > MinReserved THEN weight ELSE MinReserved

Overflows(size) == size * 4 >= U32Mod

TakeStart(c) ==
  /\ MayTake(c)
  /\ cmd[c].kind = "start"
  /\ IF OverflowChecks /\ Overflows(cmd[c].size)
       THEN Stop("panicked")
       ELSE Send(c, ReservedWeight(cmd[c].size))

\* The handler clones the template client of the monitor before it awaits.
TakeMonitorCall(c) ==
  LET m == cmd[c].monitor IN
  /\ MayTake(c)
  /\ cmd[c].kind \in {"read", "submit", "waitNext"}
  /\ IF m \in DOMAIN monitors THEN Send(c, monitors[m]) ELSE NotFound(c)

\* fetch_block_template, get_coinbase_tx, get_coinbase_commitment and
\* get_witness_commitment_index: todo!() when the monitor exists.
TakeUnimplemented(c) ==
  /\ MayTake(c)
  /\ cmd[c].kind = "unimplemented"
  /\ IF cmd[c].monitor \in DOMAIN monitors THEN Stop("panicked") ELSE NotFound(c)

(***************************************************************************)
(* handle after the await.                                                 *)
(***************************************************************************)
Leave(c) ==
  /\ inflight' = inflight \ {c}
  /\ carried' = [carried EXCEPT ![c] = 0]

Told(c, version) ==
  got' = [got EXCEPT ![c] = IF status[c] = "waiting" THEN version ELSE @]

\* The ExtractResult impls: a bool or nothing always decodes; a text or a list
\* may not; the hash of a block reference is unwrapped with expect.
Extract(kind, payload) ==
  IF payload = "badHash" /\ kind \in BlockRefKinds THEN "panic"
  ELSE IF payload = "malformed" /\ kind \notin InfallibleKinds THEN "rpcError"
  ELSE "ok"

\* make_req, for the calls that bring no template back.
Reply(c) ==
  /\ link = "up"
  /\ c \in inflight
  /\ cmd[c].kind \notin TemplateKinds
  /\ \E payload \in Payloads :
       LET outcome == Extract(cmd[c].kind, payload) IN
       IF outcome = "panic" THEN Stop("panicked")
       ELSE /\ Leave(c)
            /\ status' = Deliver(c, outcome)
            /\ IF outcome = "ok" /\ cmd[c].kind \in MonitorKinds
                 THEN Told(c, carried[c]) ELSE UNCHANGED got
            /\ UNCHANGED <<phase, link, queue, callers, table>>

RenewedMutant(version) ==     \* only the monitor opened last
  [m \in DOMAIN monitors |-> IF m = nextId - 1 THEN version ELSE monitors[m]]

Renewed(version) == [m \in DOMAIN monitors |-> version]

\* create_new_block gives its template to every monitor, then replies.
FinishCreate(c) ==
  /\ link = "up"
  /\ c \in inflight
  /\ cmd[c].kind = "create"
  /\ Leave(c)
  /\ made' = made + 1
  /\ monitors' = Renewed(made + 1)
  /\ Told(c, made + 1)
  /\ status' = Deliver(c, "ok")
  /\ UNCHANGED <<phase, link, queue, nextId, callers>>

OpenedMutant(version) ==      \* the id is advanced before the insert
  [m \in DOMAIN monitors \cup {nextId + 1} |->
     IF m = nextId + 1 THEN version ELSE monitors[m]]

Opened(version) ==
  [m \in DOMAIN monitors \cup {nextId} |-> IF m = nextId THEN version ELSE monitors[m]]

\* start_monitoring registers the monitor even if nobody awaits the reply;
\* only a delivered reply makes a MonitorClient.
FinishStart(c) ==
  /\ link = "up"
  /\ c \in inflight
  /\ cmd[c].kind = "start"
  /\ Leave(c)
  /\ made' = made + 1
  /\ monitors' = Opened(made + 1)
  /\ nextId' = nextId + 1
  /\ held' = IF status[c] = "waiting" THEN held \cup {nextId} ELSE held
  /\ Told(c, made + 1)
  /\ status' = Deliver(c, "ok")
  /\ UNCHANGED <<phase, link, queue, cmd, cancelled, ipc>>

\* wait_next looks its monitor up again before it replaces the template.
FinishWaitNext(c) ==
  LET m == cmd[c].monitor IN
  /\ link = "up"
  /\ c \in inflight
  /\ cmd[c].kind = "waitNext"
  /\ Leave(c)
  /\ IF m \in DOMAIN monitors
       THEN /\ made' = made + 1
            /\ monitors' = [monitors EXCEPT ![m] = made + 1]
            /\ Told(c, made + 1)
            /\ status' = Deliver(c, "ok")
       ELSE /\ status' = Deliver(c, "notFound")
            /\ UNCHANGED <<made, monitors, got>>
  /\ UNCHANGED <<phase, link, queue, nextId, callers>>

\* The node answers with an exception, with a response that cannot be read or
\* with no template, or the connection is gone.
Fail(c) ==
  /\ c \in inflight
  /\ Leave(c)
  /\ status' = Deliver(c, "rpcError")
  /\ UNCHANGED <<phase, link, queue, got, callers, table>>

EchoCancelledMutant(c) == FALSE     \* the token is not given to await_response

\* await_response with a token: the select! drops the promise.
EchoCancelled(c) ==
  /\ c \in inflight \cap cancelled
  /\ Leave(c)
  /\ status' = Deliver(c, "cancelled")
  /\ UNCHANGED <<phase, link, queue, got, callers, table>>

DrainMutant == FALSE    \* the actor keeps a sender of its own channel

\* recv returns None: the channel is empty and every sender is dropped.
Drain ==
  /\ phase = "running"
  /\ queue = << >>
  /\ inflight = {}
  /\ ~ipc
  /\ held = {}
  /\ Stop("drained")

(***************************************************************************)
(* The system.                                                             *)
(***************************************************************************)
Take(c) ==
  TakeClientCall(c) \/ TakeStart(c) \/ TakeMonitorCall(c) \/ TakeUnimplemented(c)

Finish(c) ==
  Reply(c) \/ FinishCreate(c) \/ FinishStart(c) \/ FinishWaitNext(c) \/ Fail(c)

Next ==
  \/ \E c \in Calls :
       \/ InvokeClient(c) \/ InvokeMonitor(c) \/ Abandon(c) \/ CancelToken(c)
       \/ Take(c) \/ Finish(c) \/ EchoCancelled(c)
  \/ \E m \in held : DropMonitorClient(m)
  \/ DropIpc \/ BootStep \/ BootFail \/ LinkLost \/ Drain

\* A tip monitor on a dead link may keep the thread to itself (System); it is
\* spawned when its monitor is put in the table, and nothing takes that out.
Starved == link = "lost" /\ monitors # << >>

\* What the runtime of the thread does by itself, whatever the node does: poll
\* the channel, see a token fire, see the connection fail.
Scheduling ==
  /\ WF_vars(~Starved /\ \E c \in Calls : Take(c))
  /\ WF_vars(~Starved /\ \E c \in Calls : EchoCancelled(c))
  /\ WF_vars(~Starved /\ link = "lost" /\ (BootFail \/ \E c \in Calls : Fail(c)))
  /\ WF_vars(~Starved /\ Drain)

Spec == Init /\ [][Next]_vars /\ Scheduling

\* The node answers every request, with a result or an error.
NodeAnswers ==
  /\ WF_vars(~Starved /\ (BootStep \/ BootFail))
  /\ WF_vars(~Starved /\ \E c \in Calls : Finish(c))

(***************************************************************************)
(* Properties.                                                             *)
(***************************************************************************)
Requests ==
  [kind : Kinds \cup {"none"}, monitor : Nat, size : Sizes \cup {0}]

TypeOK ==
  /\ phase \in BootStages \cup {"running"} \cup StopReasons
  /\ link \in {"up", "lost"}
  /\ queue \in Seq(Calls)
  /\ inflight \subseteq Calls
  /\ cmd \in [Calls -> Requests]
  /\ status \in [Calls -> {"unused", "waiting", "abandoned", "ok"} \cup Failures]
  /\ carried \in [Calls -> Nat]
  /\ nextId \in Nat \ {0}
  /\ monitors \in [1 .. nextId - 1 -> Nat]
  /\ made \in Nat
  /\ got \in [Calls -> Nat]
  /\ cancelled \subseteq Calls
  /\ ipc \in BOOLEAN
  /\ held \subseteq Nat

\* No caller is told that its monitor does not exist: a handle names a monitor
\* that is in the table for as long as the thread lives (MonitorNotFound of
\* every Monitor* arm of handle is dead code).
NoMonitorNotFound == \A c \in Calls : status[c] # "notFound"

\* A caller that still waits has exactly one reply sender alive, in the channel
\* or in the command being handled; nobody waits on a thread that has ended.
OneReplyOwner ==
  /\ IsInjective(queue)
  /\ Range(queue) \cap inflight = {}
  /\ Pending \subseteq {c \in Calls : status[c] \in {"waiting", "abandoned"}}
  /\ {c \in Calls : status[c] = "waiting"} \subseteq Pending

\* ActorDisconnected is final: it is reported only once the thread has ended,
\* never for a call of a thread that still serves others.
DisconnectedMeansStopped ==
  (\E c \in Calls : status[c] = "disconnected") => Stopped

\* What a monitor call in flight asks of the node concerns the template its
\* monitor holds now: no other command replaces it under the await.
InFlightTemplateCurrent ==
  \A c \in inflight :
    cmd[c].kind \in {"read", "submit", "waitNext"} =>
      /\ cmd[c].monitor \in DOMAIN monitors
      /\ carried[c] = monitors[cmd[c].monitor]

\* A start_monitoring request reserves room for the coinbase outputs it was
\* asked to (4 weight units a byte) unless the product wraps in a build that
\* does not check, and never less than the floor.
StartReservesRoom ==
  \A c \in inflight :
    cmd[c].kind = "start" =>
      /\ carried[c] >= MinReserved
      /\ OverflowChecks \/ ~Overflows(cmd[c].size) => carried[c] >= 4 * cmd[c].size

\* The queue, the awaits and the failures of the thread are invisible: calls
\* act on the table of monitors one at a time, at most once, all or nothing,
\* and each does there what it asked.
Settled == {c \in Calls : status[c] # "unused"} \ Pending
Store == INSTANCE MonitorStore WITH
  store <- monitors, settled <- Settled, closed <- Stopped
StoreSpec == Store!Spec

\* Whoever is told of a template is told of one no older than any that an earlier
\* caller of the same monitor, or an earlier create_new_block, was told of: a
\* renewal reaches every monitor it concerns before anybody hears of it.
AnswersNeverGoBack == Store!AnswersNeverGoBack

\* Commands are served in order, one at a time, and answered unless their caller
\* has gone or the thread ends: what System says of the same thread.
Outcome ==
  [c \in Calls |-> IF status[c] \in {"ok", "rpcError", "cancelled", "notFound"}
                   THEN "answered" ELSE status[c]]
Loop == INSTANCE CommandLoop WITH
  serving <- inflight, status <- Outcome, over <- Stopped
LoopSpec == Loop!Spec

\* The template getters return their data: mining.rs:219, 280, 292 and 304
\* document them as fetching it, and their callers see the thread die instead.
GettersAnswered ==
  \A c \in Calls :
    cmd[c].kind = "unimplemented" /\ status[c] = "disconnected" => phase # "panicked"

\* If the node answers, every call returns, the calls queued before start-up
\* has finished and those behind a failing start-up included, unless a monitor
\* is there when the link is lost.
EveryCallReturns ==
  NodeAnswers =>
    \A c \in Calls : status[c] = "waiting" ~> status[c] # "waiting" \/ Starved

\* An echo whose token fires while its request is out returns without any
\* help of the node.
CancelledEchoReleased ==
  \A c \in Calls : c \in cancelled \cap inflight ~> status[c] # "waiting" \/ Starved

\* Losing the connection releases every caller, again without the node, if there
\* is no monitor.
LinkLossReleases ==
  \A c \in Calls : link = "lost" /\ status[c] = "waiting" ~> status[c] # "waiting" \/ Starved

\* Dropping every handle ends the thread, even if calls were abandoned in the
\* channel and monitors nobody can name are still in the table.
HandlesGoneThenStopped == NodeAnswers => (~ipc /\ held = {} ~> Stopped \/ Starved)
=============================================================================
