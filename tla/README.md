# Verification of bitcoin-capnp

bitcoin-capnp is a Rust client of Bitcoin Core's Cap'n Proto IPC interface. All
Cap'n Proto objects live on one *actor thread* (`src/actor.rs`); the public
handles (`src/mining.rs`, `src/echo.rs`) send it commands over an unbounded
channel and await a one-shot reply. This directory holds TLA+ modules of that
system, TLC configurations that check them on small instances, and theorems that
TLAPS proves for every instance. Paths below are relative to the root of the
repository.

## 1. Inventory

| Component | State | Operations | Correct when |
|---|---|---|---|
| Client API: `BitcoinCapnp`, `MiningClient`, `MonitorClient`, `EchoClient` (`src/lib.rs`, `src/mining.rs`, `src/echo.rs`) | clones of the command sender; per `MonitorClient` an id and a broadcast sender; per call the receiver of its reply | one method per command, `subscribe_tip_changes`; callers may drop a call's future, a handle, or fire an echo's token | every call has one outcome, no call is forgotten, ids keep naming a monitor |
| Actor thread (`src/actor.rs`, 121-905) | command channel, table of monitors (template client, broadcast sender, stop token), `next_monitor_id`, the command being handled | `run`, `handle` with nineteen commands, `make_req`, `deliver` | calls act on the table one at a time, all or nothing; nobody waits on a dead thread |
| Start-up (`spawn`, `init_actor`, `src/libmp.rs`) | the clients built so far; commands already queue | connect, `construct`, `makeThread`, `makeMining`, `makeEcho` | callers that came early are served, or released when it fails |
| Tip monitor (`run_tip_monitor`, `src/actor.rs`, 908-1030) | `current_tip_hash`, its stop token, a broadcast channel of 16 | first `get_tip`, then `wait_tip_changed` for ever | receivers end up with the tip; the task survives failures; subscriptions end |
| Scheduling of the actor thread: one `LocalSet` runs the actor, the `RpcSystem` and all tip monitors | run queue, the task being polled, its budget, how far each request has come | poll, wake, yield | nobody is starved while no monitor retries on a dead link; callers see one command served at a time |
| Terminal UI (`examples/tui/src/main.rs`) | `AppState` (connection state, input mode, buffers, `is_waiting`, template fields, tip), one event channel, a token, the background tasks | event loop, key handlers, calls with timeouts, two calls awaited by the loop itself | it settles, answers each key, quits, and shows what is the case |
| Echo example (`examples/echo.rs`) | the loop's place, one token, counters of pings | tick, ping, Ctrl+C, `destroy` | ends after Ctrl+C, with the right totals |
| Logger example (`examples/logger.rs`) | none | a receive loop | ends on Ctrl+C or an error |
| Error type, conversions, schemas, generated code | none | | |

How they interact. A method sends a `Command` that carries a one-shot sender and
awaits the receiver. The actor takes a command, sends one request to the node
and awaits its answer before it looks at the channel again. On
`start_monitoring` it also spawns a tip monitor, a task of its own that talks to
the node directly and to receivers over a broadcast channel; the actor keeps a
sender of that channel in its table and gives one to the `MonitorClient`.

What is hard. Calls of several clients interleave with the awaits of the one
before them; a caller may give up while its command is queued or out, and the
command is executed all the same; the thread may end in a panic at any of
several points, or by a failing start-up, or because the handles are gone;
tokens race replies; the link may be lost at any time; an overrun receiver is
told so once; the task compares the tip with a hash it never refreshes.
`PROJECT.json` lists each hazard at its line, with the properties aimed at it.

## 2. Plan

| Step | Module | Role | State |
|---|---|---|---|
| 1 | `MonitorStore`, `MonitorStoreProofs` | abstract: monitors as one atomic table; what its callers may rely on | done |
| 1 | `Actor`, `MCActor`, `ActorProofs` | clients, channel, start-up, `run`/`handle`; implements `MonitorStore`; safety proved | done |
| 2 | `TipMonitor`, `MCTipMonitor`, `TipMonitorProofs` | one monitor task, broadcast channel, receivers | done |
| 3 | `System`, `MCSystem`, `SystemProofs` | the thread the actor, the `RpcSystem` and several tip monitors share | done |
| 3 | `CommandLoop` | abstract: the command loop as its callers see it; `Actor` and `System` both implement it | done |
| 4 | `TipFeed`, `TipHistory`, `MCTipHistory`, `TipHistoryProofs` | abstract: the log a receiver is promised; `TipMonitor` with its history implements it | done |
| 5 | `Tui`, `MCTui`, `TuiProofs` | the event loop of the terminal UI and its tasks | done |
| 6 | `TuiInput`, `SolutionForm`, `MCSolutionForm`, `SolutionFormProofs` | what is typed in the UI's input modes | done |
| 7 | `EchoPing`, `MCEchoPing`, `EchoPingProofs` | the echo example, composed with `Actor` | done |
| 8 | the logger's Ctrl+C | a receiver of `TipMonitor` that also watches a token | open, of little consequence |

How the modules hang together: `TipHistory` extends `TipMonitor` and
instantiates `TipFeed`; `Actor` instantiates `MonitorStore`; `Actor` and
`System` instantiate `CommandLoop`; `EchoPing` extends `Actor`; `Tui` and
`SolutionForm` share `TuiInput`. `System` justifies the scheduling that `Actor`
and `TipMonitor` assume (section 5).

## 3. What is modelled

### `Actor`

One element of `Calls` is one invocation of a client method. The nineteen
commands fall into eleven kinds whose handlers are alike: `flag`
(`is_test_chain`, `is_initial_block_download`), `getTip`, `waitTip`, `echo`,
`destroy`, `create`, `start`, `read` (five getters of a template that work),
`submit`, `waitNext`, `unimplemented` (four getters whose handler is `todo!()`).

| Variable | In the code |
|---|---|
| `phase` | where `init_actor` is, `run`, or how the thread ended |
| `link` | the UNIX socket under the `RpcSystem` |
| `queue` | `cmd_rx` |
| `inflight` | the command `handle` is awaiting for; a set, so that "at most one" is a fact to be proved and not a type |
| `cmd`, `status`, `got` | a call's arguments, what its caller knows, the template the answer was about |
| `carried` | the template client a handler cloned, or the reserved weight it computed, as sent in the request |
| `monitors`, `nextId` | the fields of `Actor`; templates are numbered in the order the node makes them (`made`) |
| `cancelled` | tokens of echoes that have fired |
| `ipc`, `held` | some `BitcoinCapnp`, `MiningClient` or `EchoClient` is alive; the monitors whose `MonitorClient` is |

An action ends where the code awaits. `Take*` is `recv` and `handle` up to the
request (a missing monitor, an overflow or a `todo!()` ends there); `Reply`,
`FinishCreate`, `FinishStart`, `FinishWaitNext`, `Fail` and `EchoCancelled` are
the rest of the handler, with its `deliver`. `Stop` is the end of the thread,
with everything it drops: by a failed start-up, a panic, or the channel running
dry. `Abandon` is a caller dropping its future; the borrow of a handle by its
call's future is why `DropIpc` and `DropMonitorClient` wait for the calls.

Abstractions. A decodable answer, a malformed one and one whose block hash
cannot be read are the three payloads; their bytes are not modelled. All errors
that reach a caller as `CapnpError` or `IoError` are `rpcError`. `u32` has
`U32Mod` values. A panic ends the thread (the default, unwinding, strategy); the
build chooses between a panic and wrapping on overflow (`OverflowChecks`).
Filling a request cannot fail, so the error of `send_request` is one with that
of the answer (`Fail`).

### `MonitorStore`

What the actor promises about monitors: a table and calls that each take effect
at one instant, at most once, or not at all, and there do what they asked: a
`create` renews every monitor, a `waitNext` only its own. When it closes, every
call that was made and is pending fails without an answer, and a call made after
that fails at once. `Actor` implements it with `store` the table, `closed` the
end of the thread and `settled` the calls that were made and are neither in the
channel nor in flight (`StoreSpec`). What clients may rely on is stated here,
over the table alone: `AnswersNeverGoBack`, that nobody is told of a template of
a monitor older than one an earlier caller was told of, and `AnsweredOnce`.

### `CommandLoop`

What callers see of `run`, `handle` and `deliver`, whatever a command is and
whenever the thread gets to it: commands are served in the order they were sent,
one at a time, and answered, some as they are taken (`MonitorNotFound`); a
caller may give up at any time, and its command is served all the same; when the
thread ends, whoever waits is told that the actor is gone, and so is every call
made later. `Actor` knows what a command does and takes for granted that the
thread gets to it; `System` knows when the thread does and not what the command
is. That both implement this module (`LoopSpec` in each) ties the two views of
one thread together: they agree on every step a caller can observe.

### `TipMonitor`

One task, its broadcast channel and its receivers; the chain and the node are
external: the node answers `wait_tip_changed` when the tip differs from the hash
it was given, or, with the same hash, at the timeout. `ring` holds what the
channel retains and `unread` how far behind each receiver is (`Cap + 1` is
"lagged"); an event sent while nobody is subscribed is kept by nobody. The
senders are those of the task while it runs, of the actor's table and of the
`MonitorClient`s (`TaskSends`, `actor`, `client`): with none left, a receiver
that has drained what it has ends. `Resilient` receivers go on after
`Err(Lagged)`; the others behave as the terminal UI and the logger do and end.
`client` is whether a `MonitorClient` is alive, FALSE from the start when the
caller of `start_monitoring` had given up.

Monitors share nothing but the node and the thread, so one monitor is modelled.
`ActorEnds` may happen at any time: it stands for every way `Actor` reaches a
stop.

### `TipFeed` and `TipHistory`

`TipFeed` is what a receiver is promised: a log of all events, a cursor of each
receiver into it, and a skip only where the receiver is told of one. Each event
is a tip the node has had since the event before it. `TipHistory` adds to
`TipMonitor` the log and the set of recent tips, neither of which the task has,
and maps a receiver's cursor to the length of the log less what it has not read:
the ring, the counters and the overrun of the tokio channel then implement the
log (`FeedPromise`). `MaxEvents` bounds the log for TLC; it constrains the added
variables only, and the proof holds for every value of it.

### `System`

The thread itself. A task is the actor (`main`, start-up included), the
`RpcSystem` (`rpc`) or the tip monitor that a `start_monitoring` has spawned;
`at` says where each monitor is. `runq` is the executor's queue: `Poll` takes
its head, `Suspend` gives the thread back, a wake-up appends. Everything the
other threads and the node do (`Outside`) may fall between any two steps of a
poll. A request moves from `buffered` (in the `RpcSystem`) to `out` (at the
node), `answered` or `refused` (in the socket) and to `ok` or `error` (at its
task). Losing the link is first unnoticed (`cut`); answers that had arrived
before the end of the stream are still handed out, then every request fails, and
those sent later fail at once. The budget tokio gives a poll is spent by `recv`
only: `select!` asks whether there is any left and spends none, and awaiting a
promise does neither. A tip monitor whose wait fails asks again in the same
poll, so on a dead link nothing ever makes it give the thread back.

A command ends in every way it does in the code: with the answer to its request,
with an error, by the token of an echo (`EchoCancelled`; the token wakes the
actor only while that echo is out), without a request (`TakeNotFound`), or with
the thread (`Panic`, as it is taken or as its answer is read). What the requests
mean is left to `Actor` and `TipMonitor`. tokio and `capnp_rpc` are
external; their part is modelled from what the crate calls. That the `LocalSet`
polls the actor first in each of its ticks, and the spawned tasks after it, is
abstracted to one queue in the order of waking.

### `Tui`, `TuiInput`, `SolutionForm`

`Tui` is the event loop of the terminal UI with every task that feeds it: the
keyboard, the connection with its limit of ten seconds, the node information,
the tip, and one task for each key that calls the node. `events` is their
channel, `loop` is what the loop awaits (`select`, or one of the two calls it
awaits itself: `fetch` for `fetch_template`, `submit` for `submit_solution`). A
press names the call it makes, so a report names the press it answers. `select!`
prefers nothing: with the token fired, the loop may still handle what is queued.
`Scripts` are the sequences of keys an instance explores; the theorems hold for
any set of sequences.

The actor behind the calls is any that carries a call out at most once
(`Execute`, which may come after its caller has given up) and refuses, answers
or ignores it. That includes the actor as it is: one of the getters
`fetch_template` awaits is a `todo!()`, so at this commit each later call is
refused (`ActorGetters` below); the properties of the UI hold of that case, and
will of the one where the getter is written.

`SolutionForm` is the typing: what each field takes, Backspace, Enter, and how
the buffers become a solution. Its property compares the solution with a second
reading of the session, made from the keys alone: which characters survive the
backspaces, and which `u32` they denote. `TuiInput` holds the modes and their
order, which both modules use.

### `EchoPing`

The echo example as a client of `Actor`: the loop, the one token its pings
share, the counters, and the `destroy` after the loop. Its calls are `Issue`s of
`Actor`, and the thread's actions are those of `Actor` unchanged (`Thread`);
abandoned calls do not occur, because the example never drops a future.

A definition whose name ends in `Mutant` is not part of the specification: it
stands before the definition it alters and is what that definition would be
under a plausible mistake in the code. Each checked property is violated when
one of them takes its original's place.

## 4. The runs

| Run | Instance | Shows |
|---|---|---|
| `ActorSafety` | 4 calls of `create`, `start`, `waitNext`, `read`, `submit`; sizes 3 and 5 of a 4-bit `u32`, no overflow checks | `TypeOK`, `NoMonitorNotFound`, `InFlightTemplateCurrent`, `OneReplyOwner`, `DisconnectedMeansStopped`, `StartReservesRoom`; `StoreSpec`, `LoopSpec`, `AnswersNeverGoBack` |
| `ActorReturns` | 3 calls of `echo`, `waitTip`, `start`, `unimplemented`; sizes 1 and 4, overflow checks | `CancelledEchoReleased`, `LinkLossReleases`; `EveryCallReturns` and `HandlesGoneThenStopped` if the node answers; all unless the link is lost with a monitor there |
| `TipMonitorSafety` | 2 tips, 2 receivers, one resilient, channel of 2, 5 events | `TypeOK`, `StopIsEnd`; `LoopNeverLeft`, `FeedPromise` |
| `TipMonitorLive` | 3 tips, 2 receivers, one resilient, channel of 1 | `ReceiversConverge`, `SubscriptionsEnd` |
| `System` | a `start_monitoring`, so up to 1 monitor, an echo, another call; budget of 1 | `TypeOK`; `EveryTaskRuns`, `LinkLossReleases`, `LoopSpec` |
| `Tui` | 6 scripts of up to 5 keys, 2 getters, 1 piece of information, 1 tip change | `TypeOK`, `FormHasMonitor`, `SpinnerHasCall`, `OneTemplateShown`, `OneReport`; `ConnectSettles`, `PressAnswered`, `QuitKeyQuits`, `TipShown` |
| `SolutionForm` | sessions of up to 8 keys, three characters, a 3-bit `u32` | `TypeOK`, `SubmittedAsTyped` |
| `EchoPing` | 4 pings and `destroy` | `PingTypeOK`, `OneAtATime`, `TotalsAreRight`; `TokenReleasesPing`, `LinkLossEnds`; `InterruptEnds` if the node answers |
| `ActorGetters` | 2 calls | violation of `GettersAnswered` |
| `SystemLinkLoss` | 1 `start_monitoring`, 1 other call | violation of `ErrorsReachCaller` |
| `TipMonitorChanges` | 2 tips | violation of `EventsAreChanges` |
| `TuiEsc` | the keys s, Esc | violation of `EscCancelsInput` |

Four runs end in a counterexample, each against a sentence of the code's own
documentation or display.

* `ActorGetters`: the getters documented at `src/mining.rs` 219, 280, 292 and
  304 reach `todo!()` (`src/actor.rs` 686, 764, 774, 784). The panic ends the
  thread; their caller and all others get `ActorDisconnected`. The terminal UI
  calls one of them as soon as it is connected.
* `SystemLinkLoss`: `src/actor.rs` 473-475 says of `make_req` that Cap'n Proto
  errors reach the caller instead of being lost to the actor loop. When the link
  is lost with a monitor there, its loop (962-996) sends the wait again, is told
  at once that the connection is gone, logs it and sends again, without an await
  that suspends. If it is polled before the actor, the error the actor has
  already been given never reaches its caller, nor does anything after it.
* `TipMonitorChanges`: `src/mining.rs` 76 says a `TipChange` is emitted when the
  tip changes. `current_tip_hash` (`src/actor.rs` 952) is never replaced, so
  after one change every wait returns at once and the same tip is sent again.
* `TuiEsc`: the status line of an open field says "Esc=cancel"
  (`examples/tui/src/main.rs` 972), and `handle_input_mode` has an arm for it
  (500-503). `handle_key` looks for quit keys first, and Esc is one (320, 330):
  in an open field it quits the program.

What the runs show beside that, where the code has no document to disagree with:
an entry of `monitors` is never removed; an echo that still waits in the channel
is not released by its token; the `expect` at `src/mining.rs` 24 turns
a block reference that cannot be read into the end of the thread, which releases
everyone; a receiver of a task whose first `get_tip` failed is never told; the
spinner of the UI may stop before the wait it stands for is over, though it
never turns without one; and the template fields, never refetched, stay those of
the first template while later keys renew it. `OneTemplateShown` holds because
the loop fetches them at once when it is connected, before it handles any key
that renews the template. That the loop awaits them is also why the UI is deaf
to its quit keys while it awaits them; the comment at `main.rs` 247 ("in
background") is about the node information, the template is fetched by the loop.

Bounds. In `Actor` the calls bound everything: ids, versions and the channel
grow only with calls. Four calls are two to set a scene (two monitors, or a
monitor and a handle dropped), one in flight and one queued behind it; the
conflicts the properties are about need no more. Three calls are enough for the
liveness runs: one in flight, one queued, one abandoned or cancelled. The proofs
remove the bound for the safety properties. With `U32Mod` = 16 and `MinReserved`
= 3, a size of 1 stays above the floor, 3 is just short of the overflow, 4 at it
(a panic where overflow is checked) and 5 beyond it, where the product wraps;
`StartReservesRoom` is proved for all widths and sizes.

In `TipMonitor` the tip moves for ever among two or three hashes: three let a
tip differ both from the base and from the event before, two contain the
reorganisation back to the base. A channel of one or two events instead of 16
makes lag happen early; what matters is only that it is finite. Five events
overrun a channel of two twice.

In `System` there is one call of each sort that the thread treats in a way of
its own: a `start_monitoring`, whose monitor is a third task beside the actor
and the `RpcSystem`; an echo, which is awaited with a budget and a token; and
one that is neither. A second `start_monitoring` in place of the third call,
and with it a fourth task, has four times the states and satisfies the same
properties, in five minutes; it is not kept as a run. A budget of one has the
actor yield between any two commands and, by itself, where it waits. In `Tui`
one change of the tip is broadcast, so that the "or a later one" of `TipShown`
does not come up; two take longer than a run should. The sessions
of `MCTui` are chosen so that each key meets the one it conflicts with: the form
filled, the form closed by a quit key with a wait pending behind it, call keys
in pairs, a quit key with a call out. Two getters are the fewest that have a
step between them. In `SolutionForm` eight keys are the four Enters a session
needs and four more: enough for an erased character, two digits in a field, an
overflow of the 3-bit `u32`, a byte of coinbase and half of one, a backspace
that takes a character typed before one already erased, and a session begun
after another. In `EchoPing` each ping ends before the next is sent; four
let one be answered, one refused, one cancelled and one be sent after the token
has fired.

Where a run says `CHECK_DEADLOCK FALSE` the system really stops: once the calls
or keys of the instance are used up and the thread, the program or the session
is over, nothing is left to do. The monitor runs check for it.

## 5. Fairness

In `Actor` and `TipMonitor`, `Scheduling` is part of `Spec` and is what the
thread's runtime does by itself: it polls the channel when the actor is free,
the `select!` when a token fires, and every pending promise with an error once
the connection is gone; tokio wakes a receiver that has something to receive.
That no task of the thread holds it for ever is not assumed of the thread but
shown of it: the only fairness of `System` is `WF_vars(Thread)`, that the
operating system runs it, and `EveryTaskRuns` says that each task that can go on
is polled, as long as no monitor retries on a dead link. There it is false
(`SystemLinkLoss`), and so `Actor` promises nothing there: its fairness, and
`NodeAnswers`, hold only while not `Starved`, which is that the link is lost and
a monitor was started, and its liveness properties end in `\/ Starved`. That
takes more than is lost (a monitor may have ended before, or the actor be polled
first) and never less. `TipMonitor` is fair while its own link is up; its
receivers run on other threads and stay fair. Callers, tokens, drops, the link
and the chain have no fairness.

`NodeAnswers` is an assumption on the node: in `Actor`, each stage of start-up
and each request ends with a result or an error (nothing in the crate limits the
wait). It stands in the properties that need it, `EveryCallReturns`,
`HandlesGoneThenStopped` and `InterruptEnds`, as the hypothesis of an
implication; `CancelledEchoReleased`, `LinkLossReleases`, `TokenReleasesPing`
and `LinkLossEnds` do without it, on purpose. In `TipMonitor` it is part of
`LiveSpec`: not every request fails. `KeepsUp`, also there, says that a receiver
returns from `recv` with an event again and again. It is needed: since the waits
return at once after the first change, the task can overrun a receiver each time
it has recovered from `Lagged`.

In `Tui`, `Scheduling` says that the loop takes its turns, the keyboard task
sees the token and timers fire; no answer of the node is assumed.
`LoopCallsReturn`, in `LiveSpec`, is what the program lacks a timer for: the
getters of `fetch_template` and `submit_solution` return. It presumes a node
that answers and a link that is not lost: the UI always has a monitor, so what
is said of `Starved` above is its case too. Without it `PressAnswered`,
`QuitKeyQuits` and `TipShown` fail while the loop awaits them, as the hazard at
`main.rs` 287 says.

In `EchoPing`, `LoopRuns` is the loop's turn. `Break` needs strong fairness: the
token competes with the tick in a `select!` that draws its branch anew each
time, and between two draws the loop is in a ping, where the branch is not
enabled.

## 6. Proofs

`ActorProofs` proves, for every set of calls, kinds and sizes, every width and
floor and both kinds of build:

| Theorem | Statement |
|---|---|
| `TypeCorrect` | `Spec => []TypeOK` |
| `OneReplyOwnerCorrect` | `Spec => []OneReplyOwner` |
| `NoMonitorNotFoundCorrect` | `Spec => []NoMonitorNotFound` |
| `DisconnectedCorrect` | `Spec => []DisconnectedMeansStopped` |
| `TemplateCurrentCorrect` | `Spec => []InFlightTemplateCurrent` |
| `StartReservesRoomCorrect` | `Spec => []StartReservesRoom` |
| `ImplementsStore` | `Spec => StoreSpec` |
| `ImplementsLoop` | `Spec => LoopSpec` |
| `TemplatesNeverGoBack` | `Spec => AnswersNeverGoBack` |
| `OneAnswerEach` | `Spec => AnsweredOnce` of `MonitorStore` |

They follow from one inductive invariant, `IInv`. Beside the properties
themselves it needs: that at most one command is in flight and only while `run`
runs (`Serial`), from which no second command can touch the table under an
await; that a thread that ended left channel, table and awaits empty
(`StoppedIsEmpty`); that handles, and through them every command in the channel
or in flight, name ids in the table (`HandlesNameMonitors`,
`PendingNamesMonitors`), which is what makes `MonitorNotFound` unreachable; that
no command whose handler is `todo!()` is ever in flight (`InFlightImplemented`);
and, for the refinement, that a call says what it asks when it is made, not
before and not again (`UnusedIsBlank`).
`TypeOK` says that the table's domain is exactly `1 .. nextId - 1`, so a fresh
id never hides an old one. The refinement maps each action to one step of the
store or to a stutter; a panic or a failed start-up is `Close` with all pending
calls settled. So does the one to `CommandLoop`, which needs `Serial`: a reply
leaves the loop with nothing to serve.

`MonitorStoreProofs` proves `AnswersNeverGoBack` and `AnsweredOnce` of the table
by itself, for every set of calls and requests, and `ActorProofs` carries them
over the refinement by instantiating that module: about the channel, the awaits
and the failures of the thread nothing has to be said again. The invariant,
`SInv`, says that nothing is newer than the newest template (`Newest`), that
only a call that was made has taken effect and only one that has is answered
(`Answered`), that a monitor someone was told about is in the table as long as
there is one (`Known`), and that it holds a template at least as new as any told
about it (`Current`). The answer to a `start_monitoring` is an upper bound of
the earlier ones and is not itself a lower bound of the later ones: its caller
learns the id from it, and the call does not name it.

`TipMonitorProofs` proves `TypeOK` (the channel never retains more than `Cap`
events), `StopIsEnd` and `LoopNeverLeft` for every set of tips and receivers and
every capacity. `TypeOK` needs `Retained`: an overrun receiver is behind a full
channel, and any other by no more than the channel retains, so `recv` never
reads past its end. `StopIsEnd` is inductive together with `TypeOK`: once `stop`
holds, `pc` is `stopped`, from which only the end of the thread leads anywhere.

`TipHistoryProofs` proves the refinement, `MonitorImplementsFeed == HSpec =>
FeedPromise`, for every set of tips and receivers and every capacity. The
invariant, `HInv`, adds to that of `TipMonitor` that the ring is the end of the
log and no receiver is further behind than the log is long (`RingIsTail`), and
`AnswerIsRecent`: the answer on its way to the channel is a tip the node has had
since the last event, which the guard of `TipFeed`'s `Publish` asks for.

`SystemProofs` proves `TypeOK` and the refinement, `ImplementsLoop == Spec =>
LoopSpec`, for every number of calls, monitors and echoes and every budget.
Whatever a task does with the run queue, its budget or a request is a stutter of
the loop; the steps of the actor are its steps, and `TypeOK` is invariant enough
for that, because `handling` is one command by its type.

`TuiProofs` proves `TypeOK`, `FormHasMonitor`, `SpinnerHasCall`,
`OneTemplateShown` and `OneReport` for every set of presses, every set of
scripts and every number of getters. Two invariants carry them. `ConnInv`: the
connection is reported at most once (`OneOutcome`), and, `Linked`, that before
it there is no form, no call and no field, with it there is a monitor, and while
the getters run no call has been made, so that what they read is of the template
the monitor has now. `CallInv`: a press that is still in the channel has made no
call and is there once (`KeysOnce`), from which a call is spawned once, ends
once and is reported once. `SpinnerHasCall` uses both: a wait without a monitor
would turn the spinner on with no call behind it, and `ConnInv` says there is
none.

`EchoPingProofs` proves `PingTypeOK`, `OneAtATime` and `TotalsAreRight` for
every number of pings. The actor's part is not proved again: the program's steps
issue calls, fire tokens and drop a handle, so `IInv` is kept by lemmas of
`ActorProofs`, and `PInv` adds where the loop is (`LoopPlace`), that whoever
waits is the call the loop awaits (`OneWaits`), and that the counters are those
of the pings the loop is done with (`Tally`). Three more theorems justify the
composition. `ThreadIsWhole`: the shorter list of the thread's actions leaves
out none that these calls can cause. `EchoNeverStarves`: with no monitor in the
table the case in which `Actor` promises no liveness never arises, and no answer
panics the thread. `PingImplementsStore`: the example with its actor implements
`MonitorStore` too.

`SolutionFormProofs` proves `TypeOK` and `SubmittedAsTyped` for every set of
characters, every width and sessions of every length. The induction principle of
the library takes a predicate as a parameter, which the provers cannot
instantiate; `SetInduction` states it for sets of numbers instead, and follows
from the naturals being well-founded. `Recursion` gives from it, once, the
function that a step from one number to the next defines, and `TensFacts` and
`ValueFacts` the recursive functions of `SolutionForm`. `OneReading` says that a
number below a power of ten has one decimal numeral of that many digits, and
`ParseIsDecimal` that the fold over the digits and the second reading agree.

The other half is which characters survive. The invariant, `FInv`, gives each
character of a buffer a place in the session (`Spelled`): the places are those
the second reading keeps, and in the open field the characters the field took
after a place are as many as the backspaces after it and the characters after it
in the buffer (`Erasable`). That is the discipline of a stack: one more
backspace takes the last place and no other. `Place` counts the Enters, so that
no field reads another's keys, and has the fields still to come empty; `Digits`
says what is in a buffer is what its field takes; `Sent`, that a solution is
made of the buffers as they are.

The assumptions are those of the modules: `Kinds` are kinds (in `EchoPing`,
`echo` and `destroy` are among them, and `Bye` is a call), `Sizes` are values of
the `u32`, `U32Mod`, `Cap` and `Budget` are positive, `None` is none of the
values it stands beside, `Starts` and `Echoes` are calls and none is both,
`Scripts` are sequences of keys, presses are positive numbers, there is at least
one getter, `Chars` are values of hex digits or `NotHex`, and the bound of a
session is a number.

Every invariant and every safety property of steps that a run checks is proved.
Model-checked only: liveness (`EveryCallReturns`, `CancelledEchoReleased`,
`LinkLossReleases` in both `Actor` and `System`, `HandlesGoneThenStopped`,
`ReceiversConverge`, `SubscriptionsEnd`, `EveryTaskRuns`, `ConnectSettles`,
`PressAnswered`, `QuitKeyQuits`, `TipShown`, `TokenReleasesPing`,
`LinkLossEnds`, `InterruptEnds`), which rests on fairness and is out of the
proof system's reach. `AnsweredOnce` is proved only: it follows from
`StoreSpec`, which `ActorSafety` checks.

## 7. Not modelled

* The drawing code of the terminal UI (`ui` and what it calls) and its `Render`
  events: they read `AppState` and change none of it. Its message log and the
  raw mode of the terminal. That a `Render` event is sent every 33 ms while the
  loop awaits a call is listed as a hazard and not modelled.
* The logger's Ctrl+C; its receive loop is a receiver of `TipMonitor`.
* The argument check and the log lines of the echo example.
* The bytes of blocks and messages, and the meaning of a template, a solution or
  a fee threshold: the node is a choice of answers.
* The error variants nothing constructs, and the conversions to builders, which
  set fields and keep no state.
* The schemas, the generated code, the re-exports of the proxy and the build
  script.
* Recovery: nothing persists. A client that wants a new connection makes a new
  `BitcoinCapnp`, which is a new behaviour of the same specification.
