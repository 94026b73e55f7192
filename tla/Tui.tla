-------------------------------- MODULE Tui --------------------------------
(***************************************************************************)
(* The event loop of the terminal UI (examples/tui/src/main.rs).  Tasks    *)
(* for the keyboard, the connection, the node's information, the tip and   *)
(* each key that calls the node put events into one unbounded channel; the *)
(* loop handles one event at a time, and two handlers await calls of their *)
(* own inside it.                                                          *)
(*                                                                         *)
(* The actor behind the calls is any that answers a call at most once: it  *)
(* may refuse, be silent or, as Actor shows of one of the getters called   *)
(* here, end, and then it refuses everything.  What is typed in the input  *)
(* modes is the subject of SolutionForm.                                   *)
(***************************************************************************)
EXTENDS Naturals, Sequences, TuiInput

CONSTANTS
  Presses,    \* bound: key presses, numbered; each names the call it makes
  Scripts,    \* the sequences of keys an instance explores
  Getters,    \* the getters fetch_template awaits; seven in the code
  MaxInfo,    \* the node information sent as results; three in the code
  MaxTips,    \* bound: tip changes
  None

QuitKeys == {"q", "ctrlC", "esc"}
CallKeys == {"r", "e", "w", "d"}
OtherKeys == {"s", "enter", "char"}

AllKeys == QuitKeys \cup CallKeys \cup OtherKeys

ASSUME ScriptsAssumption == Scripts \subseteq Seq(AllKeys)
ASSUME BoundsAssumption ==
  Getters \in Nat \ {0} /\ MaxInfo \in Nat /\ MaxTips \in Nat
ASSUME PressesAssumption == Presses \subseteq Nat \ {0} /\ None \notin Presses

VARIABLES
  conn,       \* connection_state
  monitor,    \* state.monitor is Some
  mode,       \* input_mode
  waiting,    \* is_waiting
  tip,        \* the last TipChange shown, or 0
  fields,     \* the template versions the fields of the display come from
  loop,       \* what main_loop awaits, or "ended"
  fetched,    \* getters fetch_template is done with
  events,     \* the channel
  cancel,     \* the CancellationToken of the program
  keyboard,   \* the keyboard task runs
  connector,  \* the task that calls start_monitoring
  info,       \* the task that asks for the node's information
  feed,       \* the task that forwards tip changes
  fed,        \* tip changes it has forwarded
  key,        \* what each press pressed
  call,       \* the task each press has spawned
  executed,   \* calls the actor has carried out
  template    \* version of the monitor's template at the actor

display == <<conn, monitor, mode, waiting, tip, fields>>
control == <<loop, fetched>>
tasks == <<keyboard, connector, info, feed, fed>>
calls == <<key, call, executed, template>>
vars == <<display, control, events, cancel, tasks, calls>>

Event(type, press, n) == [type |-> type, press |-> press, tip |-> n]
Plain(type) == Event(type, None, 0)

Init ==
  /\ conn = "connecting" /\ monitor = FALSE
  /\ mode = "Normal" /\ waiting = FALSE /\ tip = 0 /\ fields = {}
  /\ loop = "select" /\ fetched = 0
  /\ events = << >> /\ cancel = FALSE
  /\ keyboard = TRUE /\ connector = "calling" /\ info = "none"
  /\ feed = "none" /\ fed = 0
  /\ key = [p \in Presses |-> "none"]
  /\ call = [p \in Presses |-> "none"]
  /\ executed = {} /\ template = 0

\* Every task is dropped when main returns.
Running == loop # "ended"

(***************************************************************************)
(* The user and the tasks beside the loop.                                 *)
(***************************************************************************)

\* In raw mode Ctrl+C is a key as any other; the signal comes from elsewhere.
Interrupt ==
  /\ Running
  /\ cancel' = TRUE
  /\ UNCHANGED <<display, control, events, tasks, calls>>

Press(p) ==
  /\ Running
  /\ keyboard
  /\ key[p] = "none"
  /\ \E s \in Scripts :
       /\ p \in DOMAIN s
       /\ \A q \in 1 .. p - 1 : key[q] = s[q]
       /\ key' = [key EXCEPT ![p] = s[p]]
  /\ events' = Append(events, Event("key", p, 0))
  /\ UNCHANGED <<display, control, cancel, tasks, call, executed, template>>

KeyboardEnds ==
  /\ Running
  /\ cancel
  /\ keyboard' = FALSE
  /\ UNCHANGED <<display, control, events, cancel, connector, info, feed, fed, calls>>

\* The connection task reports once, or not at all if the program is quit.
Connects(sent) ==
  /\ Running
  /\ connector = "calling"
  /\ connector' = "ended"
  /\ events' = events \o sent
  /\ UNCHANGED <<display, control, cancel, keyboard, info, feed, fed, calls>>

ConnectSucceeds == Connects(<<Plain("connected")>>)
ConnectFails == Connects(<<Plain("failed")>>)
ConnectTimesOutMutant == FALSE      \* the timer is forgotten
ConnectTimesOut == Connects(<<Plain("failed")>>)
ConnectGivesUp == cancel /\ Connects(<< >>)

\* What succeeds of is_test_chain, is_initial_block_download and get_tip is
\* reported when all three have returned; nothing limits them.
InfoEnds ==
  /\ Running
  /\ info = "calling"
  /\ info' = "ended"
  /\ \E n \in 0 .. MaxInfo : events' = events \o [i \in 1 .. n |-> Plain("result")]
  /\ UNCHANGED <<display, control, cancel, keyboard, connector, feed, fed, calls>>

TipChanges ==
  /\ Running
  /\ feed = "live"
  /\ fed < MaxTips
  /\ fed' = fed + 1
  /\ events' = Append(events, Event("tip", None, fed + 1))
  /\ UNCHANGED <<display, control, cancel, keyboard, connector, info, feed, calls>>

\* Any Err of recv ends the task, Lagged too; so does quitting.
FeedEnds ==
  /\ Running
  /\ feed = "live"
  /\ feed' = "ended"
  /\ UNCHANGED <<display, control, events, cancel, keyboard, connector, info, fed, calls>>

(***************************************************************************)
(* The call a press has made: create_new_block, echo, wait_next, destroy.  *)
(* The actor carries a command out even if its caller has given up.        *)
(***************************************************************************)
Renews(p) == key[p] \in {"r", "w"}

Execute(p) ==
  /\ Running
  /\ call[p] # "none"
  /\ Renews(p)
  /\ p \notin executed
  /\ executed' = executed \cup {p}
  /\ template' = template + 1
  /\ UNCHANGED <<display, control, events, cancel, tasks, key, call>>

EndCallMutant(p, sent) ==     \* a report does not end the task
  /\ Running
  /\ call[p] = "calling"
  /\ call' \in {call, [call EXCEPT ![p] = "ended"]}
  /\ events' = events \o sent
  /\ UNCHANGED <<display, control, cancel, tasks, key, executed, template>>

EndCall(p, sent) ==
  /\ Running
  /\ call[p] = "calling"
  /\ call' = [call EXCEPT ![p] = "ended"]
  /\ events' = events \o sent
  /\ UNCHANGED <<display, control, cancel, tasks, key, executed, template>>

CallAnswered(p) ==
  /\ Renews(p) => p \in executed
  /\ EndCall(p, <<Event("result", p, 0)>>)
CallRefused(p) == EndCall(p, <<Event("error", p, 0)>>)

CallTimesOutMutant(p) ==      \* no timeout for wait_next, which has its own
  key[p] # "w" /\ EndCall(p, <<Event("error", p, 0)>>)

CallTimesOut(p) == EndCall(p, <<Event("error", p, 0)>>)
CallGivesUp(p) == cancel /\ EndCall(p, << >>)

(***************************************************************************)
(* The loop.  select! may take an event though the token has fired.        *)
(***************************************************************************)
Receive(type) ==
  /\ loop = "select"
  /\ events # << >>
  /\ Head(events).type = type
  /\ events' = Tail(events)

\* The information and the tip are left to tasks of their own, the template is
\* fetched by the loop.
HandleConnected ==
  /\ Receive("connected")
  /\ conn' = "connected"
  /\ monitor' = TRUE
  /\ info' = "calling"
  /\ feed' = "live"
  /\ loop' = "fetch"
  /\ UNCHANGED <<mode, waiting, tip, fields, fetched, cancel, keyboard, connector, fed, calls>>

FetchStepMutant ==        \* one getter too many
  /\ loop = "fetch"
  /\ fields' \in {fields, fields \cup {template}}
  /\ IF fetched < Getters
       THEN fetched' = fetched + 1 /\ UNCHANGED loop
       ELSE fetched' = 0 /\ loop' = "select"
  /\ UNCHANGED <<conn, monitor, mode, waiting, tip, events, cancel, tasks, calls>>

\* fetch_template awaits one getter after the other; what fails is not shown.
FetchStep ==
  /\ loop = "fetch"
  /\ fields' \in {fields, fields \cup {template}}
  /\ IF fetched + 1 < Getters
       THEN fetched' = fetched + 1 /\ UNCHANGED loop
       ELSE fetched' = 0 /\ loop' = "select"
  /\ UNCHANGED <<conn, monitor, mode, waiting, tip, events, cancel, tasks, calls>>

HandleConnectionFailed ==
  /\ Receive("failed")
  /\ conn' = "failed"
  /\ UNCHANGED <<monitor, mode, waiting, tip, fields, control, cancel, tasks, calls>>

HandleTipChangeMutant ==  \* not redrawn while a form is open, and then lost
  /\ Receive("tip")
  /\ tip' = IF mode = "Normal" THEN Head(events).tip ELSE tip
  /\ UNCHANGED <<conn, monitor, mode, waiting, fields, control, cancel, tasks, calls>>

HandleTipChange ==
  /\ Receive("tip")
  /\ tip' = Head(events).tip
  /\ UNCHANGED <<conn, monitor, mode, waiting, fields, control, cancel, tasks, calls>>

HandleReportMutant ==     \* an error leaves the spinner on
  /\ Receive("result") \/ Receive("error")
  /\ waiting' = (waiting /\ Head(events).type = "error")
  /\ UNCHANGED <<conn, monitor, mode, tip, fields, control, cancel, tasks, calls>>

\* ActionResult and ActionError, whoever sent them.
HandleReport ==
  /\ Receive("result") \/ Receive("error")
  /\ waiting' = FALSE
  /\ UNCHANGED <<conn, monitor, mode, tip, fields, control, cancel, tasks, calls>>

\* handle_key: quit keys come first, in every mode.
HandleKey(p) == Receive("key") /\ Head(events).press = p

QuitMutant(p) ==          \* the input modes come first
  /\ HandleKey(p)
  /\ mode = "Normal"
  /\ key[p] \in QuitKeys
  /\ cancel' = TRUE
  /\ UNCHANGED <<display, control, tasks, calls>>

Quit(p) ==
  /\ HandleKey(p)
  /\ key[p] \in QuitKeys
  /\ cancel' = TRUE
  /\ UNCHANGED <<display, control, tasks, calls>>

\* handle_input_mode.  Its arm for Esc is never reached; characters and
\* Backspace change the buffers of SolutionForm only.
TypeInForm(p) ==
  /\ HandleKey(p)
  /\ key[p] \notin QuitKeys
  /\ mode # "Normal"
  /\ IF key[p] = "enter"
       THEN /\ mode' = NextMode[mode]
            /\ loop' = IF mode = "Coinbase" /\ monitor THEN "submit" ELSE loop
       ELSE UNCHANGED <<mode, loop>>
  /\ UNCHANGED <<conn, monitor, waiting, tip, fields, fetched, cancel, tasks, calls>>

\* submit_solution is awaited by the loop as well.
SubmitReturns ==
  /\ loop = "submit"
  /\ loop' = "select"
  /\ UNCHANGED <<display, fetched, events, cancel, tasks, calls>>

CommandMutant(p) ==      \* keys work before there is a connection
  /\ HandleKey(p)
  /\ key[p] \notin QuitKeys
  /\ mode = "Normal"

Command(p) ==
  /\ HandleKey(p)
  /\ key[p] \notin QuitKeys
  /\ mode = "Normal"
  /\ conn = "connected"

Ignore(p) ==
  /\ HandleKey(p)
  /\ key[p] \notin QuitKeys
  /\ mode = "Normal"
  /\ conn # "connected" \/ key[p] \notin CallKeys \cup {"s"}
  /\ UNCHANGED <<display, control, cancel, tasks, calls>>

Spawn(p) == call' = [call EXCEPT ![p] = "calling"]

Started == UNCHANGED <<conn, monitor, mode, tip, fields, control, cancel, tasks, key, executed,
                       template>>

\* 'r', 'e', 'd' and 'w' spawn a task that makes the call.
MakeCall(p) ==
  /\ Command(p)
  /\ key[p] \in {"r", "e", "d"}
  /\ Spawn(p)
  /\ UNCHANGED waiting
  /\ Started

\* The spinner is started before the monitor is looked for.
WaitNext(p) ==
  /\ Command(p)
  /\ key[p] = "w"
  /\ waiting' = TRUE
  /\ IF monitor THEN Spawn(p) ELSE UNCHANGED call
  /\ Started

OpenForm(p) ==
  /\ Command(p)
  /\ key[p] = "s"
  /\ mode' = "Version"
  /\ UNCHANGED <<conn, monitor, waiting, tip, fields, control, cancel, tasks, calls>>

\* The loop sees the token when it is back in select!; main returns.
Break ==
  /\ loop = "select"
  /\ cancel
  /\ loop' = "ended"
  /\ UNCHANGED <<display, fetched, events, cancel, tasks, calls>>

(***************************************************************************)
(* The system.                                                             *)
(***************************************************************************)
Handle ==
  \/ HandleConnected \/ HandleConnectionFailed \/ HandleTipChange \/ HandleReport
  \/ \E p \in Presses :
       \/ Quit(p) \/ TypeInForm(p) \/ Ignore(p)
       \/ MakeCall(p) \/ WaitNext(p) \/ OpenForm(p)

Connecting == ConnectSucceeds \/ ConnectFails \/ ConnectTimesOut \/ ConnectGivesUp

Calling(p) ==
  Execute(p) \/ CallAnswered(p) \/ CallRefused(p) \/ CallTimesOut(p) \/ CallGivesUp(p)

Next ==
  \/ Interrupt \/ KeyboardEnds \/ Connecting \/ InfoEnds \/ TipChanges \/ FeedEnds
  \/ Handle \/ FetchStep \/ SubmitReturns \/ Break
  \/ \E p \in Presses : Press(p) \/ Calling(p)

\* The runtime of the program: the loop takes its turns, timers fire, tasks see
\* the token.
Scheduling ==
  /\ WF_vars(Handle)
  /\ WF_vars(Break)
  /\ WF_vars(KeyboardEnds)
  /\ WF_vars(ConnectTimesOut)
  /\ \A p \in Presses : WF_vars(CallTimesOut(p))

Spec == Init /\ [][Next]_vars /\ Scheduling

\* The calls the loop awaits return: they have no timeout.
LoopCallsReturn == WF_vars(FetchStep) /\ WF_vars(SubmitReturns)

LiveSpec == Spec /\ LoopCallsReturn

(***************************************************************************)
(* Properties.                                                             *)
(***************************************************************************)
Has(type, p) ==
  \E i \in 1 .. Len(events) : events[i].type = type /\ events[i].press = p
Reported(p) == Has("result", p) \/ Has("error", p)

Events ==
  [type : {"key", "connected", "failed", "tip", "result", "error"},
   press : Presses \cup {None}, tip : Nat]

TypeOK ==
  /\ conn \in {"connecting", "connected", "failed"}
  /\ monitor \in BOOLEAN
  /\ mode \in Modes
  /\ waiting \in BOOLEAN
  /\ tip \in Nat
  /\ fields \subseteq Nat
  /\ loop \in {"select", "fetch", "submit", "ended"}
  /\ fetched \in 0 .. Getters - 1
  /\ events \in Seq(Events)
  /\ cancel \in BOOLEAN
  /\ keyboard \in BOOLEAN
  /\ connector \in {"calling", "ended"}
  /\ info \in {"none", "calling", "ended"}
  /\ feed \in {"none", "live", "ended"}
  /\ fed \in Nat
  /\ key \in [Presses -> AllKeys \cup {"none"}]
  /\ call \in [Presses -> {"none", "calling", "ended"}]
  /\ executed \subseteq Presses
  /\ template \in Nat

\* What a user is asked to type is never thrown away for want of a monitor, and
\* buffers are only touched in a mode that has one.
FormHasMonitor == mode # "Normal" \/ loop = "submit" => conn = "connected" /\ monitor

\* The spinner of 'w' never turns for nothing: while it shows, a wait_next is
\* out or what became of it is on its way to the loop.
SpinnerHasCall ==
  waiting /\ ~cancel =>
    \E p \in Presses : key[p] = "w" /\ (call[p] = "calling" \/ Reported(p))

\* The fields of the display all come from one template, though they are read
\* by calls of their own: nothing renews the template between two of them.
OneTemplateShown == \A v, w \in fields : v = w

\* A call is reported at most once, whichever of the answer, the timeout and the
\* quit key comes first, and never before it is over.
OneReport ==
  \A i, j \in 1 .. Len(events) :
    events[i].type \in {"result", "error"} /\ events[i].press # None =>
      /\ call[events[i].press] = "ended"
      /\ events[j].type \in {"result", "error"} /\ events[j].press = events[i].press => i = j

\* With a silent node the program does not stay "Connecting...": main.rs:164.
ConnectSettles == conn = "connecting" ~> conn # "connecting" \/ cancel

\* Every call key leads to a report the loop has shown, or the user quits, even
\* if the actor never answers the call: each has a timeout.
PressAnswered ==
  \A p \in Presses :
    call[p] = "calling" ~> (call[p] = "ended" /\ ~Reported(p)) \/ cancel

\* A quit key ends the program from every mode, whatever is queued before it.
QuitKeyQuits == (\E p \in Presses : key[p] \in QuitKeys) ~> loop = "ended"

\* A tip change that was forwarded is shown, or a later one, or the user quits.
TipShown == \A n \in 1 .. MaxTips : fed = n ~> tip >= n \/ cancel

\* The status line says "Esc=cancel" while a field is open (main.rs:972), and
\* handle_input_mode has an arm that goes back to Normal for it.
EscCancelsInput ==
  [][\A p \in Presses :
       HandleKey(p) /\ key[p] = "esc" /\ mode # "Normal"
         => mode' = "Normal" /\ cancel' = cancel]_vars
=============================================================================
