------------------------------ MODULE EchoPing ------------------------------
(***************************************************************************)
(* The echo example (examples/echo.rs) as a client of Actor: a loop sends  *)
(* a ping at every tick and awaits its answer, Ctrl+C fires one token that *)
(* the loop and every ping share, and after the loop destroy is awaited    *)
(* with no token and no time limit.                                        *)
(***************************************************************************)
EXTENDS Actor

CONSTANT Bye        \* the call of destroy; the other calls are pings

ASSUME ByeAssumption == Bye \in Calls
ASSUME PingKindsAssumption == {"echo", "destroy"} \subseteq Kinds

VARIABLES
  at,       \* "select", "ping", "destroy" or "ended"
  awaited,  \* the call the loop awaits; Bye if none
  token,    \* Ctrl+C was pressed
  sent,     \* pings sent
  lost      \* pings that brought no reply

loop == <<at, awaited, sent, lost>>
pingVars == <<loop, token, vars>>

Pings == Calls \ {Bye}

PingInit ==
  /\ Init
  /\ at = "select"
  /\ awaited = Bye
  /\ token = FALSE
  /\ sent = 0
  /\ lost = 0

\* Only the first Ctrl+C is heard.  All pings hold clones of one token, those
\* that are still to come included.
Interrupt ==
  /\ ~token
  /\ at # "ended"
  /\ token' = TRUE
  /\ cancelled' = Pings
  /\ UNCHANGED <<loop, phase, link, queue, inflight, cmd, status, carried, got, ipc, held, table>>

PingMutant(c) ==          \* the counter is left alone
  /\ at = "select"
  /\ Issue(c, [kind |-> "echo", monitor |-> 0, size |-> 0])
  /\ at' = "ping"
  /\ awaited' = c
  /\ UNCHANGED <<token, sent, lost>>

\* The tick, which select! may choose though the token has fired as well.
Ping(c) ==
  /\ at = "select"
  /\ Issue(c, [kind |-> "echo", monitor |-> 0, size |-> 0])
  /\ at' = "ping"
  /\ awaited' = c
  /\ sent' = sent + 1
  /\ UNCHANGED <<token, lost>>

Returned(c) == status[c] \notin {"unused", "waiting"}

PingReturnsMutant ==      \* a ping that was cancelled is not a lost one
  /\ at = "ping"
  /\ Returned(awaited)
  /\ at' = "select"
  /\ awaited' = Bye
  /\ lost' = IF status[awaited] \in {"ok", "cancelled"} THEN lost ELSE lost + 1
  /\ UNCHANGED <<token, sent, vars>>

PingReturns ==
  /\ at = "ping"
  /\ Returned(awaited)
  /\ at' = "select"
  /\ awaited' = Bye
  /\ lost' = IF status[awaited] = "ok" THEN lost ELSE lost + 1
  /\ UNCHANGED <<token, sent, vars>>

BreakMutant ==            \* the ping is raced against the token as well
  /\ at \in {"select", "ping"}
  /\ token
  /\ Issue(Bye, [kind |-> "destroy", monitor |-> 0, size |-> 0])
  /\ at' = "destroy"
  /\ awaited' = Bye
  /\ UNCHANGED <<token, sent, lost>>

Break ==
  /\ at = "select"
  /\ token
  /\ Issue(Bye, [kind |-> "destroy", monitor |-> 0, size |-> 0])
  /\ at' = "destroy"
  /\ UNCHANGED <<awaited, token, sent, lost>>

\* echo_ping returns, whatever destroy said, and drops its handle.
Exit ==
  /\ at = "destroy"
  /\ Returned(Bye)
  /\ at' = "ended"
  /\ ipc' = FALSE
  /\ UNCHANGED <<awaited, token, sent, lost, phase, link, queue, inflight, cmd, status, carried,
                 got, cancelled, held, table>>

Thread ==
  \/ \E c \in Calls : TakeClientCall(c) \/ Reply(c) \/ Fail(c) \/ EchoCancelled(c)
  \/ BootStep \/ BootFail \/ LinkLost \/ Drain

PingNext ==
  \/ Interrupt \/ PingReturns \/ Break \/ Exit
  \/ \E c \in Pings : Ping(c)
  \/ Thread /\ UNCHANGED <<loop, token>>

\* tokio polls the loop when it can go on, and select! draws its branch anew
\* each time, so a fired token is not passed over for ever.
LoopRuns == WF_pingVars(PingReturns) /\ SF_pingVars(Break) /\ WF_pingVars(Exit)

PingSpec == PingInit /\ [][PingNext]_pingVars /\ Scheduling /\ LoopRuns

(***************************************************************************)
(* Properties.                                                             *)
(***************************************************************************)
PingTypeOK ==
  /\ TypeOK
  /\ at \in {"select", "ping", "destroy", "ended"}
  /\ awaited \in Calls
  /\ token \in BOOLEAN
  /\ sent \in Nat
  /\ lost \in 0 .. sent

\* The loop lets the actor have one command at a time, so that the destroy it sends
\* last finds no ping before it.
OneAtATime ==
  /\ Len(queue) + Cardinality(inflight) <= 1
  /\ \A c \in Pending : at = (IF c = Bye THEN "destroy" ELSE "ping") /\ awaited = c

\* The totals printed at the end are right: every ping that was sent got a reply or
\* is counted as lost, those that Ctrl+C cut short included.
TotalsAreRight ==
  at # "ping" =>
    /\ sent = Cardinality({c \in Pings : status[c] # "unused"})
    /\ lost = Cardinality({c \in Pings : status[c] \notin {"unused", "ok"}})

\* Once start-up is over Ctrl+C releases a ping without the node's help.  A ping
\* that waits in the channel while the actor starts up is not released.
TokenReleasesPing == token /\ at = "ping" /\ phase = "running" ~> at # "ping"

\* Losing the connection lets the program end after Ctrl+C, again without the node.
LinkLossEnds == token /\ link = "lost" ~> at = "ended"

\* Ctrl+C ends the program if the node answers, and only then: destroy waits for it.
InterruptEnds == NodeAnswers => (token ~> at = "ended")
=============================================================================
