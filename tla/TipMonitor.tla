----------------------------- MODULE TipMonitor -----------------------------
(***************************************************************************)
(* One background task of the actor thread, run_tip_monitor of actor.rs:   *)
(* it reads the tip once, then asks the node over and over to wait for a   *)
(* change, and broadcasts every answer to the receivers that               *)
(* MonitorClient::subscribe_tip_changes handed out.                        *)
(*                                                                         *)
(* The chain, the node's side of wait_tip_changed and tokio's broadcast    *)
(* channel are external; they are modelled from how the task uses them.    *)
(***************************************************************************)
EXTENDS Naturals, Sequences

CONSTANTS
  Tips,        \* block hashes; the empty hash of a missing tip may be one
  Subs,        \* receivers
  Resilient,   \* those whose owner goes on after Err(Lagged)
  Cap,         \* broadcast::channel(16)
  None

ASSUME SubsAssumption == Resilient \subseteq Subs
ASSUME CapAssumption == Cap \in Nat \ {0}
ASSUME NoneAssumption == None \notin Tips

VARIABLES
  tip,       \* the chain tip at the node
  link,      \* "up" or "lost"
  pc,        \* where the task is
  base,      \* current_tip_hash
  answer,    \* the answer on its way to the task
  stop,      \* the CancellationToken of the monitor has fired
  ring,      \* the events the channel still retains, oldest first
  sub,       \* "none", "live" or "ended": what became of each receiver
  unread,    \* events each receiver is behind; Cap + 1 is "lagged"
  seen,      \* the last event each receiver has returned
  client,    \* a clone of the MonitorClient is alive
  actor      \* "up" or "ended": the thread that owns the task

receivers == <<sub, unread, seen>>
task == <<pc, base, answer, stop>>
vars == <<tip, link, task, ring, receivers, client, actor>>

Init ==
  /\ tip \in Tips
  /\ link = "up"
  /\ pc = "getTip"
  /\ base = None
  /\ answer = None
  /\ stop = FALSE
  /\ ring = << >>
  /\ sub = [s \in Subs |-> "none"]
  /\ unread = [s \in Subs |-> 0]
  /\ seen = [s \in Subs |-> None]
  /\ client \in BOOLEAN     \* FALSE: nobody awaited start_monitoring's reply
  /\ actor = "up"

(***************************************************************************)
(* The node.  It answers a wait when the tip differs from the hash it was  *)
(* given, or at the timeout, with the tip of that moment.                  *)
(***************************************************************************)
TipMoves ==
  /\ \E t \in Tips \ {tip} : tip' = t
  /\ UNCHANGED <<link, task, ring, receivers, client, actor>>

Awaiting == pc \in {"getTip", "wait"} /\ answer = None

AnswerNow ==
  /\ link = "up"
  /\ Awaiting
  /\ pc = "wait" => tip # base
  /\ answer' = tip
  /\ UNCHANGED <<tip, link, pc, base, stop, ring, receivers, client, actor>>

AnswerAtTimeout ==
  /\ link = "up"
  /\ Awaiting
  /\ pc = "wait"
  /\ tip = base
  /\ answer' = tip
  /\ UNCHANGED <<tip, link, pc, base, stop, ring, receivers, client, actor>>

LinkLost ==
  /\ link = "up"
  /\ link' = "lost"
  /\ UNCHANGED <<tip, task, ring, receivers, client, actor>>

(***************************************************************************)
(* The task.                                                               *)
(***************************************************************************)

\* get_has_result is not looked at: a missing tip is taken for an empty hash.
GotTip ==
  /\ pc = "getTip"
  /\ answer # None
  /\ pc' = "ask"
  /\ base' = answer
  /\ answer' = None
  /\ UNCHANGED <<tip, link, stop, ring, receivers, client, actor>>

GetTipFailsMutant ==      \* the token fires and the loop is entered
  /\ pc = "getTip"
  /\ Awaiting
  /\ pc' = "ask"
  /\ stop' = TRUE
  /\ UNCHANGED <<tip, link, base, answer, ring, receivers, client, actor>>

\* The request cannot be sent, or its answer is an error or unreadable.
GetTipFails ==
  /\ pc = "getTip"
  /\ Awaiting
  /\ pc' = "stopped"
  /\ stop' = TRUE
  /\ UNCHANGED <<tip, link, base, answer, ring, receivers, client, actor>>

\* Filling a fresh request with a thread and a hash cannot fail, so the return
\* the code has for that case is never taken.
Ask ==
  /\ pc = "ask"
  /\ pc' = "wait"
  /\ UNCHANGED <<tip, link, base, answer, stop, ring, receivers, client, actor>>

WaitFailsMutant ==        \* `return` for `continue`
  /\ pc = "wait"
  /\ Awaiting
  /\ pc' = "stopped"
  /\ stop' = TRUE
  /\ UNCHANGED <<tip, link, base, answer, ring, receivers, client, actor>>

\* The wait fails: `break` if the token fired, else `continue` at once.
WaitFails ==
  /\ pc = "wait"
  /\ Awaiting
  /\ pc' = IF stop THEN "stopped" ELSE "ask"
  /\ UNCHANGED <<tip, link, base, answer, stop, ring, receivers, client, actor>>

PushedMutant(s, e) == Append(s, e)      \* a channel that forgets nothing

Pushed(s, e) == IF Len(s) < Cap THEN Append(s, e) ELSE Append(Tail(s), e)

BehindMutant(n) == IF n < Cap THEN n + 1 ELSE n      \* lag is not noticed

Behind(n) == IF n <= Cap THEN n + 1 ELSE n

Heard == \E s \in Subs : sub[s] = "live"

EmitMutant ==             \* the base is not news
  /\ pc = "wait"
  /\ answer # None
  /\ IF answer # base
       THEN /\ ring' = IF Heard THEN Pushed(ring, answer) ELSE ring
            /\ unread' = [s \in Subs |-> IF sub[s] = "live" THEN Behind(unread[s]) ELSE 0]
       ELSE UNCHANGED <<ring, unread>>
  /\ pc' = "ask"
  /\ answer' = None
  /\ UNCHANGED <<tip, link, base, stop, sub, seen, client, actor>>

\* tip_change_tx.send, which keeps nothing when there is no receiver;
\* current_tip_hash stays what get_tip returned.
Emit ==
  /\ pc = "wait"
  /\ answer # None
  /\ ring' = IF Heard THEN Pushed(ring, answer) ELSE ring
  /\ unread' = [s \in Subs |-> IF sub[s] = "live" THEN Behind(unread[s]) ELSE 0]
  /\ pc' = "ask"
  /\ answer' = None
  /\ UNCHANGED <<tip, link, base, stop, sub, seen, client, actor>>

ActorEndsMutant ==        \* spawned on another runtime, the task survives
  /\ actor = "up"
  /\ actor' = "ended"
  /\ UNCHANGED <<tip, link, task, ring, receivers, client>>

\* The thread ends: its LocalSet drops the task and the Actor its MonitorState.
ActorEnds ==
  /\ actor = "up"
  /\ actor' = "ended"
  /\ pc' = "dropped"
  /\ answer' = None
  /\ UNCHANGED <<tip, link, base, stop, ring, receivers, client>>

(***************************************************************************)
(* The receivers.                                                          *)
(***************************************************************************)
Subscribe(s) ==
  /\ client
  /\ sub[s] = "none"
  /\ sub' = [sub EXCEPT ![s] = "live"]
  /\ UNCHANGED <<tip, link, task, ring, unread, seen, client, actor>>

DropClient ==
  /\ client
  /\ client' = FALSE
  /\ UNCHANGED <<tip, link, task, ring, receivers, actor>>

End(s) ==
  /\ sub' = [sub EXCEPT ![s] = "ended"]
  /\ unread' = [unread EXCEPT ![s] = 0]
  /\ UNCHANGED <<tip, link, task, ring, seen, client, actor>>

Unsubscribe(s) == sub[s] = "live" /\ End(s)

ReceiveEvent(s) ==
  /\ sub[s] = "live"
  /\ unread[s] \in 1 .. Cap
  /\ seen' = [seen EXCEPT ![s] = ring[Len(ring) - unread[s] + 1]]
  /\ unread' = [unread EXCEPT ![s] = @ - 1]
  /\ UNCHANGED <<tip, link, task, ring, sub, client, actor>>

\* Err(Lagged) moves the receiver to the oldest retained event.  The terminal
\* UI and the logger example give the subscription up.
ReceiveLagged(s) ==
  /\ sub[s] = "live"
  /\ unread[s] > Cap
  /\ IF s \in Resilient
       THEN /\ unread' = [unread EXCEPT ![s] = Cap]
            /\ UNCHANGED <<tip, link, task, ring, sub, seen, client, actor>>
       ELSE End(s)

\* A sender of the channel is owned by the task while it runs, by the actor's table
\* and by every MonitorClient.
TaskSends == pc \in {"getTip", "ask", "wait"}
NoSender == ~TaskSends /\ actor = "ended" /\ ~client

ReceiveClosed(s) ==
  /\ sub[s] = "live"
  /\ unread[s] = 0
  /\ NoSender
  /\ End(s)

Receive(s) == ReceiveEvent(s) \/ ReceiveLagged(s) \/ ReceiveClosed(s)

(***************************************************************************)
(* The system.                                                             *)
(***************************************************************************)
Answer == AnswerNow \/ AnswerAtTimeout
Resume == GotTip \/ Ask \/ Emit
Failure == GetTipFails \/ WaitFails

Next ==
  \/ TipMoves \/ Answer \/ LinkLost
  \/ Resume \/ Failure \/ ActorEnds
  \/ DropClient
  \/ \E s \in Subs : Subscribe(s) \/ Unsubscribe(s) \/ Receive(s)

\* The runtime polls the task when it can go on, while the connection lives: on a
\* dead one another monitor may keep the thread (System).  The owner of a
\* receiver keeps calling recv.
Scheduling ==
  /\ WF_vars(link = "up" /\ Resume)
  /\ \A s \in Subs : WF_vars(Receive(s))

\* The node does not fail every request it is sent.
NodeAnswers == SF_vars(Answer)

Spec == Init /\ [][Next]_vars /\ Scheduling

\* The owner of a receiver is not overrun for ever: again and again it returns
\* from recv with an event.
KeepsUp == \A s \in Subs : SF_vars(ReceiveEvent(s))

LiveSpec == Spec /\ NodeAnswers /\ KeepsUp

(***************************************************************************)
(* Properties.                                                             *)
(***************************************************************************)
TypeOK ==
  /\ tip \in Tips
  /\ link \in {"up", "lost"}
  /\ pc \in {"getTip", "ask", "wait", "stopped", "dropped"}
  /\ base \in Tips \cup {None}
  /\ answer \in Tips \cup {None}
  /\ stop \in BOOLEAN
  /\ ring \in Seq(Tips) /\ Len(ring) <= Cap
  /\ sub \in [Subs -> {"none", "live", "ended"}]
  /\ unread \in [Subs -> 0 .. Cap + 1]
  /\ seen \in [Subs -> Tips \cup {None}]
  /\ client \in BOOLEAN
  /\ actor \in {"up", "ended"}

\* The token fires only when the task has given up its first get_tip, and then
\* the loop is never entered: the Cancelled arm of the loop is dead code.
StopIsEnd == stop => pc \in {"stopped", "dropped"}

\* Once the first tip is known the task goes on, whatever fails, for as long as
\* the thread does.
LoopNeverLeft ==
  [][(pc \in {"ask", "wait"}) => (pc' \in {"ask", "wait", "dropped"})]_vars

\* If the tip stops moving, every receiver that survives lag ends up having
\* seen it last, a late subscription and a reorganisation back to the first
\* tip included.
ReceiversConverge ==
  \A s \in Resilient, t \in Tips :
    <>[](tip = t /\ link = "up" /\ sub[s] = "live" /\ pc \in {"ask", "wait"})
      => <>[](seen[s] = t)

\* When the thread is gone and no MonitorClient is left, every receiver drains
\* what it has and ends: no task, spawned on the thread, is left to own a sender.
SubscriptionsEnd == \A s \in Subs : actor = "ended" /\ ~client ~> sub[s] # "live"

\* mining.rs:76 documents TipChange as emitted when the chain tip changes: what
\* is sent to a receiver that has been sent something before differs from that.
\* Answers equal to the hash the wait was given are set aside: those are the
\* node's timeouts, about which the code says nothing.
Served == \E s \in Subs : sub[s] = "live" /\ (seen[s] # None \/ unread[s] > 0)
EventsAreChanges ==
  [][(pc = "wait" /\ answer \notin {None, base} /\ pc' = "ask" /\ Served)
       => answer # ring[Len(ring)]]_vars
=============================================================================
