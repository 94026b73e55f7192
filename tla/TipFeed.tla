------------------------------ MODULE TipFeed ------------------------------
(***************************************************************************)
(* What a receiver of MonitorClient::subscribe_tip_changes is promised, as *)
(* a log: every event that was sent, in the order of sending, and for each *)
(* receiver how far it has read.  It reads the log in order, nothing twice *)
(* and nothing left out, unless it falls more than Cap events behind: then *)
(* it is told so and goes on with the oldest event that is retained.  An   *)
(* event is a tip the node has had since the event before it was sent.     *)
(***************************************************************************)
EXTENDS Naturals, Sequences

CONSTANTS Tips, Subs, Cap, None

VARIABLES
  tip,      \* the chain tip at the node
  recent,   \* the tips it has had since the last event
  log,      \* the events that some receiver could have read
  sub,      \* "none", "live" or "ended": what became of each receiver
  cursor,   \* how much of the log each receiver has behind it
  seen      \* the last event each receiver has returned

vars == <<tip, recent, log, sub, cursor, seen>>

Init ==
  /\ tip \in Tips
  /\ recent = {tip}
  /\ log = << >>
  /\ sub = [s \in Subs |-> "none"]
  /\ cursor = [s \in Subs |-> 0]
  /\ seen = [s \in Subs |-> None]

Move ==
  /\ \E t \in Tips : tip' = t /\ recent' = recent \cup {t}
  /\ UNCHANGED <<log, sub, cursor, seen>>

\* A receiver that is Cap + 1 behind loses the oldest event it had left.
Publish(e) ==
  /\ e \in recent
  /\ \E s \in Subs : sub[s] = "live"
  /\ log' = Append(log, e)
  /\ cursor' = [s \in Subs |->
       IF sub[s] # "live" THEN Len(log) + 1
       ELSE IF cursor[s] + Cap < Len(log) THEN cursor[s] + 1 ELSE cursor[s]]
  /\ recent' = {tip}
  /\ UNCHANGED <<tip, sub, seen>>

Unheard ==
  /\ \A s \in Subs : sub[s] # "live"
  /\ recent' = {tip}
  /\ UNCHANGED <<tip, log, sub, cursor, seen>>

Join(s) ==
  /\ sub[s] = "none"
  /\ sub' = [sub EXCEPT ![s] = "live"]
  /\ cursor' = [cursor EXCEPT ![s] = Len(log)]
  /\ UNCHANGED <<tip, recent, log, seen>>

Read(s) ==
  /\ sub[s] = "live"
  /\ cursor[s] < Len(log) /\ Len(log) <= cursor[s] + Cap
  /\ seen' = [seen EXCEPT ![s] = log[cursor[s] + 1]]
  /\ cursor' = [cursor EXCEPT ![s] = @ + 1]
  /\ UNCHANGED <<tip, recent, log, sub>>

\* Err(Lagged).
Miss(s) ==
  /\ sub[s] = "live"
  /\ cursor[s] + Cap < Len(log)
  /\ cursor' = [cursor EXCEPT ![s] = Len(log) - Cap]
  /\ UNCHANGED <<tip, recent, log, sub, seen>>

Leave(s) ==
  /\ sub[s] = "live"
  /\ sub' = [sub EXCEPT ![s] = "ended"]
  /\ cursor' = [cursor EXCEPT ![s] = Len(log)]
  /\ UNCHANGED <<tip, recent, log, seen>>

Next ==
  \/ Move \/ Unheard
  \/ \E e \in Tips : Publish(e)
  \/ \E s \in Subs : Join(s) \/ Read(s) \/ Miss(s) \/ Leave(s)

Spec == Init /\ [][Next]_vars
=============================================================================
