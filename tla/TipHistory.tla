----------------------------- MODULE TipHistory -----------------------------
(***************************************************************************)
(* TipMonitor with two history variables, and the refinement of TipFeed:   *)
(* the channel keeps Cap events and counts for each receiver how many it   *)
(* has not read, and still every receiver reads the whole log in order or  *)
(* is told that it lags.                                                   *)
(***************************************************************************)
EXTENDS TipMonitor

CONSTANT MaxEvents      \* bounds the history, for TLC

ASSUME MaxEventsAssumption == MaxEvents \in Nat

VARIABLES
  log,      \* every event that was sent to some receiver
  recent    \* the tips the node has had since an answer was last sent on

history == <<log, recent>>

HInit == Init /\ log = << >> /\ recent = {tip}

HTipMoves == TipMoves /\ recent' = recent \cup {tip'} /\ UNCHANGED log

HEmit ==
  /\ Len(log) < MaxEvents
  /\ Emit
  /\ log' = IF Heard THEN Append(log, answer) ELSE log
  /\ recent' = {tip}

Rest ==
  \/ Answer \/ LinkLost \/ GotTip \/ Ask \/ Failure \/ ActorEnds \/ DropClient
  \/ \E s \in Subs : Subscribe(s) \/ Unsubscribe(s) \/ Receive(s)

HNext == HTipMoves \/ HEmit \/ (Rest /\ UNCHANGED history)

HSpec == HInit /\ [][HNext]_<<vars, history>>

(***************************************************************************)
(* Properties.                                                             *)
(***************************************************************************)
Feed == INSTANCE TipFeed WITH cursor <- [s \in Subs |-> Len(log) - unread[s]]

\* Through the ring and the unread counters every receiver sees the log: in order,
\* each event once, a gap only where it is told of one, and each event a tip the
\* node has had since the one before.
FeedPromise == Feed!Spec
=============================================================================
