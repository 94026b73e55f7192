---------------------------- MODULE MonitorStore ----------------------------
(***************************************************************************)
(* What the actor thread promises its callers about monitors and block     *)
(* templates, with no queue, no awaits and no node: every call takes       *)
(* effect at one instant, at most once, on a table that maps the monitor   *)
(* ids 1, 2, ... to the version of the template each monitor holds.        *)
(* Versions number the templates in the order the node makes them.         *)
(***************************************************************************)
EXTENDS Naturals, Sequences

CONSTANTS
  Calls,            \* one element per invocation of a client method
  Requests,         \* what a call may ask: a kind, a monitor, a size
  NoCmd             \* the request of a call that is not made yet

VARIABLES
  cmd,              \* what each call asks
  store,            \* store[m] is the template version monitor m holds
  made,             \* how many templates the node has made
  settled,          \* calls that have taken effect or failed
  got,              \* template version each answered call was told about, or 0
  closed            \* the thread has stopped and the table is gone

storeVars == <<cmd, store, made, settled, got, closed>>

Init ==
  /\ cmd = [c \in Calls |-> NoCmd]
  /\ store = << >>
  /\ made = 0
  /\ settled = {}
  /\ got = [c \in Calls |-> 0]
  /\ closed = FALSE

Asked == {c \in Calls : cmd[c] # NoCmd}

\* A caller says once what it asks.
Ask(c) ==
  /\ cmd[c] = NoCmd
  /\ cmd' \in [Calls -> Requests]
  /\ cmd'[c] # NoCmd
  /\ \A d \in Calls \ {c} : cmd'[d] = cmd[d]

Call(c) == ~closed /\ Ask(c) /\ UNCHANGED <<store, made, settled, got, closed>>

Settle(c) ==
  /\ ~closed
  /\ c \in Asked \ settled
  /\ settled' = settled \cup {c}
  /\ UNCHANGED <<cmd, closed>>

\* The caller learns the version, or it has already stopped waiting.
Tell(c, v) == got' = [got EXCEPT ![c] = v] \/ UNCHANGED got

\* start_monitoring: one more monitor, the others as they were.
Open(c) ==
  /\ Settle(c)
  /\ cmd[c].kind = "start"
  /\ store' = Append(store, made + 1)
  /\ made' = made + 1
  /\ Tell(c, made + 1)

\* create_new_block: every monitor, and never a part of them.
RenewAll(c) ==
  /\ Settle(c)
  /\ cmd[c].kind = "create"
  /\ store' = [m \in DOMAIN store |-> made + 1]
  /\ made' = made + 1
  /\ Tell(c, made + 1)

\* wait_next: the monitor it was called on and no other.
Advance(c) ==
  /\ Settle(c)
  /\ cmd[c].kind = "waitNext"
  /\ cmd[c].monitor \in DOMAIN store
  /\ store' = [store EXCEPT ![cmd[c].monitor] = made + 1]
  /\ made' = made + 1
  /\ Tell(c, made + 1)

\* A getter or submit_solution: about the template its monitor holds now.
Read(c) ==
  /\ Settle(c)
  /\ cmd[c].kind \in {"read", "submit"}
  /\ cmd[c].monitor \in DOMAIN store
  /\ Tell(c, store[cmd[c].monitor])
  /\ UNCHANGED <<store, made>>

\* A call that fails, or that concerns no monitor, leaves the table alone.
Skip(c) ==
  /\ Settle(c)
  /\ UNCHANGED <<store, made, got>>

\* The thread stops: whatever was still pending fails, without an answer.
Close ==
  /\ ~closed
  /\ closed' = TRUE
  /\ store' = << >>
  /\ settled' = Asked
  /\ UNCHANGED <<cmd, made, got>>

\* A call made after that fails at once.
Refuse(c) ==
  /\ closed
  /\ Ask(c)
  /\ settled' = settled \cup {c}
  /\ UNCHANGED <<store, made, got, closed>>

Next ==
  \/ \E c \in Calls :
       \/ Call(c) \/ Refuse(c)
       \/ Open(c) \/ RenewAll(c) \/ Advance(c) \/ Read(c) \/ Skip(c)
  \/ Close

Spec == Init /\ [][Next]_storeVars

(***************************************************************************)
(* Properties.                                                             *)
(***************************************************************************)

\* The monitors whose template an answer to c is about; that of a start is new.
Concerns(c, m) ==
  \/ cmd[c].kind = "create"
  \/ cmd[c].kind \in {"read", "submit", "waitNext"} /\ cmd[c].monitor = m

\* Answers about a monitor never go back: whoever is told of a template is told
\* of one that is no older than any that some caller of the same monitor, or a
\* create_new_block, was told of before, even if they were different clients.
AnswersNeverGoBack ==
  [][\A c, d \in Calls :
       got'[c] # got[c] /\ Concerns(d, cmd[c].monitor) => got[d] <= got'[c]]_storeVars

\* A call is answered once: no retry, and no later command, changes an answer.
AnsweredOnce == [][\A c \in Calls : got[c] # 0 => got'[c] = got[c]]_storeVars
=============================================================================
