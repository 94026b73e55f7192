----------------------------- MODULE CommandLoop -----------------------------
(***************************************************************************)
(* The command loop of the actor thread as its callers see it: commands    *)
(* are served in the order they were sent, one at a time, each is answered *)
(* or its caller has given up, and a caller is told that the actor is gone *)
(* only when it is.  What commands do, and when the thread gets to them,   *)
(* is left out: Actor has the one and System the other, and both implement *)
(* this.                                                                   *)
(***************************************************************************)
EXTENDS Sequences

CONSTANT Calls     \* one element per invocation of a client method

VARIABLES
  queue,     \* commands not taken yet
  serving,   \* the command the loop is busy with, if any: a set
  status,    \* what became of each call
  over       \* the thread has ended

loopVars == <<queue, serving, status, over>>

Init ==
  /\ queue = << >>
  /\ serving = {}
  /\ status = [c \in Calls |-> "unused"]
  /\ over = FALSE

Submit(c) ==
  /\ status[c] = "unused"
  /\ IF over
       THEN status' = [status EXCEPT ![c] = "disconnected"] /\ UNCHANGED queue
       ELSE status' = [status EXCEPT ![c] = "waiting"] /\ queue' = Append(queue, c)
  /\ UNCHANGED <<serving, over>>

\* Callers stop waiting; their commands stay.
GiveUp(S) ==
  /\ \A c \in S : status[c] = "waiting"
  /\ status' = [c \in Calls |-> IF c \in S THEN "abandoned" ELSE status[c]]
  /\ UNCHANGED <<queue, serving, over>>

Free == ~over /\ serving = {} /\ queue # << >>

Begin ==
  /\ Free
  /\ serving' = {Head(queue)}
  /\ queue' = Tail(queue)
  /\ UNCHANGED <<status, over>>

Answer(c) ==
  status' = [status EXCEPT ![c] = IF @ = "waiting" THEN "answered" ELSE @]

\* Some commands are answered as they are taken.
AnswerAtOnce ==
  /\ Free
  /\ Answer(Head(queue))
  /\ queue' = Tail(queue)
  /\ UNCHANGED <<serving, over>>

Done(c) ==
  /\ c \in serving
  /\ Answer(c)
  /\ serving' = {}
  /\ UNCHANGED <<queue, over>>

Close ==
  /\ ~over
  /\ over' = TRUE
  /\ queue' = << >>
  /\ serving' = {}
  /\ status' = [c \in Calls |-> IF status[c] = "waiting" THEN "disconnected" ELSE status[c]]

Next ==
  \/ \E c \in Calls : Submit(c) \/ Done(c)
  \/ \E S \in SUBSET Calls : GiveUp(S)
  \/ Begin \/ AnswerAtOnce \/ Close

Spec == Init /\ [][Next]_loopVars
=============================================================================
