------------------------------ MODULE MCActor ------------------------------
(***************************************************************************)
(* Instances of Actor for TLC.  The number of calls bounds everything: each *)
(* element of Calls is one invocation, and ids, versions and the channel   *)
(* grow only with calls.                                                   *)
(***************************************************************************)
EXTENDS Actor, TLC

\* Calls are interchangeable: used where only safety is checked.
CallSymmetry == Permutations(Calls)
=============================================================================
