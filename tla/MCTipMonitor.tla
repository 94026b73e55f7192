---------------------------- MODULE MCTipMonitor ----------------------------
(***************************************************************************)
(* Instances of TipMonitor for TLC.  The chain may move among the elements *)
(* of Tips for ever, so nothing but these sets bounds a behaviour.         *)
(***************************************************************************)
EXTENDS TipMonitor, TLC
=============================================================================
