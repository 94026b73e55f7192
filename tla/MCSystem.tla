------------------------------ MODULE MCSystem ------------------------------
(***************************************************************************)
(* Instances of System for TLC.  The calls bound the tasks and the         *)
(* channel, and with them everything else.                                 *)
(***************************************************************************)
EXTENDS System, TLC
=============================================================================
