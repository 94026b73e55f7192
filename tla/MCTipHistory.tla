---------------------------- MODULE MCTipHistory ----------------------------
(***************************************************************************)
(* An instance of TipHistory for TLC: five events overrun a channel of two *)
(* twice.                                                                  *)
(***************************************************************************)
EXTENDS TipHistory, TLC

TipSymmetry == Permutations(Tips)
=============================================================================
