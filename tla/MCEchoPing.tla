----------------------------- MODULE MCEchoPing -----------------------------
(***************************************************************************)
(* Instances of EchoPing for TLC: the pings are bounded by Calls.          *)
(***************************************************************************)
EXTENDS EchoPing, TLC
=============================================================================
