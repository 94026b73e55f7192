--------------------------- MODULE MCSolutionForm ---------------------------
(***************************************************************************)
(* An instance of SolutionForm for TLC: MaxKeys bounds the keys of a       *)
(* session, which lets four Enters come with four characters.              *)
(***************************************************************************)
EXTENDS SolutionForm, TLC
=============================================================================
