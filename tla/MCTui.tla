------------------------------- MODULE MCTui -------------------------------
(***************************************************************************)
(* Instances of Tui for TLC.  Presses and tip changes bound everything     *)
(* else: calls, reports and the channel grow only with them.               *)
(***************************************************************************)
EXTENDS Tui, TLC

\* The form filled and submitted; every call key against another; quitting while
\* a form is open and while calls are out.
Sessions ==
  {<<"s", "enter", "enter", "enter", "enter">>, <<"s", "w", "q">>, <<"d", "ctrlC">>,
   <<"w", "e">>, <<"r", "w">>, <<"w", "w">>}

EscInForm == {<<"s", "esc">>}
=============================================================================
