------------------------------ MODULE TuiInput ------------------------------
(***************************************************************************)
(* The input modes of the terminal UI (examples/tui/src/main.rs), shared   *)
(* by the event loop, Tui, and by what is typed, SolutionForm.             *)
(***************************************************************************)

Fields == {"Version", "Timestamp", "Nonce", "Coinbase"}
Modes == Fields \cup {"Normal"}

\* advance_input: Enter confirms a field and opens the next one, the last field
\* goes back to Normal.
NextMode ==
  [m \in Fields |->
     CASE m = "Version"   -> "Timestamp"
       [] m = "Timestamp" -> "Nonce"
       [] m = "Nonce"     -> "Coinbase"
       [] m = "Coinbase"  -> "Normal"]
=============================================================================
