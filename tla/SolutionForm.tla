---------------------------- MODULE SolutionForm ----------------------------
(***************************************************************************)
(* What the terminal UI makes of the keys typed in its input modes: four   *)
(* buffers, one per field, and at the last Enter a solution (handle_key    *)
(* 's', handle_input_mode, current_buffer_mut, advance_input, decode_hex). *)
(* Quit keys end the program before they get here; Tui has them, and the   *)
(* await of submit_solution.                                               *)
(*                                                                         *)
(* A character is the value of a hex digit, 0 to 15, or NotHex.            *)
(***************************************************************************)
EXTENDS Naturals, Sequences, FiniteSets, TuiInput

CONSTANTS
  Chars,      \* the characters typed
  U32Mod,     \* number of values of a u32
  MaxKeys     \* bound: keys pressed in one session of the form

NotHex == 16
ASSUME CharsAssumption == Chars \subseteq 0 .. NotHex
ASSUME U32ModAssumption == U32Mod \in Nat \ {0}
ASSUME MaxKeysAssumption == MaxKeys \in Nat

VARIABLES
  mode,        \* input_mode
  buf,         \* version_buf, timestamp_buf, nonce_buf, coinbase_buf
  submitted,   \* what the last session gave submit_solution, or << >>
  keys         \* history: the keys of the last session, oldest first

vars == <<mode, buf, submitted, keys>>

Enter == [key |-> "enter"]
Backspace == [key |-> "backspace"]
Char(c) == [key |-> "char", char |-> c]

Init ==
  /\ mode = "Normal"
  /\ buf = [f \in Fields |-> << >>]
  /\ submitted = << >>
  /\ keys = << >>

OpenMutant ==             \* coinbase_buf keeps what the last session left in it
  /\ mode = "Normal"
  /\ mode' = "Version"
  /\ buf' = [f \in Fields |-> IF f = "Coinbase" THEN buf[f] ELSE << >>]
  /\ submitted' = << >>
  /\ keys' = << >>

\* 's': the buffers are cleared on the way in, not on the way out.
Open ==
  /\ mode = "Normal"
  /\ mode' = "Version"
  /\ buf' = [f \in Fields |-> << >>]
  /\ submitted' = << >>
  /\ keys' = << >>

Pressed(k) ==
  /\ mode \in Fields
  /\ Len(keys) < MaxKeys
  /\ keys' = Append(keys, k)

AcceptsMutant(field, c) == TRUE      \* the filter is forgotten

\* What a field takes: hex digits the coinbase, decimal digits the others.
Accepts(field, c) == IF field = "Coinbase" THEN c <= 15 ELSE c <= 9

Type(c) ==
  /\ Pressed(Char(c))
  /\ buf' = IF Accepts(mode, c) THEN [buf EXCEPT ![mode] = Append(@, c)] ELSE buf
  /\ UNCHANGED <<mode, submitted>>

\* pop: nothing happens to a field that is empty.
Erase ==
  /\ Pressed(Backspace)
  /\ buf' = [buf EXCEPT ![mode] = SubSeq(@, 1, Len(@) - 1)]
  /\ UNCHANGED <<mode, submitted>>

\* The value of a text so far, digit by digit.
Value(text) ==
  LET value[n \in 0 .. Len(text)] == IF n = 0 THEN 0 ELSE 10 * value[n - 1] + text[n]
  IN  value

\* parse::<u32>().unwrap_or(0): no digits, or more than a u32 holds, are zero.
ParseU32(text) ==
  LET value == Value(text)[Len(text)] IN IF value < U32Mod THEN value ELSE 0

\* decode_hex(..).unwrap_or_default(): two digits are a byte, and an odd number
\* of digits is no coinbase at all.
DecodeHex(text) ==
  IF Len(text) % 2 # 0 THEN << >>
  ELSE [i \in 1 .. Len(text) \div 2 |-> 16 * text[2 * i - 1] + text[2 * i]]

Confirm ==
  /\ Pressed(Enter)
  /\ mode' = NextMode[mode]
  /\ submitted' = IF mode # "Coinbase" THEN submitted
                  ELSE <<ParseU32(buf["Version"]), ParseU32(buf["Timestamp"]),
                         ParseU32(buf["Nonce"]), DecodeHex(buf["Coinbase"])>>
  /\ UNCHANGED buf

Next == Open \/ (\E c \in Chars : Type(c)) \/ Erase \/ Confirm

Spec == Init /\ [][Next]_vars

(***************************************************************************)
(* A second reading of a session, from its keys alone.                     *)
(***************************************************************************)
Occurs(K, from, to) == Cardinality({i \in from .. to : keys[i] \in K})

\* The positions of the keys pressed while the n-th field was open.
Segment(n) ==
  {i \in DOMAIN keys : keys[i] # Enter /\ Occurs({Enter}, 1, i - 1) = n - 1}

Taken(field) == {Char(c) : c \in {d \in Chars : Accepts(field, d)}}

\* A character the field takes is still there at the end iff backspaces never
\* outnumber such characters in what was typed after it.
Left(n, field) ==
  {i \in Segment(n) :
     /\ keys[i] \in Taken(field)
     /\ \A j \in Segment(n) :
          i < j => Occurs({Backspace}, i + 1, j) <= Occurs(Taken(field), i + 1, j)}

Nth(S, k) == CHOOSE i \in S : Cardinality({j \in S : j <= i}) = k

Text(n, field) ==
  [k \in 1 .. Cardinality(Left(n, field)) |-> keys[Nth(Left(n, field), k)].char]

\* The u32 a text denotes in decimal, zero if there is none.
Tens[k \in Nat] == IF k = 0 THEN 1 ELSE 10 * Tens[k - 1]
Denotes(text, v) ==
  /\ v < Tens[Len(text)]
  /\ \A i \in 1 .. Len(text) : text[i] = (v \div Tens[Len(text) - i]) % 10
Decimal(text) ==
  IF \E v \in 0 .. U32Mod - 1 : Denotes(text, v)
    THEN CHOOSE v \in 0 .. U32Mod - 1 : Denotes(text, v) ELSE 0

(***************************************************************************)
(* Properties.                                                             *)
(***************************************************************************)
Texts == Seq(0 .. 15)
TypeOK ==
  /\ mode \in Modes
  /\ buf \in [Fields -> Texts]
  /\ submitted = << >> \/ submitted \in (0 .. U32Mod - 1) \X (0 .. U32Mod - 1)
                                          \X (0 .. U32Mod - 1) \X Seq(0 .. 255)
  /\ keys \in Seq({Enter, Backspace} \cup {Char(c) : c \in Chars})

\* The solution submitted is the one a reader of the session's keys would write
\* down: nothing of an earlier session is in it, no field has taken another's
\* characters, a number is the u32 it denotes or zero, and the coinbase is
\* either all of the bytes typed or none.
SubmittedAsTyped ==
  submitted # << >> =>
    /\ submitted[1] = Decimal(Text(1, "Version"))
    /\ submitted[2] = Decimal(Text(2, "Timestamp"))
    /\ submitted[3] = Decimal(Text(3, "Nonce"))
    /\ LET hex == Text(4, "Coinbase") IN
       /\ Len(submitted[4]) * 2 = (IF Len(hex) % 2 = 0 THEN Len(hex) ELSE 0)
       /\ \A i \in DOMAIN submitted[4] :
            /\ submitted[4][i] \div 16 = hex[2 * i - 1]
            /\ submitted[4][i] % 16 = hex[2 * i]
=============================================================================
