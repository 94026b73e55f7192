------------------------- MODULE SolutionFormProofs -------------------------
(***************************************************************************)
(* Theorems about SolutionForm, for every set of characters, every width   *)
(* and sessions of every length.                                           *)
(***************************************************************************)
EXTENDS SolutionForm, SequenceTheorems, FiniteSetTheorems, TLAPS

(***************************************************************************)
(* Induction.  The induction theorems of the library take a predicate as a *)
(* parameter; what is needed here is stated for sets, and follows from     *)
(* naturals being well-founded.                                            *)
(***************************************************************************)
LEMMA LeastNat ==
  ASSUME NEW T, T \subseteq Nat, T # {}
  PROVE  \E m \in T : \A k \in T : m <= k
<1>. DEFINE R == {ss \in Nat \X Nat : ss[1] < ss[2]}
<1>1. IsWellFoundedOn(R, Nat)
  BY NatLessThanWellFounded DEF OpToRel
<1>2. \A x, y \in Nat : y < x => <<y, x>> \in R
  OBVIOUS
<1>. HIDE DEF R
<1>3. PICK x \in T : \A y \in T : ~ (<<y, x>> \in R)
  BY <1>1, WFMin
<1>4. \A y \in T : ~(y < x)
  BY <1>2, <1>3
<1>. QED  BY <1>4

LEMMA SetInduction ==
  ASSUME NEW S, 0 \in S, \A n \in Nat : n \in S => n + 1 \in S
  PROVE  \A n \in Nat : n \in S
<1>. SUFFICES ASSUME Nat \ S # {} PROVE FALSE
  OBVIOUS
<1>1. PICK m \in Nat \ S : \A k \in Nat \ S : m <= k
  BY LeastNat
<1>2. m - 1 \in Nat /\ m - 1 \in S
  BY <1>1
<1>. QED  BY <1>1, <1>2

StepType(step) == step \in [Nat -> [Nat -> Nat]]

\* f is the first n + 1 values of a recursion.
Unfolds(f, n, first, step) ==
  /\ f \in [0 .. n -> Nat]
  /\ f[0] = first
  /\ \A i \in 0 .. n - 1 : f[i + 1] = step[i + 1][f[i]]

LEMMA UnfoldsOnce ==
  ASSUME NEW first, NEW step, NEW n \in Nat, NEW m \in Nat, NEW f, NEW g,
         Unfolds(f, n, first, step), Unfolds(g, m, first, step)
  PROVE  \A i \in Nat : i <= n /\ i <= m => f[i] = g[i]
<1>. DEFINE S == {i \in Nat : i <= n /\ i <= m => f[i] = g[i]}
<1>1. 0 \in S
  BY DEF Unfolds
<1>2. ASSUME NEW i \in Nat, i \in S PROVE i + 1 \in S
  <2>. SUFFICES ASSUME i + 1 <= n, i + 1 <= m PROVE f[i + 1] = g[i + 1]
    OBVIOUS
  <2>1. f[i] = g[i] /\ i \in 0 .. n - 1 /\ i \in 0 .. m - 1
    BY <1>2
  <2>. QED  BY <2>1 DEF Unfolds
<1>. HIDE DEF S
<1>3. \A i \in Nat : i \in S
  BY <1>1, <1>2, SetInduction
<1>. QED  BY <1>3 DEF S

LEMMA UnfoldsEver ==
  ASSUME NEW first \in Nat, NEW step, StepType(step)
  PROVE  \A n \in Nat : \E f : Unfolds(f, n, first, step)
<1>. DEFINE S == {n \in Nat : \E f : Unfolds(f, n, first, step)}
<1>1. 0 \in S
  <2>1. Unfolds([i \in 0 .. 0 |-> first], 0, first, step)
    BY DEF Unfolds
  <2>. QED  BY <2>1
<1>2. ASSUME NEW n \in Nat, n \in S PROVE n + 1 \in S
  <2>1. PICK f : Unfolds(f, n, first, step)
    BY <1>2
  <2>. DEFINE g == [i \in 0 .. n + 1 |-> IF i <= n THEN f[i] ELSE step[n + 1][f[n]]]
  <2>2. f[n] \in Nat /\ step[n + 1] \in [Nat -> Nat]
    <3>1. n \in 0 .. n /\ n + 1 \in Nat
      OBVIOUS
    <3>. QED  BY <2>1, <3>1 DEF Unfolds, StepType
  <2>3. g \in [0 .. n + 1 -> Nat]
    <3>1. step[n + 1][f[n]] \in Nat
      BY <2>2
    <3>2. \A i \in 0 .. n + 1 : i <= n => i \in 0 .. n
      OBVIOUS
    <3>. QED  BY <2>1, <3>1, <3>2 DEF Unfolds
  <2>4. g[0] = first
    BY <2>1 DEF Unfolds
  <2>5. ASSUME NEW i \in 0 .. (n + 1) - 1 PROVE g[i + 1] = step[i + 1][g[i]]
    <3>1. i \in 0 .. n + 1 /\ i + 1 \in 0 .. n + 1 /\ g[i] = f[i]
      OBVIOUS
    <3>2. CASE i = n
      BY <3>1, <3>2
    <3>3. CASE i # n
      <4>1. i \in 0 .. n - 1 /\ i + 1 <= n
        BY <3>3
      <4>2. g[i + 1] = f[i + 1]
        BY <3>1, <4>1
      <4>. QED  BY <2>1, <3>1, <4>1, <4>2 DEF Unfolds
    <3>. QED  BY <3>2, <3>3
  <2>6. \A i \in 0 .. (n + 1) - 1 : g[i + 1] = step[i + 1][g[i]]
    BY <2>5
  <2>. HIDE DEF g
  <2>7. Unfolds(g, n + 1, first, step)
    BY <2>3, <2>4, <2>6 DEF Unfolds
  <2>. QED  BY <2>7
<1>. HIDE DEF S
<1>3. \A n \in Nat : n \in S
  BY <1>1, <1>2, SetInduction
<1>. QED  BY <1>3 DEF S

Recurs(f, first, step) ==
  f \in [Nat -> Nat] /\ f[0] = first /\ \A n \in Nat : f[n + 1] = step[n + 1][f[n]]

LEMMA Recursion ==
  ASSUME NEW first \in Nat, NEW step, StepType(step)
  PROVE  \E f : Recurs(f, first, step)
<1>. DEFINE part == [n \in Nat |-> CHOOSE f : Unfolds(f, n, first, step)]
            whole == [n \in Nat |-> part[n][n]]
<1>1. \A n \in Nat : Unfolds(part[n], n, first, step)
  BY UnfoldsEver
<1>. HIDE DEF part
<1>2. whole \in [Nat -> Nat] /\ whole[0] = first
  BY <1>1 DEF Unfolds
<1>3. ASSUME NEW n \in Nat PROVE whole[n + 1] = step[n + 1][whole[n]]
  <2>1. PICK m \in Nat : m = n + 1
    OBVIOUS
  <2>2. Unfolds(part[n], n, first, step) /\ Unfolds(part[m], m, first, step)
    BY <1>1
  <2>3. \A i \in Nat : i <= m /\ i <= n => part[m][i] = part[n][i]
    BY <2>2, UnfoldsOnce
  <2>4. part[m][n] = part[n][n]
    BY <2>1, <2>3
  <2>5. n \in 0 .. m - 1
    BY <2>1
  <2>6. part[m][n + 1] = step[n + 1][part[m][n]]
    BY <2>2, <2>5 DEF Unfolds
  <2>. QED  BY <2>1, <2>4, <2>6
<1>. QED  BY <1>2, <1>3 DEF Recurs

(***************************************************************************)
(* Texts and numbers.                                                      *)
(***************************************************************************)
LEMMA Tenfold == \A a, b \in Nat : 10 * a + b \in Nat
OBVIOUS

LEMMA TensFacts ==
  Tens \in [Nat -> Nat] /\ Tens[0] = 1 /\ \A k \in Nat : Tens[k + 1] = 10 * Tens[k]
<1>. DEFINE step == [n \in Nat |-> [v \in Nat |-> 10 * v]]
            IsTens(f) == f = [k \in Nat |-> IF k = 0 THEN 1 ELSE 10 * f[k - 1]]
<1>0. 1 \in Nat
  OBVIOUS
<1>1. StepType(step)
  BY DEF StepType
<1>2. \A n, v \in Nat : step[n][v] = 10 * v
  OBVIOUS
<1>. HIDE DEF step
<1>. HIDE DEF IsTens
<1>11. PICK f : Recurs(f, 1, step)
  BY <1>0, <1>1, Recursion
<1>3. f \in [Nat -> Nat] /\ f[0] = 1 /\ \A n \in Nat : f[n + 1] = step[n + 1][f[n]]
  BY <1>11 DEF Recurs
<1>4. ASSUME NEW k \in Nat, k # 0 PROVE f[k] = 10 * f[k - 1]
  <2>1. k - 1 \in Nat /\ (k - 1) + 1 = k
    BY <1>4
  <2>2. f[k - 1] \in Nat
    BY <2>1, <1>3
  <2>3. f[(k - 1) + 1] = step[(k - 1) + 1][f[k - 1]]
    BY <2>1, <1>3
  <2>. QED  BY <1>2, <2>1, <2>2, <2>3
<1>5. IsTens(f)
  BY <1>3, <1>4 DEF IsTens
<1>6. IsTens(Tens)
  BY <1>5 DEF Tens, IsTens
<1>7. \A k \in Nat : Tens[k] = IF k = 0 THEN 1 ELSE 10 * Tens[k - 1]
  BY <1>6 DEF IsTens
<1>8. \A k \in Nat : Tens[k + 1] = 10 * Tens[k]
  <2>. TAKE k \in Nat
  <2>1. k + 1 \in Nat /\ k + 1 # 0 /\ (k + 1) - 1 = k
    OBVIOUS
  <2>. QED  BY <1>7, <2>1
<1>9. \A n \in Nat : Tens[n] \in Nat
  <2>. DEFINE S == {n \in Nat : Tens[n] \in Nat}
  <2>1. 0 \in S /\ \A n \in Nat : n \in S => n + 1 \in S
    BY <1>7, <1>8
  <2>. HIDE DEF S
  <2>2. \A n \in Nat : n \in S
    BY <2>1, SetInduction
  <2>. QED  BY <2>2 DEF S
<1>10. Tens = [k \in Nat |-> Tens[k]]
  BY <1>6 DEF IsTens
<1>. QED  BY <1>7, <1>8, <1>9, <1>10

LEMMA TensPositive == \A n \in Nat : Tens[n] \in Nat \ {0}
<1>. DEFINE S == {n \in Nat : Tens[n] \in Nat \ {0}}
<1>1. 0 \in S /\ \A n \in Nat : n \in S => n + 1 \in S
  BY TensFacts
<1>. HIDE DEF S
<1>2. \A n \in Nat : n \in S
  BY <1>1, SetInduction
<1>. QED  BY <1>2 DEF S

LEMMA ValueFacts ==
  ASSUME NEW text \in Seq(Nat)
  PROVE  /\ Value(text) \in [0 .. Len(text) -> Nat]
         /\ Value(text)[0] = 0
         /\ \A n \in 0 .. Len(text) - 1 : Value(text)[n + 1] = 10 * Value(text)[n] + text[n + 1]
<1>. DEFINE N == Len(text)
            step == [n \in Nat |-> [v \in Nat |-> IF n \in 1 .. N THEN 10 * v + text[n] ELSE 0]]
            IsValue(f) == f = [n \in 0 .. N |-> IF n = 0 THEN 0 ELSE 10 * f[n - 1] + text[n]]
<1>0. N \in Nat /\ 0 \in Nat /\ \A n \in 1 .. N : text[n] \in Nat
  OBVIOUS
<1>. HIDE DEF N
<1>1. StepType(step)
  BY <1>0 DEF StepType
<1>2. \A n \in 1 .. N : \A v \in Nat : step[n][v] = 10 * v + text[n]
  BY <1>0
<1>. HIDE DEF step
<1>. HIDE DEF IsValue
<1>13. PICK f : Recurs(f, 0, step)
  BY <1>0, <1>1, Recursion
<1>3. f \in [Nat -> Nat] /\ f[0] = 0 /\ \A n \in Nat : f[n + 1] = step[n + 1][f[n]]
  BY <1>13 DEF Recurs
<1>. DEFINE g == [n \in 0 .. N |-> f[n]]
<1>4. ASSUME NEW n \in 0 .. N, n # 0 PROVE g[n] = 10 * g[n - 1] + text[n]
  <2>1. n - 1 \in Nat /\ (n - 1) + 1 = n /\ n \in 1 .. N /\ n - 1 \in 0 .. N
    BY <1>0, <1>4
  <2>2. f[n - 1] \in Nat
    BY <2>1, <1>3
  <2>3. f[(n - 1) + 1] = step[(n - 1) + 1][f[n - 1]]
    BY <2>1, <1>3
  <2>. QED  BY <1>2, <2>1, <2>2, <2>3
<1>5. g[0] = 0
  BY <1>0, <1>3
<1>6. IsValue(g)
  BY <1>4, <1>5 DEF IsValue
<1>7. IsValue(Value(text))
  <2>1. Value(text) = CHOOSE h : IsValue(h)
    BY DEF Value, N, IsValue
  <2>. HIDE DEF g
  <2>. QED  BY <1>6, <2>1
<1>. DEFINE v == Value(text)
<1>. HIDE DEF v, g
<1>8. v = [n \in 0 .. N |-> IF n = 0 THEN 0 ELSE 10 * v[n - 1] + text[n]]
  BY <1>7 DEF v, IsValue
<1>9. v[0] = 0
  BY <1>0, <1>8
<1>10. \A n \in 0 .. N - 1 : v[n + 1] = 10 * v[n] + text[n + 1]
  <2>. TAKE n \in 0 .. N - 1
  <2>1. n + 1 \in 0 .. N /\ n + 1 # 0 /\ (n + 1) - 1 = n
    BY <1>0
  <2>. QED  BY <1>8, <2>1
<1>11. \A n \in 0 .. N : v[n] \in Nat
  <2>. DEFINE S == {n \in Nat : n <= N => v[n] \in Nat}
  <2>1. 0 \in S
    BY <1>9
  <2>2. ASSUME NEW n \in Nat, n \in S PROVE n + 1 \in S
    <3>. SUFFICES ASSUME n + 1 <= N PROVE v[n + 1] \in Nat
      OBVIOUS
    <3>1. n \in 0 .. N - 1 /\ n + 1 \in 1 .. N /\ v[n] \in Nat
      BY <1>0, <2>2
    <3>2. v[n + 1] = 10 * v[n] + text[n + 1] /\ text[n + 1] \in Nat
      BY <1>0, <1>10, <3>1
    <3>3. 10 * v[n] + text[n + 1] \in Nat
      BY <3>1, <3>2, Tenfold
    <3>. QED  BY <3>2, <3>3
  <2>. HIDE DEF S
  <2>3. \A n \in Nat : n \in S
    BY <2>1, <2>2, SetInduction
  <2>. QED  BY <1>0, <2>3 DEF S
<1>12. v \in [0 .. N -> Nat]
  <2>1. v = [n \in 0 .. N |-> v[n]]
    BY <1>8
  <2>. QED  BY <1>11, <2>1
<1>. QED  BY <1>9, <1>10, <1>12 DEF v, N

\* Division is what it should be, also by what is not a numeral.
LEMMA Quotient ==
  ASSUME NEW v \in Nat, NEW d \in Nat \ {0}
  PROVE  /\ v \div d \in Nat
         /\ (v \div d) * d <= v /\ v < (v \div d) * d + d
         /\ \A q \in Nat : q * d <= v /\ v < q * d + d => q = v \div d
<1>. DEFINE r == v \div d
<1>1. r \in Nat /\ r * d <= v /\ v < r * d + d
  OBVIOUS
<1>. HIDE DEF r
<1>2. ASSUME NEW q \in Nat, q * d <= v, v < q * d + d PROVE q = r
  <2>1. CASE q < r
    <3>1. PICK e \in Nat : r = q + 1 + e
      <4>1. r - q - 1 \in Nat /\ r = q + 1 + (r - q - 1)
        BY <1>1, <2>1
      <4>. QED  BY <4>1
    <3>2. r * d = q * d + d + e * d /\ e * d >= 0
      BY <3>1
    <3>. QED  BY <1>1, <1>2, <3>2
  <2>2. CASE r < q
    <3>1. PICK e \in Nat : q = r + 1 + e
      <4>1. q - r - 1 \in Nat /\ q = r + 1 + (q - r - 1)
        BY <1>1, <2>2
      <4>. QED  BY <4>1
    <3>2. q * d = r * d + d + e * d /\ e * d >= 0
      BY <1>1, <3>1
    <3>. QED  BY <1>1, <1>2, <3>2
  <2>. QED  BY <1>1, <2>1, <2>2
<1>. QED  BY <1>1, <1>2 DEF r

\* A number of one digit more denotes that digit, and the rest what it denoted.
LEMMA OneNumeral ==
  ASSUME NEW a \in Nat, NEW b \in Nat, NEW d \in 0 .. 9, NEW e \in 0 .. 9
  PROVE  10 * a + d = 10 * b + e <=> a = b /\ d = e
OBVIOUS

LEMMA LastDigit ==
  ASSUME NEW v \in Nat
  PROVE  /\ v \div 10 \in Nat /\ (v % 10) \in 0 .. 9 /\ v \div 1 = v
         /\ v = 10 * (v \div 10) + (v % 10)
OBVIOUS

LEMMA Shift ==
  ASSUME NEW v \in Nat, NEW p \in Nat \ {0}
  PROVE  /\ v < 10 * p <=> v \div 10 < p
         /\ v \div (10 * p) = (v \div 10) \div p
<1>. DEFINE a == v \div 10
            q == a \div p
<1>1. a \in Nat /\ v = 10 * a + (v % 10) /\ (v % 10) \in 0 .. 9
  BY LastDigit
<1>2. q \in Nat /\ q * p <= a /\ a < q * p + p
  BY <1>1, Quotient
<1>. HIDE DEF a, q
<1>3. q * (10 * p) = 10 * (q * p)
  BY <1>2
<1>4. q * p \in Nat
  BY <1>2
<1>5. q * (10 * p) <= v /\ v < q * (10 * p) + 10 * p
  BY <1>1, <1>2, <1>3, <1>4
<1>6. 10 * p \in Nat \ {0}
  OBVIOUS
<1>7. q = v \div (10 * p)
  BY <1>2, <1>5, <1>6, Quotient
<1>8. v < 10 * p <=> a < p
  BY <1>1
<1>. QED  BY <1>7, <1>8 DEF a, q

\* Positional notation has one reading, the one parse computes digit by digit.
LEMMA OneReading ==
  ASSUME NEW text \in Seq(0 .. 9), NEW v \in Nat
  PROVE  Denotes(text, v) <=> v = Value(text)[Len(text)]
<1>. DEFINE N == Len(text)
            val == Value(text)
            D(n, w) == /\ w < Tens[n]
                       /\ \A i \in 1 .. n : text[i] = (w \div Tens[n - i]) % 10
            S == {n \in Nat : n <= N => \A w \in Nat : D(n, w) <=> w = val[n]}
<1>1. N \in Nat /\ text \in Seq(Nat) /\ \A n \in 1 .. N : text[n] \in 0 .. 9
  OBVIOUS
<1>2. /\ val \in [0 .. N -> Nat] /\ val[0] = 0
      /\ \A n \in 0 .. N - 1 : val[n + 1] = 10 * val[n] + text[n + 1]
  BY <1>1, ValueFacts
<1>. HIDE DEF val, N
<1>3. 0 \in S
  <2>1. \A w \in Nat : w < 1 <=> w = 0
    OBVIOUS
  <2>2. \A w \in Nat : D(0, w) <=> w = val[0]
    <3>1. 1 .. 0 = {} /\ Tens[0] = 1 /\ val[0] = 0
      BY <1>2, TensFacts
    <3>. QED  BY <2>1, <3>1, Zenon
  <2>. QED  BY <2>2
<1>4. ASSUME NEW n \in Nat, n \in S PROVE n + 1 \in S
  <2>. SUFFICES ASSUME n + 1 <= N, NEW w \in Nat
                PROVE  D(n + 1, w) <=> w = val[n + 1]
    OBVIOUS
  <2>1. n \in 0 .. N - 1 /\ n + 1 \in 1 .. N /\ n <= N
    BY <1>1
  <2>2. \A u \in Nat : D(n, u) <=> u = val[n]
    BY <1>4, <2>1
  <2>. HIDE DEF S
  <2>3. PICK rest \in Nat : rest = w \div 10
    BY LastDigit
  <2>4. w = 10 * rest + (w % 10) /\ (w % 10) \in 0 .. 9
    BY <2>3, LastDigit
  <2>5. w < Tens[n + 1] <=> rest < Tens[n]
    <3>1. Tens[n + 1] = 10 * Tens[n] /\ Tens[n] \in Nat \ {0}
      BY TensFacts, TensPositive
    <3>2. \A p \in Nat \ {0} : w < 10 * p <=> w \div 10 < p
      BY Shift
    <3>. QED  BY <2>3, <3>1, <3>2
  <2>6. ASSUME NEW i \in 1 .. n
        PROVE  w \div Tens[n + 1 - i] = rest \div Tens[n - i]
    <3>1. n - i \in Nat /\ n + 1 - i = (n - i) + 1
      OBVIOUS
    <3>2. Tens[n + 1 - i] = 10 * Tens[n - i] /\ Tens[n - i] \in Nat \ {0}
      BY <3>1, TensFacts, TensPositive
    <3>3. \A p \in Nat \ {0} : w \div (10 * p) = (w \div 10) \div p
      BY Shift
    <3>. QED  BY <2>3, <3>2, <3>3
  <2>7. w \div Tens[n + 1 - (n + 1)] = w
    <3>1. n + 1 - (n + 1) = 0
      OBVIOUS
    <3>. QED  BY <3>1, TensFacts, LastDigit
  <2>8. (\A i \in 1 .. n + 1 : text[i] = (w \div Tens[n + 1 - i]) % 10)
          <=> (\A i \in 1 .. n : text[i] = (rest \div Tens[n - i]) % 10) /\ text[n + 1] = (w % 10)
    <3>1. 1 .. n + 1 = (1 .. n) \cup {n + 1}
      OBVIOUS
    <3>. QED  BY <2>6, <2>7, <3>1, Zenon
  <2>9. D(n + 1, w) <=> D(n, rest) /\ text[n + 1] = (w % 10)
    BY <2>5, <2>8
  <2>10. D(n, rest) <=> rest = val[n]
    BY <2>2, Zenon
  <2>11. val[n + 1] = 10 * val[n] + text[n + 1] /\ val[n] \in Nat /\ text[n + 1] \in 0 .. 9
    <3>1. n \in 0 .. N
      BY <1>1, <2>1
    <3>. QED  BY <1>1, <1>2, <2>1, <3>1
  <2>. HIDE DEF D
  <2>12. rest = val[n] /\ text[n + 1] = (w % 10) <=> w = val[n + 1]
    <3>1. PICK d \in 0 .. 9 : d = w % 10
      BY <2>4
    <3>2. PICK a \in Nat, t \in 0 .. 9 : a = val[n] /\ t = text[n + 1]
      BY <2>11
    <3>3. w = 10 * rest + d /\ val[n + 1] = 10 * a + t
      BY <2>4, <2>11, <3>1, <3>2
    <3>4. 10 * rest + d = 10 * a + t <=> rest = a /\ d = t
      BY OneNumeral
    <3>5. rest = a /\ t = d <=> w = val[n + 1]
      BY <3>3, <3>4
    <3>. QED  BY <3>1, <3>2, <3>5
  <2>. QED  BY <2>9, <2>10, <2>12
<1>. HIDE DEF S
<1>5. N \in S
  BY <1>1, <1>3, <1>4, SetInduction
<1>. QED  BY <1>1, <1>5 DEF S, Denotes, val, N

\* What parse makes of a field is the u32 the field denotes, or zero.
LEMMA ParseIsDecimal ==
  ASSUME NEW text \in Seq(0 .. 9)
  PROVE  ParseU32(text) = Decimal(text) /\ ParseU32(text) \in 0 .. U32Mod - 1
<1>1. text \in Seq(Nat) /\ Len(text) \in Nat
  OBVIOUS
<1>2. Value(text)[Len(text)] \in Nat
  BY <1>1, ValueFacts
<1>3. \A v \in 0 .. U32Mod - 1 : Denotes(text, v) <=> v = Value(text)[Len(text)]
  BY OneReading, U32ModAssumption
<1>. QED  BY <1>2, <1>3, U32ModAssumption DEF ParseU32, Decimal
(***************************************************************************)
(* Counting keys, and what one key more makes of the counts.               *)
(***************************************************************************)
Key == {Enter, Backspace} \cup {Char(c) : c \in Chars}

LEMMA OccursType ==
  ASSUME NEW K, NEW a \in Nat, NEW b \in Nat
  PROVE  IsFiniteSet({i \in a .. b : keys[i] \in K}) /\ Occurs(K, a, b) \in Nat
<1>1. IsFiniteSet(a .. b)
  BY FS_Interval
<1>2. {i \in a .. b : keys[i] \in K} \in SUBSET (a .. b)
  OBVIOUS
<1>3. IsFiniteSet({i \in a .. b : keys[i] \in K})
  BY <1>1, <1>2, FS_Subset
<1>. QED  BY <1>3, FS_CardinalityType DEF Occurs

LEMMA Longer ==
  ASSUME keys \in Seq(Key), NEW k \in Key, keys' = Append(keys, k)
  PROVE  /\ Len(keys) \in Nat /\ Len(keys') = Len(keys) + 1
         /\ DOMAIN keys = 1 .. Len(keys) /\ DOMAIN keys' = 1 .. Len(keys) + 1
         /\ \A i \in 1 .. Len(keys) : keys'[i] = keys[i]
         /\ keys'[Len(keys) + 1] = k
OBVIOUS

LEMMA OccursBefore ==
  ASSUME keys \in Seq(Key), NEW k \in Key, keys' = Append(keys, k),
         NEW K, NEW a \in Nat \ {0}, NEW b \in 0 .. Len(keys)
  PROVE  Occurs(K, a, b)' = Occurs(K, a, b)
<1>1. \A i \in a .. b : keys'[i] = keys[i]
  BY Longer
<1>2. {i \in a .. b : keys'[i] \in K} = {i \in a .. b : keys[i] \in K}
  BY <1>1
<1>. QED  BY <1>2 DEF Occurs

LEMMA OccursNow ==
  ASSUME keys \in Seq(Key), NEW k \in Key, keys' = Append(keys, k),
         NEW K, NEW last \in Nat, last = Len(keys), NEW a \in 1 .. last + 1
  PROVE  Occurs(K, a, last + 1)' = Occurs(K, a, last) + (IF k \in K THEN 1 ELSE 0)
<1>. DEFINE before == {i \in a .. last : keys[i] \in K}
            now == {i \in a .. last + 1 : keys'[i] \in K}
<1>1. Occurs(K, a, last + 1)' = Cardinality(now) /\ Occurs(K, a, last) = Cardinality(before)
  BY DEF Occurs
<1>2. IsFiniteSet(before) /\ Cardinality(before) \in Nat
  <2>1. a \in Nat
    OBVIOUS
  <2>2. IsFiniteSet(before) /\ Occurs(K, a, last) \in Nat
    BY <2>1, OccursType
  <2>. QED  BY <1>1, <2>2
<1>3. now = IF k \in K THEN before \cup {last + 1} ELSE before
  <2>1. \A i \in a .. last : keys'[i] = keys[i]
    BY Longer
  <2>2. keys'[last + 1] = k
    BY Longer
  <2>3. a .. last + 1 = (a .. last) \cup {last + 1}
    OBVIOUS
  <2>. QED  BY <2>1, <2>2, <2>3
<1>4. last + 1 \notin before
  OBVIOUS
<1>. HIDE DEF before, now
<1>5. Cardinality(now) = Cardinality(before) + (IF k \in K THEN 1 ELSE 0)
  <2>1. CASE k \in K
    <3>1. Cardinality(before \cup {last + 1}) = Cardinality(before) + 1
      BY <1>2, <1>4, FS_AddElement
    <3>. QED  BY <1>3, <2>1, <3>1
  <2>2. CASE k \notin K
    BY <1>2, <1>3, <2>2
  <2>. QED  BY <2>1, <2>2
<1>. QED  BY <1>1, <1>5

LEMMA SegmentNow ==
  ASSUME keys \in Seq(Key), NEW k \in Key, keys' = Append(keys, k), NEW n \in Nat
  PROVE  Segment(n)' = Segment(n) \cup
           (IF k # Enter /\ Occurs({Enter}, 1, Len(keys)) = n - 1 THEN {Len(keys) + 1} ELSE {})
<1>. DEFINE L == Len(keys)
<1>1. L \in Nat
  BY Longer
<1>2. ASSUME NEW i \in 1 .. L + 1
      PROVE  Occurs({Enter}, 1, i - 1)' = Occurs({Enter}, 1, i - 1)
  <2>1. i - 1 \in 0 .. Len(keys) /\ 1 \in Nat \ {0}
    BY <1>1
  <2>. QED  BY <2>1, OccursBefore
<1>3. (L + 1) - 1 = L
  BY <1>1
<1>4. 1 .. L + 1 = (1 .. L) \cup {L + 1}
  BY <1>1
<1>5. Segment(n)' = {i \in 1 .. L + 1 : keys'[i] # Enter /\ Occurs({Enter}, 1, i - 1)' = n - 1}
  BY Longer DEF Segment
<1>6. Segment(n) = {i \in 1 .. L : keys[i] # Enter /\ Occurs({Enter}, 1, i - 1) = n - 1}
  BY Longer DEF Segment
<1>7. (\A i \in 1 .. L : keys'[i] = keys[i]) /\ keys'[L + 1] = k
  BY Longer
<1>. HIDE DEF L
<1>8. Segment(n)' = {i \in 1 .. L + 1 : keys'[i] # Enter /\ Occurs({Enter}, 1, i - 1) = n - 1}
  BY <1>2, <1>5
<1>. QED  BY <1>3, <1>4, <1>6, <1>7, <1>8 DEF L

LEMMA LeftElsewhere ==
  ASSUME keys \in Seq(Key), NEW k \in Key, keys' = Append(keys, k), NEW n \in Nat, NEW field,
         k = Enter \/ Occurs({Enter}, 1, Len(keys)) # n - 1
  PROVE  Left(n, field)' = Left(n, field)
<1>1. Segment(n)' = Segment(n)
  BY SegmentNow
<1>2. Segment(n) \subseteq 1 .. Len(keys) /\ Len(keys) \in Nat
  BY Longer DEF Segment
<1>3. \A i \in Segment(n) : keys'[i] = keys[i]
  BY <1>2, Longer
<1>4. ASSUME NEW K, NEW i \in Segment(n), NEW j \in Segment(n)
      PROVE  Occurs(K, i + 1, j)' = Occurs(K, i + 1, j)
  <2>1. i + 1 \in Nat \ {0} /\ j \in 0 .. Len(keys)
    BY <1>2
  <2>. QED  BY <2>1, OccursBefore
<1>. DEFINE Q(i, j) == Occurs({Backspace}, i + 1, j) <= Occurs(Taken(field), i + 1, j)
            QNow(i, j) == Occurs({Backspace}, i + 1, j)' <= Occurs(Taken(field), i + 1, j)'
            T == Taken(field)
<1>5. \A i, j \in Segment(n) : QNow(i, j) <=> Q(i, j)
  BY <1>4
<1>6. /\ Left(n, field) = {i \in Segment(n) : keys[i] \in T /\ \A j \in Segment(n) : i < j => Q(i, j)}
      /\ Left(n, field)' = {i \in Segment(n)' : keys'[i] \in T /\ \A j \in Segment(n)' : i < j => QNow(i, j)}
  BY DEF Left
<1>. HIDE DEF T, Q, QNow
<1>. QED  BY <1>1, <1>3, <1>5, <1>6

\* What is left of the open field's places after one key more, k.
LeftAfter(n, field, k, last) ==
  {i \in Left(n, field) :
     Occurs({Backspace}, i + 1, last) + (IF k = Backspace THEN 1 ELSE 0)
       <= Occurs(Taken(field), i + 1, last) + (IF k \in Taken(field) THEN 1 ELSE 0)}
  \cup (IF k \in Taken(field) THEN {last + 1} ELSE {})

LEMMA LeftHere ==
  ASSUME keys \in Seq(Key), NEW k \in Key, keys' = Append(keys, k), NEW n \in Nat, NEW field,
         k # Enter, NEW last \in Nat, last = Len(keys), Occurs({Enter}, 1, last) = n - 1
  PROVE  Left(n, field)' = LeftAfter(n, field, k, last)
<1>. DEFINE T == Taken(field)
            Good(i) == Occurs({Backspace}, i + 1, last) + (IF k = Backspace THEN 1 ELSE 0)
                         <= Occurs(T, i + 1, last) + (IF k \in T THEN 1 ELSE 0)
            Q(i, j) == Occurs({Backspace}, i + 1, j) <= Occurs(T, i + 1, j)
            QNow(i, j) == Occurs({Backspace}, i + 1, j)' <= Occurs(T, i + 1, j)'
<1>1. Segment(n)' = Segment(n) \cup {last + 1}
  BY SegmentNow
<1>2. Segment(n) \subseteq 1 .. last 
  BY Longer DEF Segment
<1>3. (\A i \in Segment(n) : keys'[i] = keys[i]) /\ keys'[last + 1] = k
  BY <1>2, Longer
<1>4. ASSUME NEW i \in Segment(n), NEW j \in Segment(n) PROVE QNow(i, j) <=> Q(i, j)
  <2>1. i + 1 \in Nat \ {0} /\ j \in 0 .. Len(keys)
    BY <1>2
  <2>. QED  BY <2>1, OccursBefore
<1>5. ASSUME NEW i \in Segment(n) PROVE QNow(i, last + 1) <=> Good(i)
  <2>1. i + 1 \in 1 .. last + 1
    BY <1>2
  <2>2. Occurs(T, i + 1, last + 1)' = Occurs(T, i + 1, last) + (IF k \in T THEN 1 ELSE 0)
    BY <2>1, OccursNow
  <2>3. Occurs({Backspace}, i + 1, last + 1)'
          = Occurs({Backspace}, i + 1, last) + (IF k \in {Backspace} THEN 1 ELSE 0)
    BY <2>1, OccursNow
  <2>. QED  BY <2>2, <2>3
<1>6. /\ Left(n, field) = {i \in Segment(n) : keys[i] \in T /\ \A j \in Segment(n) : i < j => Q(i, j)}
      /\ Left(n, field)' = {i \in Segment(n)' : keys'[i] \in T /\ \A j \in Segment(n)' : i < j => QNow(i, j)}
  BY DEF Left
<1>. HIDE DEF T, Good, Q, QNow
<1>7. ASSUME NEW i \in Segment(n)
      PROVE  i \in Left(n, field)' <=> i \in Left(n, field) /\ Good(i)
  <2>1. i < last + 1
    BY <1>2
  <2>. QED  BY <1>1, <1>3, <1>4, <1>5, <1>6, <2>1
<1>8. last + 1 \in Left(n, field)' <=> k \in T
  <2>1. \A j \in Segment(n)' : ~(last + 1 < j)
    BY <1>1, <1>2
  <2>. QED  BY <1>1, <1>3, <1>6, <2>1
<1>9. last + 1 \notin Segment(n) /\ Left(n, field) \subseteq Segment(n) /\ Left(n, field)' \subseteq Segment(n)'
  BY <1>2, <1>6
<1>10. Left(n, field)' = {i \in Left(n, field) : Good(i)} \cup (IF k \in T THEN {last + 1} ELSE {})
  BY <1>1, <1>7, <1>8, <1>9
<1>. QED  BY <1>10 DEF T, Good, LeftAfter
(***************************************************************************)
(* The k-th member of a set, read off a list of its members in order.      *)
(***************************************************************************)
Ascending(p, m) ==
  p \in [1 .. m -> Nat] /\ \A i, j \in 1 .. m : i < j => p[i] < p[j]

Listed(p, m) == {p[k] : k \in 1 .. m}

LEMMA CountListed ==
  ASSUME NEW p, NEW m \in Nat, Ascending(p, m), NEW n \in 0 .. m
  PROVE  Cardinality(Listed(p, n)) = n
<1>. DEFINE f == [k \in 1 .. n |-> p[k]]
<1>1. \A i, j \in 1 .. n : f[i] = f[j] => i = j
  <2>. SUFFICES ASSUME NEW i \in 1 .. n, NEW j \in 1 .. n, i # j PROVE p[i] # p[j]
    OBVIOUS
  <2>1. i \in 1 .. m /\ j \in 1 .. m /\ (i < j \/ j < i)
    OBVIOUS
  <2>2. p[i] \in Nat /\ p[j] \in Nat /\ (p[i] < p[j] \/ p[j] < p[i])
    BY <2>1 DEF Ascending
  <2>. QED  BY <2>2
<1>2. f \in Bijection(1 .. n, Listed(p, n))
  <2>1. f \in [1 .. n -> Listed(p, n)]
    BY DEF Listed
  <2>2. \A x \in Listed(p, n) : \E k \in 1 .. n : f[k] = x
    BY DEF Listed
  <2>. HIDE DEF f
  <2>. QED  BY <1>1, <2>1, <2>2 DEF Bijection, Injection, Surjection, IsInjective
<1>3. ExistsBijection(1 .. n, Listed(p, n))
  BY <1>2 DEF ExistsBijection
<1>4. n \in Nat
  OBVIOUS
<1>. QED  BY <1>3, <1>4, FS_CountingElements

LEMMA NthListed ==
  ASSUME NEW p, NEW m \in Nat, Ascending(p, m), NEW k \in 1 .. m
  PROVE  Nth(Listed(p, m), k) = p[k]
<1>. DEFINE S == Listed(p, m)
            Upto(i) == {j \in S : j <= i}
<1>1. ASSUME NEW n \in 1 .. m PROVE Upto(p[n]) = Listed(p, n)
  <2>1. \A j \in 1 .. m : p[j] <= p[n] <=> j \in 1 .. n
    <3>. TAKE j \in 1 .. m
    <3>1. p[j] \in Nat /\ p[n] \in Nat /\ (j < n => p[j] < p[n]) /\ (n < j => p[n] < p[j])
      BY DEF Ascending
    <3>2. j = n => p[j] = p[n]
      OBVIOUS
    <3>. QED  BY <3>1, <3>2
  <2>2. 1 .. n \subseteq 1 .. m
    OBVIOUS
  <2>. QED  BY <2>1, <2>2 DEF Listed
<1>2. \A n \in 1 .. m : Cardinality(Upto(p[n])) = n
  BY <1>1, CountListed
<1>3. p[k] \in S /\ \A i \in S : \E n \in 1 .. m : i = p[n]
  BY DEF Listed
<1>4. Nth(S, k) = CHOOSE i \in S : Cardinality(Upto(i)) = k
  BY DEF Nth
<1>. HIDE DEF S, Upto
<1>5. \A i \in S : Cardinality(Upto(i)) = k => i = p[k]
  BY <1>2, <1>3
<1>6. Nth(S, k) = p[k]
  BY <1>2, <1>3, <1>4, <1>5
<1>. QED  BY <1>6 DEF S

(***************************************************************************)
(* The invariant.  Each character of a buffer was typed at a place of its  *)
(* own, and these are the places the second reading keeps; in the field    *)
(* that is open, what follows such a place has as many characters more     *)
(* than backspaces as there are characters after it in the buffer, so that *)
(* one more backspace takes the last of them and no other.                 *)
(***************************************************************************)
Number == [f \in Fields |-> CASE f = "Version"   -> 1
                              [] f = "Timestamp" -> 2
                              [] f = "Nonce"     -> 3
                              [] f = "Coinbase"  -> 4]

\* p gives the place of each character of the buffer of f.
Writes(f, p) ==
  /\ Ascending(p, Len(buf[f]))
  /\ Left(Number[f], f) = Listed(p, Len(buf[f]))
  /\ \A k \in 1 .. Len(buf[f]) : p[k] \in 1 .. Len(keys) /\ keys[p[k]] = Char(buf[f][k])

\* After each place as many characters are left as the buffer holds after it.
Erasable(f, p) ==
  \A k \in 1 .. Len(buf[f]) :
    Occurs(Taken(f), p[k] + 1, Len(keys))
      = Occurs({Backspace}, p[k] + 1, Len(keys)) + (Len(buf[f]) - k)

\* What is in a buffer is what its field takes.
Digits == \A f \in Fields : \A i \in 1 .. Len(buf[f]) : Accepts(f, buf[f][i])

\* The open field is the one after as many Enters; the later ones are empty.
Place ==
  mode \in Fields =>
    /\ Occurs({Enter}, 1, Len(keys)) = Number[mode] - 1
    /\ submitted = << >>
    /\ \A f \in Fields : Number[mode] < Number[f] => buf[f] = << >>

\* The buffers are what the second reading makes of the keys so far.
Spelled == \A f \in Fields : \E p : Writes(f, p) /\ (mode = f => Erasable(f, p))

\* What was submitted was made of the buffers, which stay as they were then.
Sent ==
  submitted # << >> =>
    submitted = <<ParseU32(buf["Version"]), ParseU32(buf["Timestamp"]),
                  ParseU32(buf["Nonce"]), DecodeHex(buf["Coinbase"])>>

FInv == TypeOK /\ Digits /\ Place /\ Spelled /\ Sent

LEMMA NumberFacts ==
  /\ \A f \in Fields : Number[f] \in 1 .. 4
  /\ \A f, g \in Fields : Number[f] = Number[g] => f = g
  /\ Number["Version"] = 1 /\ Number["Timestamp"] = 2 /\ Number["Nonce"] = 3 /\ Number["Coinbase"] = 4
BY DEF Number, Fields

LEMMA NextModeFacts ==
  ASSUME NEW f \in Fields
  PROVE  /\ NextMode[f] \in Modes
         /\ NextMode[f] = "Normal" <=> f = "Coinbase"
         /\ NextMode[f] \in Fields => Number[NextMode[f]] = Number[f] + 1
BY NumberFacts DEF NextMode, Fields, Modes

LEMMA KeyFacts ==
  /\ Enter \in Key /\ Backspace \in Key /\ Enter # Backspace
  /\ \A c \in Chars : Char(c) \in Key /\ Char(c) # Enter /\ Char(c) # Backspace /\ Char(c).char = c
  /\ \A f : Enter \notin Taken(f) /\ Backspace \notin Taken(f)
  /\ \A f : \A c \in Chars : Char(c) \in Taken(f) <=> Accepts(f, c)
<1>1. \A c : Char(c) # Enter /\ Char(c) # Backspace /\ Char(c).char = c
  BY DEF Char, Enter, Backspace
<1>2. Enter # Backspace
  BY DEF Enter, Backspace
<1>3. \A c, d : Char(c) = Char(d) => c = d
  <2>. TAKE c, d
  <2>1. Char(c).char = c /\ Char(d).char = d
    BY <1>1
  <2>. QED  BY <2>1
<1>. QED  BY <1>1, <1>2, <1>3 DEF Key, Taken

LEMMA TextFacts ==
  ASSUME NEW s \in Texts, NEW d \in 0 .. 15
  PROVE  /\ Len(s) \in Nat /\ (Len(s) = 0 <=> s = << >>)
         /\ Append(s, d) \in Texts /\ Len(Append(s, d)) = Len(s) + 1
         /\ Append(s, d)[Len(s) + 1] = d
         /\ \A i \in 1 .. Len(s) : Append(s, d)[i] = s[i] /\ s[i] \in 0 .. 15
BY DEF Texts

LEMMA PopFacts ==
  ASSUME NEW s \in Texts
  PROVE  /\ SubSeq(s, 1, Len(s) - 1) \in Texts
         /\ Len(SubSeq(s, 1, Len(s) - 1)) = IF Len(s) = 0 THEN 0 ELSE Len(s) - 1
         /\ \A i \in 1 .. Len(s) - 1 : SubSeq(s, 1, Len(s) - 1)[i] = s[i]
<1>. DEFINE n == Len(s) - 1
<1>1. Len(s) \in Nat /\ n \in Int /\ \A i \in 1 .. n : s[i] \in 0 .. 15
  BY DEF Texts
<1>2. /\ SubSeq(s, 1, n) \in Seq(0 .. 15)
      /\ Len(SubSeq(s, 1, n)) = IF 1 <= n THEN n - 1 + 1 ELSE 0
      /\ \A i \in 1 .. n - 1 + 1 : SubSeq(s, 1, n)[i] = s[1 + i - 1]
  BY <1>1, SubSeqProperties
<1>3. n - 1 + 1 = n /\ \A i \in 1 .. n : 1 + i - 1 = i
  BY <1>1
<1>. QED  BY <1>1, <1>2, <1>3 DEF Texts

(***************************************************************************)
(* What a key does to the fields: those that are not open keep their       *)
(* places, and the open one gains a place, loses its last or keeps them.   *)
(***************************************************************************)
LEMMA WritesElsewhere ==
  ASSUME TypeOK, Place, mode \in Fields, NEW k \in Key, keys' = Append(keys, k),
         NEW f \in Fields, k = Enter \/ f # mode, buf'[f] = buf[f],
         NEW p, Writes(f, p)
  PROVE  Writes(f, p)'
<1>1. keys \in Seq(Key)
  BY DEF TypeOK, Key
<1>2. Number[f] \in Nat
  BY NumberFacts
<1>3. k = Enter \/ Occurs({Enter}, 1, Len(keys)) # Number[f] - 1
  BY NumberFacts DEF Place
<1>4. Left(Number[f], f)' = Left(Number[f], f)
  BY <1>1, <1>2, <1>3, LeftElsewhere
<1>5. /\ \A i \in 1 .. Len(keys) : keys'[i] = keys[i] /\ i \in 1 .. Len(keys')
  BY <1>1, Longer
<1>. QED  BY <1>4, <1>5 DEF Writes

\* A key other than Enter in an open field f, with the places p of its text.
Here(f, k, last, p) ==
  /\ TypeOK /\ Place /\ mode = f /\ last = Len(keys)
  /\ k # Enter /\ keys' = Append(keys, k)
  /\ Writes(f, p) /\ Erasable(f, p)

LEMMA TypeFacts ==
  ASSUME TypeOK
  PROVE  /\ mode \in Modes /\ keys \in Seq(Key) /\ Len(keys) \in Nat
         /\ \A f \in Fields : buf[f] \in Texts /\ Len(buf[f]) \in Nat
BY DEF TypeOK, Key, Texts

\* The counts after a place x that has n characters of the text after it.
Counts(f, k, last, x, n) ==
  /\ x \in 1 .. last
  /\ Occurs(Taken(f), x + 1, last) \in Nat
  /\ Occurs({Backspace}, x + 1, last) \in Nat
  /\ Occurs(Taken(f), x + 1, last) = Occurs({Backspace}, x + 1, last) + n
  /\ Occurs(Taken(f), x + 1, last + 1)'
       = Occurs(Taken(f), x + 1, last) + (IF k \in Taken(f) THEN 1 ELSE 0)
  /\ Occurs({Backspace}, x + 1, last + 1)'
       = Occurs({Backspace}, x + 1, last) + (IF k = Backspace THEN 1 ELSE 0)

LEMMA CountsHere ==
  ASSUME NEW f \in Fields, NEW k \in Key, NEW last \in Nat, NEW p, Here(f, k, last, p)
  PROVE  \A i \in 1 .. Len(buf[f]) : Counts(f, k, last, p[i], Len(buf[f]) - i)
<1>. SUFFICES ASSUME NEW i \in 1 .. Len(buf[f])
              PROVE  Counts(f, k, last, p[i], Len(buf[f]) - i)
  OBVIOUS
<1>1. keys \in Seq(Key) /\ last = Len(keys) /\ keys' = Append(keys, k)
  BY TypeFacts DEF Here
<1>2. PICK x \in 1 .. last : x = p[i]
  BY DEF Here, Writes
<1>3. x + 1 \in Nat /\ x + 1 \in 1 .. last + 1
  OBVIOUS
<1>4. Occurs(Taken(f), x + 1, last) \in Nat /\ Occurs({Backspace}, x + 1, last) \in Nat
  BY <1>3, OccursType
<1>5. Occurs(Taken(f), x + 1, last + 1)'
        = Occurs(Taken(f), x + 1, last) + (IF k \in Taken(f) THEN 1 ELSE 0)
  BY <1>1, <1>3, OccursNow
<1>6. Occurs({Backspace}, x + 1, last + 1)'
        = Occurs({Backspace}, x + 1, last) + (IF k = Backspace THEN 1 ELSE 0)
  <2>1. PICK K : K = {Backspace}
    OBVIOUS
  <2>2. Occurs(K, x + 1, last + 1)' = Occurs(K, x + 1, last) + (IF k \in K THEN 1 ELSE 0)
    BY <1>1, <1>3, OccursNow
  <2>. QED  BY <2>1, <2>2
<1>7. Occurs(Taken(f), x + 1, last) = Occurs({Backspace}, x + 1, last) + (Len(buf[f]) - i)
  BY <1>2 DEF Here, Erasable
<1>. QED  BY <1>2, <1>4, <1>5, <1>6, <1>7 DEF Counts

\* The places kept in the open field after one key more.
Places(f, k, last, p) ==
  \A x : x \in Left(Number[f], f)' <=>
           \/ \E i \in 1 .. Len(buf[f]) : x = p[i] /\ (k # Backspace \/ i < Len(buf[f]))
           \/ k \in Taken(f) /\ x = last + 1

LEMMA PlacesHere ==
  ASSUME NEW f \in Fields, NEW k \in Key, NEW last \in Nat, NEW p, Here(f, k, last, p)
  PROVE  Places(f, k, last, p)
<1>1. keys \in Seq(Key) /\ last = Len(keys) /\ keys' = Append(keys, k) /\ k # Enter
  BY TypeFacts DEF Here
<1>2. PICK m \in Nat : m = Len(buf[f])
  BY TypeFacts DEF Here
<1>3. PICK n \in Nat : n = Number[f]
  BY NumberFacts
<1>4. Occurs({Enter}, 1, last) = n - 1
  BY <1>3 DEF Here, Place
<1>. DEFINE Good(x) ==
       Occurs({Backspace}, x + 1, last) + (IF k = Backspace THEN 1 ELSE 0)
         <= Occurs(Taken(f), x + 1, last) + (IF k \in Taken(f) THEN 1 ELSE 0)
<1>5. Left(n, f)' = {x \in Left(n, f) : Good(x)}
                      \cup (IF k \in Taken(f) THEN {last + 1} ELSE {})
  <2>1. Left(n, f)' = LeftAfter(n, f, k, last)
    BY <1>1, <1>4, LeftHere
  <2>. QED  BY <2>1 DEF LeftAfter
<1>6. ASSUME NEW i \in 1 .. m PROVE Good(p[i]) <=> k # Backspace \/ i < m
  <2>1. Counts(f, k, last, p[i], m - i)
    BY <1>2, CountsHere
  <2>2. k = Backspace => k \notin Taken(f)
    BY KeyFacts
  <2>. QED  BY <2>1, <2>2 DEF Counts
<1>7. Left(n, f) = {p[i] : i \in 1 .. m}
  BY <1>2, <1>3 DEF Here, Writes, Listed
<1>. HIDE DEF Good
<1>8. \A x : x \in Left(n, f)' <=>
           \/ \E i \in 1 .. m : x = p[i] /\ (k # Backspace \/ i < m)
           \/ k \in Taken(f) /\ x = last + 1
  BY <1>5, <1>6, <1>7
<1>. QED  BY <1>2, <1>3, <1>8 DEF Places

LEMMA Typed ==
  ASSUME NEW f \in Fields, NEW c \in Chars, NEW last \in Nat, NEW p,
         Here(f, Char(c), last, p), Accepts(f, c), buf'[f] = Append(buf[f], c)
  PROVE  \E q : Writes(f, q)' /\ Erasable(f, q)'
<1>1. last = Len(keys) /\ keys' = Append(keys, Char(c))
  BY DEF Here
<1>2. PICK m \in Nat : m = Len(buf[f])
  BY TypeFacts DEF Here
<1>. DEFINE q == [i \in 1 .. m + 1 |-> IF i = m + 1 THEN last + 1 ELSE p[i]]
<1>3. PICK k \in Key : k = Char(c) /\ k # Backspace /\ k \in Taken(f) /\ Here(f, k, last, p)
  BY KeyFacts
<1>4. keys \in Seq(Key) /\ buf[f] \in Texts /\ c \in 0 .. 15
  <2>1. TypeOK
    BY DEF Here
  <2>. QED  BY <2>1, TypeFacts, CharsAssumption DEF Accepts, NotHex
<1>5. /\ Len(buf'[f]) = m + 1 /\ buf'[f][m + 1] = c
      /\ \A i \in 1 .. m : buf'[f][i] = buf[f][i]
  BY <1>2, <1>4, TextFacts
<1>6. /\ Len(keys') = last + 1 /\ keys'[last + 1] = Char(c)
      /\ \A i \in 1 .. last : keys'[i] = keys[i]
  BY <1>1, <1>3, <1>4, Longer
<1>7. /\ p \in [1 .. m -> Nat] /\ \A i, j \in 1 .. m : i < j => p[i] < p[j]
      /\ \A i \in 1 .. m : p[i] \in 1 .. last /\ keys[p[i]] = Char(buf[f][i])
  BY <1>1, <1>2 DEF Here, Writes, Ascending
<1>8. 1 .. m + 1 = (1 .. m) \cup {m + 1} /\ m + 1 \notin 1 .. m
  OBVIOUS
<1>9. q[m + 1] = last + 1 /\ \A i \in 1 .. m : q[i] = p[i]
  BY <1>8
<1>10. Ascending(q, m + 1)
  <2>1. q \in [1 .. m + 1 -> Nat]
    BY <1>7, <1>8
  <2>. HIDE DEF q
  <2>2. ASSUME NEW i \in 1 .. m + 1, NEW j \in 1 .. m + 1, i < j PROVE q[i] < q[j]
    <3>1. i \in 1 .. m
      BY <2>2
    <3>2. CASE j = m + 1
      BY <1>7, <1>9, <3>1, <3>2
    <3>3. CASE j \in 1 .. m
      BY <1>7, <1>9, <2>2, <3>1, <3>3
    <3>. QED  BY <1>8, <3>2, <3>3
  <2>. QED  BY <2>1, <2>2 DEF Ascending
<1>. HIDE DEF q
<1>11. Left(Number[f], f)' = Listed(q, m + 1)
  <2>1. Places(f, k, last, p)
    BY <1>3, PlacesHere
  <2>2. \A x : x \in Left(Number[f], f)' <=> (\E i \in 1 .. m : x = p[i]) \/ x = last + 1
    BY <1>2, <1>3, <2>1 DEF Places
  <2>3. \A x : x \in Listed(q, m + 1) <=> (\E i \in 1 .. m : x = p[i]) \/ x = last + 1
    BY <1>8, <1>9 DEF Listed
  <2>. QED  BY <2>2, <2>3
<1>12. Writes(f, q)'
  <2>1. \A i \in 1 .. m + 1 : q[i] \in 1 .. last + 1 /\ keys'[q[i]] = Char(buf'[f][i])
    <3>1. \A i \in 1 .. m : p[i] \in 1 .. last + 1
      BY <1>7
    <3>2. last + 1 \in 1 .. last + 1
      OBVIOUS
    <3>. QED  BY <1>5, <1>6, <1>7, <1>8, <1>9, <3>1, <3>2
  <2>. QED  BY <1>5, <1>6, <1>10, <1>11, <2>1 DEF Writes
<1>13. Erasable(f, q)'
  <2>1. ASSUME NEW i \in 1 .. m
        PROVE  Occurs(Taken(f), q[i] + 1, last + 1)'
                 = Occurs({Backspace}, q[i] + 1, last + 1)' + ((m + 1) - i)
    <3>1. Counts(f, k, last, p[i], m - i)
      BY <1>2, <1>3, CountsHere
    <3>2. q[i] = p[i]
      BY <1>9
    <3>. QED  BY <1>3, <3>1, <3>2 DEF Counts
  <2>2. ASSUME NEW K PROVE Occurs(K, q[m + 1] + 1, last + 1)' = 0
    <3>1. (last + 1) + 1 .. last + 1 = {}
      OBVIOUS
    <3>. QED  BY <1>9, <3>1, FS_EmptySet DEF Occurs
  <2>3. ASSUME NEW i \in 1 .. m + 1
        PROVE  Occurs(Taken(f), q[i] + 1, last + 1)'
                 = Occurs({Backspace}, q[i] + 1, last + 1)' + ((m + 1) - i)
    <3>1. CASE i \in 1 .. m
      BY <2>1, <3>1
    <3>2. CASE i = m + 1
      BY <2>2, <3>2
    <3>. QED  BY <1>8, <3>1, <3>2
  <2>. QED  BY <1>5, <1>6, <2>3 DEF Erasable, Occurs
<1>. QED  BY <1>12, <1>13
LEMMA Refused ==
  ASSUME NEW f \in Fields, NEW c \in Chars, NEW last \in Nat, NEW p,
         Here(f, Char(c), last, p), ~Accepts(f, c), buf' = buf
  PROVE  Writes(f, p)' /\ Erasable(f, p)'
<1>1. PICK k \in Key : k = Char(c) /\ k # Backspace /\ k \notin Taken(f) /\ Here(f, k, last, p)
  BY KeyFacts
<1>2. PICK m \in Nat : m = Len(buf[f])
  BY TypeFacts DEF Here
<1>3. Len(keys') = last + 1 /\ \A i \in 1 .. last : keys'[i] = keys[i] /\ i \in 1 .. last + 1
  BY <1>1, Longer, TypeFacts DEF Here
<1>4. Left(Number[f], f)' = Listed(p, m)
  <2>1. Places(f, k, last, p)
    BY <1>1, PlacesHere
  <2>2. \A x : x \in Left(Number[f], f)' <=> \E i \in 1 .. m : x = p[i]
    BY <1>1, <1>2, <2>1 DEF Places
  <2>. QED  BY <2>2 DEF Listed
<1>5. /\ Ascending(p, m)
      /\ \A i \in 1 .. m : p[i] \in 1 .. last /\ keys[p[i]] = Char(buf[f][i])
  BY <1>2 DEF Here, Writes
<1>6. Writes(f, p)'
  BY <1>2, <1>3, <1>4, <1>5 DEF Writes
<1>7. ASSUME NEW i \in 1 .. m
      PROVE  Occurs(Taken(f), p[i] + 1, last + 1)'
               = Occurs({Backspace}, p[i] + 1, last + 1)' + (m - i)
  <2>1. Counts(f, k, last, p[i], m - i)
    BY <1>1, <1>2, CountsHere
  <2>. QED  BY <1>1, <2>1 DEF Counts
<1>8. Erasable(f, p)'
  BY <1>2, <1>3, <1>7 DEF Erasable, Occurs
<1>. QED  BY <1>6, <1>8

LEMMA Erased ==
  ASSUME NEW f \in Fields, NEW last \in Nat, NEW p,
         Here(f, Backspace, last, p), buf'[f] = SubSeq(buf[f], 1, Len(buf[f]) - 1)
  PROVE  \E q : Writes(f, q)' /\ Erasable(f, q)'
<1>1. PICK k \in Key : k = Backspace /\ k \notin Taken(f) /\ Here(f, k, last, p)
  BY KeyFacts
<1>2. PICK m \in Nat : m = Len(buf[f])
  BY TypeFacts DEF Here
<1>3. Len(keys') = last + 1 /\ \A i \in 1 .. last : keys'[i] = keys[i] /\ i \in 1 .. last + 1
  BY <1>1, Longer, TypeFacts DEF Here
<1>4. PICK n \in Nat : n = Len(buf'[f]) /\ n = (IF m = 0 THEN 0 ELSE m - 1)
                       /\ \A i \in 1 .. m - 1 : buf'[f][i] = buf[f][i]
  <2>1. PICK s \in Texts : s = buf[f]
    BY TypeFacts DEF Here
  <2>2. buf'[f] = SubSeq(s, 1, Len(s) - 1) /\ m = Len(s) /\ s = buf[f]
    BY <1>2, <2>1
  <2>3. Len(buf'[f]) = (IF m = 0 THEN 0 ELSE m - 1)
        /\ \A i \in 1 .. m - 1 : buf'[f][i] = buf[f][i]
    <3>1. PICK t : t = SubSeq(s, 1, Len(s) - 1)
      OBVIOUS
    <3>2. /\ Len(t) = IF Len(s) = 0 THEN 0 ELSE Len(s) - 1
          /\ \A i \in 1 .. Len(s) - 1 : t[i] = s[i]
      BY <3>1, PopFacts
    <3>3. t = buf'[f]
      BY <2>2, <3>1
    <3>. QED  BY <2>2, <3>2, <3>3
  <2>4. (IF m = 0 THEN 0 ELSE m - 1) \in Nat
    OBVIOUS
  <2>. QED  BY <2>3, <2>4
<1>5. \A i : i \in 1 .. n <=> i \in 1 .. m /\ i < m
  BY <1>4
<1>6. \A i \in 1 .. n : buf'[f][i] = buf[f][i] /\ i \in 1 .. m /\ m # 0
  BY <1>4
<1>. DEFINE q == [i \in 1 .. n |-> p[i]]
<1>7. /\ p \in [1 .. m -> Nat] /\ \A i, j \in 1 .. m : i < j => p[i] < p[j]
      /\ \A i \in 1 .. m : p[i] \in 1 .. last /\ keys[p[i]] = Char(buf[f][i])
  BY <1>1, <1>2 DEF Here, Writes, Ascending
<1>8. Ascending(q, n)
  BY <1>6, <1>7 DEF Ascending
<1>9. \A i \in 1 .. n : q[i] = p[i]
  OBVIOUS
<1>. HIDE DEF q
<1>10. Left(Number[f], f)' = Listed(q, n)
  <2>1. Places(f, k, last, p)
    BY <1>1, PlacesHere
  <2>2. \A x : x \in Left(Number[f], f)' <=> \E i \in 1 .. m : x = p[i] /\ i < m
    BY <1>1, <1>2, <2>1 DEF Places
  <2>3. \A x : x \in Listed(q, n) <=> \E i \in 1 .. m : x = p[i] /\ i < m
    BY <1>5, <1>9 DEF Listed
  <2>. QED  BY <2>2, <2>3
<1>11. \A i \in 1 .. n : q[i] \in 1 .. last + 1 /\ keys'[q[i]] = Char(buf'[f][i])
  BY <1>3, <1>6, <1>7, <1>9
<1>12. Writes(f, q)'
  BY <1>3, <1>4, <1>8, <1>10, <1>11 DEF Writes
<1>13. ASSUME NEW i \in 1 .. n
       PROVE  Occurs(Taken(f), q[i] + 1, last + 1)'
                = Occurs({Backspace}, q[i] + 1, last + 1)' + (n - i)
  <2>1. Counts(f, k, last, p[i], m - i)
    BY <1>1, <1>2, <1>6, CountsHere
  <2>2. q[i] = p[i] /\ n = m - 1
    BY <1>4, <1>6, <1>9
  <2>. QED  BY <1>1, <2>1, <2>2 DEF Counts
<1>14. Erasable(f, q)'
  BY <1>3, <1>4, <1>13 DEF Erasable, Occurs
<1>. QED  BY <1>12, <1>14

(***************************************************************************)
(* The form as it opens.                                                   *)
(***************************************************************************)
Blank == keys = << >> /\ buf = [f \in Fields |-> << >>]

LEMMA BlankFacts ==
  Blank => Digits /\ Occurs({Enter}, 1, Len(keys)) = 0
             /\ \A f \in Fields : \E p : Writes(f, p) /\ Erasable(f, p)
<1>. SUFFICES ASSUME Blank
              PROVE  Digits /\ Occurs({Enter}, 1, Len(keys)) = 0
                       /\ \A f \in Fields : \E p : Writes(f, p) /\ Erasable(f, p)
  OBVIOUS
<1>1. Len(keys) = 0 /\ DOMAIN keys = {} /\ \A f \in Fields : Len(buf[f]) = 0
  BY DEF Blank
<1>2. 1 .. 0 = {}
  OBVIOUS
<1>3. Digits
  BY <1>1, <1>2 DEF Digits
<1>4. Occurs({Enter}, 1, Len(keys)) = 0
  BY <1>1, <1>2, FS_EmptySet DEF Occurs
<1>5. ASSUME NEW f \in Fields PROVE Writes(f, << >>) /\ Erasable(f, << >>)
  <2>1. Ascending(<< >>, 0) /\ Listed(<< >>, 0) = {}
    BY <1>2 DEF Ascending, Listed
  <2>2. Left(Number[f], f) = {}
    BY <1>1 DEF Left, Segment
  <2>. QED  BY <1>1, <1>2, <2>1, <2>2 DEF Writes, Erasable
<1>. QED  BY <1>3, <1>4, <1>5
(***************************************************************************)
(* Types.                                                                  *)
(***************************************************************************)
LEMMA ParseType ==
  ASSUME NEW text \in Texts
  PROVE  ParseU32(text) \in 0 .. U32Mod - 1
<1>1. text \in Seq(Nat) /\ Len(text) \in 0 .. Len(text)
  BY DEF Texts
<1>2. Value(text)[Len(text)] \in Nat
  BY <1>1, ValueFacts
<1>. QED  BY <1>2, U32ModAssumption DEF ParseU32

\* Two digits are a byte.
LEMMA HexFacts ==
  ASSUME NEW text \in Texts
  PROVE  /\ DecodeHex(text) \in Seq(0 .. 255)
         /\ Len(DecodeHex(text)) * 2 = (IF Len(text) % 2 = 0 THEN Len(text) ELSE 0)
         /\ \A i \in DOMAIN DecodeHex(text) :
              /\ DecodeHex(text)[i] \div 16 = text[2 * i - 1]
              /\ DecodeHex(text)[i] % 16 = text[2 * i]
<1>1. PICK n \in Nat : n = Len(text)
  BY DEF Texts
<1>2. \A i \in 1 .. n : text[i] \in 0 .. 15
  BY <1>1 DEF Texts
<1>3. CASE n % 2 # 0
  BY <1>1, <1>3 DEF DecodeHex
<1>4. CASE n % 2 = 0
  <2>1. PICK h \in Nat : n = 2 * h /\ h = n \div 2
    BY <1>4
  <2>. DEFINE byte(i) == 16 * text[2 * i - 1] + text[2 * i]
  <2>2. ASSUME NEW i \in 1 .. h
        PROVE  byte(i) \in 0 .. 255 /\ byte(i) \div 16 = text[2 * i - 1] /\ byte(i) % 16 = text[2 * i]
    <3>1. PICK a \in 0 .. 15, b \in 0 .. 15 : a = text[2 * i - 1] /\ b = text[2 * i]
      BY <1>2, <2>1
    <3>2. 16 * a + b \in 0 .. 255 /\ (16 * a + b) \div 16 = a /\ (16 * a + b) % 16 = b
      OBVIOUS
    <3>. QED  BY <3>1, <3>2
  <2>3. DecodeHex(text) = [i \in 1 .. h |-> byte(i)]
    BY <1>1, <1>4, <2>1 DEF DecodeHex
  <2>. HIDE DEF byte
  <2>4. DecodeHex(text) \in Seq(0 .. 255) /\ Len(DecodeHex(text)) = h /\ DOMAIN DecodeHex(text) = 1 .. h
    BY <2>2, <2>3
  <2>5. \A i \in 1 .. h : DecodeHex(text)[i] = byte(i)
    BY <2>3
  <2>. QED  BY <1>1, <1>4, <2>1, <2>2, <2>4, <2>5 DEF byte
<1>. QED  BY <1>3, <1>4

LEMMA TypeNext == TypeOK /\ [Next]_vars => TypeOK'
<1>. SUFFICES ASSUME TypeOK, [Next]_vars PROVE TypeOK'
  OBVIOUS
<1>1. /\ mode \in Modes /\ buf \in [Fields -> Texts] /\ keys \in Seq(Key)
      /\ "Version" \in Fields /\ "Timestamp" \in Fields /\ "Nonce" \in Fields /\ "Coinbase" \in Fields
  BY TypeFacts DEF TypeOK, Fields
<1>2. << >> \in Texts /\ "Version" \in Modes
  BY DEF Texts, Modes, Fields
<1>3. CASE Open
  BY <1>1, <1>2, <1>3 DEF Open, TypeOK
<1>4. ASSUME NEW c \in Chars, Type(c) PROVE TypeOK'
  <2>1. keys' \in Seq(Key)
    BY <1>1, <1>4, KeyFacts DEF Type, Pressed
  <2>2. buf' \in [Fields -> Texts]
    <3>1. CASE Accepts(mode, c)
      <4>1. mode \in Fields /\ c \in 0 .. 15
        BY <1>4, <3>1, CharsAssumption DEF Type, Pressed, Accepts, NotHex
      <4>2. Append(buf[mode], c) \in Texts
        BY <1>1, <4>1, TextFacts
      <4>. QED  BY <1>1, <1>4, <3>1, <4>1, <4>2 DEF Type
    <3>2. CASE ~Accepts(mode, c)
      BY <1>1, <1>4, <3>2 DEF Type
    <3>. QED  BY <3>1, <3>2
  <2>. QED  BY <1>1, <1>4, <2>1, <2>2 DEF Type, TypeOK, Key
<1>5. CASE Erase
  <2>1. keys' \in Seq(Key)
    BY <1>1, <1>5, KeyFacts DEF Erase, Pressed
  <2>2. SubSeq(buf[mode], 1, Len(buf[mode]) - 1) \in Texts /\ mode \in Fields
    BY <1>1, <1>5, PopFacts DEF Erase, Pressed
  <2>3. buf' \in [Fields -> Texts]
    BY <1>1, <1>5, <2>2 DEF Erase
  <2>. QED  BY <1>1, <1>5, <2>1, <2>3 DEF Erase, TypeOK, Key
<1>6. CASE Confirm
  <2>1. keys' \in Seq(Key) /\ mode' \in Modes
    BY <1>1, <1>6, KeyFacts, NextModeFacts DEF Confirm, Pressed
  <2>2. /\ ParseU32(buf["Version"]) \in 0 .. U32Mod - 1
        /\ ParseU32(buf["Timestamp"]) \in 0 .. U32Mod - 1
        /\ ParseU32(buf["Nonce"]) \in 0 .. U32Mod - 1
        /\ DecodeHex(buf["Coinbase"]) \in Seq(0 .. 255)
    BY <1>1, ParseType, HexFacts
  <2>3. submitted' = << >> \/ submitted' \in (0 .. U32Mod - 1) \X (0 .. U32Mod - 1)
                                               \X (0 .. U32Mod - 1) \X Seq(0 .. 255)
    BY <1>6, <2>2 DEF Confirm, TypeOK
  <2>. QED  BY <1>1, <1>6, <2>1, <2>3 DEF Confirm, TypeOK, Key
<1>7. CASE UNCHANGED vars
  BY <1>7 DEF vars, TypeOK
<1>. QED  BY <1>3, <1>4, <1>5, <1>6, <1>7 DEF Next

(***************************************************************************)
(* The invariant holds.                                                    *)
(***************************************************************************)
LEMMA FormInit == Init => FInv
<1>. SUFFICES ASSUME Init PROVE FInv
  OBVIOUS
<1>1. Blank /\ mode \notin Fields
  BY DEF Init, Blank, Fields
<1>2. TypeOK
  BY DEF Init, TypeOK, Modes, Texts
<1>. QED  BY <1>1, <1>2, BlankFacts DEF FInv, Place, Spelled, Sent, Init

LEMMA OpenKeeps == TypeOK' /\ Open => FInv'
<1>. SUFFICES ASSUME TypeOK', Open PROVE FInv'
  OBVIOUS
<1>1. Blank' /\ mode' = "Version" /\ submitted' = << >>
  BY DEF Open, Blank
<1>2. (Blank => Digits /\ Occurs({Enter}, 1, Len(keys)) = 0
                 /\ \A f \in Fields : \E p : Writes(f, p) /\ Erasable(f, p))'
  BY BlankFacts, PTL
<1>3. Digits' /\ Occurs({Enter}, 1, Len(keys))' = 0
       /\ \A f \in Fields : \E p : Writes(f, p)' /\ Erasable(f, p)'
  BY <1>1, <1>2
<1>4. Place'
  BY <1>1, <1>3, NumberFacts DEF Place, Blank
<1>5. Spelled' /\ Sent'
  BY <1>1, <1>3 DEF Spelled, Sent
<1>. QED  BY <1>3, <1>4, <1>5 DEF FInv
\* A key other than Enter: the field stays open, and the others keep their text.
LEMMA StaysOpen ==
  ASSUME FInv, TypeOK', Digits', NEW f \in Fields, mode = f, mode' = f, submitted' = submitted,
         NEW k \in Key, k # Enter, keys' = Append(keys, k),
         \A g \in Fields : g # f => buf'[g] = buf[g],
         \E q : Writes(f, q)' /\ Erasable(f, q)'
  PROVE  FInv'
<1>1. TypeOK /\ Place /\ mode \in Fields
  BY DEF FInv
<1>2. PICK last \in Nat : last = Len(keys)
  BY <1>1, TypeFacts
<1>3. Len(keys') = last + 1 /\ keys \in Seq(Key)
  BY <1>1, <1>2, Longer, TypeFacts
<1>4. Occurs({Enter}, 1, last + 1)' = Occurs({Enter}, 1, last)
  <2>1. PICK K : K = {Enter}
    OBVIOUS
  <2>2. 1 \in 1 .. last + 1
    OBVIOUS
  <2>3. Occurs(K, 1, last + 1)' = Occurs(K, 1, last) + (IF k \in K THEN 1 ELSE 0)
    BY <1>2, <1>3, <2>2, OccursNow
  <2>4. Occurs(K, 1, last) \in Nat
    BY OccursType
  <2>. QED  BY <2>1, <2>3, <2>4
<1>5. Occurs({Enter}, 1, Len(keys))' = Number[f] - 1
  <2>1. Occurs({Enter}, 1, Len(keys))' = Occurs({Enter}, 1, last + 1)'
    BY <1>3
  <2>2. Occurs({Enter}, 1, last) = Number[f] - 1
    BY <1>1, <1>2 DEF Place
  <2>. QED  BY <1>4, <2>1, <2>2
<1>6. submitted' = << >> /\ \A g \in Fields : Number[f] < Number[g] => buf'[g] = << >>
  BY <1>1, NumberFacts DEF Place
<1>7. Place'
  BY <1>5, <1>6 DEF Place
<1>8. ASSUME NEW g \in Fields PROVE \E p : Writes(g, p)' /\ (mode' = g => Erasable(g, p)')
  <2>1. CASE g = f
    BY <2>1
  <2>2. CASE g # f
    <3>1. PICK p : Writes(g, p)
      BY DEF FInv, Spelled
    <3>2. Writes(g, p)'
      BY <1>1, <2>2, <3>1, WritesElsewhere
    <3>. QED  BY <2>2, <3>2
  <2>. QED  BY <2>1, <2>2
<1>9. Spelled' /\ Sent'
  BY <1>6, <1>8 DEF Spelled, Sent
<1>. QED  BY <1>7, <1>9 DEF FInv

LEMMA TypeKeeps ==
  ASSUME FInv, TypeOK', NEW c \in Chars, Type(c)
  PROVE  FInv'
<1>1. PICK f \in Fields : f = mode
  BY DEF Type, Pressed
<1>2. /\ mode = f /\ mode' = f /\ submitted' = submitted /\ keys' = Append(keys, Char(c))
      /\ TypeOK /\ Place /\ Digits
  BY <1>1 DEF FInv, Type, Pressed
<1>3. Char(c) \in Key /\ Char(c) # Enter
  BY KeyFacts
<1>4. PICK last \in Nat : last = Len(keys)
  BY <1>2, TypeFacts
<1>5. PICK p : Writes(f, p) /\ Erasable(f, p)
  BY <1>2 DEF FInv, Spelled
<1>6. Here(f, Char(c), last, p)
  BY <1>2, <1>3, <1>4, <1>5 DEF Here
<1>7. CASE Accepts(f, c)
  <2>1. buf' = [buf EXCEPT ![f] = Append(@, c)] /\ buf \in [Fields -> Texts]
    BY <1>2, <1>7 DEF Type, TypeOK
  <2>2. buf'[f] = Append(buf[f], c) /\ \A g \in Fields : g # f => buf'[g] = buf[g]
    BY <2>1
  <2>3. \E q : Writes(f, q)' /\ Erasable(f, q)'
    BY <1>6, <1>7, <2>2, Typed
  <2>4. Digits'
    <3>1. buf[f] \in Texts /\ c \in 0 .. 15
      BY <1>7, <2>1, CharsAssumption DEF Accepts, NotHex
    <3>2. \A i \in 1 .. Len(buf'[f]) : Accepts(f, buf'[f][i])
      <4>1. PICK m \in Nat : m = Len(buf[f])
        BY <1>2, TypeFacts
      <4>2. /\ Len(buf'[f]) = m + 1 /\ buf'[f][m + 1] = c
            /\ \A i \in 1 .. m : buf'[f][i] = buf[f][i]
        BY <2>2, <3>1, <4>1, TextFacts
      <4>3. 1 .. m + 1 = (1 .. m) \cup {m + 1}
        OBVIOUS
      <4>4. \A i \in 1 .. m : Accepts(f, buf[f][i])
        BY <1>2, <4>1 DEF Digits
      <4>. QED  BY <1>7, <4>2, <4>3, <4>4
    <3>. QED  BY <1>2, <2>2, <3>2 DEF Digits
  <2>. QED  BY <1>2, <1>3, <2>2, <2>3, <2>4, StaysOpen
<1>8. CASE ~Accepts(f, c)
  <2>1. buf' = buf
    BY <1>2, <1>8 DEF Type
  <2>2. Writes(f, p)' /\ Erasable(f, p)'
    BY <1>6, <1>8, <2>1, Refused
  <2>3. Digits'
    BY <1>2, <2>1 DEF Digits
  <2>. QED  BY <1>2, <1>3, <2>1, <2>2, <2>3, StaysOpen
<1>. QED  BY <1>7, <1>8

LEMMA EraseKeeps ==
  ASSUME FInv, TypeOK', Erase
  PROVE  FInv'
<1>1. PICK f \in Fields : f = mode
  BY DEF Erase, Pressed
<1>2. /\ mode = f /\ mode' = f /\ submitted' = submitted /\ keys' = Append(keys, Backspace)
      /\ TypeOK /\ Place /\ Digits
  BY <1>1 DEF FInv, Erase, Pressed
<1>3. Backspace \in Key /\ Backspace # Enter
  BY KeyFacts
<1>4. PICK last \in Nat : last = Len(keys)
  BY <1>2, TypeFacts
<1>5. PICK p : Writes(f, p) /\ Erasable(f, p)
  BY <1>2 DEF FInv, Spelled
<1>6. Here(f, Backspace, last, p)
  BY <1>2, <1>3, <1>4, <1>5 DEF Here
<1>7. buf' = [buf EXCEPT ![f] = SubSeq(@, 1, Len(@) - 1)] /\ buf \in [Fields -> Texts]
  BY <1>2 DEF Erase, TypeOK
<1>8. /\ buf'[f] = SubSeq(buf[f], 1, Len(buf[f]) - 1)
      /\ \A g \in Fields : g # f => buf'[g] = buf[g]
  BY <1>7
<1>9. \E q : Writes(f, q)' /\ Erasable(f, q)'
  BY <1>6, <1>8, Erased
<1>10. Digits'
  <2>1. PICK s \in Texts : s = buf[f]
    BY <1>7
  <2>2. PICK t : t = SubSeq(s, 1, Len(s) - 1)
    OBVIOUS
  <2>3. /\ Len(t) = IF Len(s) = 0 THEN 0 ELSE Len(s) - 1
        /\ \A i \in 1 .. Len(s) - 1 : t[i] = s[i]
    BY <2>2, PopFacts
  <2>4. t = buf'[f] /\ \A i \in 1 .. Len(s) : Accepts(f, s[i])
    BY <1>2, <1>8, <2>1, <2>2 DEF Digits
  <2>5. Len(s) \in Nat
    BY <1>2, <2>1, TypeFacts
  <2>6. \A i \in 1 .. Len(t) : i \in 1 .. Len(s) - 1 /\ i \in 1 .. Len(s)
    BY <2>3, <2>5
  <2>7. \A i \in 1 .. Len(t) : Accepts(f, t[i])
    BY <2>3, <2>4, <2>6
  <2>. QED  BY <1>2, <1>8, <2>4, <2>7 DEF Digits
<1>. QED  BY <1>2, <1>3, <1>8, <1>9, <1>10, StaysOpen

LEMMA ConfirmKeeps ==
  ASSUME FInv, TypeOK', Confirm
  PROVE  FInv'
<1>1. PICK f \in Fields : f = mode
  BY DEF Confirm, Pressed
<1>2. /\ mode = f /\ mode' = NextMode[f] /\ buf' = buf /\ keys' = Append(keys, Enter)
      /\ TypeOK /\ Place /\ Digits /\ submitted = << >>
  BY <1>1 DEF FInv, Confirm, Pressed, Place
<1>3. Enter \in Key /\ keys \in Seq(Key)
  BY <1>2, KeyFacts, TypeFacts
<1>4. PICK last \in Nat : last = Len(keys)
  BY <1>2, TypeFacts
<1>5. Occurs({Enter}, 1, Len(keys))' = Number[f]
  <2>1. PICK K : K = {Enter}
    OBVIOUS
  <2>2. PICK k \in Key : k = Enter
    BY <1>3
  <2>3. 1 \in 1 .. last + 1
    OBVIOUS
  <2>4. Occurs(K, 1, last + 1)' = Occurs(K, 1, last) + (IF k \in K THEN 1 ELSE 0)
    BY <1>2, <1>3, <1>4, <2>2, <2>3, OccursNow
  <2>5. Occurs({Enter}, 1, last) = Number[f] - 1 /\ Number[f] \in Nat
    BY <1>2, <1>4, NumberFacts DEF Place
  <2>6. Len(keys') = last + 1
    BY <1>2, <1>3, <1>4, Longer
  <2>7. Occurs({Enter}, 1, Len(keys))' = Occurs(K, 1, last + 1)'
    BY <2>1, <2>6
  <2>. QED  BY <2>1, <2>2, <2>4, <2>5, <2>7
<1>6. mode' \in Fields => Number[mode'] = Number[f] + 1
  BY <1>2, NextModeFacts
<1>7. mode' \in Fields => \A g \in Fields : Number[mode'] <= Number[g] => buf[g] = << >>
  BY <1>2, <1>6, NumberFacts DEF Place
<1>8. mode' \in Fields => submitted' = << >>
  BY <1>2, NextModeFacts DEF Confirm, Fields
<1>9. Place'
  <2>. SUFFICES ASSUME mode' \in Fields PROVE Place'
    BY DEF Place
  <2>1. PICK next \in Fields : next = mode'
    OBVIOUS
  <2>2. Number[f] \in 1 .. 4 /\ Number[next] = Number[f] + 1
    BY <1>6, <2>1, NumberFacts
  <2>3. Occurs({Enter}, 1, Len(keys))' = Number[next] - 1
    BY <1>5, <2>2
  <2>4. \A g \in Fields : Number[next] < Number[g] => buf'[g] = << >>
    BY <1>2, <1>7, <2>1, NumberFacts
  <2>. QED  BY <1>8, <2>1, <2>3, <2>4 DEF Place
<1>10. ASSUME NEW g \in Fields PROVE \E p : Writes(g, p)' /\ (mode' = g => Erasable(g, p)')
  <2>1. PICK p : Writes(g, p)
    BY DEF FInv, Spelled
  <2>2. Writes(g, p)'
    BY <1>2, <1>3, <2>1, WritesElsewhere
  <2>3. mode' = g => buf'[g] = << >>
    BY <1>2, <1>7, NumberFacts
  <2>4. mode' = g => Erasable(g, p)'
    BY <2>3 DEF Erasable
  <2>. QED  BY <2>2, <2>4
<1>11. Sent'
  BY <1>2 DEF Confirm, Sent
<1>12. Digits'
  BY <1>2 DEF Digits
<1>. QED  BY <1>9, <1>10, <1>11, <1>12 DEF FInv, Spelled

LEMMA StutterKeeps == FInv /\ UNCHANGED vars => FInv'
<1>. SUFFICES ASSUME FInv, UNCHANGED vars PROVE FInv'
  OBVIOUS
<1>1. mode' = mode /\ buf' = buf /\ submitted' = submitted /\ keys' = keys
  BY DEF vars
<1>2. \A K, a, b : Occurs(K, a, b)' = Occurs(K, a, b)
  BY <1>1 DEF Occurs
<1>3. \A n : Segment(n)' = Segment(n)
  BY <1>1, <1>2 DEF Segment
<1>4. \A n, f : Left(n, f)' = Left(n, f)
  BY <1>1, <1>2, <1>3 DEF Left
<1>5. \A f, p : Writes(f, p)' = Writes(f, p)
  BY <1>1, <1>4 DEF Writes
<1>6. \A f, p : Erasable(f, p)' = Erasable(f, p)
  BY <1>1, <1>2 DEF Erasable
<1>7. TypeOK' /\ Digits' /\ Sent'
  BY <1>1 DEF FInv, TypeOK, Digits, Sent
<1>8. Place'
  BY <1>1, <1>2 DEF FInv, Place
<1>9. Spelled'
  BY <1>1, <1>5, <1>6 DEF FInv, Spelled
<1>. QED  BY <1>7, <1>8, <1>9 DEF FInv

LEMMA FormInvariance == Spec => []FInv
<1>1. FInv /\ [Next]_vars => FInv'
  <2>. SUFFICES ASSUME FInv, [Next]_vars PROVE FInv'
    OBVIOUS
  <2>1. TypeOK'
    BY TypeNext DEF FInv
  <2>. QED  BY <2>1, OpenKeeps, TypeKeeps, EraseKeeps, ConfirmKeeps, StutterKeeps DEF Next
<1>. QED  BY FormInit, <1>1, PTL DEF Spec

(***************************************************************************)
(* The theorems.                                                           *)
(***************************************************************************)
\* The form's state has its type: the numbers handed to submit_solution fit a
\* u32 whatever is typed, and the coinbase is bytes.
THEOREM FormTypeCorrect == Spec => []TypeOK
<1>1. FInv => TypeOK
  BY DEF FInv
<1>. QED  BY FormInvariance, <1>1, PTL

\* What the second reading makes of a field's keys is what its buffer holds.
LEMMA ReadsBack ==
  ASSUME FInv, NEW f \in Fields
  PROVE  Text(Number[f], f) = buf[f]
<1>1. PICK p : Writes(f, p)
  BY DEF FInv, Spelled
<1>2. PICK m \in Nat : m = Len(buf[f])
  BY TypeFacts DEF FInv
<1>3. Ascending(p, m) /\ Left(Number[f], f) = Listed(p, m)
  BY <1>1, <1>2 DEF Writes
<1>4. Cardinality(Listed(p, m)) = m
  <2>1. m \in 0 .. m
    OBVIOUS
  <2>. QED  BY <1>3, <2>1, CountListed
<1>5. \A k \in 1 .. m : Nth(Listed(p, m), k) = p[k]
  BY <1>3, NthListed
<1>6. \A k \in 1 .. m : keys[p[k]].char = buf[f][k]
  <2>1. \A c : Char(c).char = c
    BY DEF Char
  <2>. QED  BY <1>1, <1>2, <2>1 DEF Writes
<1>7. Text(Number[f], f) = [k \in 1 .. m |-> keys[Nth(Listed(p, m), k)].char]
  BY <1>3, <1>4 DEF Text
<1>8. Text(Number[f], f) = [k \in 1 .. m |-> buf[f][k]]
  BY <1>5, <1>6, <1>7
<1>9. buf[f] = [k \in 1 .. m |-> buf[f][k]]
  <2>1. buf[f] \in Seq(0 .. 15)
    BY TypeFacts DEF FInv, Texts
  <2>. QED  BY <1>2, <2>1
<1>. QED  BY <1>8, <1>9

\* A solution is what was typed in its session and confirmed, field by field.
THEOREM SubmitsWhatIsTyped == Spec => []SubmittedAsTyped
<1>1. ASSUME FInv PROVE SubmittedAsTyped
  <2>. SUFFICES ASSUME submitted # << >> PROVE SubmittedAsTyped
    BY DEF SubmittedAsTyped
  <2>1. /\ submitted[1] = ParseU32(buf["Version"]) /\ submitted[2] = ParseU32(buf["Timestamp"])
        /\ submitted[3] = ParseU32(buf["Nonce"]) /\ submitted[4] = DecodeHex(buf["Coinbase"])
    BY <1>1 DEF FInv, Sent
  <2>2. ASSUME NEW f \in Fields, f # "Coinbase" PROVE ParseU32(buf[f]) = Decimal(buf[f])
    <3>1. buf[f] \in Seq(0 .. 15) /\ \A i \in 1 .. Len(buf[f]) : buf[f][i] <= 9
      BY <1>1, <2>2, TypeFacts DEF FInv, Texts, Digits, Accepts
    <3>2. buf[f] \in Seq(0 .. 9)
      <4>1. PICK s \in Seq(0 .. 15) : s = buf[f]
        BY <3>1
      <4>2. PICK n \in Nat : n = Len(s)
        OBVIOUS
      <4>3. ASSUME NEW i \in 1 .. n PROVE s[i] \in 0 .. 9
        <5>1. s[i] \in 0 .. 15
          BY <4>2
        <5>2. s[i] <= 9
          BY <3>1, <4>1, <4>2
        <5>. QED  BY <5>1, <5>2
      <4>4. s = [i \in 1 .. n |-> s[i]]
        BY <4>2
      <4>. QED  BY <4>1, <4>3, <4>4
    <3>. QED  BY <3>2, ParseIsDecimal
  <2>3. /\ Text(1, "Version") = buf["Version"] /\ Text(2, "Timestamp") = buf["Timestamp"]
        /\ Text(3, "Nonce") = buf["Nonce"] /\ Text(4, "Coinbase") = buf["Coinbase"]
    BY <1>1, ReadsBack, NumberFacts DEF Fields
  <2>4. buf["Coinbase"] \in Texts
    BY <1>1, TypeFacts DEF FInv, Fields
  <2>. QED  BY <2>1, <2>2, <2>3, <2>4, HexFacts DEF SubmittedAsTyped, Fields
<1>2. FInv => SubmittedAsTyped
  BY <1>1
<1>. QED  BY FormInvariance, <1>2, PTL
=============================================================================
