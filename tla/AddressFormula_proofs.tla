------------------------ MODULE AddressFormula_proofs ------------------------
(***************************************************************************)
(* The texts of addresses are read as their pieces mean, for any formats,  *)
(* values of digits and lengths of texts.                                  *)
(* First: where the pieces of a text are and what they mean, and that both *)
(* stay as they are when the text goes on behind them.                     *)
(* Second: what the reader keeps of the piece that it reads, at each place *)
(* of its loop, and that each of its steps keeps it.                       *)
(* Third: a | b as a number, the bytes of an address that is put together  *)
(* with it, and hardware addresses in pairs of digits.                     *)
(***************************************************************************)
EXTENDS AddressFormula, EventScheduler_proofs, SequenceTheorems

-----------------------------------------------------------------------------
(* What is added to a text leaves the numbers and pieces before it as they are. *)

\* The texts that may be read
Text == Seq(Characters)

\* The characters of a text, and of the text with one more
LEMMA OneMore ==
  ASSUME NEW t \in Text, NEW c \in Characters, NEW u, u = Append(t, c)
  PROVE  /\ t \in Seq(Characters) /\ Len(t) \in Nat /\ DOMAIN t = 1 .. Len(t)
         /\ u \in Text /\ Len(u) = Len(t) + 1 /\ DOMAIN u = 1 .. Len(t) + 1
         /\ u[Len(t) + 1] = c /\ \A k \in 1 .. Len(t) : u[k] = t[k]
BY AppendProperties, LenProperties DEF Text

\* The numbers that digits are
LEMMA DigitsAre ==
  ASSUME NEW base \in {10, 16}, NEW c \in DigitsOf(base)
  PROVE  c \in DOMAIN Digit /\ Digit[c] \in 0 .. 15 /\ c \notin Marks
BY FormulaAssumption DEF DigitsOf

\* The marks are different characters.
LEMMA MarksDiffer ==
  /\ \A m \in {".", ":", "+", "i"} : m \in Marks /\ m # LeftBrace /\ m # RightBrace
  /\ LeftBrace \in Marks /\ RightBrace \in Marks /\ LeftBrace # RightBrace
BY Zenon DEF Marks, LeftBrace, RightBrace

\* h has the values of the digits of t from i to each place up to j.
Values(h, t, i, j, base) ==
  /\ h \in [0 .. j -> Nat]
  /\ \A k \in 0 .. j : h[k] = IF k < i THEN 0 ELSE h[k - 1] * base + Digit[t[k]]

\* The places from i to j of a text have digits.
AllDigits(t, i, j, base) == \A k \in i .. j : t[k] \in DigitsOf(base)

\* The value of digits is the last of the values at each place.
LEMMA ValuesAre ==
  ASSUME NEW t, NEW i \in Nat \ {0}, NEW j \in Nat, NEW base \in {10, 16}, AllDigits(t, i, j, base)
  PROVE  \E h : Values(h, t, i, j, base) /\ ValueOf(t, i, j, base) = h[j]
<1> DEFINE Def(f) == f = [k \in 0 .. j |-> IF k < i THEN 0 ELSE f[k - 1] * base + Digit[t[k]]]
           value == CHOOSE f : Def(f)
           step == [x \in (1..j) \X Nat |-> IF x[1] < i THEN 0 ELSE x[2] * base + Digit[t[x[1]]]]
<1>1. \A k \in 1..j : k < i \/ Digit[t[k]] \in Nat
  <2>1. ASSUME NEW k \in 1..j, ~(k < i) PROVE Digit[t[k]] \in Nat
    <3>1. k \in i..j BY <2>1
    <3>2. t[k] \in DigitsOf(base) BY <3>1 DEF AllDigits
    <3> QED BY <3>2, DigitsAre
  <2> QED BY <2>1
<1>2. ValueOf(t, i, j, base) = value[j] BY DEF ValueOf
<1>3. step \in [(1..j) \X Nat -> Nat]
  <2>1. ASSUME NEW x \in (1..j) \X Nat
        PROVE  (IF x[1] < i THEN 0 ELSE x[2] * base + Digit[t[x[1]]]) \in Nat
    <3>1. x[1] \in 1..j /\ x[2] \in Nat /\ base \in Nat OBVIOUS
    <3>2. x[2] * base \in Nat BY <3>1
    <3> QED BY <1>1, <3>1, <3>2
  <2> QED BY <2>1
<1>4. \A n \in 1..j, v \in Nat : step[<<n, v>>] = IF n < i THEN 0 ELSE v * base + Digit[t[n]]
  OBVIOUS
<1> HIDE DEF step
<1>5. PICK h \in [0..j -> Nat] : Steps(h, j, 0, step) BY <1>3, History
<1>6. \A k \in 0..j : h[k] = IF k < i THEN 0 ELSE h[k - 1] * base + Digit[t[k]]
  <2>1. ASSUME NEW k \in 0..j PROVE h[k] = IF k < i THEN 0 ELSE h[k - 1] * base + Digit[t[k]]
    <3>1. CASE k = 0 BY <1>5, <3>1 DEF Steps
    <3>2. CASE k # 0
      <4>1. k \in 1..j /\ k - 1 \in 0..j BY <3>2
      <4>2. h[k - 1] \in Nat BY <1>5, <4>1
      <4>3. h[k] = step[<<k, h[k - 1]>>] BY <1>5, <4>1 DEF Steps
      <4> QED BY <1>4, <4>1, <4>2, <4>3
    <3> QED BY <3>1, <3>2
  <2> QED BY <2>1
<1>7. Def(h) BY <1>5, <1>6
<1>8. Def(value) BY <1>7
<1> HIDE DEF value
<1>9. /\ DOMAIN value = 0..j /\ value = [k \in 0..j |-> value[k]]
      /\ \A k \in 0..j : value[k] = IF k < i THEN 0 ELSE value[k - 1] * base + Digit[t[k]]
  BY <1>8
<1> HIDE DEF Def
<1>10. value[0] = 0 /\ h[0] = 0
  <2>1. 0 \in 0..j /\ 0 < i OBVIOUS
  <2> QED BY <1>6, <1>9, <2>1
<1> DEFINE G == {k \in 0..j : value[k] = h[k]}
<1>11. 0 \in G BY <1>10
<1>12. ASSUME NEW n \in 1..j, n - 1 \in G PROVE n \in G
  <2>1. n \in 0..j /\ value[n - 1] = h[n - 1] BY <1>12
  <2>2. value[n] = h[n] BY <1>6, <1>9, <2>1
  <2> QED BY <2>1, <2>2
<1> HIDE DEF G
<1>13. \A k \in 0..j : k \in G BY <1>11, <1>12, UpTo
<1>14. j \in 0..j OBVIOUS
<1>15. value[j] = h[j] BY <1>13, <1>14 DEF G
<1> QED BY <1>2, <1>5, <1>6, <1>15 DEF Values

\* Two such histories agree as far as the texts do.
LEMMA ValuesAgree ==
  ASSUME NEW t, NEW u, NEW i \in Nat \ {0}, NEW j \in Nat, NEW m \in 0 .. j, NEW base,
         NEW h, NEW g, Values(h, t, i, j, base), Values(g, u, i, m, base), \A k \in i .. m : u[k] = t[k]
  PROVE  h[m] = g[m]
<1> DEFINE G == {k \in 0..m : h[k] = g[k]}
<1>1. \A k \in 0..m : k \in 0..j OBVIOUS
<1>2. 0 \in G
  <2>1. 0 \in 0..m /\ 0 < i OBVIOUS
  <2> QED BY <1>1, <2>1 DEF Values
<1>3. ASSUME NEW n \in 1..m, n - 1 \in G PROVE n \in G
  <2>1. n \in 0..m /\ h[n - 1] = g[n - 1] BY <1>3
  <2>2. CASE n < i BY <1>1, <2>1, <2>2 DEF Values
  <2>3. CASE ~(n < i)
    <3>1. n \in i..m BY <1>3, <2>3
    <3> QED BY <1>1, <2>1, <2>3, <3>1 DEF Values
  <2> QED BY <2>2, <2>3
<1> HIDE DEF G
<1>4. \A k \in 0..m : k \in G BY <1>2, <1>3, UpTo
<1>5. m \in 0..m OBVIOUS
<1> QED BY <1>4, <1>5 DEF G

\* The value of the same digits is the same.
LEMMA SameValue ==
  ASSUME NEW t, NEW u, NEW i \in Nat \ {0}, NEW j \in Nat, NEW base \in {10, 16},
         AllDigits(t, i, j, base), \A k \in i .. j : u[k] = t[k]
  PROVE  ValueOf(u, i, j, base) = ValueOf(t, i, j, base)
<1>1. AllDigits(u, i, j, base) BY DEF AllDigits
<1>2. PICK h : Values(h, t, i, j, base) /\ ValueOf(t, i, j, base) = h[j] BY ValuesAre
<1>3. PICK g : Values(g, u, i, j, base) /\ ValueOf(u, i, j, base) = g[j] BY <1>1, ValuesAre
<1>4. j \in 0..j OBVIOUS
<1>5. h[j] = g[j] BY <1>2, <1>3, <1>4, ValuesAgree
<1> QED BY <1>2, <1>3, <1>5

\* A value is a number; one more digit makes the value.
LEMMA ValueSteps ==
  ASSUME NEW t, NEW i \in Nat \ {0}, NEW j \in Nat, NEW base \in {10, 16}, AllDigits(t, i, j, base)
  PROVE  /\ ValueOf(t, i, j, base) \in Nat
         /\ j < i => ValueOf(t, i, j, base) = 0
         /\ j >= i => ValueOf(t, i, j, base) = ValueOf(t, i, j - 1, base) * base + Digit[t[j]]
<1>1. PICK h : Values(h, t, i, j, base) /\ ValueOf(t, i, j, base) = h[j] BY ValuesAre
<1>2. j \in 0..j OBVIOUS
<1>3. h[j] \in Nat /\ h[j] = IF j < i THEN 0 ELSE h[j - 1] * base + Digit[t[j]]
  BY <1>1, <1>2 DEF Values
<1>4. ASSUME j >= i PROVE ValueOf(t, i, j - 1, base) = h[j - 1]
  <2>1. j - 1 \in Nat /\ j - 1 \in 0..j BY <1>4
  <2>2. AllDigits(t, i, j - 1, base) BY DEF AllDigits
  <2>3. PICK g : Values(g, t, i, j - 1, base) /\ ValueOf(t, i, j - 1, base) = g[j - 1]
    BY <2>1, <2>2, ValuesAre
  <2> DEFINE m == j - 1
  <2>4. m \in 0..j /\ Values(g, t, i, m, base) BY <2>1, <2>3
  <2> HIDE DEF m
  <2>5. h[m] = g[m] BY <1>1, <2>4, ValuesAgree
  <2> QED BY <2>3, <2>5 DEF m
<1>5. j >= i => ~(j < i) OBVIOUS
<1> QED BY <1>1, <1>3, <1>4, <1>5

\* Numbers are bytes.
LEMMA NumbersTyped ==
  ASSUME NEW t, NEW i, NEW j, NEW base
  PROVE  /\ Numbers(t, i, j, base) \subseteq 0 .. 255
         /\ \A v \in Numbers(t, i, j, base) : Numbers(t, i, j, base) = {v}
         /\ Numbers(t, i, j, base) # {} => i <= j /\ AllDigits(t, i, j, base)
BY DEF Numbers, AllDigits

\* The numbers of a text do not depend on what is not theirs.
LEMMA NumbersKept ==
  ASSUME NEW t, NEW u, NEW i \in Nat \ {0}, NEW j \in Int, NEW base \in {10, 16},
         \A k \in i .. j : u[k] = t[k]
  PROVE  Numbers(u, i, j, base) = Numbers(t, i, j, base)
<1>1. CASE i <= j /\ AllDigits(t, i, j, base)
  <2>1. j \in Nat BY <1>1
  <2>2. ValueOf(u, i, j, base) = ValueOf(t, i, j, base) BY <1>1, <2>1, SameValue
  <2>3. AllDigits(u, i, j, base) BY <1>1 DEF AllDigits
  <2> QED BY <1>1, <2>2, <2>3 DEF Numbers, AllDigits
<1>2. CASE ~(i <= j /\ AllDigits(t, i, j, base))
  <2>1. ~(i <= j /\ AllDigits(u, i, j, base)) BY <1>2 DEF AllDigits
  <2> QED BY <1>2, <2>1 DEF Numbers, AllDigits
<1> QED BY <1>1, <1>2

\* A number, or none yet, of the digits from i to j
NumberSoFar(t, i, j, base, v) ==
  \/ i = j + 1 /\ v = 0
  \/ Numbers(t, i, j, base) = {v}

\* The digits of a number so far, and their value
LEMMA DigitsSoFar ==
  ASSUME NEW t, NEW u, NEW i \in Nat \ {0}, NEW j \in Nat, NEW base \in {10, 16}, NEW v,
         NumberSoFar(t, i, j, base, v), \A k \in i .. j : u[k] = t[k]
  PROVE  AllDigits(u, i, j, base) /\ i <= j + 1 /\ ValueOf(u, i, j, base) = v
<1>1. Numbers(u, i, j, base) = Numbers(t, i, j, base) BY NumbersKept DEF NumberSoFar
<1>2. CASE i = j + 1 /\ v = 0
  <2>1. AllDigits(u, i, j, base) /\ j < i BY <1>2 DEF AllDigits
  <2>2. ValueOf(u, i, j, base) = 0 BY <2>1, ValueSteps
  <2> QED BY <1>2, <2>1, <2>2
<1>3. CASE Numbers(t, i, j, base) = {v}
  <2>1. Numbers(u, i, j, base) = {v} BY <1>1, <1>3, Zenon
  <2>2. Numbers(u, i, j, base) # {} BY <2>1, Zenon
  <2>3. i <= j /\ AllDigits(u, i, j, base) BY <2>2, NumbersTyped
  <2>4. ValueOf(u, i, j, base) = v BY <2>1, <2>3 DEF Numbers, AllDigits
  <2> QED BY <2>3, <2>4
<1> QED BY <1>2, <1>3 DEF NumberSoFar

\* A digit more is one of them.
LEMMA DigitsGrow ==
  ASSUME NEW t, NEW u, NEW i \in Nat \ {0}, NEW j \in Nat, NEW base \in {10, 16}, NEW v,
         NumberSoFar(t, i, j, base, v), \A k \in i .. j : u[k] = t[k], u[j + 1] \in DigitsOf(base)
  PROVE  AllDigits(u, i, j + 1, base) /\ i <= j + 1
<1>1. AllDigits(u, i, j, base) /\ i <= j + 1 BY DigitsSoFar
<1> QED BY <1>1 DEF AllDigits

\* A digit more makes the number, if that stays a byte.
LEMMA NumberGrows ==
  ASSUME NEW t, NEW u, NEW i \in Nat \ {0}, NEW j \in Nat, NEW base \in {10, 16}, NEW v,
         NumberSoFar(t, i, j, base, v), \A k \in i .. j : u[k] = t[k], u[j + 1] \in DigitsOf(base)
  PROVE  Numbers(u, i, j + 1, base) = {v * base + Digit[u[j + 1]]} \cap 0 .. 255
<1>1. ValueOf(u, i, j, base) = v BY DigitsSoFar
<1>2. AllDigits(u, i, j + 1, base) /\ i <= j + 1 BY DigitsGrow
<1>3. j + 1 \in Nat /\ j + 1 >= i /\ j + 1 - 1 = j BY <1>2
<1>4. ValueOf(u, i, j + 1, base) = ValueOf(u, i, j, base) * base + Digit[u[j + 1]]
  BY <1>2, <1>3, ValueSteps
<1>5. Numbers(u, i, j + 1, base) = {ValueOf(u, i, j + 1, base)} \cap 0 .. 255
  BY <1>2, <1>3 DEF Numbers, AllDigits
<1> QED BY <1>1, <1>4, <1>5

\* Some number so far of t, and u has a digit more
DigitMore(t, u, i, j, base, v) ==
  /\ i \in Nat \ {0} /\ j \in Nat /\ base \in {10, 16} /\ NumberSoFar(t, i, j, base, v)
  /\ (\A k \in i .. j : u[k] = t[k]) /\ u[j + 1] \in DigitsOf(base)

\* The two facts above, for terms
LEMMA OneDigitMore ==
  ASSUME NEW t, NEW u, NEW i, NEW j, NEW base, NEW v, DigitMore(t, u, i, j, base, v)
  PROVE  /\ AllDigits(u, i, j + 1, base)
         /\ Numbers(u, i, j + 1, base) = {v * base + Digit[u[j + 1]]} \cap 0 .. 255
<1>1. i \in Nat \ {0} /\ j \in Nat /\ base \in {10, 16} BY DEF DigitMore
<1>2. NumberSoFar(t, i, j, base, v) /\ u[j + 1] \in DigitsOf(base) BY DEF DigitMore
<1>3. \A k \in i .. j : u[k] = t[k] BY DEF DigitMore
<1>4. AllDigits(u, i, j + 1, base) BY <1>1, <1>2, <1>3, DigitsGrow
<1>5. Numbers(u, i, j + 1, base) = {v * base + Digit[u[j + 1]]} \cap 0 .. 255
  BY <1>1, <1>2, <1>3, NumberGrows
<1> QED BY <1>4, <1>5

\* The factors of a text do not depend on what is not theirs.
LEMMA FactorsKept ==
  ASSUME NEW t, NEW u, NEW i \in Nat \ {0}, NEW j \in Int, \A k \in i .. j : u[k] = t[k]
  PROVE  Factors(u, i, j) = Factors(t, i, j)
<1>1. Numbers(u, i, j, 10) = Numbers(t, i, j, 10) BY NumbersKept
<1> QED BY <1>1 DEF Factors

\* So the meaning of a piece does not, either.
LEMMA PieceKept ==
  ASSUME NEW t, NEW u, NEW i \in Nat \ {0}, NEW j \in Int, NEW base \in {10, 16},
         \A k \in i .. j : u[k] = t[k]
  PROVE  PieceMeans(u, i, j, base) = PieceMeans(t, i, j, base)
<1> DEFINE Linear(w, k) ==
             {[a |-> a, b |-> b] : a \in Numbers(w, i + 1, k - 1, 10), b \in Factors(w, k + 1, j - 2)}
           Plus(w) == {k \in i + 1 .. j - 2 : InBraces(w, i, j) /\ w[k] = "+"}
<1>1. Numbers(u, i, j, base) = Numbers(t, i, j, base) BY NumbersKept
<1>2. InBraces(u, i, j) <=> InBraces(t, i, j)
  <2>1. CASE i < j
    <3>1. i \in i..j /\ j - 1 \in i..j /\ j \in i..j BY <2>1
    <3> QED BY <3>1 DEF InBraces
  <2>2. CASE ~(i < j) BY <2>2 DEF InBraces
  <2> QED BY <2>1, <2>2
<1>3. Plus(u) = Plus(t) BY <1>2
<1>4. ASSUME NEW k \in Plus(t) PROVE Linear(u, k) = Linear(t, k)
  <2>1. k \in i + 1 .. j - 2 OBVIOUS
  <2>2. /\ i + 1 \in Nat \ {0} /\ k - 1 \in Int /\ k + 1 \in Nat \ {0} /\ j - 2 \in Int
        /\ \A n \in i + 1 .. k - 1 : u[n] = t[n]
        /\ \A n \in k + 1 .. j - 2 : u[n] = t[n]
    BY <2>1
  <2>3. Numbers(u, i + 1, k - 1, 10) = Numbers(t, i + 1, k - 1, 10) BY <2>2, NumbersKept
  <2>4. Factors(u, k + 1, j - 2) = Factors(t, k + 1, j - 2) BY <2>2, FactorsKept
  <2> QED BY <2>3, <2>4
<1>5. \A w : PieceMeans(w, i, j, base) =
               {Constant(a) : a \in Numbers(w, i, j, base)} \cup UNION {Linear(w, k) : k \in Plus(w)}
  BY DEF PieceMeans
<1> HIDE DEF Plus, Linear
<1>6. {Linear(u, k) : k \in Plus(u)} = {Linear(t, k) : k \in Plus(t)} BY <1>3, <1>4
<1> QED BY <1>1, <1>5, <1>6

\* What is in braces is no number.
LEMMA BracesAreNoDigits ==
  ASSUME NEW t, NEW i \in Int, NEW j \in Int, NEW base \in {10, 16}, InBraces(t, i, j)
  PROVE  Numbers(t, i, j, base) = {}
<1>1. i < j BY DEF InBraces
<1>2. i \in i..j BY <1>1
<1>3. t[i] = LeftBrace BY DEF InBraces
<1>5. t[i] \in Marks BY <1>3 DEF Marks
<1>4. t[i] \notin DigitsOf(base) BY <1>5, DigitsAre
<1> QED BY <1>2, <1>4, NumbersTyped DEF AllDigits

\* A piece that is no number, and not in braces, means nothing.
LEMMA MeansNothing ==
  ASSUME NEW t, NEW i, NEW j, NEW base, Numbers(t, i, j, base) = {}, ~InBraces(t, i, j)
  PROVE  PieceMeans(t, i, j, base) = {}
BY DEF PieceMeans

\* A piece that is a number means it.
LEMMA MeansNumber ==
  ASSUME NEW t, NEW i \in Int, NEW j \in Int, NEW base \in {10, 16}, NEW v,
         Numbers(t, i, j, base) = {v}
  PROVE  PieceMeans(t, i, j, base) = {Constant(v)}
<1>1. i <= j /\ AllDigits(t, i, j, base) BY NumbersTyped
<1>2. i \in i..j BY <1>1
<1>3. t[i] \in DigitsOf(base) BY <1>1, <1>2 DEF AllDigits
<1>4. ~InBraces(t, i, j) BY <1>3, DigitsAre DEF InBraces, Marks
<1> QED BY <1>4 DEF PieceMeans

\* A formula in braces from i to j, with the plus at k
FormulaAt(t, i, j, base, k, a, b) ==
  /\ i \in Int /\ j \in Int /\ base \in {10, 16} /\ k \in i + 1 .. j - 2
  /\ InBraces(t, i, j) /\ t[k] = "+"
  /\ Numbers(t, i + 1, k - 1, 10) = {a} /\ Factors(t, k + 1, j - 2) = {b}

\* A piece in braces means what its numbers are.
LEMMA MeansFormula ==
  ASSUME NEW t, NEW i, NEW j, NEW base, NEW k, NEW a, NEW b, FormulaAt(t, i, j, base, k, a, b)
  PROVE  PieceMeans(t, i, j, base) = {[a |-> a, b |-> b]}
<1>1. i \in Int /\ j \in Int /\ base \in {10, 16} /\ k \in i + 1 .. j - 2 BY DEF FormulaAt
<1>2. InBraces(t, i, j) /\ t[k] = "+" BY DEF FormulaAt
<1>3. Numbers(t, i + 1, k - 1, 10) = {a} BY DEF FormulaAt
<1>4. Factors(t, k + 1, j - 2) = {b} BY DEF FormulaAt
<1>5. Numbers(t, i, j, base) = {} BY <1>1, <1>2, BracesAreNoDigits
<1> DEFINE Linear(n) ==
             {[a |-> x, b |-> y] : x \in Numbers(t, i + 1, n - 1, 10), y \in Factors(t, n + 1, j - 2)}
           Plus == {n \in i + 1 .. j - 2 : InBraces(t, i, j) /\ t[n] = "+"}
<1>6. Plus = {k}
  <2>1. ASSUME NEW n \in Plus, n # k PROVE FALSE
    <3>1. t[n] \notin DigitsOf(10)
      <4>1. t[n] \in Marks BY DEF Marks
      <4> QED BY <4>1, DigitsAre
    <3>2. CASE n < k
      <4>1. n \in i + 1 .. k - 1 BY <1>1, <3>2
      <4>2. AllDigits(t, i + 1, k - 1, 10) BY <1>3, NumbersTyped
      <4> QED BY <3>1, <4>1, <4>2 DEF AllDigits
    <3>3. CASE n > k
      <4>1. n \in k + 1 .. j - 2 BY <1>1, <3>3
      <4>2. ~(k + 1 > j - 2) BY <1>1, <4>1
      <4>3. Numbers(t, k + 1, j - 2, 10) # {} BY <1>4, <4>2 DEF Factors
      <4>4. AllDigits(t, k + 1, j - 2, 10) BY <4>3, NumbersTyped
      <4> QED BY <3>1, <4>1, <4>4 DEF AllDigits
    <3> QED BY <1>1, <2>1, <3>2, <3>3
  <2>2. k \in Plus BY <1>1, <1>2
  <2> QED BY <2>1, <2>2
<1>7. PieceMeans(t, i, j, base) =
        {Constant(x) : x \in Numbers(t, i, j, base)} \cup UNION {Linear(n) : n \in Plus}
  BY DEF PieceMeans
<1>8. Linear(k) = {[a |-> a, b |-> b]} BY <1>3, <1>4
<1> HIDE DEF Plus, Linear
<1> QED BY <1>5, <1>6, <1>7, <1>8

-----------------------------------------------------------------------------
(* Where the pieces of a text are. *)

\* The next place of a kind is one, or behind the text, and there is none before.
LEMMA NextPlaceIsNext ==
  ASSUME NEW t \in Text, NEW i \in Nat, NEW places
  PROVE  /\ NextPlace(t, i, places) \in 1 .. Len(t) + 1
         /\ NextPlace(t, i, places) <= Len(t) => NextPlace(t, i, places) >= i /\ NextPlace(t, i, places) \in places
         /\ \A k \in 1 .. Len(t) : k >= i /\ k \in places => NextPlace(t, i, places) <= k
<1> DEFINE S == {Len(t) + 1} \cup {k \in DOMAIN t : k >= i /\ k \in places}
<1>1. Len(t) \in Nat /\ DOMAIN t = 1 .. Len(t) BY LenProperties DEF Text
<1>2. S \in SUBSET Nat /\ S # {} BY <1>1
<1>3. PICK n \in S : \A m \in S : n <= m BY <1>2, LeastNumber
<1>4. NextPlace(t, i, places) = Min(S) BY DEF NextPlace
<1>5. Min(S) \in S /\ \A m \in S : Min(S) <= m BY <1>3 DEF Min
<1> QED BY <1>1, <1>4, <1>5

\* There is only one such place.
LEMMA NextPlaceIs ==
  ASSUME NEW t \in Text, NEW i \in Nat, NEW places, NEW m \in 1 .. Len(t) + 1,
         m <= Len(t) => m >= i /\ m \in places,
         \A k \in 1 .. Len(t) : k >= i /\ k < m => k \notin places
  PROVE  NextPlace(t, i, places) = m
<1> DEFINE n == NextPlace(t, i, places)
<1>1. Len(t) \in Nat BY LenProperties DEF Text
<1>2. /\ n \in 1 .. Len(t) + 1 /\ (n <= Len(t) => n >= i /\ n \in places)
      /\ \A k \in 1 .. Len(t) : k >= i /\ k \in places => n <= k
  BY NextPlaceIsNext
<1> HIDE DEF n
<1>3. ~(n < m)
  <2>1. SUFFICES ASSUME n < m PROVE FALSE OBVIOUS
  <2>2. n \in 1 .. Len(t) BY <1>1, <1>2, <2>1
  <2> QED BY <1>2, <2>1, <2>2
<1>4. ~(m < n)
  <2>1. SUFFICES ASSUME m < n PROVE FALSE OBVIOUS
  <2>2. m \in 1 .. Len(t) BY <1>1, <1>2, <2>1
  <2> QED BY <1>2, <2>1, <2>2
<1>5. n = m BY <1>1, <1>2, <1>3, <1>4
<1> QED BY <1>5 DEF n

\* No place from i to m has the separator.
NoSeparator(t, f, i, m) == \A k \in i .. m : t[k] # f.separator

\* A piece that is not the last ends before the next separator.
LEMMA EndsAtSeparator ==
  ASSUME NEW t \in Text, NEW f, NEW k, NEW i \in Nat \ {0}, NEW m \in 1 .. Len(t) + 1, k < f.count,
         m <= Len(t) => m >= i /\ t[m] = f.separator, NoSeparator(t, f, i, m - 1)
  PROVE  PieceEnd(t, f, k, i) = m
<1> DEFINE separators == {n \in DOMAIN t : t[n] = f.separator}
<1>1. Len(t) \in Nat /\ DOMAIN t = 1 .. Len(t) BY LenProperties DEF Text
<1>2. m <= Len(t) => m >= i /\ m \in separators BY <1>1
<1>3. ASSUME NEW n \in 1 .. Len(t), n >= i, n < m PROVE n \notin separators
  <2>1. n \in i .. m - 1 BY <1>1, <1>3
  <2> QED BY <2>1 DEF NoSeparator
<1>4. PieceEnd(t, f, k, i) = NextPlace(t, i, separators) BY DEF PieceEnd
<1> HIDE DEF separators
<1> QED BY <1>2, <1>3, <1>4, NextPlaceIs

\* Where a piece ends that is not the last
LEMMA SeparatorEnds ==
  ASSUME NEW t \in Text, NEW f, NEW k, NEW i \in Nat \ {0}, NEW m, k < f.count, m = PieceEnd(t, f, k, i)
  PROVE  m \in 1 .. Len(t) + 1 /\ (m <= Len(t) => m >= i /\ t[m] = f.separator)
         /\ NoSeparator(t, f, i, m - 1)
<1> DEFINE separators == {n \in DOMAIN t : t[n] = f.separator}
<1>1. Len(t) \in Nat /\ DOMAIN t = 1 .. Len(t) BY LenProperties DEF Text
<1>2. PieceEnd(t, f, k, i) = NextPlace(t, i, separators) BY DEF PieceEnd
<1>3. /\ m \in 1 .. Len(t) + 1 /\ (m <= Len(t) => m >= i /\ m \in separators)
      /\ \A n \in 1 .. Len(t) : n >= i /\ n \in separators => m <= n
  BY <1>2, NextPlaceIsNext
<1>4. ASSUME NEW n \in i .. m - 1 PROVE t[n] # f.separator
  <2>1. n \in 1 .. Len(t) /\ n >= i /\ n < m BY <1>1, <1>3, <1>4
  <2>2. n \notin separators BY <1>3, <2>1
  <2> QED BY <1>1, <2>1, <2>2
<1>5. m <= Len(t) => m >= i /\ t[m] = f.separator BY <1>3
<1> QED BY <1>3, <1>4, <1>5 DEF NoSeparator

\* The last piece ends behind the text, unless it starts with digits and goes on.
LEMMA EndsBehind ==
  ASSUME NEW t \in Text, NEW f, NEW k, NEW i \in Nat \ {0}, ~(k < f.count),
         \/ i > Len(t)
         \/ t[i] \notin DigitsOf(f.base)
         \/ AllDigits(t, i, Len(t), f.base)
  PROVE  PieceEnd(t, f, k, i) = Len(t) + 1
<1> DEFINE others == {n \in DOMAIN t : t[n] \notin DigitsOf(f.base)}
<1>1. Len(t) \in Nat /\ DOMAIN t = 1 .. Len(t) BY LenProperties DEF Text
<1>2. PieceEnd(t, f, k, i) = IF i \in others THEN Len(t) + 1 ELSE NextPlace(t, i, others)
  BY DEF PieceEnd
<1>3. CASE i \in others BY <1>2, <1>3
<1>4. CASE i \notin others
  <2>1. Len(t) + 1 \in 1 .. Len(t) + 1 /\ ~(Len(t) + 1 <= Len(t)) BY <1>1
  <2>2. ASSUME NEW n \in 1 .. Len(t), n >= i, n < Len(t) + 1 PROVE n \notin others
    <3>1. i \in 1 .. Len(t) /\ n \in i .. Len(t) BY <1>1, <2>2
    <3>2. t[i] \in DigitsOf(f.base) BY <1>1, <1>4, <3>1
    <3>3. AllDigits(t, i, Len(t), f.base) BY <1>1, <3>1, <3>2
    <3> QED BY <3>1, <3>3 DEF AllDigits
  <2> HIDE DEF others
  <2>3. NextPlace(t, i, others) = Len(t) + 1 BY <2>1, <2>2, NextPlaceIs
  <2> QED BY <1>2, <1>4, <2>3
<1> QED BY <1>3, <1>4

\* A last piece of digits ends with them.
LEMMA EndsWithDigits ==
  ASSUME NEW t \in Text, NEW f, NEW k, NEW i \in Nat \ {0}, NEW m \in 1 .. Len(t), ~(k < f.count),
         i < m, AllDigits(t, i, m - 1, f.base), t[m] \notin DigitsOf(f.base)
  PROVE  PieceEnd(t, f, k, i) = m
<1> DEFINE others == {n \in DOMAIN t : t[n] \notin DigitsOf(f.base)}
<1>1. Len(t) \in Nat /\ DOMAIN t = 1 .. Len(t) BY LenProperties DEF Text
<1>2. ASSUME NEW n \in 1 .. Len(t), n >= i, n < m PROVE n \notin others
  <2>1. n \in i .. m - 1 BY <1>1, <1>2
  <2> QED BY <2>1 DEF AllDigits
<1>3. i \notin others BY <1>1, <1>2
<1>4. m \in 1 .. Len(t) + 1 /\ (m <= Len(t) => m >= i /\ m \in others) BY <1>1
<1>5. PieceEnd(t, f, k, i) = IF i \in others THEN Len(t) + 1 ELSE NextPlace(t, i, others)
  BY DEF PieceEnd
<1> HIDE DEF others
<1> QED BY <1>2, <1>3, <1>4, <1>5, NextPlaceIs

\* The cuts follow each other.
LEMMA CutsFollow ==
  ASSUME NEW t \in Text, NEW f \in Formats
  PROVE  /\ Cut(t, f)[0] = 0 /\ \A k \in 0 .. f.count : Cut(t, f)[k] \in 0 .. Len(t) + 1
         /\ \A k \in 1 .. f.count : Cut(t, f)[k] = PieceEnd(t, f, k, Cut(t, f)[k - 1] + 1)
<1> DEFINE n == f.count
           Def(g) == g = [k \in 0 .. n |-> IF k = 0 THEN 0 ELSE PieceEnd(t, f, k, g[k - 1] + 1)]
           cut == CHOOSE g : Def(g)
           S == 0 .. Len(t) + 1
           step == [x \in (1..n) \X S |-> PieceEnd(t, f, x[1], x[2] + 1)]
<1>1. n \in Nat /\ Len(t) \in Nat BY FormulaAssumption, LenProperties DEF Text
<1>2. Cut(t, f) = cut BY DEF Cut
<1> HIDE DEF n
<1>3. ASSUME NEW k, NEW i \in S PROVE PieceEnd(t, f, k, i + 1) \in S
  <2>1. \A places : NextPlace(t, i + 1, places) \in S
    <3>1. i + 1 \in Nat BY <1>1
    <3> QED BY <1>1, <3>1, NextPlaceIsNext
  <2>2. Len(t) + 1 \in S BY <1>1
  <2> HIDE DEF S
  <2> QED BY <2>1, <2>2 DEF PieceEnd
<1>4. step \in [(1..n) \X S -> S]
  <2>1. ASSUME NEW x \in (1..n) \X S PROVE PieceEnd(t, f, x[1], x[2] + 1) \in S BY <1>3
  <2> HIDE DEF S
  <2> QED BY <2>1
<1>5. 0 \in S BY <1>1
<1> HIDE DEF S
<1>6. \A k \in 1..n, i \in S : step[<<k, i>>] = PieceEnd(t, f, k, i + 1) OBVIOUS
<1> HIDE DEF step
<1>7. PICK h \in [0..n -> S] : Steps(h, n, 0, step) BY <1>1, <1>4, <1>5, History
<1>8. Def(h)
  <2>1. ASSUME NEW k \in 0..n PROVE h[k] = IF k = 0 THEN 0 ELSE PieceEnd(t, f, k, h[k - 1] + 1)
    <3>1. CASE k = 0 BY <1>7, <3>1 DEF Steps
    <3>2. CASE k # 0
      <4>1. k \in 1..n /\ k - 1 \in 0..n BY <1>1, <3>2
      <4>2. h[k - 1] \in S BY <1>7, <4>1
      <4>3. h[k] = step[<<k, h[k - 1]>>] BY <1>7, <4>1 DEF Steps
      <4> QED BY <1>6, <3>2, <4>1, <4>2, <4>3
    <3> QED BY <3>1, <3>2
  <2> QED BY <1>7, <2>1
<1>9. Def(cut) BY <1>8
<1> HIDE DEF cut
<1>10. \A k \in 0..n : cut[k] = IF k = 0 THEN 0 ELSE PieceEnd(t, f, k, cut[k - 1] + 1)
  BY <1>9
<1> HIDE DEF Def
<1>11. 0 \in 0..n /\ \A k \in 1..n : k \in 0..n /\ k # 0 BY <1>1
<1>12. cut[0] = 0 /\ \A k \in 1..n : cut[k] = PieceEnd(t, f, k, cut[k - 1] + 1)
  BY <1>10, <1>11
<1> DEFINE G == {k \in 0..n : cut[k] \in S}
<1>13. 0 \in G BY <1>5, <1>11, <1>12
<1>14. ASSUME NEW k \in 1..n, k - 1 \in G PROVE k \in G BY <1>3, <1>11, <1>12, <1>14
<1> HIDE DEF G
<1>15. \A k \in 0..n : k \in G BY <1>1, <1>13, <1>14, UpTo
<1>16. \A k \in 0..n : cut[k] \in S BY <1>15 DEF G
<1> QED BY <1>2, <1>12, <1>16 DEF n, S

\* The text from t to u has not changed up to the end of t.
Extends(u, t) == t \in Text /\ u \in Text /\ Len(t) <= Len(u) /\ \A k \in 1 .. Len(t) : u[k] = t[k]

\* Cuts at separators stay where they are when the text goes on.
LEMMA CutsKept ==
  ASSUME NEW t, NEW u, Extends(u, t), NEW f \in Formats, NEW m \in Nat, m < f.count,
         \A k \in 1 .. m : Cut(t, f)[k] <= Len(t)
  PROVE  \A k \in 0 .. m : Cut(u, f)[k] = Cut(t, f)[k]
<1> DEFINE G == {k \in 0..m : Cut(u, f)[k] = Cut(t, f)[k]}
<1>1. t \in Text /\ u \in Text /\ Len(t) \in Nat /\ Len(u) \in Nat /\ f.count \in Nat
  BY FormulaAssumption, LenProperties DEF Extends, Text
<1>2. /\ Cut(t, f)[0] = 0 /\ \A k \in 0 .. f.count : Cut(t, f)[k] \in 0 .. Len(t) + 1
      /\ \A k \in 1 .. f.count : Cut(t, f)[k] = PieceEnd(t, f, k, Cut(t, f)[k - 1] + 1)
  BY <1>1, CutsFollow
<1>3. /\ Cut(u, f)[0] = 0
      /\ \A k \in 1 .. f.count : Cut(u, f)[k] = PieceEnd(u, f, k, Cut(u, f)[k - 1] + 1)
  BY <1>1, CutsFollow
<1>4. 0 \in G BY <1>2, <1>3
<1>5. ASSUME NEW n \in 1..m, n - 1 \in G PROVE n \in G
  <2> DEFINE i == Cut(t, f)[n - 1] + 1
             e == Cut(t, f)[n]
  <2>1. n \in 1 .. f.count /\ n - 1 \in 0 .. f.count /\ n < f.count /\ n \in 0..m BY <1>1
  <2>2. i \in Nat \ {0} BY <1>1, <1>2, <2>1
  <2>3. e = PieceEnd(t, f, n, i) /\ e <= Len(t) BY <1>2, <2>1
  <2>4. Cut(u, f)[n] = PieceEnd(u, f, n, i)
    <3>1. Cut(u, f)[n - 1] = Cut(t, f)[n - 1] BY <1>5
    <3> QED BY <1>3, <2>1, <3>1
  <2> HIDE DEF i, e, G
  <2>5. e \in 1 .. Len(t) + 1 /\ e >= i /\ t[e] = f.separator /\ NoSeparator(t, f, i, e - 1)
    BY <1>1, <2>1, <2>2, <2>3, SeparatorEnds
  <2>6. e \in 1 .. Len(t) /\ e \in 1 .. Len(u) + 1 BY <1>1, <2>3, <2>5 DEF Extends
  <2>7. u[e] = f.separator BY <2>5, <2>6 DEF Extends
  <2>8. NoSeparator(u, f, i, e - 1)
    <3>1. ASSUME NEW k \in i .. e - 1 PROVE u[k] # f.separator
      <4>1. k \in 1 .. Len(t) BY <1>1, <2>2, <2>6
      <4> QED BY <2>5, <4>1 DEF Extends, NoSeparator
    <3> QED BY <3>1 DEF NoSeparator
  <2>9. PieceEnd(u, f, n, i) = e BY <1>1, <2>1, <2>2, <2>5, <2>6, <2>7, <2>8, EndsAtSeparator
  <2>10. Cut(u, f)[n] = Cut(t, f)[n] BY <2>4, <2>9 DEF e
  <2> QED BY <2>1, <2>10 DEF G
<1> HIDE DEF G
<1>6. \A k \in 0..m : k \in G BY <1>4, <1>5, UpTo
<1> QED BY <1>6 DEF G

\* A piece of a text that goes on means what it meant.
LEMMA PieceInBoth ==
  ASSUME NEW t, NEW u, Extends(u, t), NEW i \in Nat \ {0}, NEW base \in {10, 16}
  PROVE  PieceMeans(u, i, Len(t), base) = PieceMeans(t, i, Len(t), base)
<1>1. t \in Text /\ \A k \in 1 .. Len(t) : u[k] = t[k] BY DEF Extends
<1>2. Len(t) \in Int BY <1>1, LenProperties DEF Text
<1>3. \A k \in i .. Len(t) : u[k] = t[k] BY <1>1, <1>2
<1> QED BY <1>2, <1>3, PieceKept

\* So do the meanings of the pieces between them.
LEMMA MeaningsKept ==
  ASSUME NEW t, NEW u, Extends(u, t), NEW f \in Formats, NEW m \in Nat, m < f.count,
         \A k \in 1 .. m : Cut(t, f)[k] <= Len(t)
  PROVE  \A k \in 1 .. m : MeaningAt(u, f, k) = MeaningAt(t, f, k)
<1>1. SUFFICES ASSUME NEW k \in 1..m PROVE MeaningAt(u, f, k) = MeaningAt(t, f, k) OBVIOUS
<1> DEFINE i == Cut(t, f)[k - 1] + 1
           j == Cut(t, f)[k] - 1
<1>2. t \in Text /\ Len(t) \in Nat /\ f.count \in Nat /\ f.base \in {10, 16}
  BY FormulaAssumption, LenProperties DEF Extends, Text
<1>3. k \in 0..m /\ k - 1 \in 0..m /\ k \in 0..f.count /\ k - 1 \in 0..f.count BY <1>2
<1>4. Cut(u, f)[k] = Cut(t, f)[k] /\ Cut(u, f)[k - 1] = Cut(t, f)[k - 1] BY <1>3, CutsKept
<1>5. Cut(t, f)[k] \in 0 .. Len(t) + 1 /\ Cut(t, f)[k - 1] \in 0 .. Len(t) + 1
  BY <1>2, <1>3, CutsFollow
<1>6. Cut(t, f)[k] <= Len(t) OBVIOUS
<1>7. i \in Nat \ {0} /\ j \in Int /\ j <= Len(t) BY <1>2, <1>5, <1>6
<1>8. MeaningAt(t, f, k) = PieceMeans(t, i, j, f.base) /\ MeaningAt(u, f, k) = PieceMeans(u, i, j, f.base)
  BY <1>4 DEF MeaningAt
<1> HIDE DEF i, j
<1>9. \A n \in i..j : u[n] = t[n] BY <1>2, <1>7 DEF Extends
<1> QED BY <1>2, <1>7, <1>8, <1>9, PieceKept

-----------------------------------------------------------------------------
(* What has been read of a text. *)

\* A part of an address, as it is kept
Part == [a : 0 .. 255, b : 0 .. 255]

\* Where the piece starts that is being read
StartOf(t, f, ps) == Cut(t, f)[Len(ps) - 1] + 1

\* The pieces before it mean what their parts say, and it has no separator yet.
PartsBefore(t, f, ps) ==
  /\ Cut(t, f)[Len(ps) - 1] <= Len(t)
  /\ \A k \in 1 .. Len(ps) - 1 : Cut(t, f)[k] <= Len(t) /\ MeaningAt(t, f, k) = {ps[k]}
  /\ NoSeparator(t, f, StartOf(t, f, ps), Len(t))

\* An offset in braces from i on, with the plus at k
HasOffset(t, i, k, a) ==
  i < k /\ t[i] = LeftBrace /\ t[k] = "+" /\ Numbers(t, i + 1, k - 1, 10) = {a}

\* What has been read of the piece that starts at i, at each place of the reader
Reading(t, base, i, p, n, where) ==
  LET j == Len(t)
  IN /\ where = "part" => i = j + 1 /\ p = Constant(0)
     /\ where = "constant" => Numbers(t, i, j, base) = {p.a} /\ p = Constant(p.a)
     /\ where = "offset" => i = j /\ t[i] = LeftBrace /\ n = 0
     /\ where = "offsetDigits" => i < j /\ t[i] = LeftBrace /\ Numbers(t, i + 1, j, 10) = {n}
     /\ where = "factor" => HasOffset(t, i, j, p.a) /\ n = 0
     /\ where = "factorDigits" =>
          \E k \in i + 1 .. j - 1 : HasOffset(t, i, k, p.a) /\ Numbers(t, k + 1, j, 10) = {n}
     /\ where = "closing" =>
          /\ t[j] = "i"
          /\ \E k \in i + 1 .. j - 1 : HasOffset(t, i, k, p.a) /\ Factors(t, k + 1, j - 1) = {p.b}
     /\ where = "closed" => InBraces(t, i, j) /\ PieceMeans(t, i, j, base) = {p}

\* The places in the reader's loop
Readers == {"part", "constant", "offset", "offsetDigits", "factor", "factorDigits", "closing", "closed"}

\* The reader is in its loop, with what it keeps of the text so far.
Kept(t, f, ps, n, where) ==
  /\ t \in Text /\ f \in Formats /\ ps \in Seq(Part) /\ Len(ps) \in 1 .. f.count /\ n \in Nat
  /\ where \in Readers /\ PartsBefore(t, f, ps)
  /\ Reading(t, f.base, StartOf(t, f, ps), ps[Len(ps)], n, where)

\* The text is an address, with the parts that its pieces mean.
Accepted(t, f, ps) ==
  ps \in Seq(Part) /\ Len(ps) = f.count /\ \A k \in 1 .. f.count : MeaningAt(t, f, k) = {ps[k]}

\* A piece of the text means nothing.
Rejected(t, f) == \E k \in 1 .. f.count : MeaningAt(t, f, k) = {}

\* The inductive invariant
FormulaInv ==
  /\ format \in Formats /\ text \in Text /\ place \in Readers \cup Ends
  /\ place \notin Ends => Kept(text, format, parts, number, place)
  /\ place = "accepted" => Accepted(text, format, parts)
  /\ place = "rejected" => Rejected(text, format)

\* The reader of a text t with one more character, c
Reads(t, f, ps, n, where, c, u) ==
  Kept(t, f, ps, n, where) /\ c \in Characters /\ u = Append(t, c)

\* What holds of both texts
LEMMA ReadsOn ==
  ASSUME NEW t, NEW f, NEW ps, NEW n, NEW where, NEW c, NEW u, Reads(t, f, ps, n, where, c, u)
  PROVE  /\ t \in Text /\ u \in Text /\ Len(t) \in Nat /\ Len(u) = Len(t) + 1 /\ u[Len(u)] = c
         /\ Extends(u, t) /\ \A k \in 1 .. Len(t) : u[k] = t[k]
         /\ f \in Formats /\ f.count \in Nat \ {0} /\ f.base \in {10, 16} /\ f.separator \in {".", ":"}
         /\ Len(ps) \in 1 .. f.count
         /\ StartOf(t, f, ps) \in 1 .. Len(t) + 1 /\ StartOf(t, f, ps) = Cut(u, f)[Len(ps) - 1] + 1
         /\ NoSeparator(u, f, StartOf(t, f, ps), Len(t))
<1> DEFINE i == StartOf(t, f, ps)
           m == Len(ps) - 1
<1>1. /\ t \in Text /\ f \in Formats /\ Len(ps) \in 1 .. f.count /\ PartsBefore(t, f, ps)
      /\ c \in Characters /\ u = Append(t, c)
  BY DEF Reads, Kept
<1>2. /\ u \in Text /\ Len(t) \in Nat /\ Len(u) = Len(t) + 1 /\ u[Len(u)] = c
      /\ \A k \in 1 .. Len(t) : u[k] = t[k]
  <2>1. t \in Text /\ c \in Characters /\ u = Append(t, c) BY <1>1
  <2>2. u \in Text /\ Len(t) \in Nat BY <2>1, OneMore
  <2>3. Len(u) = Len(t) + 1 BY <2>1, OneMore
  <2>4. u[Len(t) + 1] = c BY <2>1, OneMore
  <2>5. \A k \in 1 .. Len(t) : u[k] = t[k] BY <2>1, OneMore
  <2> QED BY <2>2, <2>3, <2>4, <2>5
<1>3. Extends(u, t) BY <1>1, <1>2 DEF Extends
<1>4. f.count \in Nat \ {0} /\ f.base \in {10, 16} /\ f.separator \in {".", ":"}
  BY <1>1, FormulaAssumption
<1>5. m \in Nat /\ m < f.count /\ m \in 0 .. m /\ m \in 0 .. f.count BY <1>1, <1>4
<1>6. \A k \in 1 .. m : Cut(t, f)[k] <= Len(t) BY <1>1 DEF PartsBefore
<1>7. Cut(t, f)[m] \in 0 .. Len(t) + 1 BY <1>1, <1>5, CutsFollow
<1>8. Cut(t, f)[m] <= Len(t) BY <1>1 DEF PartsBefore
<1> HIDE DEF m
<1>9. Cut(u, f)[m] = Cut(t, f)[m] BY <1>1, <1>3, <1>5, <1>6, CutsKept
<1>10. i = Cut(t, f)[m] + 1 BY DEF StartOf, m
<1>11. i \in 1 .. Len(t) + 1 BY <1>2, <1>7, <1>8, <1>10
<1>12. NoSeparator(t, f, i, Len(t)) BY <1>1 DEF PartsBefore
<1> HIDE DEF i
<1>13. NoSeparator(u, f, i, Len(t))
  <2>1. ASSUME NEW k \in i .. Len(t) PROVE u[k] # f.separator
    <3>1. k \in 1 .. Len(t) BY <1>2, <1>11
    <3> QED BY <1>2, <1>12, <3>1 DEF NoSeparator
  <2> QED BY <2>1 DEF NoSeparator
<1> QED BY <1>1, <1>2, <1>3, <1>4, <1>9, <1>10, <1>11, <1>13 DEF i, m

\* The piece goes on with a character that is no separator.
LEMMA PieceGoesOn ==
  ASSUME NEW t, NEW f, NEW ps, NEW n, NEW where, NEW c, NEW u, Reads(t, f, ps, n, where, c, u),
         c # f.separator, NEW qs, Len(qs) = Len(ps), \A k \in 1 .. Len(ps) - 1 : qs[k] = ps[k]
  PROVE  PartsBefore(u, f, qs) /\ StartOf(u, f, qs) = StartOf(t, f, ps)
<1> DEFINE m == Len(ps) - 1
<1>1. /\ t \in Text /\ u \in Text /\ Len(t) \in Nat /\ Len(u) = Len(t) + 1 /\ u[Len(u)] = c
      /\ Extends(u, t)
      /\ f \in Formats /\ f.count \in Nat \ {0} /\ Len(ps) \in 1 .. f.count
      /\ StartOf(t, f, ps) \in 1 .. Len(t) + 1 /\ StartOf(t, f, ps) = Cut(u, f)[Len(ps) - 1] + 1
      /\ NoSeparator(u, f, StartOf(t, f, ps), Len(t))
  BY ReadsOn
<1>2. StartOf(u, f, qs) = StartOf(t, f, ps) BY <1>1 DEF StartOf
<1>3. PartsBefore(t, f, ps) BY DEF Reads, Kept
<1>4. m \in Nat /\ m < f.count BY <1>1
<1>5. \A k \in 1 .. m : Cut(t, f)[k] <= Len(t) /\ MeaningAt(t, f, k) = {ps[k]}
  BY <1>3 DEF PartsBefore
<1>6. Cut(t, f)[m] <= Len(t) BY <1>3 DEF PartsBefore
<1>7. Len(qs) - 1 = m /\ \A k \in 1 .. m : qs[k] = ps[k] OBVIOUS
<1> HIDE DEF m
<1>8. \A k \in 0 .. m : Cut(u, f)[k] = Cut(t, f)[k] BY <1>1, <1>4, <1>5, CutsKept
<1>9. \A k \in 1 .. m : MeaningAt(u, f, k) = MeaningAt(t, f, k) BY <1>1, <1>4, <1>5, MeaningsKept
<1>10. \A k \in 0 .. m : k \in 0 .. f.count BY <1>1, <1>4
<1>11. \A k \in 0 .. m : Cut(t, f)[k] \in 0 .. Len(t) + 1 BY <1>1, <1>10, CutsFollow
<1>12. \A k \in 1 .. m : Cut(u, f)[k] <= Len(u) /\ MeaningAt(u, f, k) = {qs[k]}
  <2>1. ASSUME NEW k \in 1 .. m PROVE Cut(u, f)[k] <= Len(u) /\ MeaningAt(u, f, k) = {qs[k]}
    <3>1. k \in 0 .. m BY <1>4
    <3>2. Cut(u, f)[k] = Cut(t, f)[k] /\ Cut(t, f)[k] \in 0 .. Len(t) + 1 BY <1>8, <1>11, <3>1
    <3>3. Cut(u, f)[k] <= Len(u) BY <1>1, <3>2
    <3> QED BY <1>5, <1>7, <1>9, <3>3
  <2> QED BY <2>1
<1>13. Cut(u, f)[m] <= Len(u)
  <2>1. m \in 0 .. m BY <1>4
  <2>2. Cut(u, f)[m] = Cut(t, f)[m] /\ Cut(t, f)[m] \in 0 .. Len(t) + 1 BY <1>8, <1>11, <2>1
  <2> QED BY <1>1, <2>2
<1>14. NoSeparator(u, f, StartOf(u, f, qs), Len(u))
  <2>1. ASSUME NEW k \in StartOf(t, f, ps) .. Len(u) PROVE u[k] # f.separator
    <3>1. CASE k = Len(u) BY <1>1, <3>1
    <3>2. CASE k # Len(u)
      <4>1. k \in StartOf(t, f, ps) .. Len(t) BY <1>1, <3>2
      <4> QED BY <1>1, <4>1 DEF NoSeparator
    <3> QED BY <3>1, <3>2
  <2> QED BY <1>2, <2>1 DEF NoSeparator
<1> QED BY <1>2, <1>7, <1>12, <1>13, <1>14 DEF PartsBefore

\* The piece that is being read has nothing yet.
StartsBehind(t, f, ps) == StartOf(t, f, ps) = Len(t) + 1

\* A separator ends the piece, and the next one starts behind it.
LEMMA PieceEnds ==
  ASSUME NEW t, NEW f, NEW ps, NEW n, NEW where, NEW c, NEW u, Reads(t, f, ps, n, where, c, u),
         c = f.separator, Len(ps) < f.count,
         PieceMeans(t, StartOf(t, f, ps), Len(t), f.base) = {ps[Len(ps)]},
         NEW qs, Len(qs) = Len(ps) + 1, \A k \in 1 .. Len(ps) : qs[k] = ps[k]
  PROVE  PartsBefore(u, f, qs) /\ StartsBehind(u, f, qs)
<1> DEFINE l == Len(ps)
           m == Len(ps) - 1
           i == StartOf(t, f, ps)
<1>1. /\ t \in Text /\ u \in Text /\ Len(t) \in Nat /\ Len(u) = Len(t) + 1 /\ u[Len(u)] = c
      /\ Extends(u, t) /\ \A k \in 1 .. Len(t) : u[k] = t[k]
      /\ f \in Formats /\ f.count \in Nat \ {0} /\ f.base \in {10, 16} /\ l \in 1 .. f.count
      /\ i \in 1 .. Len(t) + 1 /\ i = Cut(u, f)[m] + 1
      /\ NoSeparator(u, f, i, Len(t))
  BY ReadsOn
<1>2. PartsBefore(t, f, ps) BY DEF Reads, Kept
<1>3. m \in Nat /\ m < f.count /\ l \in Nat /\ m = l - 1 BY <1>1
<1>4. \A k \in 1 .. m : Cut(t, f)[k] <= Len(t) /\ MeaningAt(t, f, k) = {ps[k]}
  BY <1>2 DEF PartsBefore
<1>5. Len(qs) - 1 = l /\ l < f.count /\ \A k \in 1 .. l : qs[k] = ps[k] BY <1>1
<1>6. PieceMeans(t, i, Len(t), f.base) = {ps[l]} OBVIOUS
<1> HIDE DEF m, i, l
<1>7. \A k \in 0 .. m : Cut(u, f)[k] = Cut(t, f)[k] BY <1>1, <1>3, <1>4, CutsKept
<1>8. \A k \in 1 .. m : MeaningAt(u, f, k) = MeaningAt(t, f, k) BY <1>1, <1>3, <1>4, MeaningsKept
<1>9. Cut(u, f)[l] = Len(u)
  <2>1. Cut(u, f)[l] = PieceEnd(u, f, l, i)
    <3>1. l \in 1 .. f.count /\ l - 1 = m BY <1>1, <1>3
    <3> QED BY <1>1, <3>1, CutsFollow
  <2>2. Len(u) \in 1 .. Len(u) + 1 /\ Len(u) >= i /\ Len(u) - 1 = Len(t) /\ i \in Nat \ {0}
    BY <1>1
  <2>3. NoSeparator(u, f, i, Len(u) - 1) BY <1>1, <2>2
  <2>4. u[Len(u)] = f.separator BY <1>1
  <2>5. PieceEnd(u, f, l, i) = Len(u) BY <1>1, <1>5, <2>2, <2>3, <2>4, EndsAtSeparator
  <2> QED BY <2>1, <2>5
<1>10. MeaningAt(u, f, l) = {qs[l]}
  <2>1. Cut(u, f)[l - 1] + 1 = i /\ Cut(u, f)[l] - 1 = Len(t) BY <1>1, <1>3, <1>9
  <2>2. MeaningAt(u, f, l) = PieceMeans(u, i, Len(t), f.base) BY <2>1 DEF MeaningAt
  <2>3. f.base \in {10, 16} /\ i \in Nat \ {0} BY <1>1
  <2>4. PieceMeans(u, i, Len(t), f.base) = PieceMeans(t, i, Len(t), f.base)
    BY <1>1, <2>3, PieceInBoth
  <2>5. l \in 1 .. l BY <1>1
  <2> QED BY <1>5, <1>6, <2>2, <2>4, <2>5
<1>11. \A k \in 1 .. l : Cut(u, f)[k] <= Len(u) /\ MeaningAt(u, f, k) = {qs[k]}
  <2>1. ASSUME NEW k \in 1 .. l PROVE Cut(u, f)[k] <= Len(u) /\ MeaningAt(u, f, k) = {qs[k]}
    <3>1. CASE k = l BY <1>1, <1>9, <1>10, <3>1
    <3>2. CASE k # l
      <4>1. k \in 1 .. m /\ k \in 0 .. m /\ k \in 0 .. f.count BY <1>1, <1>3, <3>2
      <4>2. Cut(u, f)[k] = Cut(t, f)[k] /\ Cut(t, f)[k] <= Len(t) BY <1>4, <1>7, <4>1
      <4>3. Cut(t, f)[k] \in 0 .. Len(t) + 1 BY <1>1, <4>1, CutsFollow
      <4>4. Cut(u, f)[k] <= Len(u) BY <1>1, <4>2, <4>3
      <4> QED BY <1>4, <1>5, <1>8, <4>1, <4>4
    <3> QED BY <3>1, <3>2
  <2> QED BY <2>1
<1>12. StartOf(u, f, qs) = Len(u) + 1 BY <1>5, <1>9 DEF StartOf
<1>13. NoSeparator(u, f, StartOf(u, f, qs), Len(u)) BY <1>1, <1>12 DEF NoSeparator
<1>14. Cut(u, f)[Len(qs) - 1] <= Len(u) BY <1>1, <1>5, <1>9
<1> QED BY <1>5, <1>11, <1>12, <1>13, <1>14 DEF PartsBefore, StartsBehind

\* The reader refuses a text, and the piece that it reads means nothing.
LEMMA PieceRefused ==
  ASSUME NEW t, NEW f, NEW ps, NEW n, NEW where, NEW c, NEW u, Reads(t, f, ps, n, where, c, u),
         PieceMeans(u, StartOf(t, f, ps), Len(u), f.base) = {},
         c = f.separator /\ Len(ps) < f.count =>
           PieceMeans(t, StartOf(t, f, ps), Len(t), f.base) = {},
         Len(ps) = f.count => \/ u[StartOf(t, f, ps)] \notin DigitsOf(f.base)
                              \/ AllDigits(u, StartOf(t, f, ps), Len(u), f.base)
  PROVE  Rejected(u, f)
<1> DEFINE l == Len(ps)
           i == StartOf(t, f, ps)
<1>1. /\ t \in Text /\ u \in Text /\ Len(t) \in Nat /\ Len(u) = Len(t) + 1 /\ u[Len(u)] = c
      /\ Extends(u, t) /\ \A k \in 1 .. Len(t) : u[k] = t[k]
      /\ f \in Formats /\ f.count \in Nat \ {0} /\ f.base \in {10, 16} /\ l \in 1 .. f.count
      /\ i \in 1 .. Len(t) + 1 /\ i = Cut(u, f)[l - 1] + 1
      /\ NoSeparator(u, f, i, Len(t))
  BY ReadsOn
<1>2. /\ PieceMeans(u, i, Len(u), f.base) = {}
      /\ c = f.separator /\ l < f.count => PieceMeans(t, i, Len(t), f.base) = {}
      /\ l = f.count => u[i] \notin DigitsOf(f.base) \/ AllDigits(u, i, Len(u), f.base)
  OBVIOUS
<1> HIDE DEF l, i
<1>3. /\ Cut(u, f)[l] = PieceEnd(u, f, l, i) /\ i \in Nat \ {0} /\ Len(u) \in Nat /\ Len(u) - 1 = Len(t)
      /\ Len(u) \in 1 .. Len(u) + 1 /\ Len(u) + 1 \in 1 .. Len(u) + 1 /\ Len(u) >= i
      /\ ~(Len(u) + 1 <= Len(u)) /\ Len(u) + 1 - 1 = Len(u)
  BY <1>1, CutsFollow
<1>4. CASE l < f.count /\ c = f.separator
  <2>1. NoSeparator(u, f, i, Len(u) - 1) /\ u[Len(u)] = f.separator BY <1>1, <1>3, <1>4
  <2>2. PieceEnd(u, f, l, i) = Len(u) BY <1>1, <1>3, <1>4, <2>1, EndsAtSeparator
  <2>3. MeaningAt(u, f, l) = PieceMeans(u, i, Len(t), f.base) BY <1>1, <1>3, <2>2 DEF MeaningAt
  <2>5. PieceMeans(u, i, Len(t), f.base) = PieceMeans(t, i, Len(t), f.base)
    BY <1>1, <1>3, PieceInBoth
  <2> QED BY <1>1, <1>2, <1>4, <2>3, <2>5 DEF Rejected
<1>5. ASSUME PieceEnd(u, f, l, i) = Len(u) + 1 PROVE Rejected(u, f)
  <2>1. MeaningAt(u, f, l) = PieceMeans(u, i, Len(u), f.base) BY <1>1, <1>3, <1>5 DEF MeaningAt
  <2> QED BY <1>1, <1>2, <2>1 DEF Rejected
<1>6. CASE l < f.count /\ c # f.separator
  <2>1. ASSUME NEW k \in i .. Len(u) PROVE u[k] # f.separator
    <3>1. CASE k = Len(u) BY <1>1, <1>6, <3>1
    <3>2. CASE k # Len(u)
      <4>1. k \in i .. Len(t) BY <1>1, <1>3, <3>2
      <4> QED BY <1>1, <4>1 DEF NoSeparator
    <3> QED BY <3>1, <3>2
  <2>2. NoSeparator(u, f, i, Len(u) + 1 - 1) BY <1>3, <2>1 DEF NoSeparator
  <2>3. PieceEnd(u, f, l, i) = Len(u) + 1 BY <1>1, <1>3, <1>6, <2>2, EndsAtSeparator
  <2> QED BY <1>5, <2>3
<1>7. CASE l = f.count
  <2>1. ~(l < f.count) BY <1>1, <1>7
  <2>2. PieceEnd(u, f, l, i) = Len(u) + 1 BY <1>1, <1>2, <1>3, <1>7, <2>1, EndsBehind
  <2> QED BY <1>5, <2>2
<1>8. l < f.count \/ l = f.count BY <1>1
<1> QED BY <1>4, <1>6, <1>7, <1>8

\* The last part replaced
LEMMA LastReplaced ==
  ASSUME NEW ps \in Seq(Part), Len(ps) # 0, NEW x \in Part, NEW qs, qs = Append(Front(ps), x)
  PROVE  /\ qs \in Seq(Part) /\ Len(qs) = Len(ps) /\ qs[Len(ps)] = x
         /\ \A k \in 1 .. Len(ps) - 1 : qs[k] = ps[k]
<1> DEFINE r == SubSeq(ps, 1, Len(ps) - 1)
           l == Len(ps)
<1>1. l \in Nat \ {0} /\ \A k \in 1 .. l : ps[k] \in Part BY LenProperties, ElementOfSeq
<1>2. \A k \in 1 .. l - 1 : ps[k] \in Part BY <1>1
<1>3. l - 1 \in Int BY <1>1
<1>4. r \in Seq(Part) /\ Len(r) = (IF 1 <= l - 1 THEN l - 1 - 1 + 1 ELSE 0)
      /\ \A k \in 1 .. l - 1 - 1 + 1 : r[k] = ps[1 + k - 1]
  BY <1>2, <1>3, SubSeqProperties
<1>5. qs = Append(r, x) BY DEF Front
<1> HIDE DEF r, l
<1>6. Len(r) = l - 1 BY <1>1, <1>4
<1>7. \A k \in 1 .. l - 1 : r[k] = ps[k]
  <2>1. ASSUME NEW k \in 1 .. l - 1 PROVE r[k] = ps[k]
    <3>1. k \in 1 .. l - 1 - 1 + 1 /\ 1 + k - 1 = k BY <1>1
    <3> QED BY <1>4, <3>1
  <2> QED BY <2>1
<1>8. /\ qs \in Seq(Part) /\ Len(qs) = Len(r) + 1 /\ qs[Len(r) + 1] = x
      /\ \A k \in 1 .. Len(r) : qs[k] = r[k]
  BY <1>4, <1>5, AppendProperties
<1>9. Len(r) + 1 = l BY <1>1, <1>6
<1>10. \A k \in 1 .. l - 1 : qs[k] = ps[k] BY <1>6, <1>7, <1>8
<1>11. Len(qs) = l /\ qs[l] = x BY <1>8, <1>9
<1> QED BY <1>8, <1>10, <1>11 DEF l

\* What the reader knows of a piece that goes on
LEMMA ReadsPiece ==
  ASSUME NEW t, NEW f, NEW ps, NEW n, NEW where, NEW c, NEW u, Reads(t, f, ps, n, where, c, u),
         c # f.separator, NEW qs \in Seq(Part), Len(qs) = Len(ps), \A k \in 1 .. Len(ps) - 1 : qs[k] = ps[k],
         NEW m \in Nat, NEW w \in Readers, Reading(u, f.base, StartOf(t, f, ps), qs[Len(ps)], m, w)
  PROVE  Kept(u, f, qs, m, w)
<1>1. PartsBefore(u, f, qs) /\ StartOf(u, f, qs) = StartOf(t, f, ps) BY PieceGoesOn
<1>2. u \in Text /\ f \in Formats /\ Len(ps) \in 1 .. f.count BY ReadsOn
<1>3. Reading(u, f.base, StartOf(u, f, qs), qs[Len(qs)], m, w) BY <1>1
<1> QED BY <1>1, <1>2, <1>3 DEF Kept

\* The piece that is being read, and its part
LEMMA PieceSoFar ==
  ASSUME NEW t, NEW f, NEW ps, NEW n, NEW where, Kept(t, f, ps, n, where)
  PROVE  /\ ps \in Seq(Part) /\ Len(ps) \in Nat \ {0} /\ n \in Nat /\ where \in Readers
         /\ ps[Len(ps)] \in Part /\ ps[Len(ps)].a \in 0 .. 255
         /\ Reading(t, f.base, StartOf(t, f, ps), ps[Len(ps)], n, where)
<1>1. ps \in Seq(Part) /\ f \in Formats /\ Len(ps) \in 1 .. f.count BY DEF Kept
<1>2. f.count \in Nat BY <1>1, FormulaAssumption
<1>3. Len(ps) \in Nat \ {0} /\ Len(ps) \in 1 .. Len(ps) BY <1>1, <1>2
<1>4. ps[Len(ps)] \in Part BY <1>1, <1>3, ElementOfSeq
<1>5. ps[Len(ps)].a \in 0 .. 255 BY <1>4 DEF Part
<1> QED BY <1>1, <1>3, <1>4, <1>5 DEF Kept

\* A mark in a piece makes it no number.
LEMMA MarkedIsNoNumber ==
  ASSUME NEW t, NEW i \in Int, NEW j \in Int, NEW base \in {10, 16}, NEW k \in i .. j,
         t[k] \notin DigitsOf(base)
  PROVE  Numbers(t, i, j, base) = {}
BY NumbersTyped DEF AllDigits

\* What a constant part becomes with a digit
Grown(ps, f, c) == ps[Len(ps)].a * f.base + Digit[c]

\* A digit of a constant part
LEMMA DigitKeeps ==
  ASSUME NEW t, NEW f, NEW ps, NEW n, NEW where, NEW c, NEW u, Reads(t, f, ps, n, where, c, u),
         where \in {"part", "constant"}, c \in DigitsOf(f.base),
         NEW a, a = Grown(ps, f, c)
  PROVE  /\ a <= 255 => Kept(u, f, Append(Front(ps), Constant(a)), n, "constant")
         /\ ~(a <= 255) => Rejected(u, f)
<1> DEFINE i == StartOf(t, f, ps)
           j == Len(t)
           p == ps[Len(ps)]
<1>1. /\ j \in Nat /\ Len(u) = j + 1 /\ u[Len(u)] = c /\ \A k \in 1 .. j : u[k] = t[k]
      /\ i \in 1 .. j + 1
  BY ReadsOn
<1>2. f.base \in {10, 16} /\ f.separator \in {".", ":"} BY ReadsOn
<1>3. Kept(t, f, ps, n, where) BY DEF Reads
<1>4. /\ ps \in Seq(Part) /\ Len(ps) \in Nat \ {0} /\ n \in Nat /\ p.a \in 0 .. 255
      /\ Reading(t, f.base, i, p, n, where)
  BY <1>3, PieceSoFar
<1> HIDE DEF i, p
<1>5. NumberSoFar(t, i, j, f.base, p.a)
  <2>1. CASE where = "part"
    <3>1. i = j + 1 /\ p = Constant(0) BY <1>4, <2>1 DEF Reading
    <3> QED BY <3>1 DEF Constant, NumberSoFar
  <2>2. CASE where = "constant"
    <3>1. Numbers(t, i, j, f.base) = {p.a} BY <1>4, <2>2 DEF Reading
    <3> QED BY <3>1 DEF NumberSoFar
  <2> QED BY <2>1, <2>2
<1>6. i \in Nat \ {0} /\ u[j + 1] = c /\ \A k \in i .. j : u[k] = t[k] BY <1>1
<1>7. j \in Nat /\ Len(u) = j + 1 BY <1>1
<1> HIDE DEF j
<1>8. Numbers(u, i, Len(u), f.base) = {a} \cap 0 .. 255 /\ AllDigits(u, i, Len(u), f.base)
  <2>1. u[j + 1] \in DigitsOf(f.base) BY <1>6
  <2>5. f.base \in {10, 16} /\ i \in Nat \ {0} /\ \A k \in i .. j : u[k] = t[k]  BY <1>2, <1>6
  <2> DEFINE v == p.a
             b == f.base
  <2>6. NumberSoFar(t, i, j, f.base, v) BY <1>5
  <2>7. b \in {10, 16} /\ u[j + 1] \in DigitsOf(b) /\ NumberSoFar(t, i, j, b, v) BY <2>1, <2>5, <2>6
  <2> HIDE DEF v, b
  <2>8. i \in Nat \ {0} /\ j \in Nat /\ \A k \in i .. j : u[k] = t[k] BY <1>7, <2>5
  <2>9. DigitMore(t, u, i, j, b, v) BY <2>7, <2>8 DEF DigitMore
  <2>2. AllDigits(u, i, j + 1, b) BY <2>9, OneDigitMore
  <2>3. Numbers(u, i, j + 1, b) = {v * b + Digit[u[j + 1]]} \cap 0 .. 255 BY <2>9, OneDigitMore
  <2>4. v * b + Digit[u[j + 1]] = a BY <1>6 DEF Grown, p, v, b
  <2> QED BY <1>7, <2>2, <2>3, <2>4 DEF b
<1>9. c \notin Marks /\ Digit[c] \in 0 .. 15 BY <1>2, DigitsAre
<1>10. c # f.separator /\ c # RightBrace BY <1>2, <1>9 DEF Marks
<1>11. a \in Nat
  <2>1. a = p.a * f.base + Digit[c] BY DEF Grown, p
  <2>5. p.a \in 0 .. 255 BY <1>4
  <2>2. p.a \in Nat BY <2>5
  <2>3. CASE f.base = 10 BY <1>9, <2>1, <2>2, <2>3
  <2>4. CASE f.base = 16 BY <1>9, <2>1, <2>2, <2>4
  <2> QED BY <1>2, <2>3, <2>4
<1>12. ASSUME a <= 255 PROVE Kept(u, f, Append(Front(ps), Constant(a)), n, "constant")
  <2> DEFINE qs == Append(Front(ps), Constant(a))
  <2>1. a \in 0 .. 255 BY <1>11, <1>12
  <2>2. Constant(a) \in Part /\ Constant(a).a = a BY <2>1 DEF Constant, Part
  <2>8. qs = Append(Front(ps), Constant(a)) OBVIOUS
  <2> HIDE DEF qs
  <2>9. ps \in Seq(Part) /\ Len(ps) # 0 /\ Constant(a) \in Part BY <1>4, <2>2
  <2>3. qs \in Seq(Part) /\ Len(qs) = Len(ps) /\ qs[Len(ps)] = Constant(a)
    BY <2>8, <2>9, LastReplaced
  <2>10. \A k \in 1 .. Len(ps) - 1 : qs[k] = ps[k] BY <2>8, <2>9, LastReplaced
  <2>4. Numbers(u, i, Len(u), f.base) = {a} BY <1>8, <2>1
  <2>5. Reading(u, f.base, i, qs[Len(ps)], n, "constant") BY <2>2, <2>3, <2>4 DEF Reading
  <2>6. "constant" \in Readers BY DEF Readers
  <2>7. Kept(u, f, qs, n, "constant") BY <1>4, <1>10, <2>3, <2>5, <2>6, <2>10, ReadsPiece DEF i
  <2> QED BY <2>7 DEF qs
<1>13. ASSUME ~(a <= 255) PROVE Rejected(u, f)
  <2>1. Numbers(u, i, Len(u), f.base) = {} BY <1>8, <1>11, <1>13
  <2>2. ~InBraces(u, i, Len(u)) BY <1>1, <1>10 DEF InBraces
  <2>3. PieceMeans(u, i, Len(u), f.base) = {} BY <2>1, <2>2, MeansNothing
  <2> QED BY <1>8, <1>10, <2>3, PieceRefused DEF i
<1> QED BY <1>12, <1>13

\* The marks are no separators, unless they are, and digits never are.
LEMMA NotSeparator ==
  ASSUME NEW separator \in {".", ":"}, NEW base \in {10, 16}, NEW c,
         c \in {LeftBrace, RightBrace, "+", "i"} \/ c \in DigitsOf(base)
  PROVE  c # separator
<1>1. separator \in {".", ":", "+", "i"} OBVIOUS
<1>2. separator \in Marks /\ separator # LeftBrace /\ separator # RightBrace BY <1>1, MarksDiffer
<1>3. CASE c \in DigitsOf(base) BY <1>2, <1>3, DigitsAre
<1>4. CASE c \in {LeftBrace, RightBrace} BY <1>2, <1>4
<1>5. CASE c \in {"+", "i"} BY <1>5
<1> QED BY <1>3, <1>4, <1>5

\* An offset stays one when the text goes on.
LEMMA OffsetKept ==
  ASSUME NEW t, NEW u, Extends(u, t), NEW i \in Nat \ {0}, NEW k \in 1 .. Len(t), NEW a, HasOffset(t, i, k, a)
  PROVE  HasOffset(u, i, k, a)
<1>1. t \in Text /\ \A n \in 1 .. Len(t) : u[n] = t[n] BY DEF Extends
<1>2. Len(t) \in Nat BY <1>1, LenProperties DEF Text
<1>3. i < k BY DEF HasOffset
<1>4. k \in Nat BY <1>2
<1>5. i \in 1 .. Len(t) BY <1>2, <1>3
<1>6. t[i] = LeftBrace BY DEF HasOffset
<1>7. t[k] = "+" BY DEF HasOffset
<1>8. Numbers(t, i + 1, k - 1, 10) = {a} BY DEF HasOffset
<1>9. i + 1 \in Nat \ {0} /\ k - 1 \in Int BY <1>4
<1>10. \A n \in i + 1 .. k - 1 : u[n] = t[n] BY <1>1, <1>2
<1>11. Numbers(u, i + 1, k - 1, 10) = Numbers(t, i + 1, k - 1, 10) BY <1>9, <1>10, NumbersKept
<1>12. Numbers(u, i + 1, k - 1, 10) = {a} BY <1>8, <1>11, Zenon
<1>13. u[i] = LeftBrace BY <1>1, <1>5, <1>6
<1>14. u[k] = "+" BY <1>1, <1>7
<1> QED BY <1>3, <1>12, <1>13, <1>14 DEF HasOffset

\* The places of the reader within braces
Open == {"offset", "offsetDigits", "factor", "factorDigits", "closing"}

\* In braces that are open, the last character is not the one that closes them.
LEMMA StillOpen ==
  ASSUME NEW t \in Text, NEW base, NEW i \in Nat \ {0}, NEW p, NEW n, NEW where \in Open,
         Reading(t, base, i, p, n, where)
  PROVE  /\ i <= Len(t) /\ t[i] = LeftBrace /\ t[Len(t)] # RightBrace
         /\ where # "closing" => t[Len(t)] # "i"
<1> DEFINE j == Len(t)
<1>1. j \in Nat BY LenProperties DEF Text
<1>2. ASSUME NEW c, c \in DigitsOf(10) \/ c = LeftBrace \/ c = "+" PROVE c # "i" /\ c # RightBrace
  <2>1. "i" \in Marks /\ "i" # RightBrace /\ "i" # LeftBrace BY MarksDiffer
  <2>2. RightBrace \in Marks /\ RightBrace # LeftBrace BY MarksDiffer
  <2>3. "+" # RightBrace BY MarksDiffer
  <2>4. CASE c \in DigitsOf(10) BY <2>1, <2>2, <2>4, DigitsAre
  <2>5. CASE c = LeftBrace BY <2>1, <2>2, <2>5
  <2>6. CASE c = "+" BY <2>3, <2>6
  <2> QED BY <1>2, <2>4, <2>5, <2>6
<1> HIDE DEF j
<1>3. CASE where = "offset"
  <2>1. i = j BY <1>3 DEF Reading, j
  <2>2. t[i] = LeftBrace BY <1>3 DEF Reading
  <2>3. t[j] = LeftBrace BY <2>1, <2>2
  <2> QED BY <1>1, <1>2, <2>1, <2>2, <2>3 DEF j
<1>4. CASE where = "offsetDigits"
  <2>1. i < j /\ Numbers(t, i + 1, j, 10) = {n} BY <1>4 DEF Reading, j
  <2>2. t[i] = LeftBrace BY <1>4 DEF Reading
  <2>5. Numbers(t, i + 1, j, 10) # {} BY <2>1, Zenon
  <2>6. AllDigits(t, i + 1, j, 10) BY <2>5, NumbersTyped
  <2>3. t[j] \in DigitsOf(10) BY <1>1, <2>1, <2>6 DEF AllDigits
  <2>4. i <= j BY <1>1, <2>1
  <2> QED BY <1>2, <2>2, <2>3, <2>4 DEF j
<1>5. CASE where = "factor"
  <2>1. HasOffset(t, i, j, p.a) BY <1>5 DEF Reading, j
  <2>2. t[i] = LeftBrace BY <2>1 DEF HasOffset
  <2>3. t[j] = "+" BY <2>1 DEF HasOffset
  <2>4. i <= j BY <1>1, <2>1 DEF HasOffset
  <2> QED BY <1>2, <2>2, <2>3, <2>4 DEF j
<1>6. CASE where = "factorDigits"
  <2>1. PICK k \in i + 1 .. j - 1 : HasOffset(t, i, k, p.a) /\ Numbers(t, k + 1, j, 10) = {n}
    BY <1>6 DEF Reading, j
  <2>2. t[i] = LeftBrace BY <2>1 DEF HasOffset
  <2>3. Numbers(t, k + 1, j, 10) # {} BY <2>1, Zenon
  <2>6. AllDigits(t, k + 1, j, 10) /\ k + 1 <= j BY <2>3, NumbersTyped
  <2>4. t[j] \in DigitsOf(10) BY <1>1, <2>1, <2>6 DEF AllDigits
  <2>5. i <= j BY <1>1, <2>1
  <2> QED BY <1>2, <2>2, <2>4, <2>5 DEF j
<1>7. CASE where = "closing"
  <2>1. PICK k \in i + 1 .. j - 1 : HasOffset(t, i, k, p.a) BY <1>7 DEF Reading, j
  <2>2. t[i] = LeftBrace BY <2>1 DEF HasOffset
  <2>3. t[j] = "i" BY <1>7 DEF Reading, j
  <2>4. "i" # RightBrace BY MarksDiffer
  <2>5. i <= j BY <1>1, <2>1
  <2> QED BY <1>7, <2>2, <2>3, <2>4, <2>5 DEF j
<1> QED BY <1>3, <1>4, <1>5, <1>6, <1>7 DEF Open

\* A piece that starts with a brace, and does not end as a formula does, means nothing.
LEMMA OpenMeansNothing ==
  ASSUME NEW t, NEW i \in Int, NEW j \in Int, NEW base \in {10, 16}, i <= j, t[i] = LeftBrace,
         t[j] = RightBrace => t[j - 1] # "i"
  PROVE  PieceMeans(t, i, j, base) = {} /\ t[i] \notin DigitsOf(base)
<1>1. LeftBrace \in Marks BY MarksDiffer
<1>2. t[i] \notin DigitsOf(base) BY <1>1, DigitsAre
<1>3. i \in i .. j OBVIOUS
<1>4. Numbers(t, i, j, base) = {} BY <1>2, <1>3, MarkedIsNoNumber
<1>5. ~InBraces(t, i, j) BY DEF InBraces
<1> QED BY <1>2, <1>4, <1>5, MeansNothing

\* A text that ends in open braces, and does not close them right, is refused.
LEMMA OpenRefused ==
  ASSUME NEW t, NEW f, NEW ps, NEW n, NEW where, NEW c, NEW u, Reads(t, f, ps, n, where, c, u),
         where \in Open, c = RightBrace => where # "closing"
  PROVE  Rejected(u, f)
<1> DEFINE i == StartOf(t, f, ps)
           p == ps[Len(ps)]
<1>1. /\ t \in Text /\ Len(t) \in Nat /\ Len(u) = Len(t) + 1 /\ u[Len(u)] = c
      /\ \A k \in 1 .. Len(t) : u[k] = t[k]
      /\ f.base \in {10, 16} /\ i \in 1 .. Len(t) + 1
  BY ReadsOn
<1>2. Kept(t, f, ps, n, where) BY DEF Reads
<1>3. Reading(t, f.base, i, p, n, where) BY <1>2, PieceSoFar
<1> HIDE DEF i, p
<1>4. i \in Nat \ {0} BY <1>1
<1>5. /\ i <= Len(t) /\ t[i] = LeftBrace /\ t[Len(t)] # RightBrace
      /\ where # "closing" => t[Len(t)] # "i"
  BY <1>1, <1>3, <1>4, StillOpen
<1>6. i \in 1 .. Len(t) /\ Len(t) \in 1 .. Len(t) BY <1>1, <1>4, <1>5
<1>7. u[i] = LeftBrace /\ u[Len(t)] = t[Len(t)] BY <1>1, <1>5, <1>6
<1>8. Len(u) - 1 = Len(t) /\ i <= Len(u) /\ Len(u) \in Int /\ i \in Int /\ Len(t) \in Int BY <1>1, <1>6
<1>9. u[Len(u)] = RightBrace => u[Len(u) - 1] # "i" BY <1>1, <1>5, <1>7, <1>8
<1>10. PieceMeans(u, i, Len(u), f.base) = {} /\ u[i] \notin DigitsOf(f.base)
  BY <1>1, <1>7, <1>8, <1>9, OpenMeansNothing
<1>11. PieceMeans(t, i, Len(t), f.base) = {} BY <1>1, <1>5, <1>8, OpenMeansNothing
<1> QED BY <1>10, <1>11, PieceRefused DEF i

\* What every step of the reader knows of the texts before and after it
LEMMA StepKnows ==
  ASSUME NEW t, NEW f, NEW ps, NEW n, NEW where, NEW c, NEW u, Reads(t, f, ps, n, where, c, u)
  PROVE  /\ Kept(t, f, ps, n, where) /\ Extends(u, t) /\ t \in Text /\ u \in Text
         /\ Len(t) \in Nat /\ Len(u) = Len(t) + 1 /\ u[Len(u)] = c /\ u[Len(t) + 1] = c
         /\ StartOf(t, f, ps) \in Nat \ {0} /\ StartOf(t, f, ps) <= Len(t) + 1
         /\ \A k \in StartOf(t, f, ps) .. Len(t) : u[k] = t[k]
         /\ f.base \in {10, 16} /\ f.separator \in {".", ":"}
         /\ ps \in Seq(Part) /\ Len(ps) \in Nat \ {0} /\ n \in Nat
         /\ ps[Len(ps)] \in Part /\ ps[Len(ps)].a \in 0 .. 255
         /\ Reading(t, f.base, StartOf(t, f, ps), ps[Len(ps)], n, where)
<1>1. /\ t \in Text /\ u \in Text /\ Len(t) \in Nat /\ Len(u) = Len(t) + 1 /\ u[Len(u)] = c
      /\ Extends(u, t)
      /\ f.base \in {10, 16} /\ f.separator \in {".", ":"}
      /\ StartOf(t, f, ps) \in 1 .. Len(t) + 1
  BY ReadsOn
<1>2. \A k \in 1 .. Len(t) : u[k] = t[k] BY ReadsOn
<1>3. Kept(t, f, ps, n, where) BY DEF Reads
<1>4. /\ ps \in Seq(Part) /\ Len(ps) \in Nat \ {0} /\ n \in Nat
      /\ ps[Len(ps)] \in Part /\ ps[Len(ps)].a \in 0 .. 255
      /\ Reading(t, f.base, StartOf(t, f, ps), ps[Len(ps)], n, where)
  BY <1>3, PieceSoFar
<1>5. StartOf(t, f, ps) \in Nat \ {0} /\ StartOf(t, f, ps) <= Len(t) + 1 BY <1>1
<1>6. \A k \in StartOf(t, f, ps) .. Len(t) : u[k] = t[k] BY <1>1, <1>2
<1>7. u[Len(t) + 1] = c BY <1>1
<1> QED BY <1>1, <1>3, <1>4, <1>5, <1>6, <1>7

\* The parts stay, and the piece goes on.
LEMMA SameParts ==
  ASSUME NEW t, NEW f, NEW ps, NEW n, NEW where, NEW c, NEW u, Reads(t, f, ps, n, where, c, u),
         c # f.separator, NEW m \in Nat, NEW w \in Readers,
         Reading(u, f.base, StartOf(t, f, ps), ps[Len(ps)], m, w)
  PROVE  Kept(u, f, ps, m, w)
<1>1. ps \in Seq(Part) BY StepKnows
<1> QED BY <1>1, ReadsPiece

\* A brace opens.
LEMMA OpenBraceKeeps ==
  ASSUME NEW t, NEW f, NEW ps, NEW n, NEW where, NEW c, NEW u, Reads(t, f, ps, n, where, c, u),
         where = "part", c = LeftBrace
  PROVE  Kept(u, f, ps, 0, "offset")
<1> DEFINE i == StartOf(t, f, ps)
           p == ps[Len(ps)]
<1>1. /\ Len(t) \in Nat /\ Len(u) = Len(t) + 1 /\ u[Len(u)] = c
      /\ f.base \in {10, 16} /\ f.separator \in {".", ":"}
      /\ Reading(t, f.base, i, p, n, where)
  BY StepKnows
<1>2. c # f.separator BY <1>1, NotSeparator
<1> HIDE DEF i, p
<1>3. i = Len(u) BY <1>1 DEF Reading
<1>4. u[i] = LeftBrace BY <1>1, <1>3
<1>5. Reading(u, f.base, i, p, 0, "offset") BY <1>3, <1>4 DEF Reading
<1>6. 0 \in Nat /\ "offset" \in Readers BY DEF Readers
<1> QED BY <1>2, <1>5, <1>6, SameParts DEF i, p

\* The number in braces with a digit more
LEMMA NumberKeeps ==
  ASSUME NEW t, NEW f, NEW ps, NEW n, NEW where, NEW c, NEW u, Reads(t, f, ps, n, where, c, u),
         where \in {"offset", "offsetDigits", "factor", "factorDigits"}, c \in DigitsOf(10),
         NEW m, m = n * 10 + Digit[c], m <= 255
  PROVE  Kept(u, f, ps, m, IF where \in {"offset", "offsetDigits"} THEN "offsetDigits" ELSE "factorDigits")
<1> DEFINE i == StartOf(t, f, ps)
           p == ps[Len(ps)]
           j == Len(t)
<1>1. /\ Extends(u, t) /\ t \in Text /\ j \in Nat /\ Len(u) = j + 1 /\ u[j + 1] = c
      /\ i \in Nat \ {0} /\ i <= j + 1
      /\ f.separator \in {".", ":"} /\ n \in Nat
      /\ Reading(t, f.base, i, p, n, where)
  BY StepKnows
<1>2. \A k \in i .. j : u[k] = t[k] BY StepKnows
<1>3. c # f.separator
  <2>1. 10 \in {10, 16} OBVIOUS
  <2> QED BY <1>1, <2>1, NotSeparator
<1>4. Digit[c] \in 0 .. 15
  <2>1. 10 \in {10, 16} OBVIOUS
  <2> QED BY <2>1, DigitsAre
<1>5. m \in 0 .. 255
  <2>1. n \in Nat /\ m = n * 10 + Digit[c] /\ m <= 255 BY <1>1
  <2>2. PICK d \in 0 .. 15 : Digit[c] = d BY <1>4
  <2>3. m = n * 10 + d BY <2>1, <2>2
  <2> QED BY <2>1, <2>3
<1> HIDE DEF i, p
<1>6. where \in Open BY DEF Open
<1>7. i <= j /\ t[i] = LeftBrace BY <1>1, <1>6, StillOpen
<1>8. i \in i .. j BY <1>1, <1>7
<1>9. u[i] = LeftBrace BY <1>2, <1>7, <1>8
<1> HIDE DEF j
<1>10. ASSUME NEW k, k \in Nat, i < k, NumberSoFar(t, k, j, 10, n)
       PROVE  Numbers(u, k, j + 1, 10) = {m}
  <2>1. k \in Nat \ {0} /\ \A x \in k .. j : u[x] = t[x] BY <1>1, <1>2, <1>10
  <2>2. u[j + 1] \in DigitsOf(10) BY <1>1
  <2>3. DigitMore(t, u, k, j, 10, n) BY <1>1, <1>10, <2>1, <2>2 DEF DigitMore
  <2>4. Numbers(u, k, j + 1, 10) = {n * 10 + Digit[u[j + 1]]} \cap 0 .. 255 BY <2>3, OneDigitMore
  <2>5. n * 10 + Digit[u[j + 1]] = m BY <1>1
  <2> QED BY <1>5, <2>4, <2>5
<1>11. i < Len(u) BY <1>1, <1>7
<1>12. CASE where \in {"offset", "offsetDigits"}
  <2>1. NumberSoFar(t, i + 1, j, 10, n)
    <3>1. CASE where = "offset"
      <4>1. i = j /\ n = 0 BY <1>1, <3>1 DEF Reading, j
      <4> QED BY <4>1 DEF NumberSoFar
    <3>2. CASE where = "offsetDigits"
      <4>1. Numbers(t, i + 1, j, 10) = {n} BY <1>1, <3>2 DEF Reading, j
      <4> QED BY <4>1 DEF NumberSoFar
    <3> QED BY <1>12, <3>1, <3>2
  <2>2. i + 1 \in Nat /\ i < i + 1 BY <1>1
  <2>3. Numbers(u, i + 1, j + 1, 10) = {m} BY <1>10, <2>1, <2>2
  <2>4. Numbers(u, i + 1, Len(u), 10) = {m} BY <1>1, <2>3
  <2>5. Reading(u, f.base, i, p, m, "offsetDigits") BY <1>9, <1>11, <2>4 DEF Reading
  <2>6. m \in Nat /\ "offsetDigits" \in Readers BY <1>5 DEF Readers
  <2>7. Kept(u, f, ps, m, "offsetDigits") BY <1>3, <2>5, <2>6, SameParts DEF i, p
  <2> QED BY <1>12, <2>7
<1>13. CASE where \notin {"offset", "offsetDigits"}
  <2>1. PICK k : k \in i + 1 .. j /\ HasOffset(t, i, k, p.a) /\ NumberSoFar(t, k + 1, j, 10, n)
    <3>1. CASE where = "factor"
      <4>1. HasOffset(t, i, j, p.a) /\ n = 0 BY <1>1, <3>1 DEF Reading, j
      <4>2. i < j BY <4>1 DEF HasOffset
      <4>3. j \in i + 1 .. j BY <1>1, <4>2
      <4>4. NumberSoFar(t, j + 1, j, 10, n) BY <4>1 DEF NumberSoFar
      <4> QED BY <4>1, <4>3, <4>4
    <3>2. CASE where = "factorDigits"
      <4>1. PICK k \in i + 1 .. j - 1 : HasOffset(t, i, k, p.a) /\ Numbers(t, k + 1, j, 10) = {n}
        BY <1>1, <3>2 DEF Reading, j
      <4>2. k \in i + 1 .. j BY <1>1
      <4>3. NumberSoFar(t, k + 1, j, 10, n) BY <4>1 DEF NumberSoFar
      <4> QED BY <4>1, <4>2, <4>3
    <3> QED BY <1>13, <3>1, <3>2
  <2>2. k \in Nat /\ i < k /\ k + 1 \in Nat /\ i < k + 1 /\ k \in 1 .. j BY <1>1, <2>1
  <2>3. Numbers(u, k + 1, j + 1, 10) = {m} BY <1>10, <2>1, <2>2
  <2>4. Numbers(u, k + 1, Len(u), 10) = {m} BY <1>1, <2>3
  <2>5. HasOffset(u, i, k, p.a)
    <3>1. k \in 1 .. Len(t) BY <2>2 DEF j
    <3> QED BY <1>1, <2>1, <3>1, OffsetKept
  <2>6. k \in i + 1 .. Len(u) - 1 BY <1>1, <2>1
  <2>7. Reading(u, f.base, i, p, m, "factorDigits") BY <2>4, <2>5, <2>6 DEF Reading
  <2>8. m \in Nat /\ "factorDigits" \in Readers BY <1>5 DEF Readers
  <2>9. Kept(u, f, ps, m, "factorDigits") BY <1>3, <2>7, <2>8, SameParts DEF i, p
  <2> QED BY <1>13, <2>9
<1> QED BY <1>12, <1>13

\* The last part changes, and the piece goes on.
LEMMA NewLastPart ==
  ASSUME NEW t, NEW f, NEW ps, NEW n, NEW where, NEW c, NEW u, Reads(t, f, ps, n, where, c, u),
         c # f.separator, NEW x \in Part, NEW m \in Nat, NEW w \in Readers,
         Reading(u, f.base, StartOf(t, f, ps), x, m, w)
  PROVE  Kept(u, f, Append(Front(ps), x), m, w)
<1> DEFINE qs == Append(Front(ps), x)
<1>1. qs = Append(Front(ps), x) OBVIOUS
<1> HIDE DEF qs
<1>2. ps \in Seq(Part) /\ Len(ps) # 0 BY StepKnows
<1>3. qs \in Seq(Part) BY <1>1, <1>2, LastReplaced
<1>4. Len(qs) = Len(ps) BY <1>1, <1>2, LastReplaced
<1>5. qs[Len(ps)] = x BY <1>1, <1>2, LastReplaced
<1>6. \A k \in 1 .. Len(ps) - 1 : qs[k] = ps[k] BY <1>1, <1>2, LastReplaced
<1>7. Reading(u, f.base, StartOf(t, f, ps), qs[Len(ps)], m, w) BY <1>5
<1>8. Kept(u, f, qs, m, w) BY <1>3, <1>4, <1>6, <1>7, ReadsPiece
<1> QED BY <1>8 DEF qs

\* The plus behind the offset
LEMMA PlusKeeps ==
  ASSUME NEW t, NEW f, NEW ps, NEW n, NEW where, NEW c, NEW u, Reads(t, f, ps, n, where, c, u),
         where = "offsetDigits", c = "+"
  PROVE  Kept(u, f, Append(Front(ps), Constant(n)), 0, "factor")
<1> DEFINE i == StartOf(t, f, ps)
           p == ps[Len(ps)]
           j == Len(t)
<1>1. /\ j \in Nat /\ Len(u) = j + 1 /\ u[j + 1] = c /\ i \in Nat \ {0}
      /\ f.base \in {10, 16} /\ f.separator \in {".", ":"}
      /\ Reading(t, f.base, i, p, n, where)
  BY StepKnows
<1>2. \A k \in i .. j : u[k] = t[k] BY StepKnows
<1>3. c # f.separator BY <1>1, NotSeparator
<1> HIDE DEF i, p
<1>4. i < j /\ t[i] = LeftBrace /\ Numbers(t, i + 1, j, 10) = {n} BY <1>1 DEF Reading, j
<1>5. n \in 0 .. 255 BY <1>4, NumbersTyped
<1>6. Constant(n) \in Part /\ Constant(n).a = n BY <1>5 DEF Constant, Part
<1> HIDE DEF j
<1>7. Numbers(u, i + 1, j, 10) = {n}
  <2>1. \A k \in i + 1 .. j : u[k] = t[k] BY <1>1, <1>2
  <2>2. i + 1 \in Nat \ {0} /\ j \in Int BY <1>1
  <2>3. Numbers(u, i + 1, j, 10) = Numbers(t, i + 1, j, 10) BY <2>1, <2>2, NumbersKept
  <2> QED BY <1>4, <2>3, Zenon
<1>8. i < Len(u) /\ Len(u) - 1 = j BY <1>1, <1>4
<1>9. u[i] = LeftBrace
  <2>1. i \in i .. j BY <1>1, <1>4
  <2> QED BY <1>2, <1>4, <2>1
<1>10. u[Len(u)] = "+" BY <1>1
<1>11. HasOffset(u, i, Len(u), Constant(n).a) BY <1>6, <1>7, <1>8, <1>9, <1>10 DEF HasOffset
<1>12. Reading(u, f.base, i, Constant(n), 0, "factor") BY <1>11 DEF Reading
<1>13. 0 \in Nat /\ "factor" \in Readers BY DEF Readers
<1> QED BY <1>3, <1>6, <1>12, <1>13, NewLastPart DEF i

\* The i behind the plus, or behind the factor
LEMMA VariableKeeps ==
  ASSUME NEW t, NEW f, NEW ps, NEW n, NEW where, NEW c, NEW u, Reads(t, f, ps, n, where, c, u),
         where = "factor" \/ (where = "factorDigits" /\ n # 0), c = "i",
         NEW b, b = IF where = "factor" THEN 1 ELSE n
  PROVE  Kept(u, f, Append(Front(ps), [ps[Len(ps)] EXCEPT !.b = b]), n, "closing")
<1> DEFINE i == StartOf(t, f, ps)
           p == ps[Len(ps)]
           j == Len(t)
           x == [p EXCEPT !.b = b]
<1>1. /\ Extends(u, t) /\ j \in Nat /\ Len(u) = j + 1 /\ u[j + 1] = c /\ i \in Nat \ {0}
      /\ f.base \in {10, 16} /\ f.separator \in {".", ":"} /\ p \in Part /\ n \in Nat
      /\ Reading(t, f.base, i, p, n, where)
  BY StepKnows
<1>2. \A k \in i .. j : u[k] = t[k] BY StepKnows
<1>3. c # f.separator BY <1>1, NotSeparator
<1> HIDE DEF i, p
<1>4. \E k \in i + 1 .. j : HasOffset(t, i, k, p.a) /\ Factors(t, k + 1, j) = {b}
  <2>1. CASE where = "factor"
    <3>1. HasOffset(t, i, j, p.a) BY <1>1, <2>1 DEF Reading, j
    <3>2. i < j BY <3>1 DEF HasOffset
    <3>3. j \in i + 1 .. j BY <1>1, <3>2
    <3>4. j + 1 > j BY <1>1
    <3>5. Factors(t, j + 1, j) = {1} BY <3>4 DEF Factors
    <3>6. b = 1 BY <2>1
    <3> QED BY <3>1, <3>3, <3>5, <3>6
  <2>2. CASE where = "factorDigits" /\ n # 0
    <3>1. PICK k \in i + 1 .. j - 1 : HasOffset(t, i, k, p.a) /\ Numbers(t, k + 1, j, 10) = {n}
      BY <1>1, <2>2 DEF Reading, j
    <3>2. Numbers(t, k + 1, j, 10) # {} BY <3>1, Zenon
    <3>3. k + 1 <= j BY <3>2, NumbersTyped
    <3>4. ~(k + 1 > j) BY <1>1, <3>1, <3>3
    <3>5. Factors(t, k + 1, j) = Numbers(t, k + 1, j, 10) \ {0} BY <3>4 DEF Factors
    <3>6. Factors(t, k + 1, j) = {n} BY <2>2, <3>1, <3>5
    <3>7. b = n BY <2>2
    <3>8. k \in i + 1 .. j BY <1>1, <3>1
    <3> QED BY <3>1, <3>6, <3>7, <3>8
  <2> QED BY <2>1, <2>2
<1>5. PICK k \in i + 1 .. j : HasOffset(t, i, k, p.a) /\ Factors(t, k + 1, j) = {b} BY <1>4
<1>6. b \in 0 .. 255
  <2>1. b = 1 \/ b \in Numbers(t, k + 1, j, 10) BY <1>5 DEF Factors
  <2>2. Numbers(t, k + 1, j, 10) \subseteq 0 .. 255 BY DEF Numbers
  <2>3. 1 \in 0 .. 255 OBVIOUS
  <2> QED BY <2>1, <2>2, <2>3
<1>7. x \in Part /\ x.a = p.a /\ x.b = b BY <1>1, <1>6 DEF Part
<1>8. HasOffset(u, i, k, x.a)
  <2>1. k \in 1 .. Len(t) BY <1>1 DEF j
  <2> QED BY <1>1, <1>5, <1>7, <2>1, OffsetKept
<1> HIDE DEF x, j
<1>9. Factors(u, k + 1, Len(u) - 1) = {x.b}
  <2>1. \A y \in k + 1 .. j : u[y] = t[y] BY <1>1, <1>2
  <2>2. k + 1 \in Nat \ {0} /\ j \in Int /\ Len(u) - 1 = j BY <1>1
  <2>3. Factors(u, k + 1, j) = Factors(t, k + 1, j) BY <2>1, <2>2, FactorsKept
  <2>4. Factors(u, k + 1, j) = {x.b} BY <1>5, <1>7, <2>3, Zenon
  <2> QED BY <2>2, <2>4
<1>10. k \in i + 1 .. Len(u) - 1 /\ u[Len(u)] = "i" BY <1>1, <1>5
<1>11. Reading(u, f.base, i, x, n, "closing") BY <1>8, <1>9, <1>10 DEF Reading
<1>12. "closing" \in Readers BY DEF Readers
<1> QED BY <1>1, <1>3, <1>7, <1>11, <1>12, NewLastPart DEF i, x, p

\* The brace closes.
LEMMA CloseBraceKeeps ==
  ASSUME NEW t, NEW f, NEW ps, NEW n, NEW where, NEW c, NEW u, Reads(t, f, ps, n, where, c, u),
         where = "closing", c = RightBrace
  PROVE  Kept(u, f, ps, n, "closed")
<1> DEFINE i == StartOf(t, f, ps)
           p == ps[Len(ps)]
           j == Len(t)
<1>1. /\ Extends(u, t) /\ j \in Nat /\ Len(u) = j + 1 /\ u[j + 1] = c /\ i \in Nat \ {0}
      /\ f.base \in {10, 16} /\ f.separator \in {".", ":"} /\ p \in Part /\ n \in Nat
      /\ Reading(t, f.base, i, p, n, where)
  BY StepKnows
<1>2. \A k \in i .. j : u[k] = t[k] BY StepKnows
<1>3. c # f.separator BY <1>1, NotSeparator
<1> HIDE DEF i, p
<1>4. t[j] = "i" BY <1>1 DEF Reading, j
<1>5. PICK k \in i + 1 .. j - 1 : HasOffset(t, i, k, p.a) /\ Factors(t, k + 1, j - 1) = {p.b}
  BY <1>1 DEF Reading, j
<1>6. HasOffset(u, i, k, p.a)
  <2>1. k \in 1 .. Len(t) BY <1>1 DEF j
  <2> QED BY <1>1, <1>5, <2>1, OffsetKept
<1> HIDE DEF j
<1>7. Factors(u, k + 1, j - 1) = {p.b}
  <2>1. \A y \in k + 1 .. j - 1 : u[y] = t[y] BY <1>1, <1>2
  <2>2. k + 1 \in Nat \ {0} /\ j - 1 \in Int BY <1>1
  <2>3. Factors(u, k + 1, j - 1) = Factors(t, k + 1, j - 1) BY <2>1, <2>2, FactorsKept
  <2> QED BY <1>5, <2>3, Zenon
<1>8. u[j] = "i"
  <2>1. j \in i .. j BY <1>1, <1>5
  <2> QED BY <1>2, <1>4, <2>1
<1>9. i < Len(u) /\ Len(u) - 1 = j /\ Len(u) - 2 = j - 1 BY <1>1, <1>5
<1>10. u[i] = LeftBrace BY <1>6 DEF HasOffset
<1>11. u[Len(u)] = RightBrace BY <1>1
<1>12. InBraces(u, i, Len(u)) BY <1>8, <1>9, <1>10, <1>11 DEF InBraces
<1>13. PieceMeans(u, i, Len(u), f.base) = {p}
  <2>1. u[k] = "+" BY <1>6 DEF HasOffset
  <2>2. Numbers(u, i + 1, k - 1, 10) = {p.a} BY <1>6 DEF HasOffset
  <2>3. Factors(u, k + 1, Len(u) - 2) = {p.b} BY <1>7, <1>9
  <2>4. k \in i + 1 .. Len(u) - 2 BY <1>5, <1>9
  <2>5. i \in Int /\ Len(u) \in Int BY <1>1
  <2>6. PieceMeans(u, i, Len(u), f.base) = {[a |-> p.a, b |-> p.b]}
    <3>1. FormulaAt(u, i, Len(u), f.base, k, p.a, p.b)
      BY <1>1, <1>12, <2>1, <2>2, <2>3, <2>4, <2>5 DEF FormulaAt
    <3> QED BY <3>1, MeansFormula
  <2>7. p = [a |-> p.a, b |-> p.b] BY <1>1 DEF Part
  <2> QED BY <2>6, <2>7
<1>14. Reading(u, f.base, i, p, n, "closed") BY <1>12, <1>13 DEF Reading
<1>15. "closed" \in Readers BY DEF Readers
<1> QED BY <1>1, <1>3, <1>14, <1>15, SameParts DEF i, p

\* What a whole piece means
LEMMA WholePiece ==
  ASSUME NEW t, NEW base \in {10, 16}, NEW i \in Nat \ {0}, NEW p, NEW n, NEW where \in {"constant", "closed"},
         Len(t) \in Nat, Reading(t, base, i, p, n, where)
  PROVE  PieceMeans(t, i, Len(t), base) = {p}
<1>1. CASE where = "constant"
  <2>1. Numbers(t, i, Len(t), base) = {p.a} /\ p = Constant(p.a) BY <1>1 DEF Reading
  <2>2. PieceMeans(t, i, Len(t), base) = {Constant(p.a)} BY <2>1, MeansNumber
  <2> QED BY <2>1, <2>2, Zenon
<1>2. CASE where = "closed" BY <1>2 DEF Reading
<1> QED BY <1>1, <1>2

\* A separator behind a part
LEMMA SeparatorKeeps ==
  ASSUME NEW t, NEW f, NEW ps, NEW n, NEW where, NEW c, NEW u, Reads(t, f, ps, n, where, c, u),
         where \in AfterPart, c = f.separator, Len(ps) # f.count
  PROVE  Kept(u, f, Append(ps, Constant(0)), n, "part")
<1> DEFINE qs == Append(ps, Constant(0))
           i == StartOf(t, f, ps)
<1>1. /\ Len(t) \in Nat /\ i \in Nat \ {0} /\ f.base \in {10, 16} /\ n \in Nat /\ u \in Text
      /\ ps \in Seq(Part) /\ Len(ps) \in Nat \ {0}
      /\ Reading(t, f.base, i, ps[Len(ps)], n, where)
  BY StepKnows
<1>2. f \in Formats /\ f.count \in Nat \ {0} /\ Len(ps) \in 1 .. f.count BY ReadsOn
<1>3. Len(ps) < f.count BY <1>1, <1>2
<1> HIDE DEF i
<1>4. where \in {"constant", "closed"} BY DEF AfterPart
<1>5. PieceMeans(t, i, Len(t), f.base) = {ps[Len(ps)]} BY <1>1, <1>4, WholePiece
<1>6. Constant(0) \in Part BY DEF Constant, Part
<1>7. qs \in Seq(Part) BY <1>1, <1>6, AppendProperties
<1>8. Len(qs) = Len(ps) + 1 BY <1>1, <1>6, AppendProperties
<1>9. qs[Len(ps) + 1] = Constant(0) BY <1>1, <1>6, AppendProperties
<1>10. \A k \in 1 .. Len(ps) : qs[k] = ps[k] BY <1>1, <1>6, AppendProperties
<1> HIDE DEF qs
<1>11. PartsBefore(u, f, qs) BY <1>3, <1>5, <1>8, <1>10, PieceEnds DEF i
<1>12. StartOf(u, f, qs) = Len(u) + 1
  <2>1. StartsBehind(u, f, qs) BY <1>3, <1>5, <1>8, <1>10, PieceEnds DEF i
  <2> QED BY <2>1 DEF StartsBehind
<1>13. qs[Len(qs)] = Constant(0) BY <1>8, <1>9
<1>14. Reading(u, f.base, StartOf(u, f, qs), qs[Len(qs)], n, "part") BY <1>12, <1>13 DEF Reading
<1>15. Len(qs) \in 1 .. f.count BY <1>1, <1>2, <1>3, <1>8
<1>16. "part" \in Readers BY DEF Readers
<1>17. Kept(u, f, qs, n, "part") BY <1>1, <1>2, <1>7, <1>11, <1>14, <1>15, <1>16 DEF Kept
<1> QED BY <1>17 DEF qs

\* A piece of one character that is neither a digit nor a brace, or of none, means nothing.
LEMMA NothingInPiece ==
  ASSUME NEW t, NEW i \in Int, NEW j \in Int, NEW base \in {10, 16},
         i > j \/ (i = j /\ t[i] \notin DigitsOf(base))
  PROVE  PieceMeans(t, i, j, base) = {}
<1>1. ~InBraces(t, i, j) BY DEF InBraces
<1>2. Numbers(t, i, j, base) = {}
  <2>1. CASE i > j
    <3>1. ~(i <= j) BY <2>1
    <3> QED BY <3>1 DEF Numbers
  <2>2. CASE i = j /\ t[i] \notin DigitsOf(base)
    <3>1. i \in i .. j BY <2>2
    <3> QED BY <2>2, <3>1, MarkedIsNoNumber
  <2> QED BY <2>1, <2>2
<1> QED BY <1>1, <1>2, MeansNothing

\* A character that starts no part
LEMMA StopsAtPart ==
  ASSUME NEW t, NEW f, NEW ps, NEW n, NEW where, NEW c, NEW u, Reads(t, f, ps, n, where, c, u),
         where = "part", c \notin DigitsOf(f.base)
  PROVE  Rejected(u, f)
<1> DEFINE i == StartOf(t, f, ps)
<1>1. /\ Len(t) \in Nat /\ Len(u) = Len(t) + 1 /\ u[Len(u)] = c /\ f.base \in {10, 16}
      /\ Reading(t, f.base, i, ps[Len(ps)], n, where)
  BY StepKnows
<1> HIDE DEF i
<1>2. i = Len(t) + 1 BY <1>1 DEF Reading
<1>3. i \in Int /\ Len(u) \in Int /\ Len(t) \in Int /\ i = Len(u) /\ i > Len(t) BY <1>1, <1>2
<1>4. u[i] \notin DigitsOf(f.base) BY <1>1, <1>3
<1>5. PieceMeans(u, i, Len(u), f.base) = {} BY <1>1, <1>3, <1>4, NothingInPiece
<1>6. PieceMeans(t, i, Len(t), f.base) = {} BY <1>1, <1>3, NothingInPiece
<1> QED BY <1>4, <1>5, <1>6, PieceRefused DEF i

\* A character behind a formula that is no separator, or behind the last one
LEMMA StopsAtClosed ==
  ASSUME NEW t, NEW f, NEW ps, NEW n, NEW where, NEW c, NEW u, Reads(t, f, ps, n, where, c, u),
         where = "closed", c # f.separator \/ Len(ps) = f.count
  PROVE  Rejected(u, f)
<1> DEFINE i == StartOf(t, f, ps)
           j == Len(t)
<1>1. /\ j \in Nat /\ Len(u) = j + 1 /\ f.base \in {10, 16} /\ i \in Nat \ {0}
      /\ Reading(t, f.base, i, ps[Len(ps)], n, where)
  BY StepKnows
<1>2. \A k \in i .. j : u[k] = t[k] BY StepKnows
<1>3. f.count \in Nat BY ReadsOn
<1> HIDE DEF i
<1>4. InBraces(t, i, j) BY <1>1 DEF Reading, j
<1>5. i < j /\ t[i] = LeftBrace /\ t[j] = RightBrace BY <1>4 DEF InBraces
<1> HIDE DEF j
<1>6. i \in i .. j /\ j \in i .. j BY <1>1, <1>5
<1>7. u[i] = LeftBrace /\ u[j] = RightBrace BY <1>2, <1>5, <1>6
<1>8. u[j] # "i" BY <1>7, MarksDiffer
<1>9. i \in Int /\ Len(u) \in Int /\ i <= Len(u) /\ Len(u) - 1 = j BY <1>1, <1>5
<1>10. u[Len(u)] = RightBrace => u[Len(u) - 1] # "i" BY <1>8, <1>9
<1>11. PieceMeans(u, i, Len(u), f.base) = {} /\ u[i] \notin DigitsOf(f.base)
  BY <1>1, <1>7, <1>9, <1>10, OpenMeansNothing
<1>12. ~(c = f.separator /\ Len(ps) < f.count) BY <1>3
<1> QED BY <1>11, <1>12, PieceRefused DEF i

\* A constant, and the character behind it
LEMMA BehindConstant ==
  ASSUME NEW t, NEW f, NEW ps, NEW n, NEW where, NEW c, NEW u, Reads(t, f, ps, n, where, c, u),
         where = "constant"
  PROVE  /\ StartOf(t, f, ps) <= Len(t) /\ AllDigits(u, StartOf(t, f, ps), Len(t), f.base)
         /\ u[StartOf(t, f, ps)] \in DigitsOf(f.base)
<1> DEFINE i == StartOf(t, f, ps)
           j == Len(t)
<1>1. /\ j \in Nat /\ i \in Nat \ {0}
      /\ Reading(t, f.base, i, ps[Len(ps)], n, where)
  BY StepKnows
<1>2. \A k \in i .. j : u[k] = t[k] BY StepKnows
<1> HIDE DEF i
<1>3. Numbers(t, i, j, f.base) = {ps[Len(ps)].a} BY <1>1 DEF Reading, j
<1>4. Numbers(t, i, j, f.base) # {} BY <1>3, Zenon
<1>5. i <= j BY <1>4, NumbersTyped
<1>6. AllDigits(t, i, j, f.base) BY <1>4, NumbersTyped
<1> HIDE DEF j
<1>7. AllDigits(u, i, j, f.base) BY <1>2, <1>6 DEF AllDigits
<1>8. i \in i .. j BY <1>1, <1>5
<1>9. u[i] \in DigitsOf(f.base) BY <1>7, <1>8 DEF AllDigits
<1> QED BY <1>5, <1>7, <1>9 DEF i, j

\* A character behind a constant that is not the last, and no separator
LEMMA StopsAtConstant ==
  ASSUME NEW t, NEW f, NEW ps, NEW n, NEW where, NEW c, NEW u, Reads(t, f, ps, n, where, c, u),
         where = "constant", c \notin DigitsOf(f.base), c # f.separator, Len(ps) # f.count
  PROVE  Rejected(u, f)
<1> DEFINE i == StartOf(t, f, ps)
<1>1. /\ Len(t) \in Nat /\ Len(u) = Len(t) + 1 /\ u[Len(u)] = c /\ f.base \in {10, 16} /\ i \in Nat \ {0}
  BY StepKnows
<1>2. i <= Len(t) /\ u[i] \in DigitsOf(f.base) BY BehindConstant
<1> HIDE DEF i
<1>3. u[i] # LeftBrace BY <1>1, <1>2, DigitsAre, MarksDiffer
<1>4. ~InBraces(u, i, Len(u)) BY <1>3 DEF InBraces
<1>5. Len(u) \in i .. Len(u) /\ i \in Int /\ Len(u) \in Int BY <1>1, <1>2
<1>6. u[Len(u)] \notin DigitsOf(f.base) BY <1>1
<1>7. Numbers(u, i, Len(u), f.base) = {} BY <1>1, <1>5, <1>6, MarkedIsNoNumber
<1>8. PieceMeans(u, i, Len(u), f.base) = {} BY <1>4, <1>7, MeansNothing
<1> QED BY <1>8, PieceRefused DEF i

\* A last constant ends where its digits end.
LEMMA LastConstant ==
  ASSUME NEW t, NEW f, NEW ps, NEW n, NEW where, NEW c, NEW u, Reads(t, f, ps, n, where, c, u),
         where = "constant", c \notin DigitsOf(f.base), Len(ps) = f.count
  PROVE  Accepted(u, f, ps)
<1> DEFINE i == StartOf(t, f, ps)
           l == Len(ps)
           m == l - 1
<1>1. /\ Extends(u, t) /\ u \in Text /\ Len(t) \in Nat /\ Len(u) = Len(t) + 1 /\ u[Len(u)] = c
      /\ f.base \in {10, 16} /\ i \in Nat \ {0} /\ ps \in Seq(Part) /\ l \in Nat \ {0}
      /\ Kept(t, f, ps, n, where) /\ Reading(t, f.base, i, ps[l], n, where)
  BY StepKnows
<1>2. f \in Formats /\ i = Cut(u, f)[m] + 1 BY ReadsOn
<1>3. i <= Len(t) /\ AllDigits(u, i, Len(t), f.base) BY BehindConstant
<1>4. \A k \in 1 .. m : Cut(t, f)[k] <= Len(t) /\ MeaningAt(t, f, k) = {ps[k]}
  BY <1>1 DEF Kept, PartsBefore
<1> HIDE DEF i
<1>5. l = f.count OBVIOUS
<1> HIDE DEF l
<1>6. m \in Nat /\ m < f.count /\ l \in 1 .. f.count /\ l - 1 = m /\ ~(l < f.count) BY <1>1, <1>5
<1>7. \A k \in 1 .. m : MeaningAt(u, f, k) = {ps[k]}
  <2>1. \A k \in 1 .. m : MeaningAt(u, f, k) = MeaningAt(t, f, k)
    BY <1>1, <1>2, <1>4, <1>6, MeaningsKept
  <2> QED BY <1>4, <2>1
<1> HIDE DEF m
<1>8. Cut(u, f)[l] = PieceEnd(u, f, l, i) BY <1>1, <1>2, <1>6, CutsFollow
<1>9. PieceEnd(u, f, l, i) = Len(u)
  <2>1. Len(u) \in 1 .. Len(u) /\ i < Len(u) /\ Len(u) - 1 = Len(t) BY <1>1, <1>3
  <2>2. AllDigits(u, i, Len(u) - 1, f.base) /\ u[Len(u)] \notin DigitsOf(f.base) BY <1>1, <1>3, <2>1
  <2> QED BY <1>1, <1>6, <2>1, <2>2, EndsWithDigits
<1>10. MeaningAt(u, f, l) = {ps[l]}
  <2>1. Cut(u, f)[l] - 1 = Len(t) /\ Cut(u, f)[l - 1] + 1 = i BY <1>1, <1>2, <1>6, <1>8, <1>9
  <2>2. MeaningAt(u, f, l) = PieceMeans(u, i, Len(t), f.base) BY <2>1 DEF MeaningAt
  <2>3. PieceMeans(u, i, Len(t), f.base) = PieceMeans(t, i, Len(t), f.base) BY <1>1, PieceInBoth
  <2>4. PieceMeans(t, i, Len(t), f.base) = {ps[l]} BY <1>1, WholePiece
  <2> QED BY <2>2, <2>3, <2>4
<1>11. ASSUME NEW k \in 1 .. f.count PROVE MeaningAt(u, f, k) = {ps[k]}
  <2>1. k = l \/ k \in 1 .. m BY <1>5, <1>6
  <2> QED BY <1>7, <1>10, <2>1
<1> QED BY <1>1, <1>5, <1>11 DEF Accepted, l

\* The piece that is read when the text ends
LEMMA AtEnd ==
  ASSUME NEW t, NEW f, NEW ps, NEW n, NEW where, Kept(t, f, ps, n, where)
  PROVE  /\ t \in Text /\ Len(t) \in Nat /\ f \in Formats /\ f.count \in Nat \ {0} /\ f.base \in {10, 16}
         /\ Len(ps) \in 1 .. f.count /\ ps \in Seq(Part)
         /\ StartOf(t, f, ps) \in 1 .. Len(t) + 1 /\ NoSeparator(t, f, StartOf(t, f, ps), Len(t))
         /\ Cut(t, f)[Len(ps)] = PieceEnd(t, f, Len(ps), StartOf(t, f, ps))
         /\ \A k \in 1 .. Len(ps) - 1 : MeaningAt(t, f, k) = {ps[k]}
<1> DEFINE l == Len(ps)
           i == StartOf(t, f, ps)
<1>1. /\ t \in Text /\ f \in Formats /\ l \in 1 .. f.count /\ ps \in Seq(Part)
      /\ PartsBefore(t, f, ps)
  BY DEF Kept
<1>2. Len(t) \in Nat BY <1>1, LenProperties DEF Text
<1>3. f.count \in Nat \ {0} /\ f.base \in {10, 16} BY <1>1, FormulaAssumption
<1>4. i = Cut(t, f)[l - 1] + 1 /\ Cut(t, f)[l - 1] <= Len(t) /\ NoSeparator(t, f, i, Len(t))
  BY <1>1 DEF PartsBefore, StartOf
<1>5. \A k \in 1 .. l - 1 : MeaningAt(t, f, k) = {ps[k]} BY <1>1 DEF PartsBefore
<1> HIDE DEF l, i
<1>6. l - 1 \in 0 .. f.count BY <1>1, <1>3
<1>7. Cut(t, f)[l - 1] \in 0 .. Len(t) + 1 BY <1>1, <1>6, CutsFollow
<1>8. Cut(t, f)[l] = PieceEnd(t, f, l, i) BY <1>1, <1>4, CutsFollow
<1>9. i \in 1 .. Len(t) + 1 BY <1>2, <1>4, <1>7
<1> QED BY <1>1, <1>2, <1>3, <1>4, <1>5, <1>8, <1>9 DEF l, i

\* It ends with the text.
LEMMA EndsWithText ==
  ASSUME NEW t, NEW f, NEW ps, NEW n, NEW where, Kept(t, f, ps, n, where),
         Len(ps) = f.count => \/ StartOf(t, f, ps) > Len(t)
                              \/ t[StartOf(t, f, ps)] \notin DigitsOf(f.base)
                              \/ AllDigits(t, StartOf(t, f, ps), Len(t), f.base)
  PROVE  /\ Cut(t, f)[Len(ps)] = Len(t) + 1
         /\ MeaningAt(t, f, Len(ps)) = PieceMeans(t, StartOf(t, f, ps), Len(t), f.base)
<1> DEFINE l == Len(ps)
           i == StartOf(t, f, ps)
<1>1. /\ t \in Text /\ Len(t) \in Nat /\ f.count \in Nat \ {0} /\ f.base \in {10, 16}
      /\ l \in 1 .. f.count /\ i \in 1 .. Len(t) + 1
      /\ NoSeparator(t, f, i, Len(t)) /\ Cut(t, f)[l] = PieceEnd(t, f, l, i)
  BY AtEnd
<1>2. l = f.count => i > Len(t) \/ t[i] \notin DigitsOf(f.base) \/ AllDigits(t, i, Len(t), f.base)
  OBVIOUS
<1>3. Cut(t, f)[l - 1] + 1 = i BY DEF StartOf
<1> HIDE DEF l, i
<1>4. i \in Nat \ {0} BY <1>1
<1>5. PieceEnd(t, f, l, i) = Len(t) + 1
  <2>1. CASE l < f.count
    <3>1. Len(t) + 1 \in 1 .. Len(t) + 1 /\ ~(Len(t) + 1 <= Len(t)) /\ Len(t) + 1 - 1 = Len(t)
      BY <1>1
    <3>2. NoSeparator(t, f, i, Len(t) + 1 - 1) BY <1>1, <3>1
    <3> QED BY <1>1, <1>4, <2>1, <3>1, <3>2, EndsAtSeparator
  <2>2. CASE l = f.count
    <3>1. ~(l < f.count) BY <1>1, <2>2
    <3> QED BY <1>1, <1>2, <1>4, <2>2, <3>1, EndsBehind
  <2>3. l < f.count \/ l = f.count BY <1>1
  <2> QED BY <2>1, <2>2, <2>3
<1>6. Cut(t, f)[l] = Len(t) + 1 BY <1>1, <1>5
<1>7. Cut(t, f)[l] - 1 = Len(t) BY <1>1, <1>6
<1>8. MeaningAt(t, f, l) = PieceMeans(t, i, Len(t), f.base) BY <1>3, <1>7 DEF MeaningAt
<1> QED BY <1>6, <1>8 DEF l, i

\* A text that ends before its last part does is refused.
LEMMA EndsEarly ==
  ASSUME NEW t, NEW f, NEW ps, NEW n, NEW where, Kept(t, f, ps, n, where),
         where \in Open \cup {"part"}
  PROVE  Rejected(t, f)
<1> DEFINE l == Len(ps)
           i == StartOf(t, f, ps)
<1>1. /\ t \in Text /\ Len(t) \in Nat /\ f.base \in {10, 16} /\ l \in 1 .. f.count
      /\ i \in 1 .. Len(t) + 1
  BY AtEnd
<1>2. Reading(t, f.base, i, ps[l], n, where) BY PieceSoFar
<1> HIDE DEF i
<1>3. i \in Nat \ {0} /\ i \in Int /\ Len(t) \in Int BY <1>1
<1>4. /\ PieceMeans(t, i, Len(t), f.base) = {}
      /\ i > Len(t) \/ t[i] \notin DigitsOf(f.base)
  <2>1. CASE where = "part"
    <3>1. i = Len(t) + 1 BY <1>2, <2>1 DEF Reading
    <3>2. i > Len(t) BY <1>1, <3>1
    <3> QED BY <1>1, <1>3, <3>2, NothingInPiece
  <2>2. CASE where \in Open
    <3>1. i <= Len(t) /\ t[i] = LeftBrace /\ t[Len(t)] # RightBrace
      BY <1>1, <1>2, <1>3, <2>2, StillOpen
    <3> QED BY <1>1, <1>3, <3>1, OpenMeansNothing
  <2> QED BY <2>1, <2>2
<1>5. MeaningAt(t, f, l) = {} BY <1>4, EndsWithText DEF i
<1> QED BY <1>1, <1>5 DEF Rejected

\* So is one with too few parts.
LEMMA TooFewParts ==
  ASSUME NEW t, NEW f, NEW ps, NEW n, NEW where, Kept(t, f, ps, n, where), Len(ps) # f.count
  PROVE  Rejected(t, f)
<1> DEFINE l == Len(ps)
<1>1. /\ t \in Text /\ Len(t) \in Nat /\ f \in Formats /\ f.count \in Nat \ {0} /\ f.base \in {10, 16}
      /\ l \in 1 .. f.count
  BY AtEnd
<1>2. Cut(t, f)[l] = Len(t) + 1 BY EndsWithText
<1>3. l # f.count OBVIOUS
<1> HIDE DEF l
<1> DEFINE k == l + 1
<1>4. k \in 1 .. f.count /\ k \in 0 .. f.count /\ k - 1 = l BY <1>1, <1>3
<1> HIDE DEF k
<1>5. Cut(t, f)[k] \in 0 .. Len(t) + 1 BY <1>1, <1>4, CutsFollow
<1>6. Cut(t, f)[k - 1] = Len(t) + 1 BY <1>2, <1>4
<1> DEFINE i == Cut(t, f)[k - 1] + 1
           j == Cut(t, f)[k] - 1
<1>7. MeaningAt(t, f, k) = PieceMeans(t, i, j, f.base) BY DEF MeaningAt
<1>8. i \in Int /\ j \in Int /\ i > j BY <1>1, <1>5, <1>6
<1> HIDE DEF i, j
<1>9. PieceMeans(t, i, j, f.base) = {} BY <1>1, <1>8, NothingInPiece
<1> QED BY <1>4, <1>7, <1>9 DEF Rejected

\* A text that ends with its last part has the meaning of its pieces.
LEMMA EndsRight ==
  ASSUME NEW t, NEW f, NEW ps, NEW n, NEW where, Kept(t, f, ps, n, where),
         where \in {"constant", "closed"}, Len(ps) = f.count
  PROVE  Accepted(t, f, ps)
<1> DEFINE l == Len(ps)
           i == StartOf(t, f, ps)
<1>1. /\ t \in Text /\ Len(t) \in Nat /\ f.count \in Nat \ {0} /\ f.base \in {10, 16}
      /\ l \in 1 .. f.count /\ ps \in Seq(Part) /\ i \in 1 .. Len(t) + 1
      /\ \A k \in 1 .. l - 1 : MeaningAt(t, f, k) = {ps[k]}
  BY AtEnd
<1>2. Reading(t, f.base, i, ps[l], n, where) BY PieceSoFar
<1> HIDE DEF i
<1>3. i \in Nat \ {0} BY <1>1
<1>4. PieceMeans(t, i, Len(t), f.base) = {ps[l]} BY <1>1, <1>2, <1>3, WholePiece
<1>5. t[i] \notin DigitsOf(f.base) \/ AllDigits(t, i, Len(t), f.base)
  <2>1. CASE where = "constant"
    <3>1. Numbers(t, i, Len(t), f.base) = {ps[l].a} BY <1>2, <2>1 DEF Reading
    <3>2. Numbers(t, i, Len(t), f.base) # {} BY <3>1, Zenon
    <3> QED BY <3>2, NumbersTyped
  <2>2. CASE where = "closed"
    <3>1. InBraces(t, i, Len(t)) BY <1>2, <2>2 DEF Reading
    <3>2. t[i] = LeftBrace BY <3>1 DEF InBraces
    <3> QED BY <1>1, <3>2, DigitsAre, MarksDiffer
  <2> QED BY <2>1, <2>2
<1>6. MeaningAt(t, f, l) = {ps[l]} BY <1>4, <1>5, EndsWithText DEF i
<1>7. l = f.count OBVIOUS
<1> HIDE DEF l
<1>8. ASSUME NEW k \in 1 .. f.count PROVE MeaningAt(t, f, k) = {ps[k]}
  <2>1. k = l \/ k \in 1 .. l - 1 BY <1>1, <1>7
  <2> QED BY <1>1, <1>6, <2>1
<1> QED BY <1>1, <1>7, <1>8 DEF Accepted, l

-----------------------------------------------------------------------------
(* The reader. *)

\* At the start nothing has been read.
LEMMA NothingRead ==
  ASSUME NEW f \in Formats
  PROVE  Kept(<<>>, f, <<Constant(0)>>, 0, "part")
<1> DEFINE t == <<>>
           ps == <<Constant(0)>>
<1>1. t \in Text /\ Len(t) = 0 BY EmptySeq DEF Text
<1>2. Constant(0) \in Part BY DEF Constant, Part
<1>3. ps \in Seq(Part) /\ Len(ps) = 1 /\ ps[1] = Constant(0) BY <1>2
<1> HIDE DEF t, ps
<1>4. f.count \in Nat \ {0} BY FormulaAssumption
<1>5. Cut(t, f)[0] = 0 BY <1>1, CutsFollow
<1>6. Len(ps) \in 1 .. f.count BY <1>3, <1>4
<1>17. Len(ps) - 1 = 0 BY <1>3
<1>18. Cut(t, f)[Len(ps) - 1] = 0 BY <1>5, <1>17, Zenon
<1>7. StartOf(t, f, ps) = 1 BY <1>18 DEF StartOf
<1>8. Cut(t, f)[Len(ps) - 1] <= Len(t) BY <1>1, <1>18
<1>9. \A k \in 1 .. Len(ps) - 1 : FALSE BY <1>17
<1>10. NoSeparator(t, f, StartOf(t, f, ps), Len(t)) BY <1>1, <1>7 DEF NoSeparator
<1>11. PartsBefore(t, f, ps) BY <1>8, <1>9, <1>10 DEF PartsBefore
<1>12. ps[Len(ps)] = Constant(0) BY <1>3
<1>13. StartOf(t, f, ps) = Len(t) + 1 BY <1>1, <1>7
<1>14. Reading(t, f.base, StartOf(t, f, ps), ps[Len(ps)], 0, "part") BY <1>12, <1>13 DEF Reading
<1>15. "part" \in Readers /\ 0 \in Nat BY DEF Readers
<1>16. Kept(t, f, ps, 0, "part") BY <1>1, <1>3, <1>6, <1>11, <1>14, <1>15 DEF Kept
<1> QED BY <1>16 DEF t, ps

\* Every text starts with what is kept.
LEMMA FormulaStart == FormulaInit => FormulaInv
<1>1. SUFFICES ASSUME FormulaInit PROVE FormulaInv OBVIOUS
<1>2. PICK f \in Formats : FormulaStarts(f) BY <1>1 DEF FormulaInit
<1>3. format = f /\ text = <<>> /\ parts = <<Constant(0)>> /\ number = 0 /\ place = "part"
  BY <1>2 DEF FormulaStarts
<1>4. Kept(text, format, parts, number, place) BY <1>3, NothingRead
<1>5. place \in Readers /\ place \notin Ends BY <1>3 DEF Readers, Ends
<1>6. place # "accepted" /\ place # "rejected" BY <1>3
<1> QED BY <1>4, <1>5, <1>6 DEF FormulaInv, Kept

\* What is kept, or accepted, or rejected, is the invariant of the next state.
LEMMA KeptNext ==
  ASSUME format' = format, format \in Formats, text' \in Text,
         \/ place' \in Readers /\ Kept(text', format, parts', number', place')
         \/ place' = "rejected" /\ Rejected(text', format)
         \/ place' = "accepted" /\ Accepted(text', format, parts')
  PROVE  FormulaInv'
<1>1. CASE place' \in Readers /\ Kept(text', format, parts', number', place')
  <2>1. place' # "accepted" /\ place' # "rejected" BY <1>1 DEF Readers
  <2> QED BY <1>1, <2>1 DEF FormulaInv
<1>2. CASE place' = "rejected" /\ Rejected(text', format) BY <1>2 DEF FormulaInv, Ends
<1>3. CASE place' = "accepted" /\ Accepted(text', format, parts') BY <1>3 DEF FormulaInv, Ends
<1> QED BY <1>1, <1>2, <1>3

\* The last part of the reader is the one at the end.
LEMMA LastIsLast ==
  ASSUME NEW ps, NEW f, NEW t, NEW n, NEW where, Kept(t, f, ps, n, where)
  PROVE  Last(ps) = ps[Len(ps)]
BY DEF Last

\* The step that a character makes keeps the invariant.
LEMMA CharacterKeeps ==
  ASSUME FormulaInv, place \notin Ends, NEW c \in Characters, text' = Append(text, c), format' = format,
         \/ ReadDigit(c) \/ ReadSeparator(c) \/ OpenBrace(c) \/ ReadNumber(c) \/ ReadPlus(c)
         \/ ReadVariable(c) \/ CloseBrace(c) \/ StopAt(c)
  PROVE  FormulaInv'
<1> DEFINE t == text
           u == text'
           f == format
<1>1. Kept(t, f, parts, number, place) /\ f \in Formats BY DEF FormulaInv
<1>2. Reads(t, f, parts, number, place, c, u) BY <1>1 DEF Reads
<1>3. u \in Text BY <1>2, StepKnows
<1>4. Last(parts) = parts[Len(parts)] BY <1>1, LastIsLast
<1>5. number \in Nat BY <1>2, StepKnows
<1> HIDE DEF t, u, f
<1>6. f = format /\ f' = f /\ u = text' BY DEF f, u
<1>7. CASE ReadDigit(c)
  <2> DEFINE a == Grown(parts, f, c)
  <2>1. c \in DigitsOf(f.base) /\ place \in {"part", "constant"} /\ number' = number
    BY <1>7 DEF ReadDigit, f
  <2>2. Last(parts).a * format.base + Digit[c] = a BY <1>4 DEF Grown, f
  <2>3. a = Grown(parts, f, c) OBVIOUS
  <2> HIDE DEF a
  <2>4. CASE Keeps(a)
    <3>1. parts' = Append(Front(parts), Constant(a)) /\ place' = "constant"
      BY <1>7, <2>2, <2>4 DEF ReadDigit
    <3>2. a <= 255 BY <2>4 DEF Keeps
    <3>3. Kept(u, f, Append(Front(parts), Constant(a)), number, "constant")
      BY <1>2, <2>1, <2>3, <3>2, DigitKeeps
    <3>4. place' \in Readers BY <3>1 DEF Readers
    <3> QED BY <1>1, <1>3, <2>1, <3>1, <3>3, <3>4, KeptNext DEF u, f
  <2>5. CASE ~Keeps(a)
    <3>1. place' = "rejected" BY <1>7, <2>2, <2>5 DEF ReadDigit
    <3>2. ~(a <= 255) BY <2>5 DEF Keeps
    <3>3. Rejected(u, f) BY <1>2, <2>1, <2>3, <3>2, DigitKeeps
    <3> QED BY <1>1, <1>3, <3>1, <3>3, KeptNext DEF u, f
  <2> QED BY <2>4, <2>5
<1>8. CASE ReadSeparator(c)
  <2>1. /\ c = f.separator /\ place \in AfterPart /\ Len(parts) # f.count
        /\ parts' = Append(parts, Constant(0)) /\ place' = "part" /\ number' = number
    BY <1>8 DEF ReadSeparator, LastPart, f
  <2>2. Kept(u, f, parts', number', place') BY <1>2, <2>1, SeparatorKeeps
  <2>3. place' \in Readers BY <2>1 DEF Readers
  <2> QED BY <1>1, <1>3, <2>2, <2>3, KeptNext DEF u, f
<1>9. CASE OpenBrace(c)
  <2>1. c = LeftBrace /\ place = "part" /\ place' = "offset" /\ number' = 0 /\ parts' = parts
    BY <1>9 DEF OpenBrace
  <2>2. Kept(u, f, parts', number', place') BY <1>2, <2>1, OpenBraceKeeps
  <2>3. place' \in Readers BY <2>1 DEF Readers
  <2> QED BY <1>1, <1>3, <2>2, <2>3, KeptNext DEF u, f
<1>10. CASE ReadNumber(c)
  <2>1. /\ c \in DigitsOf(10) /\ place \in {"offset", "offsetDigits", "factor", "factorDigits"}
        /\ number' = number * 10 + Digit[c] /\ parts' = parts
    BY <1>10 DEF ReadNumber
  <2>2. CASE number' <= 255
    <3>1. place' = IF place \in {"offset", "offsetDigits"} THEN "offsetDigits" ELSE "factorDigits"
      BY <1>10, <2>2 DEF ReadNumber, Keeps
    <3>2. Kept(u, f, parts', number', place') BY <1>2, <2>1, <2>2, <3>1, NumberKeeps
    <3>3. place' \in Readers BY <3>1 DEF Readers
    <3> QED BY <1>1, <1>3, <3>2, <3>3, KeptNext DEF u, f
  <2>3. CASE ~(number' <= 255)
    <3>1. place' = "rejected" BY <1>10, <2>3 DEF ReadNumber, Keeps
    <3>2. place \in Open BY <2>1 DEF Open
    <3>3. place # "closing" BY <2>1
    <3>4. Rejected(u, f) BY <1>2, <3>2, <3>3, OpenRefused
    <3> QED BY <1>1, <1>3, <3>1, <3>4, KeptNext DEF u, f
  <2> QED BY <2>2, <2>3
<1>11. CASE ReadPlus(c)
  <2>1. /\ c = "+" /\ place = "offsetDigits" /\ place' = "factor" /\ number' = 0
        /\ parts' = Append(Front(parts), Constant(number))
    BY <1>11 DEF ReadPlus
  <2>2. Kept(u, f, parts', number', place') BY <1>2, <2>1, PlusKeeps
  <2>3. place' \in Readers BY <2>1 DEF Readers
  <2> QED BY <1>1, <1>3, <2>2, <2>3, KeptNext DEF u, f
<1>12. CASE ReadVariable(c)
  <2> DEFINE b == IF place = "factor" THEN 1 ELSE number
  <2>1. c = "i" /\ (place = "factor" \/ (place = "factorDigits" /\ number # 0)) BY <1>12 DEF ReadVariable
  <2>2. parts' = Append(Front(parts), [parts[Len(parts)] EXCEPT !.b = b])
    BY <1>4, <1>12 DEF ReadVariable
  <2>3. place' = "closing" /\ number' = number BY <1>12 DEF ReadVariable
  <2>4. b = IF place = "factor" THEN 1 ELSE number OBVIOUS
  <2> HIDE DEF b
  <2>5. Kept(u, f, Append(Front(parts), [parts[Len(parts)] EXCEPT !.b = b]), number, "closing")
    BY <1>2, <2>1, <2>4, VariableKeeps
  <2>6. place' \in Readers BY <2>3 DEF Readers
  <2> QED BY <1>1, <1>3, <2>2, <2>3, <2>5, <2>6, KeptNext DEF u, f
<1>13. CASE CloseBrace(c)
  <2>1. /\ c = RightBrace /\ place = "closing" /\ place' = "closed"
        /\ parts' = parts /\ number' = number
    BY <1>13 DEF CloseBrace
  <2>2. Kept(u, f, parts', number', place') BY <1>2, <2>1, CloseBraceKeeps
  <2>3. place' \in Readers BY <2>1 DEF Readers
  <2> QED BY <1>1, <1>3, <2>2, <2>3, KeptNext DEF u, f
<1>14. CASE StopAt(c)
  <2>1. Stops(c) /\ place' = (IF Completed THEN "accepted" ELSE "rejected") /\ parts' = parts
    BY <1>14 DEF StopAt
  <2>2. CASE place = "constant"
    <3>1. c \notin DigitsOf(f.base) /\ (c # f.separator \/ Len(parts) = f.count)
      BY <2>1, <2>2 DEF Stops, LastPart, f
    <3>2. CASE Len(parts) = f.count
      <4>1. place' = "accepted" BY <2>1, <2>2, <3>2 DEF Completed, LastPart, f
      <4>2. Accepted(u, f, parts') BY <1>2, <2>1, <2>2, <3>1, <3>2, LastConstant
      <4> QED BY <1>1, <1>3, <4>1, <4>2, KeptNext DEF u, f
    <3>3. CASE Len(parts) # f.count
      <4>1. place' = "rejected" BY <2>1, <2>2, <3>3 DEF Completed, LastPart, f
      <4>2. Rejected(u, f) BY <1>2, <2>2, <3>1, <3>3, StopsAtConstant
      <4> QED BY <1>1, <1>3, <4>1, <4>2, KeptNext DEF u, f
    <3> QED BY <3>2, <3>3
  <2>3. CASE place # "constant"
    <3>1. place' = "rejected" BY <2>1, <2>3 DEF Completed
    <3>2. Rejected(u, f)
      <4>1. CASE place = "part"
        <5>1. c \notin DigitsOf(f.base) BY <2>1, <4>1 DEF Stops, f
        <5> QED BY <1>2, <4>1, <5>1, StopsAtPart
      <4>2. CASE place = "closed"
        <5>1. c # f.separator \/ Len(parts) = f.count BY <2>1, <4>2 DEF Stops, LastPart, f
        <5> QED BY <1>2, <4>2, <5>1, StopsAtClosed
      <4>3. CASE place \in Open
        <5>1. c = RightBrace => place # "closing" BY <2>1 DEF Stops
        <5> QED BY <1>2, <4>3, <5>1, OpenRefused
      <4>4. place \in Readers BY <1>1 DEF Kept
      <4> QED BY <2>3, <4>1, <4>2, <4>3, <4>4 DEF Readers, Open
    <3> QED BY <1>1, <1>3, <3>1, <3>2, KeptNext DEF u, f
  <2> QED BY <2>2, <2>3
<1> QED BY <1>7, <1>8, <1>9, <1>10, <1>11, <1>12, <1>13, <1>14

\* So does the end of the text.
LEMMA EndKeeps ==
  ASSUME FormulaInv, EndOfText
  PROVE  FormulaInv'
<1>1. /\ place \notin Ends /\ format' = format /\ text' = text /\ parts' = parts /\ number' = number
      /\ place' = IF Completed \/ (place = "closed" /\ LastPart) THEN "accepted" ELSE "rejected"
  BY DEF EndOfText
<1>2. Kept(text, format, parts, number, place) /\ format \in Formats /\ text \in Text
  BY <1>1 DEF FormulaInv
<1>3. place \in Readers BY <1>2 DEF Kept
<1>4. CASE place \in Open \cup {"part"}
  <2>1. place # "constant" /\ place # "closed" BY <1>4 DEF Open
  <2>2. place' = "rejected" BY <1>1, <2>1 DEF Completed
  <2>3. Rejected(text, format) BY <1>2, <1>4, EndsEarly
  <2> QED BY <1>1, <1>2, <2>2, <2>3, KeptNext
<1>5. CASE place \in {"constant", "closed"} /\ Len(parts) = format.count
  <2>1. place' = "accepted" BY <1>1, <1>5 DEF Completed, LastPart
  <2>2. Accepted(text, format, parts) BY <1>2, <1>5, EndsRight
  <2> QED BY <1>1, <1>2, <2>1, <2>2, KeptNext
<1>6. CASE Len(parts) # format.count
  <2>1. place' = "rejected" BY <1>1, <1>6 DEF Completed, LastPart
  <2>2. Rejected(text, format) BY <1>2, <1>6, TooFewParts
  <2> QED BY <1>1, <1>2, <2>1, <2>2, KeptNext
<1> QED BY <1>3, <1>4, <1>5, <1>6 DEF Readers, Open

\* The invariant of the reader
LEMMA FormulaStep == FormulaInv /\ [FormulaNext]_formulaVars => FormulaInv'
<1> SUFFICES ASSUME FormulaInv, [FormulaNext]_formulaVars PROVE FormulaInv' OBVIOUS
<1>1. CASE ReadCharacter BY <1>1, CharacterKeeps DEF ReadCharacter
<1>2. CASE EndOfText BY <1>2, EndKeeps
<1>3. CASE UNCHANGED formulaVars BY <1>3 DEF FormulaInv, formulaVars
<1> QED BY <1>1, <1>2, <1>3 DEF FormulaNext

-----------------------------------------------------------------------------
(* Numbers and their bits. *)

\* A bit of a | b
Bit(x, y) == IF x % 2 = 1 \/ y % 2 = 1 THEN 1 ELSE 0

\* h has the functions that put numbers of so many bits together.
Ors(h, bits) ==
  /\ h \in [0 .. bits -> [Nat -> [Nat -> Nat]]]
  /\ \A x \in Nat : \A y \in Nat : h[0][x][y] = 0
  /\ \A k \in 1 .. bits : \A x \in Nat : \A y \in Nat :
       h[k][x][y] = 2 * h[k - 1][x \div 2][y \div 2] + Bit(x, y)

\* a | b is what the last of them makes.
LEMMA OrsAre ==
  ASSUME NEW bits \in Nat
  PROVE  \E h : Ors(h, bits) /\ \A a \in Nat : \A b \in Nat : Or(bits, a, b) = h[bits][a][b]
<1> DEFINE F == [Nat -> [Nat -> Nat]]
           More(g) == [x \in Nat |-> [y \in Nat |-> 2 * g[x \div 2][y \div 2] + Bit(x, y)]]
           Zero == [x \in Nat |-> [y \in Nat |-> 0]]
           Body(f, k) == [x \in Nat |-> [y \in Nat |->
                            IF k = 0 THEN 0
                            ELSE 2 * f[k - 1][x \div 2][y \div 2] + (IF x % 2 = 1 \/ y % 2 = 1 THEN 1 ELSE 0)]]
           Def(f) == f = [k \in 0 .. bits |-> Body(f, k)]
           or == CHOOSE f : Def(f)
           step == [p \in (1..bits) \X F |-> More(p[2])]
<1>1. \A a, b : Or(bits, a, b) = or[bits][a][b] BY DEF Or
<1>2. Zero \in F OBVIOUS
<1>3. ASSUME NEW g \in F PROVE More(g) \in F
  <2>1. ASSUME NEW x \in Nat, NEW y \in Nat PROVE 2 * g[x \div 2][y \div 2] + Bit(x, y) \in Nat
    <3>1. x \div 2 \in Nat /\ y \div 2 \in Nat OBVIOUS
    <3>2. g[x \div 2][y \div 2] \in Nat BY <3>1
    <3>3. Bit(x, y) \in Nat BY DEF Bit
    <3>4. \A v \in Nat, w \in Nat : 2 * v + w \in Nat OBVIOUS
    <3> QED BY <3>2, <3>3, <3>4
  <2> QED BY <2>1
<1>4. ASSUME NEW f PROVE Body(f, 0) = Zero OBVIOUS
<1>5. ASSUME NEW f, NEW k \in 1 .. bits PROVE Body(f, k) = More(f[k - 1])
  <2>1. k # 0 OBVIOUS
  <2> QED BY <2>1 DEF Bit
<1>6. ASSUME NEW g, NEW x \in Nat, NEW y \in Nat
      PROVE  More(g)[x][y] = 2 * g[x \div 2][y \div 2] + Bit(x, y)
  OBVIOUS
<1>7. \A x \in Nat : \A y \in Nat : Zero[x][y] = 0 OBVIOUS
<1>8. \A f : Def(f) <=> f = [k \in 0 .. bits |-> Body(f, k)] OBVIOUS
<1> HIDE DEF Body, More, Zero, F
<1>9. step \in [(1..bits) \X F -> F] BY <1>3
<1>10. \A k \in 1..bits, g \in F : step[<<k, g>>] = More(g) OBVIOUS
<1> HIDE DEF step
<1>11. PICK h \in [0..bits -> F] : Steps(h, bits, Zero, step) BY <1>2, <1>9, History
<1>12. \A k \in 0..bits : h[k] = Body(h, k)
  <2>1. ASSUME NEW k \in 0..bits PROVE h[k] = Body(h, k)
    <3>1. CASE k = 0 BY <1>4, <1>11, <3>1 DEF Steps
    <3>2. CASE k # 0
      <4>1. k \in 1..bits /\ k - 1 \in 0..bits BY <3>2
      <4>2. h[k - 1] \in F BY <1>11, <4>1
      <4>3. h[k] = step[<<k, h[k - 1]>>] BY <1>11, <4>1 DEF Steps
      <4> QED BY <1>5, <1>10, <4>1, <4>2, <4>3
    <3> QED BY <3>1, <3>2
  <2> QED BY <2>1
<1>13. Def(h) BY <1>11, <1>12
<1>14. Def(or) BY <1>13
<1> HIDE DEF or
<1>15. \A k \in 0..bits : or[k] = Body(or, k) BY <1>14
<1> HIDE DEF Def
<1>16. /\ 0 \in 0..bits /\ bits \in 0..bits
       /\ \A k \in 1..bits : k \in 0..bits /\ k - 1 \in 0..bits
  OBVIOUS
<1> DEFINE G == {k \in 0..bits : or[k] = h[k]}
<1>17. 0 \in G BY <1>4, <1>12, <1>15, <1>16
<1>18. ASSUME NEW k \in 1..bits, k - 1 \in G PROVE k \in G
  <2>1. or[k - 1] = h[k - 1] BY <1>18
  <2>2. Body(or, k) = Body(h, k) BY <1>5, <2>1
  <2>3. or[k] = h[k] BY <1>12, <1>15, <1>16, <2>2
  <2> QED BY <1>16, <2>3
<1> HIDE DEF G
<1>19. \A k \in 0..bits : k \in G BY <1>17, <1>18, UpTo
<1>20. or[bits] = h[bits] BY <1>16, <1>19 DEF G
<1>21. \A a \in Nat : \A b \in Nat : Or(bits, a, b) = h[bits][a][b] BY <1>1, <1>20
<1>22. h \in [0 .. bits -> [Nat -> [Nat -> Nat]]] BY <1>11 DEF F
<1>23. \A x \in Nat : \A y \in Nat : h[0][x][y] = 0 BY <1>4, <1>7, <1>12, <1>16
<1>24. \A k \in 1 .. bits : \A x \in Nat : \A y \in Nat :
         h[k][x][y] = 2 * h[k - 1][x \div 2][y \div 2] + Bit(x, y)
  <2>1. ASSUME NEW k \in 1 .. bits, NEW x \in Nat, NEW y \in Nat
        PROVE  h[k][x][y] = 2 * h[k - 1][x \div 2][y \div 2] + Bit(x, y)
    <3>1. h[k] = More(h[k - 1]) BY <1>5, <1>12, <1>16
    <3>2. More(h[k - 1])[x][y] = 2 * h[k - 1][x \div 2][y \div 2] + Bit(x, y) BY <1>6
    <3>3. h[k][x][y] = More(h[k - 1])[x][y] BY <3>1
    <3> QED BY <3>2, <3>3
  <2> QED BY <2>1
<1> QED BY <1>21, <1>22, <1>23, <1>24 DEF Ors

\* Two such histories agree.
LEMMA OrsAgree ==
  ASSUME NEW bits \in Nat, NEW m \in 0 .. bits, NEW h, NEW g, Ors(h, bits), Ors(g, m),
         NEW a \in Nat, NEW b \in Nat
  PROVE  h[m][a][b] = g[m][a][b]
<1> DEFINE G == {k \in 0 .. m : \A x \in Nat : \A y \in Nat : h[k][x][y] = g[k][x][y]}
<1>1. 0 \in G
  <2>1. \A x \in Nat : \A y \in Nat : h[0][x][y] = 0 BY DEF Ors
  <2>2. \A x \in Nat : \A y \in Nat : g[0][x][y] = 0 BY DEF Ors
  <2>3. \A x \in Nat : \A y \in Nat : h[0][x][y] = g[0][x][y] BY <2>1, <2>2
  <2> QED BY <2>3
<1>2. ASSUME NEW k \in 1 .. m, k - 1 \in G PROVE k \in G
  <2>1. k \in 1 .. bits OBVIOUS
  <2>2. ASSUME NEW x \in Nat, NEW y \in Nat PROVE h[k][x][y] = g[k][x][y]
    <3>1. x \div 2 \in Nat /\ y \div 2 \in Nat OBVIOUS
    <3>2. h[k - 1][x \div 2][y \div 2] = g[k - 1][x \div 2][y \div 2] BY <1>2, <3>1
    <3>3. h[k][x][y] = 2 * h[k - 1][x \div 2][y \div 2] + Bit(x, y) BY <2>1 DEF Ors
    <3>4. g[k][x][y] = 2 * g[k - 1][x \div 2][y \div 2] + Bit(x, y) BY DEF Ors
    <3> QED BY <3>2, <3>3, <3>4
  <2> QED BY <2>2
<1> HIDE DEF G
<1>3. \A k \in 0 .. m : k \in G BY <1>1, <1>2, UpTo
<1>4. m \in 0 .. m OBVIOUS
<1> QED BY <1>3, <1>4 DEF G

\* What a | b is without bits
LEMMA OrTyped ==
  ASSUME NEW n \in Nat, NEW a \in Nat, NEW b \in Nat
  PROVE  Or(n, a, b) \in Nat /\ Or(0, a, b) = 0
<1>2. PICK g : Ors(g, n) /\ \A x \in Nat : \A y \in Nat : Or(n, x, y) = g[n][x][y] BY OrsAre
<1>3. PICK z : Ors(z, 0) /\ \A x \in Nat : \A y \in Nat : Or(0, x, y) = z[0][x][y]
  <2>1. 0 \in Nat OBVIOUS
  <2> QED BY <2>1, OrsAre
<1>4. Or(0, a, b) = 0
  <2>1. Or(0, a, b) = z[0][a][b] BY <1>3
  <2>2. \A x \in Nat : \A y \in Nat : z[0][x][y] = 0 BY <1>3 DEF Ors
  <2>3. z[0][a][b] = 0 BY <2>2
  <2> QED BY <2>1, <2>3
<1>5. Or(n, a, b) \in Nat
  <2>1. n \in 0 .. n OBVIOUS
  <2>2. g[n] \in [Nat -> [Nat -> Nat]] BY <1>2, <2>1 DEF Ors
  <2>3. g[n][a] \in [Nat -> Nat] BY <2>2
  <2>4. g[n][a][b] \in Nat BY <2>3
  <2> QED BY <1>2, <2>4
<1> QED BY <1>4, <1>5

\* a | b with one more bit
LEMMA OrSteps ==
  ASSUME NEW n, NEW a, NEW b, n \in Nat, a \in Nat, b \in Nat
  PROVE  Or(n + 1, a, b) = 2 * Or(n, a \div 2, b \div 2) + Bit(a, b)
<1>1. PICK h : Ors(h, n + 1) /\ \A x \in Nat : \A y \in Nat : Or(n + 1, x, y) = h[n + 1][x][y]
  <2>1. n + 1 \in Nat OBVIOUS
  <2> QED BY <2>1, OrsAre
<1>2. PICK g : Ors(g, n) /\ \A x \in Nat : \A y \in Nat : Or(n, x, y) = g[n][x][y] BY OrsAre
<1>6. Or(n + 1, a, b) = 2 * Or(n, a \div 2, b \div 2) + Bit(a, b)
  <2> DEFINE c == a \div 2
             d == b \div 2
             k == n + 1
  <2>1. c \in Nat /\ d \in Nat /\ n \in 0 .. k /\ k \in Nat /\ k \in 1 .. k /\ k - 1 = n OBVIOUS
  <2>2. h[k][a][b] = 2 * h[k - 1][c][d] + Bit(a, b) BY <1>1, <2>1 DEF Ors
  <2>3. Ors(h, k) BY <1>1
  <2>4. Or(k, a, b) = h[k][a][b] BY <1>1
  <2> HIDE DEF c, d, k
  <2>5. h[n][c][d] = g[n][c][d] BY <1>2, <2>1, <2>3, OrsAgree
  <2>6. Or(n, c, d) = g[n][c][d] BY <1>2, <2>1
  <2>7. Or(k, a, b) = 2 * Or(n, c, d) + Bit(a, b) BY <2>1, <2>2, <2>4, <2>5, <2>6
  <2> QED BY <2>7 DEF c, d, k
<1> QED BY <1>6

\* What n bits make of x and of less than a is y and that.
Joins(n, x, y, a) == \A r \in 0 .. a - 1 : Or(n, x, r) = y + r /\ Or(n, x + r, 0) = y + r

\* With one more bit it is twice that.
LEMMA JoinsTwice ==
  ASSUME NEW n, NEW x, NEW y, NEW a, n \in Nat, x \in Nat, y \in Nat, a \in Nat, Joins(n, x, y, a)
  PROVE  Joins(n + 1, 2 * x, 2 * y, 2 * a)
<1>1. ASSUME NEW r \in 0 .. 2 * a - 1
      PROVE  Or(n + 1, 2 * x, r) = 2 * y + r /\ Or(n + 1, 2 * x + r, 0) = 2 * y + r
  <2> DEFINE q == r \div 2
             d == r % 2
             e == 2 * x
             b == 2 * x + r
  <2>1. q \in 0 .. a - 1 /\ d \in 0 .. 1 /\ r = 2 * q + d /\ r \in Nat /\ q \in Nat OBVIOUS
  <2>2. e \in Nat /\ b \in Nat /\ e \div 2 = x /\ e % 2 = 0 /\ b \div 2 = x + q /\ b % 2 = d OBVIOUS
  <2>3. 0 \in Nat /\ 0 \div 2 = 0 /\ 0 % 2 = 0 OBVIOUS
  <2>4. r \div 2 = q /\ r % 2 = d OBVIOUS
  <2>5. e = 2 * x /\ b = 2 * x + r OBVIOUS
  <2> HIDE DEF q, d, e, b
  <2>6. Or(n, x, q) = y + q /\ Or(n, x + q, 0) = y + q BY <2>1 DEF Joins
  <2>7. Or(n + 1, e, r) = 2 * Or(n, e \div 2, r \div 2) + Bit(e, r) BY <2>1, <2>2, OrSteps
  <2>8. Bit(e, r) = d BY <2>1, <2>2, <2>4 DEF Bit
  <2>9. Or(n + 1, e, r) = 2 * (y + q) + d BY <2>2, <2>4, <2>6, <2>7, <2>8
  <2>10. Or(n + 1, b, 0) = 2 * Or(n, b \div 2, 0 \div 2) + Bit(b, 0) BY <2>2, <2>3, OrSteps
  <2>11. Bit(b, 0) = d BY <2>1, <2>2, <2>3 DEF Bit
  <2>12. Or(n + 1, b, 0) = 2 * (y + q) + d BY <2>2, <2>3, <2>6, <2>10, <2>11
  <2> QED BY <2>1, <2>5, <2>9, <2>12
<1> QED BY <1>1 DEF Joins

\* Eight bits more are a byte more.
LEMMA JoinsByte ==
  ASSUME NEW n, NEW s, n \in Nat, s \in Nat
  PROVE  Joins(n + 8, 256 * s, 256 * Or(n, s, 0), 256)
<1> DEFINE y == Or(n, s, 0)
<1>1. y \in Nat
  <2>1. 0 \in Nat OBVIOUS
  <2> QED BY <2>1, OrTyped
<1>2. Joins(n, s, y, 1)
  <2>1. ASSUME NEW r \in 0 .. 1 - 1 PROVE Or(n, s, r) = y + r /\ Or(n, s + r, 0) = y + r
    <3>1. r = 0 /\ s + r = s /\ y + r = y BY <1>1
    <3> QED BY <3>1
  <2> QED BY <2>1 DEF Joins
<1> HIDE DEF y
<1> DEFINE J(m, a) == Joins(n + m, a * s, a * y, a)
<1>3. ASSUME NEW m \in Nat, NEW a \in Nat, J(m, a), a * s \in Nat, a * y \in Nat,
             NEW z \in Nat, z = 2 * a, 2 * (a * s) = z * s, 2 * (a * y) = z * y
      PROVE  J(m + 1, z)
  <2>1. Joins(n + m + 1, 2 * (a * s), 2 * (a * y), 2 * a)
    <3>1. n + m \in Nat OBVIOUS
    <3> QED BY <1>3, <3>1, JoinsTwice
  <2>2. n + m + 1 = n + (m + 1) OBVIOUS
  <2> QED BY <1>3, <2>1, <2>2
<1>4. J(0, 1)
  <2>1. n + 0 = n /\ 1 * s = s /\ 1 * y = y BY <1>1
  <2> QED BY <1>2, <2>1
<1> HIDE DEF J
<1>5. /\ 1 * s \in Nat /\ 2 * s \in Nat /\ 4 * s \in Nat /\ 8 * s \in Nat /\ 16 * s \in Nat
      /\ 32 * s \in Nat /\ 64 * s \in Nat /\ 128 * s \in Nat
      /\ 1 * y \in Nat /\ 2 * y \in Nat /\ 4 * y \in Nat /\ 8 * y \in Nat /\ 16 * y \in Nat
      /\ 32 * y \in Nat /\ 64 * y \in Nat /\ 128 * y \in Nat
  BY <1>1
<1>6. J(1, 2)
  <2>1. 2 * (1 * s) = 2 * s /\ 2 * (1 * y) = 2 * y /\ 0 + 1 = 1 BY <1>1
  <2> QED BY <1>3, <1>4, <1>5, <2>1
<1>7. J(2, 4)
  <2>1. 2 * (2 * s) = 4 * s /\ 2 * (2 * y) = 4 * y /\ 1 + 1 = 2 BY <1>1
  <2> QED BY <1>3, <1>5, <1>6, <2>1
<1>8. J(3, 8)
  <2>1. 2 * (4 * s) = 8 * s /\ 2 * (4 * y) = 8 * y /\ 2 + 1 = 3 BY <1>1
  <2> QED BY <1>3, <1>5, <1>7, <2>1
<1>9. J(4, 16)
  <2>1. 2 * (8 * s) = 16 * s /\ 2 * (8 * y) = 16 * y /\ 3 + 1 = 4 BY <1>1
  <2> QED BY <1>3, <1>5, <1>8, <2>1
<1>10. J(5, 32)
  <2>1. 2 * (16 * s) = 32 * s /\ 2 * (16 * y) = 32 * y /\ 4 + 1 = 5 BY <1>1
  <2> QED BY <1>3, <1>5, <1>9, <2>1
<1>11. J(6, 64)
  <2>1. 2 * (32 * s) = 64 * s /\ 2 * (32 * y) = 64 * y /\ 5 + 1 = 6 BY <1>1
  <2> QED BY <1>3, <1>5, <1>10, <2>1
<1>12. J(7, 128)
  <2>1. 2 * (64 * s) = 128 * s /\ 2 * (64 * y) = 128 * y /\ 6 + 1 = 7 BY <1>1
  <2> QED BY <1>3, <1>5, <1>11, <2>1
<1>13. J(8, 256)
  <2>1. 2 * (128 * s) = 256 * s /\ 2 * (128 * y) = 256 * y /\ 7 + 1 = 8 BY <1>1
  <2> QED BY <1>3, <1>5, <1>12, <2>1
<1> QED BY <1>13 DEF J, y

\* h has the sums of the parts of an address, part after part.
Sums(h, len, r) ==
  /\ h \in [0 .. len -> Nat] /\ h[0] = 0
  /\ \A k \in 1 .. len : h[k] = Or(8 * k, h[k - 1] * 256, r[k])

\* The address of an item is the last of them.
LEMMA SumsAre ==
  ASSUME NEW i \in Nat, NEW len \in Nat, Len(parts) = len, NEW r \in [1 .. len -> Nat],
         \A k \in 1 .. len : Resolve(parts[k], i) = r[k]
  PROVE  \E h : Sums(h, len, r) /\ AddressAt(i) = h[len]
<1> DEFINE Body(f, k) == IF k = 0 THEN 0 ELSE Or(8 * k, f[k - 1] * 256, Resolve(parts[k], i))
           Def(f) == f = [k \in 0 .. Len(parts) |-> Body(f, k)]
           sum == CHOOSE f : Def(f)
           step == [p \in (1..len) \X Nat |-> Or(8 * p[1], p[2] * 256, r[p[1]])]
<1>1. AddressAt(i) = sum[len] BY DEF AddressAt
<1>2. step \in [(1..len) \X Nat -> Nat]
  <2>1. ASSUME NEW p \in (1..len) \X Nat PROVE Or(8 * p[1], p[2] * 256, r[p[1]]) \in Nat
    <3>1. p[1] \in 1..len /\ p[2] \in Nat OBVIOUS
    <3>2. 8 * p[1] \in Nat /\ p[2] * 256 \in Nat /\ r[p[1]] \in Nat BY <3>1
    <3> QED BY <3>2, OrTyped
  <2> QED BY <2>1
<1>3. \A k \in 1..len, s \in Nat : step[<<k, s>>] = Or(8 * k, s * 256, r[k]) OBVIOUS
<1> HIDE DEF step
<1>4. PICK h \in [0..len -> Nat] : Steps(h, len, 0, step) BY <1>2, History
<1>5. h[0] = 0 BY <1>4 DEF Steps
<1>6. ASSUME NEW k \in 1..len PROVE h[k] = Or(8 * k, h[k - 1] * 256, r[k])
  <2>1. k - 1 \in 0..len OBVIOUS
  <2>2. h[k - 1] \in Nat BY <1>4, <2>1
  <2>3. h[k] = step[<<k, h[k - 1]>>] BY <1>4 DEF Steps
  <2> QED BY <1>3, <2>2, <2>3
<1>7. \A f : Body(f, 0) = 0 OBVIOUS
<1>8. ASSUME NEW f, NEW k \in 1..len PROVE Body(f, k) = Or(8 * k, f[k - 1] * 256, r[k])
  <2>1. k # 0 OBVIOUS
  <2>2. Resolve(parts[k], i) = r[k] OBVIOUS
  <2> QED BY <2>1, <2>2
<1>9. \A f : Def(f) <=> f = [k \in 0 .. len |-> Body(f, k)] OBVIOUS
<1> HIDE DEF Body
<1>10. Def(h)
  <2>1. ASSUME NEW k \in 0..len PROVE h[k] = Body(h, k)
    <3>1. CASE k = 0 BY <1>5, <1>7, <3>1
    <3>2. CASE k # 0
      <4>1. k \in 1..len BY <3>2
      <4>2. Body(h, k) = Or(8 * k, h[k - 1] * 256, r[k]) BY <1>8, <4>1
      <4>3. h[k] = Or(8 * k, h[k - 1] * 256, r[k]) BY <1>6, <4>1
      <4> QED BY <4>2, <4>3
    <3> QED BY <3>1, <3>2
  <2> HIDE DEF Def
  <2>2. h = [k \in 0 .. len |-> Body(h, k)] BY <1>4, <2>1
  <2> QED BY <1>9, <2>2
<1>11. Def(sum) BY <1>10
<1> HIDE DEF sum, Def
<1>12. sum = [k \in 0 .. len |-> Body(sum, k)] BY <1>9, <1>11
<1>13. \A k \in 0..len : sum[k] = Body(sum, k) BY <1>12
<1>14. 0 \in 0..len /\ len \in 0..len OBVIOUS
<1> DEFINE G == {k \in 0..len : sum[k] = h[k]}
<1>15. 0 \in G BY <1>5, <1>7, <1>13, <1>14
<1>16. ASSUME NEW k \in 1..len, k - 1 \in G PROVE k \in G
  <2>1. k \in 0..len /\ sum[k - 1] = h[k - 1] BY <1>16
  <2>2. sum[k] = Or(8 * k, sum[k - 1] * 256, r[k]) BY <1>8, <1>13, <2>1
  <2>3. h[k] = Or(8 * k, h[k - 1] * 256, r[k]) BY <1>6
  <2>4. sum[k] = h[k] BY <2>1, <2>2, <2>3
  <2> QED BY <2>1, <2>4
<1> HIDE DEF G
<1>17. \A k \in 0..len : k \in G BY <1>15, <1>16, UpTo
<1>18. sum[len] = h[len] BY <1>14, <1>17 DEF G
<1>19. Sums(h, len, r) BY <1>4, <1>5, <1>6 DEF Sums
<1> QED BY <1>1, <1>18, <1>19

MoreBytes(h, len, r) == \A k \in 1 .. len : h[k] = 256 * h[k - 1] + r[k]

\* With parts that are bytes, each sum is the one before it with a byte more.
LEMMA SumsOfBytes ==
  ASSUME NEW len \in Nat, NEW r \in [1 .. len -> 0 .. 255], NEW h, Sums(h, len, r)
  PROVE  MoreBytes(h, len, r)
<1> DEFINE Good(k) == Or(8 * k, h[k], 0) = h[k]
           G == {k \in 0 .. len : Good(k)}
<1>1. h \in [0 .. len -> Nat] /\ h[0] = 0 BY DEF Sums
<1>2. 0 \in G
  <2>1. 0 \in Nat /\ 8 * 0 = 0 /\ 0 \in 0 .. len OBVIOUS
  <2>2. Or(0, 0, 0) = 0 BY <2>1, OrTyped
  <2>3. Good(0) BY <1>1, <2>1, <2>2
  <2> QED BY <2>1, <2>3
<1>3. ASSUME NEW k \in 1 .. len, Good(k - 1) PROVE Good(k) /\ h[k] = 256 * h[k - 1] + r[k]
  <2> DEFINE s == h[k - 1]
             m == 8 * (k - 1)
             b == r[k]
  <2>1. k - 1 \in 0 .. len /\ m \in Nat /\ 8 * k = m + 8 OBVIOUS
  <2>2. s \in Nat /\ b \in 0 .. 255 BY <1>1, <2>1
  <2>3. Or(m, s, 0) = s BY <1>3
  <2>4. h[k] = Or(8 * k, s * 256, b) BY DEF Sums
  <2> HIDE DEF s, m, b
  <2>5. Joins(m + 8, 256 * s, 256 * Or(m, s, 0), 256) BY <2>1, <2>2, JoinsByte
  <2>6. Joins(m + 8, 256 * s, 256 * s, 256) BY <2>3, <2>5
  <2>7. b \in 0 .. 256 - 1 BY <2>2
  <2>8. Or(m + 8, 256 * s, b) = 256 * s + b /\ Or(m + 8, 256 * s + b, 0) = 256 * s + b
    BY <2>6, <2>7 DEF Joins
  <2>9. 256 * s = s * 256 BY <2>2
  <2>10. h[k] = 256 * s + b BY <2>1, <2>4, <2>8, <2>9
  <2>11. Or(8 * k, h[k], 0) = h[k] BY <2>1, <2>8, <2>10
  <2> QED BY <2>10, <2>11 DEF s, b
<1>4. \A k \in 0 .. len : k \in G <=> Good(k) OBVIOUS
<1> HIDE DEF Good, G
<1>5. ASSUME NEW k \in 1 .. len, k - 1 \in G PROVE k \in G
  <2>1. k - 1 \in 0 .. len /\ k \in 0 .. len OBVIOUS
  <2>2. Good(k) BY <1>3, <1>4, <1>5, <2>1
  <2> QED BY <1>4, <2>1, <2>2
<1>6. \A k \in 0 .. len : k \in G BY <1>2, <1>5, UpTo
<1>7. ASSUME NEW k \in 1 .. len PROVE h[k] = 256 * h[k - 1] + r[k]
  <2>1. k - 1 \in 0 .. len OBVIOUS
  <2>2. Good(k - 1) BY <1>4, <1>6, <2>1
  <2> QED BY <1>3, <2>2
<1> QED BY <1>7 DEF MoreBytes

\* What is left of an address without its last bytes
LEMMA RestsAre ==
  ASSUME NEW n \in Nat, NEW address \in Nat
  PROVE  \E g \in [0 .. n -> Nat] :
           /\ g[0] = address /\ (\A k \in 1 .. n : g[k] = g[k - 1] \div 256)
           /\ ByteOf(address, n) = g[n] % 256
<1> DEFINE Body(f, k) == IF k = 0 THEN address ELSE f[k - 1] \div 256
           Def(f) == f = [k \in 0 .. n |-> Body(f, k)]
           rest == CHOOSE f : Def(f)
           step == [p \in (1..n) \X Nat |-> p[2] \div 256]
<1>1. ByteOf(address, n) = rest[n] % 256 BY DEF ByteOf
<1>2. step \in [(1..n) \X Nat -> Nat]
  <2>1. ASSUME NEW p \in (1..n) \X Nat PROVE p[2] \div 256 \in Nat
    <3>1. p[2] \in Nat OBVIOUS
    <3> QED BY <3>1
  <2> QED BY <2>1
<1>3. \A k \in 1..n, s \in Nat : step[<<k, s>>] = s \div 256 OBVIOUS
<1> HIDE DEF step
<1>4. PICK h \in [0..n -> Nat] : Steps(h, n, address, step) BY <1>2, History
<1>5. h[0] = address BY <1>4 DEF Steps
<1>6. ASSUME NEW k \in 1..n PROVE h[k] = h[k - 1] \div 256
  <2>1. k - 1 \in 0..n OBVIOUS
  <2>2. h[k - 1] \in Nat BY <1>4, <2>1
  <2>3. h[k] = step[<<k, h[k - 1]>>] BY <1>4 DEF Steps
  <2> QED BY <1>3, <2>2, <2>3
<1>7. \A f : Body(f, 0) = address OBVIOUS
<1>8. ASSUME NEW f, NEW k \in 1..n PROVE Body(f, k) = f[k - 1] \div 256
  <2>1. k # 0 OBVIOUS
  <2> QED BY <2>1
<1>9. \A f : Def(f) <=> f = [k \in 0 .. n |-> Body(f, k)] OBVIOUS
<1> HIDE DEF Body
<1>10. Def(h)
  <2>1. ASSUME NEW k \in 0..n PROVE h[k] = Body(h, k)
    <3>1. CASE k = 0 BY <1>5, <1>7, <3>1
    <3>2. CASE k # 0
      <4>1. k \in 1..n BY <3>2
      <4>2. Body(h, k) = h[k - 1] \div 256 BY <1>8, <4>1
      <4>3. h[k] = h[k - 1] \div 256 BY <1>6, <4>1
      <4> QED BY <4>2, <4>3
    <3> QED BY <3>1, <3>2
  <2> HIDE DEF Def
  <2>2. h = [k \in 0 .. n |-> Body(h, k)] BY <1>4, <2>1
  <2> QED BY <1>9, <2>2
<1>11. Def(rest) BY <1>10
<1> HIDE DEF rest, Def
<1>12. rest = [k \in 0 .. n |-> Body(rest, k)] BY <1>9, <1>11
<1>13. \A k \in 0..n : rest[k] = Body(rest, k) BY <1>12
<1>14. 0 \in 0..n /\ n \in 0..n OBVIOUS
<1> DEFINE G == {k \in 0..n : rest[k] = h[k]}
<1>15. 0 \in G BY <1>5, <1>7, <1>13, <1>14
<1>16. ASSUME NEW k \in 1..n, k - 1 \in G PROVE k \in G
  <2>1. k \in 0..n /\ rest[k - 1] = h[k - 1] BY <1>16
  <2>2. rest[k] = rest[k - 1] \div 256 BY <1>8, <1>13, <2>1
  <2>3. h[k] = h[k - 1] \div 256 BY <1>6
  <2>4. rest[k] = h[k] BY <2>1, <2>2, <2>3
  <2> QED BY <2>1, <2>4
<1> HIDE DEF G
<1>17. \A k \in 0..n : k \in G BY <1>15, <1>16, UpTo
<1>18. rest[n] = h[n] BY <1>14, <1>17 DEF G
<1> QED BY <1>1, <1>4, <1>5, <1>6, <1>18

\* The bytes of such a sum are its parts.
LEMMA BytesOfSum ==
  ASSUME NEW len \in Nat, NEW r \in [1 .. len -> 0 .. 255], NEW h, Sums(h, len, r), NEW k \in 1 .. len
  PROVE  ByteOf(h[len], len - k) = r[k]
<1> DEFINE n == len - k
           address == h[len]
<1>1. h \in [0 .. len -> Nat] BY DEF Sums
<1>2. n \in Nat /\ len \in 0 .. len /\ n \in 0 .. n OBVIOUS
<1>3. address \in Nat BY <1>1, <1>2
<1>4. \A j \in 0 .. n : len - j \in 0 .. len OBVIOUS
<1>5. len - n = k OBVIOUS
<1>6. \A j \in 1 .. n : len - j + 1 \in 1 .. len /\ len - (j - 1) = len - j + 1 OBVIOUS
<1>7. address = h[len] OBVIOUS
<1>17. \A x \in 1 .. len : h[x] = 256 * h[x - 1] + r[x]
  <2>1. MoreBytes(h, len, r) BY SumsOfBytes
  <2> QED BY <2>1 DEF MoreBytes
<1> HIDE DEF n, address
<1>8. PICK g \in [0 .. n -> Nat] :
        /\ g[0] = address /\ (\A j \in 1 .. n : g[j] = g[j - 1] \div 256)
        /\ ByteOf(address, n) = g[n] % 256
  BY <1>2, <1>3, RestsAre
<1> DEFINE G == {j \in 0 .. n : g[j] = h[len - j]}
<1>9. 0 \in G
  <2>1. 0 \in 0 .. n /\ len - 0 = len BY <1>2
  <2> QED BY <1>7, <1>8, <2>1
<1>10. ASSUME NEW x \in 1 .. len PROVE h[x] \div 256 = h[x - 1] /\ h[x] % 256 = r[x]
  <2> DEFINE s == h[x - 1]
             b == r[x]
  <2>1. x - 1 \in 0 .. len OBVIOUS
  <2>2. s \in Nat /\ b \in 0 .. 255 BY <1>1, <2>1
  <2>3. h[x] = 256 * s + b BY <1>17
  <2> HIDE DEF s, b
  <2>4. (256 * s + b) \div 256 = s /\ (256 * s + b) % 256 = b BY <2>2, SMT
  <2> QED BY <2>3, <2>4 DEF s, b
<1>11. ASSUME NEW j \in 1 .. n, j - 1 \in G PROVE j \in G
  <2> DEFINE x == len - j + 1
  <2>1. x \in 1 .. len /\ len - (j - 1) = x BY <1>6
  <2>2. x - 1 = len - j /\ j \in 0 .. n BY <1>2
  <2> HIDE DEF x
  <2>3. g[j - 1] = h[x] BY <1>11, <2>1
  <2>4. g[j] = g[j - 1] \div 256 BY <1>8
  <2>5. h[x] \div 256 = h[x - 1] BY <1>10, <2>1
  <2>6. g[j] = h[len - j] BY <2>2, <2>3, <2>4, <2>5
  <2> QED BY <2>2, <2>6
<1> HIDE DEF G
<1>12. \A j \in 0 .. n : j \in G BY <1>2, <1>9, <1>11, UpTo
<1>13. g[n] = h[len - n] BY <1>2, <1>12 DEF G
<1>14. g[n] = h[k] BY <1>5, <1>13
<1>15. h[k] % 256 = r[k] BY <1>10
<1>16. ByteOf(address, n) = r[k] BY <1>8, <1>14, <1>15
<1> QED BY <1>16 DEF n, address

\* The values of the parts of an item are numbers.
LEMMA PartsResolve ==
  ASSUME NEW ps \in Seq(Part), NEW i \in Nat, NEW k \in 1 .. Len(ps)
  PROVE  Resolve(ps[k], i) \in Nat
<1>1. ps[k] \in Part BY ElementOfSeq
<1> DEFINE a == ps[k].a
           b == ps[k].b
<1>2. a \in 0 .. 255 /\ b \in 0 .. 255 BY <1>1 DEF Part
<1>3. Resolve(ps[k], i) = a + b * i BY DEF Resolve
<1> HIDE DEF a, b
<1>4. a \in Nat /\ b \in Nat BY <1>2
<1>5. b * i \in Nat BY <1>4
<1>6. a + b * i \in Nat BY <1>4, <1>5
<1> QED BY <1>3, <1>6

\* The addresses of an item have the parts at their number, unless one grows over a byte.
LEMMA AddressHasParts ==
  ASSUME parts \in Seq(Part), NEW i \in Nat, \A k \in 1 .. Len(parts) : Keeps(Resolve(parts[k], i)),
         NEW k \in 1 .. Len(parts)
  PROVE  ByteOf(AddressAt(i), Len(parts) - k) = Resolve(parts[k], i)
<1> DEFINE len == Len(parts)
           r == [x \in 1 .. len |-> Resolve(parts[x], i)]
<1>1. len \in Nat /\ Len(parts) = len BY LenProperties
<1>2. \A x \in 1 .. len : Resolve(parts[x], i) \in 0 .. 255
  <2>1. ASSUME NEW x \in 1 .. len PROVE Resolve(parts[x], i) \in 0 .. 255
    <3>1. Resolve(parts[x], i) \in Nat BY PartsResolve
    <3>2. Resolve(parts[x], i) <= 255 BY DEF Keeps
    <3>3. \A v \in Nat : v <= 255 => v \in 0 .. 255 OBVIOUS
    <3> QED BY <3>1, <3>2, <3>3
  <2> QED BY <2>1
<1>3. k \in 1 .. len OBVIOUS
<1> HIDE DEF len
<1>4. r \in [1 .. len -> 0 .. 255] /\ r \in [1 .. len -> Nat]
  <2>1. r \in [1 .. len -> 0 .. 255] BY <1>2
  <2> HIDE DEF r
  <2>2. ASSUME NEW x \in 1 .. len PROVE r[x] \in Nat
    <3>1. r[x] \in 0 .. 255 BY <2>1
    <3>2. \A v \in 0 .. 255 : v \in Nat OBVIOUS
    <3> QED BY <3>1, <3>2, Zenon
  <2> QED BY <2>1, <2>2
<1>5. \A x \in 1 .. len : Resolve(parts[x], i) = r[x] OBVIOUS
<1> HIDE DEF r
<1>6. PICK h : Sums(h, len, r) /\ AddressAt(i) = h[len] BY <1>1, <1>4, <1>5, SumsAre
<1>7. ByteOf(h[len], len - k) = r[k] BY <1>1, <1>3, <1>4, <1>6, BytesOfSum
<1> QED BY <1>3, <1>5, <1>6, <1>7 DEF len

-----------------------------------------------------------------------------
(* Hardware addresses in pairs of digits. *)

\* Two digits are a number.
LEMMA PairValue ==
  ASSUME NEW t, NEW i, i \in Nat \ {0}, t[i] \in DigitsOf(16), t[i + 1] \in DigitsOf(16)
  PROVE  Numbers(t, i, i + 1, 16) = {16 * Digit[t[i]] + Digit[t[i + 1]]}
<1> DEFINE a == Digit[t[i]]
           b == Digit[t[i + 1]]
<1>1. 16 \in {10, 16} OBVIOUS
<1>2. a \in 0 .. 15 /\ b \in 0 .. 15 BY <1>1, DigitsAre
<1>3. AllDigits(t, i, i + 1, 16)
  <2>1. \A k \in i .. i + 1 : k = i \/ k = i + 1 OBVIOUS
  <2> QED BY <2>1 DEF AllDigits
<1>4. AllDigits(t, i, i, 16) /\ AllDigits(t, i, i - 1, 16)
  <2>1. \A k \in i .. i : k = i OBVIOUS
  <2>2. \A k \in i .. i - 1 : FALSE OBVIOUS
  <2> QED BY <2>1, <2>2 DEF AllDigits
<1> DEFINE j == i + 1
           m == i - 1
<1>5. /\ j \in Nat /\ j >= i /\ j - 1 = i /\ m \in Nat /\ m < i /\ i - 1 = m /\ i \in Nat /\ i >= i
  OBVIOUS
<1>6. AllDigits(t, i, j, 16) /\ AllDigits(t, i, m, 16) BY <1>3, <1>4
<1>7. b = Digit[t[j]] OBVIOUS
<1>8. j = i + 1 OBVIOUS
<1>9. a = Digit[t[i]] OBVIOUS
<1> HIDE DEF j, m, a, b
<1>10. ValueOf(t, i, m, 16) = 0 BY <1>1, <1>5, <1>6, ValueSteps
<1>11. ValueOf(t, i, i, 16) = ValueOf(t, i, i - 1, 16) * 16 + Digit[t[i]] BY <1>1, <1>4, <1>5, ValueSteps
<1>12. ValueOf(t, i, i, 16) = a BY <1>2, <1>5, <1>9, <1>10, <1>11
<1>13. ValueOf(t, i, j, 16) = ValueOf(t, i, j - 1, 16) * 16 + Digit[t[j]] BY <1>1, <1>5, <1>6, ValueSteps
<1>14. ValueOf(t, i, j, 16) = 16 * a + b BY <1>2, <1>5, <1>7, <1>12, <1>13
<1>15. 16 * a + b \in 0 .. 255 BY <1>2
<1>16. Numbers(t, i, j, 16) = {16 * a + b} BY <1>5, <1>6, <1>14, <1>15 DEF Numbers, AllDigits
<1> QED BY <1>7, <1>8, <1>9, <1>16

\* The characters of an address in pairs
LEMMA PairsAre ==
  ASSUME NEW t \in Text, InPairs(t)
  PROVE  /\ \A k \in 1 .. Len(t) : k % 3 = 0 => t[k] = ":"
         /\ \A k \in 1 .. Len(t) : k % 3 # 0 => t[k] \in DigitsOf(16) /\ t[k] \in DOMAIN Digit /\ t[k] # ":"
<1>1. DOMAIN t = 1 .. Len(t) BY LenProperties DEF Text
<1>2. ASSUME NEW c \in DOMAIN Digit PROVE c \in DigitsOf(16) /\ c # ":"
  <2>1. Digit[c] \in 0 .. 15 /\ c \notin Marks BY FormulaAssumption
  <2>2. Digit[c] < 16 BY <2>1
  <2>3. ":" \in Marks BY MarksDiffer
  <2> QED BY <2>1, <2>2, <2>3 DEF DigitsOf
<1> QED BY <1>1, <1>2 DEF InPairs

\* Each piece is a pair.
LEMMA PairCuts ==
  ASSUME NEW t \in Text, NEW f \in Formats, f.separator = ":", InPairs(t), NEW count \in Nat \ {0},
         f.count = count, Len(t) = 3 * count - 1
  PROVE  \A k \in 0 .. count : Cut(t, f)[k] = 3 * k
<1>1. f.base = 16 BY FormulaAssumption
<1>2. /\ Cut(t, f)[0] = 0
      /\ \A k \in 1 .. f.count : Cut(t, f)[k] = PieceEnd(t, f, k, Cut(t, f)[k - 1] + 1)
  BY CutsFollow
<1>3. /\ \A k \in 1 .. Len(t) : k % 3 = 0 => t[k] = ":"
      /\ \A k \in 1 .. Len(t) : k % 3 # 0 => t[k] \in DigitsOf(16) /\ t[k] # ":"
  BY PairsAre
<1>7. Len(t) \in Nat /\ Len(t) = 3 * count - 1 OBVIOUS
<1> DEFINE G == {k \in 0 .. count : Cut(t, f)[k] = 3 * k}
<1>4. 0 \in G BY <1>2
<1>5. ASSUME NEW k \in 1 .. count, k - 1 \in G PROVE k \in G
  <2> DEFINE i == 3 * k - 2
             m == 3 * k
  <2>1. Cut(t, f)[k - 1] + 1 = i BY <1>5
  <2>2. Cut(t, f)[k] = PieceEnd(t, f, k, i) BY <1>2, <2>1
  <2>3. i \in Nat \ {0} /\ i % 3 # 0 /\ m \in Nat /\ m % 3 = 0 /\ m = i + 2 /\ m - 1 = i + 1 /\ m >= i OBVIOUS
  <2>4. i + 1 \in 1 .. Len(t) /\ i \in 1 .. Len(t) /\ (i + 1) % 3 # 0 /\ m \in 1 .. Len(t) + 1 BY <1>7
  <2>11. m = 3 * k /\ (k < count => m <= Len(t)) /\ (k = count => i + 1 = Len(t)) BY <1>7
  <2> HIDE DEF i, m
  <2>5. t[i] \in DigitsOf(16) /\ t[i + 1] \in DigitsOf(16) /\ t[i] # ":" /\ t[i + 1] # ":"
    BY <1>3, <2>3, <2>4
  <2>6. \A x \in i .. i + 1 : x = i \/ x = i + 1 BY <2>3
  <2>7. PieceEnd(t, f, k, i) = m
    <3>1. CASE k < count
      <4>1. NoSeparator(t, f, i, m - 1) BY <2>3, <2>5, <2>6 DEF NoSeparator
      <4>2. m <= Len(t) => m >= i /\ t[m] = f.separator BY <1>3, <1>7, <2>3, <2>4
      <4> QED BY <2>3, <2>4, <3>1, <4>1, <4>2, EndsAtSeparator
    <3>2. CASE k = count
      <4>1. Len(t) = i + 1 /\ Len(t) + 1 = m BY <2>3, <2>11, <3>2
      <4>2. AllDigits(t, i, Len(t), f.base) BY <1>1, <2>5, <2>6, <4>1 DEF AllDigits
      <4>3. ~(k < f.count) BY <3>2
      <4>4. PieceEnd(t, f, k, i) = Len(t) + 1 BY <2>3, <4>2, <4>3, EndsBehind
      <4> QED BY <4>1, <4>4
    <3> QED BY <3>1, <3>2
  <2>8. Cut(t, f)[k] = 3 * k BY <2>2, <2>7, <2>11
  <2>9. k \in 0 .. count OBVIOUS
  <2> QED BY <2>8, <2>9
<1> HIDE DEF G
<1>6. \A k \in 0 .. count : k \in G BY <1>4, <1>5, UpTo
<1> QED BY <1>6 DEF G

\* What each of them means
LEMMA PairMeans ==
  ASSUME NEW t \in Text, NEW f \in Formats, f.separator = ":", InPairs(t), NEW count \in Nat \ {0},
         f.count = count, Len(t) = 3 * count - 1, NEW k \in 1 .. count
  PROVE  /\ t[3 * k - 2] \in DOMAIN Digit /\ t[3 * k - 1] \in DOMAIN Digit
         /\ MeaningAt(t, f, k) = {Constant(16 * Digit[t[3 * k - 2]] + Digit[t[3 * k - 1]])}
<1> DEFINE i == 3 * k - 2
           j == 3 * k - 1
<1>1. /\ i \in Nat \ {0} /\ j = i + 1 /\ i \in 1 .. Len(t) /\ j \in 1 .. Len(t) /\ i % 3 # 0 /\ j % 3 # 0
      /\ i \in Int /\ j \in Int
  OBVIOUS
<1>2. f.base = 16 BY FormulaAssumption
<1>3. Cut(t, f)[k - 1] + 1 = i /\ Cut(t, f)[k] - 1 = j
  <2>1. k \in 0 .. count /\ k - 1 \in 0 .. count OBVIOUS
  <2>2. \A x \in 0 .. count : Cut(t, f)[x] = 3 * x BY PairCuts
  <2>3. Cut(t, f)[k] = 3 * k /\ Cut(t, f)[k - 1] = 3 * (k - 1) BY <2>1, <2>2
  <2> QED BY <2>3
<1> HIDE DEF i, j
<1>4. \A x \in 1 .. Len(t) : x % 3 # 0 => t[x] \in DigitsOf(16) /\ t[x] \in DOMAIN Digit BY PairsAre
<1>5. t[i] \in DigitsOf(16) /\ t[j] \in DigitsOf(16) /\ t[i] \in DOMAIN Digit /\ t[j] \in DOMAIN Digit
  BY <1>1, <1>4
<1>6. t[i + 1] \in DigitsOf(16) BY <1>1, <1>5
<1>7. Numbers(t, i, i + 1, 16) = {16 * Digit[t[i]] + Digit[t[i + 1]]} BY <1>1, <1>5, <1>6, PairValue
<1> DEFINE v == 16 * Digit[t[i]] + Digit[t[j]]
<1>8. Numbers(t, i, j, 16) = {v} BY <1>1, <1>7
<1> HIDE DEF v
<1>9. 16 \in {10, 16} OBVIOUS
<1>10. PieceMeans(t, i, j, 16) = {Constant(v)} BY <1>1, <1>8, <1>9, MeansNumber
<1>11. MeaningAt(t, f, k) = PieceMeans(t, i, j, 16) BY <1>2, <1>3 DEF MeaningAt
<1>12. MeaningAt(t, f, k) = {Constant(v)} BY <1>10, <1>11
<1> QED BY <1>5, <1>12 DEF i, j, v

\* A list and a field read such an address alike.
LEMMA AlikeRead ==
  ASSUME text \in Text, format \in Formats, Accepted(text, format, parts)
  PROVE  ReadAlike
<1> SUFFICES ASSUME format.separator = ":", InPairs(text), Len(text) = 3 * format.count - 1
             PROVE  MacOfText(text, format.count) = {[k \in DOMAIN parts |-> Resolve(parts[k], 0)]}
  BY DEF ReadAlike
<1> DEFINE count == format.count
           t == text
           a(k) == Digit[t[3 * k - 2]]
           b(k) == Digit[t[3 * k - 1]]
           values == [k \in 1 .. count |-> {16 * x + y : x \in HexDigitToDecimalValue(t[3 * k - 2]),
                                                         y \in HexDigitToDecimalValue(t[3 * k - 1])}]
           bytes == [k \in 1 .. count |-> CHOOSE v \in values[k] : TRUE]
<1>1. count \in Nat \ {0} /\ format.count = count BY FormulaAssumption
<1>2. DOMAIN parts = 1 .. count BY LenProperties DEF Accepted
<1>3. Len(t) = 3 * count - 1 OBVIOUS
<1>4. ASSUME NEW k \in 1 .. count
      PROVE  /\ t[3 * k - 2] \in DOMAIN Digit /\ t[3 * k - 1] \in DOMAIN Digit
             /\ MeaningAt(t, format, k) = {Constant(16 * a(k) + b(k))}
  <2> HIDE DEF count
  <2> QED BY <1>1, <1>3, PairMeans
<1>5. \A k \in 1 .. count : MeaningAt(t, format, k) = {parts[k]} BY DEF Accepted
<1>6. \A k \in 1 .. count : a(k) \in 0 .. 15 /\ b(k) \in 0 .. 15 BY <1>4, FormulaAssumption
<1>7. MacOfText(t, count) =
        IF /\ Len(t) = 3 * count - 1
           /\ \A k \in 1 .. count - 1 : t[3 * k] = ":"
           /\ \A k \in 1 .. count : values[k] # {}
        THEN {bytes} ELSE {}
  BY DEF MacOfText
<1>8. ASSUME NEW k \in 1 .. count PROVE values[k] = {16 * a(k) + b(k)}
  <2>1. HexDigitToDecimalValue(t[3 * k - 2]) = {a(k)} BY <1>4 DEF HexDigitToDecimalValue
  <2>2. HexDigitToDecimalValue(t[3 * k - 1]) = {b(k)} BY <1>4 DEF HexDigitToDecimalValue
  <2> QED BY <2>1, <2>2
<1>9. ASSUME NEW k \in 1 .. count - 1 PROVE t[3 * k] = ":"
  <2>1. 3 * k \in 1 .. Len(t) /\ (3 * k) % 3 = 0 BY <1>1, <1>3
  <2>2. \A x \in 1 .. Len(t) : x % 3 = 0 => t[x] = ":" BY PairsAre
  <2> QED BY <2>1, <2>2
<1>10. ASSUME NEW k \in 1 .. count PROVE Resolve(parts[k], 0) = 16 * a(k) + b(k)
  <2> DEFINE v == 16 * a(k) + b(k)
  <2>5. \A x \in 0 .. 15, y \in 0 .. 15 : 16 * x + y \in Nat OBVIOUS
  <2>1. v \in Nat BY <1>6, <2>5
  <2>2. parts[k] = Constant(v) BY <1>4, <1>5
  <2> HIDE DEF v
  <2>3. Resolve(parts[k], 0) = v + 0 * 0 BY <2>2 DEF Resolve, Constant
  <2>4. Resolve(parts[k], 0) = v BY <2>1, <2>3
  <2> QED BY <2>4 DEF v
<1> HIDE DEF values, count, a, b, t
<1>11. MacOfText(t, count) = {bytes} BY <1>3, <1>7, <1>8, <1>9
<1>12. \A k \in 1 .. count : bytes[k] = Resolve(parts[k], 0) BY <1>8, <1>10
<1>13. bytes = [k \in 1 .. count |-> Resolve(parts[k], 0)] BY <1>12
<1> QED BY <1>2, <1>11, <1>13 DEF count, t

-----------------------------------------------------------------------------
\* The property, from the invariant
LEMMA FormulaSafe == FormulaInv => FormulasMeanTheirPieces
<1> SUFFICES ASSUME FormulaInv PROVE FormulasMeanTheirPieces OBVIOUS
<1>1. ASSUME place = "accepted"
      PROVE  /\ Len(parts) = format.count
             /\ \A k \in 1 .. format.count : MeaningAt(text, format, k) = {parts[k]}
             /\ ReadAlike
             /\ \A i \in 0 .. MaxCount - 1 :
                  (\A k \in DOMAIN parts : Keeps(Resolve(parts[k], i))) =>
                    \A k \in DOMAIN parts : ByteOf(AddressAt(i), Len(parts) - k) = Resolve(parts[k], i)
  <2>1. Accepted(text, format, parts) /\ text \in Text /\ format \in Formats BY <1>1 DEF FormulaInv
  <2>2. Len(parts) = format.count /\ \A k \in 1 .. format.count : MeaningAt(text, format, k) = {parts[k]}
    BY <2>1 DEF Accepted
  <2>3. ReadAlike BY <2>1, AlikeRead
  <2>4. parts \in Seq(Part) BY <2>1 DEF Accepted
  <2>5. DOMAIN parts = 1 .. Len(parts) BY <2>4, LenProperties
  <2>6. ASSUME NEW i \in 0 .. MaxCount - 1, \A k \in DOMAIN parts : Keeps(Resolve(parts[k], i)),
               NEW k \in DOMAIN parts
        PROVE  ByteOf(AddressAt(i), Len(parts) - k) = Resolve(parts[k], i)
    <3>1. i \in Nat BY FormulaAssumption
    <3>2. \A x \in 1 .. Len(parts) : Keeps(Resolve(parts[x], i)) BY <2>5, <2>6
    <3>3. k \in 1 .. Len(parts) BY <2>5
    <3> QED BY <2>4, <3>1, <3>2, <3>3, AddressHasParts
  <2> QED BY <2>2, <2>3, <2>6
<1>2. ASSUME place = "rejected" PROVE \E k \in 1 .. format.count : MeaningAt(text, format, k) = {}
  BY <1>2 DEF FormulaInv, Rejected
<1> QED BY <1>1, <1>2 DEF FormulasMeanTheirPieces

\* Exactly the texts whose pieces all mean something are accepted, with that meaning
\* (Formula::parseFormula), however long they are.
THEOREM FormulasAlwaysMeanTheirPieces == FormulaSpec => []FormulasMeanTheirPieces
<1>1. FormulaSpec => []FormulaInv BY FormulaStart, FormulaStep, PTL DEF FormulaSpec
<1> QED BY <1>1, FormulaSafe, PTL
=============================================================================
