--------------------------- MODULE AddressFormula ---------------------------
(***************************************************************************)
(* The texts of addresses in the lists of a map file (map/builder/Formula, *)
(* ItemVisitor): parts with a separator between them, each a constant or a *)
(* formula {a+bi}, where i is the number of the address in its item.  The  *)
(* text is read one character at a time, in one pass.                      *)
(***************************************************************************)
EXTENDS Integers, SequencesExt

CONSTANTS
  Formats,     \* [separator, count, base] of the kinds of addresses
  Digit,       \* the values of the characters that are digits in base 16
  Characters,
  MaxText,     \* bound: the characters of a text
  MaxCount     \* bound: the addresses of an item

VARIABLES
  format,
  text,     \* history: what was read
  parts,    \* the parts so far: [a, b], b = 0 for a constant
  number,   \* the number in braces that is being read
  place     \* where in the text this is, "accepted" or "rejected"

formulaVars == <<format, text, parts, number, place>>

\* The characters that are no digits, and what ItemVisitor asks for
LeftBrace == "{"
RightBrace == "}"
Marks == {".", ":", LeftBrace, "+", "i", RightBrace}

ASSUME FormulaAssumption ==
  /\ \A f \in Formats : /\ f.separator \in {".", ":"} /\ f.count \in Nat \ {0} /\ f.base \in {10, 16}
                        /\ f.separator = ":" => f.base = 16
  /\ Digit \in [DOMAIN Digit -> 0 .. 15] /\ DOMAIN Digit \cap Marks = {}
  /\ MaxCount \in Nat

Constant(a) == [a |-> a, b |-> 0]
DigitsOf(base) == {c \in DOMAIN Digit : Digit[c] < base}
LastPart == Len(parts) = format.count
Keeps(value) == value <= 255

FormulaStarts(f) ==
  format = f /\ text = <<>> /\ parts = <<Constant(0)>> /\ number = 0 /\ place = "part"

FormulaInit == \E f \in Formats : FormulaStarts(f)

\* A digit of a constant part
ReadDigit(c) ==
  /\ c \in DigitsOf(format.base) /\ place \in {"part", "constant"}
  /\ LET a == Last(parts).a * format.base + Digit[c]
     IN IF Keeps(a) THEN parts' = Append(Front(parts), Constant(a)) /\ place' = "constant"
        ELSE place' = "rejected" /\ UNCHANGED parts
  /\ UNCHANGED number

\* Fault: an empty part is a part.
AfterAnything == {"part", "constant", "closed"}

AfterPart == {"constant", "closed"}

ReadSeparator(c) ==
  /\ c = format.separator /\ place \in AfterPart /\ ~LastPart
  /\ parts' = Append(parts, Constant(0)) /\ place' = "part"
  /\ UNCHANGED number

\* The formula in braces: its offset a, its factor b, which is 1 if it is not there.
OpenBrace(c) ==
  /\ c = LeftBrace /\ place = "part" /\ place' = "offset" /\ number' = 0 /\ UNCHANGED parts

ReadNumber(c) ==
  /\ c \in DigitsOf(10) /\ place \in {"offset", "offsetDigits", "factor", "factorDigits"}
  /\ number' = number * 10 + Digit[c]
  /\ place' = IF ~Keeps(number') THEN "rejected"
              ELSE IF place \in {"offset", "offsetDigits"} THEN "offsetDigits" ELSE "factorDigits"
  /\ UNCHANGED parts

ReadPlus(c) ==
  /\ c = "+" /\ place = "offsetDigits" /\ place' = "factor" /\ number' = 0
  /\ parts' = Append(Front(parts), Constant(number))

ReadVariable(c) ==
  /\ c = "i" /\ (place = "factor" \/ (place = "factorDigits" /\ number # 0))
  /\ parts' = Append(Front(parts), [Last(parts) EXCEPT !.b = IF place = "factor" THEN 1 ELSE number])
  /\ place' = "closing" /\ UNCHANGED number

CloseBrace(c) == c = RightBrace /\ place = "closing" /\ place' = "closed" /\ UNCHANGED <<parts, number>>

Ends == {"accepted", "rejected"}

\* A character that has no place here ends the loop: what follows a last constant is never
\* looked at.
Stops(c) ==
  \/ place = "part" /\ c # LeftBrace /\ c \notin DigitsOf(format.base)
  \/ place = "constant" /\ c \notin DigitsOf(format.base) /\ (c # format.separator \/ LastPart)
  \/ place = "closed" /\ (c # format.separator \/ LastPart)
  \/ place = "offset" /\ c \notin DigitsOf(10)
  \/ place = "offsetDigits" /\ c \notin DigitsOf(10) \cup {"+"}
  \/ place = "factor" /\ c \notin DigitsOf(10) \cup {"i"}
  \/ place = "factorDigits" /\ c \notin DigitsOf(10) /\ (c # "i" \/ number = 0)
  \/ place = "closing" /\ c # RightBrace

Completed == place = "constant" /\ LastPart

StopAt(c) ==
  /\ Stops(c) /\ place' = IF Completed THEN "accepted" ELSE "rejected"
  /\ UNCHANGED <<parts, number>>

ReadCharacter ==
  /\ place \notin Ends /\ Len(text) < MaxText
  /\ \E c \in Characters :
       /\ text' = Append(text, c)
       /\ \/ ReadDigit(c) \/ ReadSeparator(c) \/ OpenBrace(c) \/ ReadNumber(c) \/ ReadPlus(c)
          \/ ReadVariable(c) \/ CloseBrace(c) \/ StopAt(c)
  /\ UNCHANGED format

\* The end of the text, also right behind a last formula
EndOfText ==
  /\ place \notin Ends
  /\ place' = IF Completed \/ (place = "closed" /\ LastPart) THEN "accepted" ELSE "rejected"
  /\ UNCHANGED <<format, text, parts, number>>

\* a | b, as numbers of so many bits
Or(bits, a, b) ==
  LET or[n \in 0 .. bits] ==
        [x \in Nat |-> [y \in Nat |->
           IF n = 0 THEN 0
           ELSE 2 * or[n - 1][x \div 2][y \div 2] + (IF x % 2 = 1 \/ y % 2 = 1 THEN 1 ELSE 0)]]
  IN or[bits][a][b]

\* Formula::resolve, and the parts of an address put together with shifts and ors: what does
\* not fit into the address goes.
Resolve(part, i) == part.a + part.b * i
AddressAt(i) ==
  LET sum[k \in 0 .. Len(parts)] ==
        IF k = 0 THEN 0 ELSE Or(8 * k, sum[k - 1] * 256, Resolve(parts[k], i))
  IN sum[Len(parts)]

\* EthernetMACAddress of a text, for an address that is not in a list: pairs of digits.  A
\* colon in the place of a digit is a 3, as its character is that much below the A's.
HexDigitToDecimalValue(c) ==
  IF c \in DOMAIN Digit THEN {Digit[c]} ELSE IF c = ":" THEN {3} ELSE {}
MacOfText(t, count) ==
  LET values == [k \in 1 .. count |-> {16 * a + b : a \in HexDigitToDecimalValue(t[3 * k - 2]),
                                                   b \in HexDigitToDecimalValue(t[3 * k - 1])}]
  IN IF /\ Len(t) = 3 * count - 1
        /\ \A k \in 1 .. count - 1 : t[3 * k] = ":"
        /\ \A k \in 1 .. count : values[k] # {}
     THEN {[k \in 1 .. count |-> CHOOSE v \in values[k] : TRUE]} ELSE {}

FormulaNext == ReadCharacter \/ EndOfText

FormulaSpec == FormulaInit /\ [][FormulaNext]_formulaVars
-----------------------------------------------------------------------------
\* The value of the digits of t from i to j, and the number they are, if it is one.
ValueOf(t, i, j, base) ==
  LET value[k \in 0 .. j] == IF k < i THEN 0 ELSE value[k - 1] * base + Digit[t[k]] IN value[j]

Numbers(t, i, j, base) ==
  IF i <= j /\ \A k \in i .. j : t[k] \in DigitsOf(base)
  THEN {ValueOf(t, i, j, base)} \cap 0 .. 255 ELSE {}

\* What the piece of a text from i to j means: a number, or {a+bi} with numbers a and b, none
\* of them above 255.  A factor b that is not there is 1.
Factors(t, i, j) == IF i > j THEN {1} ELSE Numbers(t, i, j, 10) \ {0}
InBraces(t, i, j) == i < j /\ t[i] = LeftBrace /\ t[j - 1] = "i" /\ t[j] = RightBrace

PieceMeans(t, i, j, base) ==
  {Constant(a) : a \in Numbers(t, i, j, base)}
    \cup UNION {{[a |-> a, b |-> b] : a \in Numbers(t, i + 1, k - 1, 10), b \in Factors(t, k + 1, j - 2)} :
                k \in {k \in i + 1 .. j - 2 : InBraces(t, i, j) /\ t[k] = "+"}}

\* The pieces of a text lie between its cuts: the first separators, and the end, or where the
\* digits end with which the last piece starts.  Cuts that the text has not are behind it.
NextPlace(t, i, places) == Min({Len(t) + 1} \cup {k \in DOMAIN t : k >= i /\ k \in places})

PieceEnd(t, f, k, i) ==
  LET separators == {n \in DOMAIN t : t[n] = f.separator}
      others == {n \in DOMAIN t : t[n] \notin DigitsOf(f.base)}
  IN IF k < f.count THEN NextPlace(t, i, separators)
     ELSE IF i \in others THEN Len(t) + 1 ELSE NextPlace(t, i, others)

Cut(t, f) ==
  LET cut[k \in 0 .. f.count] == IF k = 0 THEN 0 ELSE PieceEnd(t, f, k, cut[k - 1] + 1) IN cut

MeaningAt(t, f, k) == PieceMeans(t, Cut(t, f)[k - 1] + 1, Cut(t, f)[k] - 1, f.base)

\* A hardware address in pairs of digits means the same in a list and in a field.
InPairs(t) == \A k \in DOMAIN t : IF k % 3 = 0 THEN t[k] = ":" ELSE t[k] \in DOMAIN Digit
ReadAlike ==
  format.separator = ":" /\ InPairs(text) /\ Len(text) = 3 * format.count - 1 =>
    MacOfText(text, format.count) = {[k \in DOMAIN parts |-> Resolve(parts[k], 0)]}

\* A byte of an address, counted from its end
ByteOf(address, n) ==
  LET rest[k \in 0 .. n] == IF k = 0 THEN address ELSE rest[k - 1] \div 256 IN rest[n] % 256

\* Exactly the texts whose pieces all mean something are accepted, with that meaning, and with
\* the meaning that a field gives them; and as long as no part grows over 255, the addresses
\* of an item have the parts at their number.
FormulasMeanTheirPieces ==
  /\ place = "accepted" =>
       /\ Len(parts) = format.count
       /\ \A k \in 1 .. format.count : MeaningAt(text, format, k) = {parts[k]}
       /\ ReadAlike
       /\ \A i \in 0 .. MaxCount - 1 :
            (\A k \in DOMAIN parts : Keeps(Resolve(parts[k], i))) =>
              \A k \in DOMAIN parts : ByteOf(AddressAt(i), Len(parts) - k) = Resolve(parts[k], i)
  /\ place = "rejected" => \E k \in 1 .. format.count : MeaningAt(text, format, k) = {}
=============================================================================
