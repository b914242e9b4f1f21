----------------------------- MODULE Conversions -----------------------------
(***************************************************************************)
(* The conversions of numbers to text in LogStream.cc: convert() and       *)
(* convertHex(), which write the digits last first and reverse them, and   *)
(* formatSI() and formatIEC(), which show three digits and a unit.         *)
(***************************************************************************)
EXTENDS Integers, Sequences, SequencesExt

CONSTANTS Integer,     \* arguments of convert() and, if not negative, of convertHex()
          SI, IEC      \* arguments of formatSI() and formatIEC(), see there

VARIABLES call,        \* the function and its argument
          text         \* what it may return


Abs(i) == IF i < 0 THEN -i ELSE i

\* Mutant: the remainder of a negative number is taken for a digit.
Digit_Signed(lsd) == lsd

\* zero[lsd], where the remainder of a negative number is negative.
Digit(lsd) == Abs(lsd)

\* i % base and i / base of C++, which truncate.
Rem(i, base) == IF i < 0 THEN -((-i) % base) ELSE i % base
Quot(i, base) == IF i < 0 THEN -((-i) \div base) ELSE i \div base

\* The digits of convert() and convertHex(), last first as they are written.
Digits(value, base) ==
  LET from[i \in -Abs(value) .. Abs(value)] ==
        <<Digit(Rem(i, base))>> \o (IF Quot(i, base) = 0 THEN <<>> ELSE from[Quot(i, base)])
  IN from[value]

convert(value) == [sign |-> value < 0, digits |-> Reverse(Digits(value, 10))]
convertHex(value) == [sign |-> FALSE, digits |-> Reverse(Digits(value, 16))]

\* What snprintf makes of v / d, to the nearest, a tie either way.
Rounded(v, d) == {q \in {v \div d, (v \div d) + 1} : 2 * Abs(q * d - v) <= d}

Shown(v, d, decimals) == {[number |-> q, decimals |-> decimals] : q \in Rounded(v, d)}

\* Mutant: the thresholds do not allow for rounding.
formatSI_Truncated(v) ==
  IF v < 1000000 THEN Shown(v, 1000, 2)
  ELSE IF v < 10000000 THEN Shown(v, 10000, 1)
  ELSE IF v < 99950000 THEN Shown(v, 100000, 0)
  ELSE Shown(v, 1000000, 2)

\* formatSI() of a number of at least 1000, v hundredths of a thousandth of the unit at hand:
\* k, M, G, T or P.  From 999.5 of it on the next one, M to E, is used.
formatSI(v) ==
  IF v < 999500 THEN Shown(v, 1000, 2)
  ELSE IF v < 9995000 THEN Shown(v, 10000, 1)
  ELSE IF v < 99950000 THEN Shown(v, 100000, 0)
  ELSE Shown(v, 1000000, 2)

\* formatIEC() of a number of at least 1024, v hundredths of 1/1024 of the unit at hand.
formatIEC(v) ==
  IF v < 1023488 THEN Shown(v, 1024, 2)
  ELSE IF v < 10234880 THEN Shown(v, 10240, 1)
  ELSE IF v < 104806400 THEN Shown(v, 102400, 0)
  ELSE Shown(v, 1048576, 2)

------------------------------------------------------------------------------
Init == call = <<"none">> /\ text = {}

Call(function, arguments, Result(_)) ==
  call[1] = "none" /\ \E v \in arguments : call' = <<function, v>> /\ text' = Result(v)

Next ==
  \/ Call("convert", Integer, LAMBDA v : {convert(v)})
  \/ Call("convertHex", Integer \intersect Nat, LAMBDA v : {convertHex(v)})
  \/ Call("formatSI", SI, formatSI)
  \/ Call("formatIEC", IEC, formatIEC)

Spec == Init /\ [][Next]_<<call, text>>

------------------------------------------------------------------------------
(* Properties. *)

\* The number that digits denote.
Value(digits, base) ==
  LET upTo[i \in 0 .. Len(digits)] == IF i = 0 THEN 0 ELSE base * upTo[i - 1] + digits[i]
  IN upTo[Len(digits)]

ReadsBack(t, v, base) ==
  /\ (IF t.sign THEN -Value(t.digits, base) ELSE Value(t.digits, base)) = v
  /\ \A i \in DOMAIN t.digits : t.digits[i] \in 0 .. base - 1
  /\ t.digits[1] = 0 => v = 0

Width(n) == IF n < 10 THEN 1 ELSE IF n < 100 THEN 2 ELSE IF n < 1000 THEN 3 ELSE 4

\* The characters before the unit: with decimals at least one digit before the point.
Characters(t) == Width(t.number) + (IF t.decimals > 0 THEN 1 ELSE 0)

\* convert() and convertHex() return the shortest numeral that reads back as the argument,
\* negative ones without taking their opposite, which INT_MIN lacks (LogStream.cc:47-89).  formatSI() returns
\* at most five characters and formatIEC() at most six, and both show at least three digits, on
\* either side of every threshold (LogStream.cc:97-210, LogStream.h:209-217).
ConversionsAreExact ==
  \A t \in text :
    CASE call[1] = "convert" -> ReadsBack(t, call[2], 10)
      [] call[1] = "convertHex" -> ReadsBack(t, call[2], 16)
      [] call[1] = "formatSI" -> Characters(t) + 1 <= 5 /\ t.number >= 100
      [] call[1] = "formatIEC" -> Characters(t) + 2 <= 6 /\ t.number >= 100
=============================================================================
