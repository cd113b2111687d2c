------------------------------ MODULE Numbers ------------------------------
(***************************************************************************)
(* The numbers of sensorpanel.c on their way from sysfs to the screen.  A  *)
(* number in text is its sign, its whole part and its fractional digits;   *)
(* every int stays below 2^31, as the values of the sensors do.            *)
(***************************************************************************)
EXTENDS Integers, Sequences

\* A text that holds a number, and what stands for one that could not be read.
TextForm == [neg : BOOLEAN, whole : Nat, frac : Seq(0..9)]
NoText == [neg |-> FALSE, whole |-> -1, frac |-> <<>>]
IsText(d) == d # NoText

\* Division of C, for a positive divisor.
CDiv(a, b) == IF a >= 0 THEN a \div b ELSE -((-a) \div b)

Signed(neg, n) == IF neg THEN -n ELSE n

ParseInt(d) == Signed(d.neg, d.whole)

\* The first digits of the fraction, or zeros where it has fewer; the rest is
\* skipped.
ParseFixed(d, digits) ==
    LET Digit(i) == IF i <= Len(d.frac) THEN d.frac[i] ELSE 0
        v[i \in 0..digits] == IF i = 0 THEN d.whole ELSE 10 * v[i - 1] + Digit(i)
    IN  Signed(d.neg, v[digits])

Fraction(n, decimals) == [i \in 1..decimals |-> (n \div 10^(decimals - i)) % 10]
Magnitude(n) == IF n < 0 THEN -n ELSE n

\* Mutant: the sign is that of the whole part, which -0.05 has not.
FmtSignOfWhole(value, decimals) ==
    LET n == Magnitude(value)
    IN  [neg |-> CDiv(value, 10^decimals) < 0, whole |-> n \div 10^decimals, frac |-> Fraction(n, decimals)]

FmtFixed(value, decimals) ==
    LET n == Magnitude(value)
    IN  [neg |-> value < 0, whole |-> n \div 10^decimals, frac |-> Fraction(n, decimals)]
=============================================================================
