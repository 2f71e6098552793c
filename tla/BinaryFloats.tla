---------------------------- MODULE BinaryFloats ----------------------------
(***************************************************************************)
(* float64 arithmetic with a smaller mantissa.  A positive float is a      *)
(* mantissa of MantissaBits bits, the first of them 1, times a power of    *)
(* two; an operation is exact, then rounded to the nearest float, ties to  *)
(* the even mantissa (IEEE 754).  The exponent is not bounded: float64     *)
(* neither overflows nor underflows on prices.                             *)
(***************************************************************************)
EXTENDS Integers

CONSTANT MantissaBits   \* 53 in a float64

ASSUME MantissaAssumption == MantissaBits \in Nat \ {0}

PowerOfTwo[n \in Nat] == IF n = 0 THEN 1 ELSE 2 * PowerOfTwo[n - 1]

HiddenBit == PowerOfTwo[MantissaBits - 1]
Mantissas == HiddenBit .. 2 * HiddenBit - 1
Zero == [m |-> 0, e |-> 0]
PositiveFloat == [m : Mantissas, e : Int]
Float == PositiveFloat \cup {Zero}

BitLength[n \in Nat] == IF n = 0 THEN 0 ELSE BitLength[n \div 2] + 1

\* n / d for positive d: the nearest integer, ties to the even one.
RoundTiesToEven(n, d) ==
    LET q == n \div d
        r == n % d
    IN  IF 2 * r > d \/ (2 * r = d /\ q % 2 = 1) THEN q + 1 ELSE q

\* The float nearest to n * 2^e.
Nearest(n, e) ==
    IF n = 0 THEN Zero
    ELSE LET shift == BitLength[n] - MantissaBits
             m     == IF shift <= 0 THEN n * PowerOfTwo[-shift]
                                     ELSE RoundTiesToEven(n, PowerOfTwo[shift])
         IN  IF m \in Mantissas THEN [m |-> m, e |-> e + shift]
                                ELSE [m |-> HiddenBit, e |-> e + shift + 1]

Times(a, b) == Nearest(a.m * b.m, a.e + b.e)

\* The last bit of the dividend stands for the remainder that was cut off.
DividedBy(a, b) ==
    LET guard    == MantissaBits + 2
        dividend == a.m * PowerOfTwo[guard]
        sticky   == IF dividend % b.m = 0 THEN 0 ELSE 1
    IN  Nearest(2 * (dividend \div b.m) + sticky, a.e - b.e - guard - 1)

\* The integer part, and math.Round: the nearest integer, halves upwards.
Truncated(a) ==
    IF a.e >= 0 THEN a.m * PowerOfTwo[a.e]
    ELSE IF -a.e > MantissaBits THEN 0 ELSE a.m \div PowerOfTwo[-a.e]

Rounded(a) ==
    IF a.e >= 0 THEN a
    ELSE IF -a.e > MantissaBits THEN Zero
    ELSE Nearest((2 * a.m + PowerOfTwo[-a.e]) \div PowerOfTwo[1 - a.e], 0)

\* The next float.
Successor(a) ==
    IF a.m + 1 \in Mantissas THEN [a EXCEPT !.m = a.m + 1]
                             ELSE [m |-> HiddenBit, e |-> a.e + 1]
=============================================================================
