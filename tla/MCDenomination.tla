--------------------------- MODULE MCDenomination ---------------------------
(***************************************************************************)
(* An instance of Denomination for TLC: floats of 10 bits and integers of  *)
(* 13, for prices from 2^-8 to 2^10.                                       *)
(***************************************************************************)
EXTENDS Denomination

OneOrTwo == {1, 2}
Lowest   == [m |-> HiddenBit, e |-> -8 - 9]
Nearly1Cent == [m |-> 650, e |-> -16]
Highest  == [m |-> 2 * HiddenBit - 1, e |-> 0]
Outcomes == {0, SignBit, 2 * SignBit - 1}
=============================================================================
