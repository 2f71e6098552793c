------------------------------- MODULE Prices -------------------------------
(***************************************************************************)
(* The price arithmetic of package aggregator.  The code computes in       *)
(* float64; here a finite price is a natural number of units (One units    *)
(* are 1.0), and the two values that float64 arithmetic adds, an infinity  *)
(* and not-a-number, are constants that obey the IEEE 754 rules below.     *)
(* Rounding errors of float64 are abstracted: finite operations are exact, *)
(* then rounded to a unit.  Prices and gas prices are never negative:      *)
(* fetchers/converters.go rejects what is not positive.                    *)
(***************************************************************************)
EXTENDS Integers

CONSTANTS
    Inf,            \* math.Inf(1): a price divided by a token price of zero
    NaN,            \* math.NaN(): zero divided by zero
    One,            \* units in 1.0
    Epsilon,        \* epsilon of priceNotifier.go, in units
    GweiPerEth      \* 1 / weiNeg of gasPriceService.go

ASSUME SpecialsAssumption == Inf \notin Int /\ NaN \notin Int /\ Inf # NaN
ASSUME UnitsAssumption    == /\ One \in Nat \ {0}
                             /\ Epsilon \in Nat \ {0}
                             /\ GweiPerEth \in Nat \ {0}

Price == Nat \cup {Inf, NaN}
Finite(v) == v \notin {Inf, NaN}

(***************************************************************************)
(* trim: the multiple of the precision nearest to v, halves rounded up.    *)
(***************************************************************************)
Trim(v, precision) ==
    IF Finite(v)
    THEN ((2 * v + precision) \div (2 * precision)) * precision
    ELSE v

(***************************************************************************)
(* shouldNotify, for the recorded price, the new one and the threshold in  *)
(* percent.  A comparison with NaN is false, and the deviation from an     *)
(* infinite record is NaN: only the auto-send refreshes such a record.     *)
(***************************************************************************)
BypassPercentCheck(last, percent) == (Finite(last) /\ last < Epsilon) \/ percent = 0

DeviatesBy(last, new, percent) ==
    IF new >= last THEN (new - last) * 100 >= percent * last
                   ELSE (last - new) * 100 >= percent * last

\* Faulty variant: a new price that is infinite is not compared.
ShouldNotifyFiniteOnly(last, new, percent) ==
    \/ BypassPercentCheck(last, percent)
    \/ Finite(last) /\ Finite(new) /\ DeviatesBy(last, new, percent)

ShouldNotify(last, new, percent) ==
    \/ BypassPercentCheck(last, percent)
    \/ Finite(last) /\ new = Inf
    \/ Finite(last) /\ Finite(new) /\ DeviatesBy(last, new, percent)

(***************************************************************************)
(* ethPrice * gasPrice * weiNeg, and nominalValue / tokenPrice.            *)
(***************************************************************************)
NominalValue(ethPrice, gasPrice) ==
    IF Finite(ethPrice) /\ Finite(gasPrice)
    THEN (ethPrice * gasPrice) \div GweiPerEth
    ELSE IF NaN \in {ethPrice, gasPrice} \/ 0 \in {ethPrice, gasPrice} THEN NaN ELSE Inf

Quotient(nominal, tokenPrice) ==
    IF Finite(nominal) /\ Finite(tokenPrice) /\ tokenPrice # 0
    THEN (nominal * One) \div tokenPrice
    ELSE IF \/ NaN \in {nominal, tokenPrice}
            \/ nominal = tokenPrice            \* Inf/Inf and 0/0
         THEN NaN
         ELSE IF tokenPrice = Inf THEN 0 ELSE Inf
=============================================================================
