---------------------------- MODULE Denomination ----------------------------
(***************************************************************************)
(* How a price becomes the argument of the contract call, in the floats of *)
(* BinaryFloats: getAllPrices trims it, notify trims it again and makes it *)
(* an integer of Width bits (priceNotifier.go), and prepareTxData reads    *)
(* this integer as a signed one (kcNotifee.go).  A unit of a pair is       *)
(* 10^-decimals.                                                           *)
(*                                                                         *)
(* External: the builder writes a signed integer as big.Int.Bytes() does,  *)
(* which leaves out the sign.  The prices a pair goes through are, in this *)
(* model, a climb from float to float, which meets each of them; in        *)
(* between one price is Inf or NaN, as a converted gas price can be.       *)
(***************************************************************************)
EXTENDS BinaryFloats

CONSTANTS
    Decimals,           \* the decimals of the pairs
    Width,              \* 64 in uint64 and int64
    LowestPrice,        \* bound: where the climb starts
    HighestPrice,       \* bound: where it starts again
    OverflowResults,    \* what a conversion out of range may result in
    Inf, NaN

Unsigned == 0 .. PowerOfTwo[Width] - 1

ASSUME WidthAssumption    == Width \in Nat \ {0}
ASSUME OverflowAssumption == OverflowResults \subseteq Unsigned /\ OverflowResults # {}
ASSUME DecimalsAssumption == Decimals \subseteq Nat \ {0}
ASSUME PricesAssumption   ==
    /\ {LowestPrice, HighestPrice} \subseteq PositiveFloat
    /\ {Inf, NaN} \cap Float = {}

VARIABLES
    stage,          \* how far the price has come
    decimals,       \* of the pair
    price,          \* what the aggregator answered
    fetched,        \* priceInfo.price
    recorded,       \* pn.lastNotifiedPrices of the pair
    denominated,    \* ArgsPriceChanged.DenominatedPrice
    argument        \* what the contract is sent

vars == <<stage, decimals, price, fetched, recorded, denominated, argument>>

Finite(x) == x \notin {Inf, NaN}

(***************************************************************************)
(* newPair: the factor is 10^decimals, which is a float, and the precision *)
(* is the float nearest to 1 / 10^decimals.                                *)
(***************************************************************************)
PowerOfTen[n \in Nat] == IF n = 0 THEN 1 ELSE 10 * PowerOfTen[n - 1]

DenominationFactor == Nearest(PowerOfTen[decimals], 0)
TrimPrecision == DividedBy(Nearest(1, 0), DenominationFactor)

\* Faulty variant: what is less than a unit is cut off.
TrimCutsOff(x) ==
    IF Finite(x)
    THEN Times(Nearest(Truncated(DividedBy(x, TrimPrecision)), 0), TrimPrecision)
    ELSE x

Trim(x) ==
    IF Finite(x) THEN Times(Rounded(DividedBy(x, TrimPrecision)), TrimPrecision) ELSE x

Init ==
    /\ stage = "answered" /\ decimals \in Decimals
    /\ price = LowestPrice
    /\ fetched = Zero /\ recorded = Zero
    /\ denominated = 0 /\ argument = 0

GetAllPrices ==
    /\ stage = "answered" /\ stage' = "fetched"
    /\ fetched' = Trim(price)
    /\ UNCHANGED <<decimals, price, recorded, denominated, argument>>

(***************************************************************************)
(* notify.                                                                 *)
(***************************************************************************)
\* Faulty variant: integers of any size.
ToUnlimited(x) == IF Finite(x) THEN {Truncated(x)} ELSE OverflowResults

\* The conversion of a float that is in range, or is not.
ToUnsigned(x) ==
    IF Finite(x) /\ Truncated(x) \in Unsigned THEN {Truncated(x)} ELSE OverflowResults

Scaled(x) == IF Finite(x) THEN Times(x, DenominationFactor) ELSE x

Notify ==
    /\ stage = "fetched" /\ stage' = "notified"
    /\ recorded' = Trim(fetched)
    /\ denominated' \in ToUnsigned(Scaled(recorded'))
    /\ UNCHANGED <<decimals, price, fetched, argument>>

(***************************************************************************)
(* prepareTxData.                                                          *)
(***************************************************************************)
SignBit == PowerOfTwo[Width - 1]

\* Faulty variant: the price is read as an integer of half the width.
MagnitudeOfHalf(u) ==
    LET low  == u % PowerOfTwo[Width \div 2]
        sign == PowerOfTwo[Width \div 2 - 1]
    IN  IF low < sign THEN low ELSE 2 * sign - low

\* The bytes of int64(u).
Magnitude(u) == IF u < SignBit THEN u ELSE 2 * SignBit - u

PrepareTxData ==
    /\ stage = "notified" /\ stage' = "sent"
    /\ argument' = Magnitude(denominated)
    /\ UNCHANGED <<decimals, price, fetched, recorded, denominated>>

(***************************************************************************)
(* The next answer of the aggregator.                                      *)
(***************************************************************************)
NextPrice ==
    /\ stage = "sent" /\ stage' = "answered"
    /\ \/ price' = IF price = HighestPrice \/ ~Finite(price) THEN LowestPrice ELSE Successor(price)
       \/ price = HighestPrice /\ price' \in {Inf, NaN}
    /\ UNCHANGED <<decimals, fetched, recorded, denominated, argument>>

Next == GetAllPrices \/ Notify \/ PrepareTxData \/ NextPrice

Spec == Init /\ [][Next]_vars
-----------------------------------------------------------------------------
TypeOK ==
    /\ stage \in {"answered", "fetched", "notified", "sent"}
    /\ decimals \in Decimals
    /\ {price, fetched, recorded} \subseteq Float \cup {Inf, NaN}
    /\ denominated \in Unsigned /\ argument \in 0 .. SignBit

(***************************************************************************)
(* The units in a price, by exact arithmetic.  Up to a quarter of what a   *)
(* mantissa can count (2^51 units), the float of a price tells its units   *)
(* apart.                                                                  *)
(***************************************************************************)
Units(p) ==
    LET n == 2 * p.m * PowerOfTen[decimals]
    IN  IF p.e >= 0 THEN (n * PowerOfTwo[p.e]) \div 2
                    ELSE (n + PowerOfTwo[-p.e]) \div PowerOfTwo[1 - p.e]

Countable(p) == Finite(p) /\ Units(p) < HiddenBit \div 2

(***************************************************************************)
(* Trimming the trimmed price again changes nothing: the price recorded as *)
(* notified is the very price the decision to notify was made on, so an    *)
(* unchanged price has no deviation from it.                               *)
(***************************************************************************)
RecordedAsDecided == stage = "notified" /\ Countable(price) => recorded = fetched

(***************************************************************************)
(* Two divisions, two products, two roundings and two conversions later,   *)
(* the contract is sent the price to within one unit.                      *)
(***************************************************************************)
SentWithinOneUnit ==
    stage = "sent" /\ Countable(price) => argument - Units(price) \in -1 .. 1

(***************************************************************************)
(* A higher price never arrives as a lower one, however large it is, as    *)
(* long as its units fit into an int64.                                    *)
(***************************************************************************)
HigherNeverSentLower ==
    [][ /\ PrepareTxData /\ Finite(price) /\ price # LowestPrice
        /\ Truncated(Scaled(recorded)) < SignBit
        => argument' >= argument ]_vars

(***************************************************************************)
(* A price that is the float nearest to a number of units arrives as this  *)
(* number: what the price was rounded to is not cut off again.             *)
(***************************************************************************)
RoundedNotCutOff ==
    LET k == Units(price) IN
    stage = "sent" /\ Countable(price) /\ price = DividedBy(Nearest(k, 0), DenominationFactor)
        => argument = k
=============================================================================
