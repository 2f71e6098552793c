--------------------------- MODULE GasConversion ---------------------------
(***************************************************************************)
(* aggregator/gasStation/gasPriceService.go: the check that a list of      *)
(* pairs can price gas, and the conversion of the gas price, fetched in    *)
(* GWEI, into every quote the list asks for.  A pair info is a record      *)
(* [base, quote, price, timestamp]; a list of them is a sequence.          *)
(***************************************************************************)
EXTENDS Prices, Sequences

gweiTicker == "GWEI"
ethTicker  == "ETH"
quoteUSD   == "USD"

(***************************************************************************)
(* VerifyRequiredPairs: gweiPairsMap and tokenUsdPairsMap, and the error.  *)
(***************************************************************************)
EthUsdIndices(pairs) ==
    {i \in DOMAIN pairs : pairs[i].base = ethTicker /\ pairs[i].quote = quoteUSD}
GweiQuotes(pairs) ==
    {pairs[i].quote : i \in {j \in DOMAIN pairs : pairs[j].base = gweiTicker}}
UsdBases(pairs) ==
    {pairs[i].base : i \in {j \in DOMAIN pairs : pairs[j].quote = quoteUSD}}

VerifyRequiredPairs(pairs) ==
    CASE GweiQuotes(pairs) = {} -> "ErrNoGasPairs"
      [] GweiQuotes(pairs) # {} /\ EthUsdIndices(pairs) # {}
         /\ GweiQuotes(pairs) \subseteq UsdBases(pairs) \cup {quoteUSD} -> "nil"
      [] OTHER -> "ErrMissingPairs"

(***************************************************************************)
(* ConvertGasPrices: the price of the first ETH/USD pair; targetTokensIndex*)
(* (the last TOKEN/USD pair of each token, ETH and GWEI left out); the     *)
(* quotes it can convert to; and the converted list.                       *)
(***************************************************************************)
EthPrice(pairs) ==
    pairs[CHOOSE i \in EthUsdIndices(pairs) : \A j \in EthUsdIndices(pairs) : i <= j].price

TargetIndices(pairs, token) ==
    {i \in DOMAIN pairs : /\ pairs[i].base = token /\ pairs[i].quote = quoteUSD
                          /\ token \notin {ethTicker, gweiTicker}}
TargetPrice(pairs, token) ==
    pairs[CHOOSE i \in TargetIndices(pairs, token) :
                \A j \in TargetIndices(pairs, token) : j <= i].price

TargetsFound(pairs) ==
    \A q \in GweiQuotes(pairs) \ {quoteUSD} : TargetIndices(pairs, q) # {}

\* Faulty variant: every quote is taken for USD.
GasPriceUndivided(pairs, quote, gasPrice) == NominalValue(EthPrice(pairs), gasPrice)

GasPriceIn(pairs, quote, gasPrice) ==
    LET nominalValue == NominalValue(EthPrice(pairs), gasPrice)
    IN  IF quote = quoteUSD THEN nominalValue
                            ELSE Quotient(nominalValue, TargetPrice(pairs, quote))

ConvertGasPrices(pairs, gasPrice) ==
    [i \in DOMAIN pairs |->
        IF pairs[i].base = gweiTicker
        THEN [pairs[i] EXCEPT !.price = GasPriceIn(pairs, pairs[i].quote, gasPrice)]
        ELSE pairs[i]]
=============================================================================
