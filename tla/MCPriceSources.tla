--------------------------- MODULE MCPriceSources ---------------------------
(***************************************************************************)
(* Instances of PriceSources for TLC.                                      *)
(***************************************************************************)
EXTENDS PriceSources

Dollars == {"USD", "USDT"}
UpperCase == [n \in {"ETH", "KLV", "USD", "USDT", "eth"} |-> IF n = "eth" THEN "ETH" ELSE n]

P(base, quote, exchanges) ==
    [base |-> base, quote |-> quote, decimals |-> 4, exchanges |-> exchanges]
Gas(quotes) ==
    [k \in DOMAIN quotes |-> [quote |-> quotes[k], base |-> "", decimals |-> 9,
                              exchanges |-> {"EVM gas price station"}]]
Config(list, gasQuotes, min) ==
    [pairs |-> list, gasPairs |-> Gas(gasQuotes), minResultsNum |-> min,
     autoSendInterval |-> 30]

(***************************************************************************)
(* Every exchange, and every kind of response to one pair.                 *)
(***************************************************************************)
OneConfig == {Config(<<P("ETH", "USD", ImplementedFetchers)>>, <<"USD">>, 3)}
NoInterval == {[c EXCEPT !.autoSendInterval = 0] : c \in OneConfig}

EveryResponse ==
    LET one  == {Failed, Blank, Malformed, 0, 5}
        list == {Failed, << >>, <<Blank>>, <<5, 0>>}
        entry(key, prices) == [key |-> key, prices |-> prices]
        map  == {Failed, {}, {entry(Blank, <<5>>)}, {entry({"ETH"}, << >>)},
                 {entry({"KLV"}, <<6>>), entry({"ETH", "USD"}, <<5>>)}, {entry({"USD"}, <<NaN>>)}}
    IN  [f \in ImplementedFetchers |->
            CASE f \in {"Crypto.com", "Okx"} -> list
              [] f = "Huobi" -> {Failed, 0, 5}
              [] f = "Kraken" -> map
              [] OTHER -> one]
EveryGasResponse == {Failed, Blank, 0, 5}

(***************************************************************************)
(* Many configurations of two or three exchanges: pairs in lower case,     *)
(* repeated, missing, with too few exchanges or an invalid field, a GWEI   *)
(* pair among them; gas quotes with and without the pairs their conversion *)
(* needs.                                                                  *)
(***************************************************************************)
FewExchanges == {"Binance", "Huobi"}
PairLists ==
    { << >>,
      <<P("ETH", "USD", FewExchanges)>>,
      <<P("eth", "USD", FewExchanges)>>,
      <<P("ETH", "USD", FewExchanges), P("eth", "USD", {"Binance"})>>,
      <<P("ETH", "USD", {"Huobi"}), P("KLV", "USD", FewExchanges)>>,
      <<P("KLV", "USD", FewExchanges), P("ETH", "USD", FewExchanges)>>,
      <<P("ETH", "USD", {"Binance"}), P("ETH", "USD", {"Huobi"})>>,
      <<P("KLV", "USDT", FewExchanges), P("ETH", "USD", FewExchanges)>>,
      <<P("ETH", "USD", FewExchanges), P("KLV", "USD", {})>>,
      <<P("GWEI", "USD", {"Binance"}), P("ETH", "USD", FewExchanges)>>,
      <<P("ETH", "USD", {"Binance", "Okex"})>> }
GasLists ==
    { << >>, <<"USD">>, <<"KLV">>, <<"KLV", "USD">>, <<"USD", "ETH">>, <<"USD", "GWEI">>, <<"">> }
ManyConfigs == {Config(p, g, min) : p \in PairLists, g \in GasLists, min \in 0 .. 3}

\* With all eight exchanges there is one more bound to be outside of.
EveryConfig ==
    OneConfig \cup NoInterval
        \cup {Config(p, g, min) : p \in PairLists, g \in GasLists, min \in {0, 1, 2, 9}}

PlainResponses == [f \in FewExchanges |-> {Failed, 5}]
PlainGasResponses == {Failed, 5}
=============================================================================
