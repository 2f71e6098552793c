------------------------------ MODULE Fetchers ------------------------------
(***************************************************************************)
(* Package fetchers: which market a fetcher asks its exchange for, and     *)
(* what it makes of the response.                                          *)
(*                                                                         *)
(* A price in a response is a string; what counts is whether it is missing,*)
(* no number, or which number it is.  A response is Failed (the request or *)
(* the decoding), or what the JSON decoder left in the response struct:    *)
(* a missing field is Blank, and so is every field when the body could not *)
(* be read, for HttpResponseGetter.Get returns nil then.                   *)
(*                                                                         *)
(* The reply of a fetcher is a price, NoAnswer (any error), or Crash (a    *)
(* panic, which ends the process: the goroutine does not recover).         *)
(***************************************************************************)
EXTENDS Prices, Sequences

CONSTANTS
    Failed, Blank, Malformed,   \* see above
    NoAnswer, Crash,            \* see above
    UsdNames,                   \* the quotes whose name contains "USD"
    Upper                       \* strings.ToUpper on the names of the configuration

ASSUME RepliesAssumption ==
    /\ {NoAnswer, Crash} \cap (Int \cup {Inf, NaN}) = {}
    /\ NoAnswer # Crash
    /\ Blank \notin Int /\ Malformed \notin Int

(***************************************************************************)
(* The exchanges, and the quote each of them knows for the dollar.         *)
(***************************************************************************)
ImplementedFetchers ==
    {"Binance", "Bitfinex", "Crypto.com", "Gemini", "HitBTC", "Huobi", "Kraken", "Okx"}
UsdtExchanges == {"Binance", "Crypto.com", "HitBTC", "Huobi", "Okx"}

NormalizeQuoteName(quote, name) ==
    IF quote \in UsdNames
    THEN IF name \in UsdtExchanges THEN "USDT" ELSE "USD"
    ELSE quote

(***************************************************************************)
(* What the response struct of each exchange can hold.                     *)
(***************************************************************************)
Quoted == Int \cup {Inf, NaN, Blank, Malformed}

ResponsesOf(name) ==
    {Failed} \cup
        IF name \in {"Binance", "Bitfinex", "Gemini", "HitBTC"} THEN Quoted
        ELSE IF name \in {"Crypto.com", "Okx"} THEN Seq(Quoted)
        ELSE IF name = "Huobi" THEN Int
        ELSE SUBSET [key : {Blank} \cup SUBSET STRING, prices : Seq(Quoted)]

(***************************************************************************)
(* StrToPositiveFloat64.  No comparison holds of NaN, so it passes.        *)
(***************************************************************************)
StrToPositiveFloat64(v) ==
    IF v \in {Blank, Malformed} \/ (v \in Int /\ v <= 0) THEN NoAnswer ELSE v

(***************************************************************************)
(* The FetchPrice methods: the replies to a response.  Four exchanges send *)
(* one price, two a list of which the first counts, Huobi a JSON number.   *)
(***************************************************************************)
OnePrice(response) ==
    IF response = Failed THEN NoAnswer ELSE StrToPositiveFloat64(response)
FirstPrice(response) ==
    IF response = Failed \/ response = << >> THEN NoAnswer
                                             ELSE StrToPositiveFloat64(response[1])

Binance(response)   == {OnePrice(response)}
Bitfinex(response)  == {OnePrice(response)}
Gemini(response)    == {OnePrice(response)}
Hitbtc(response)    == {OnePrice(response)}
Cryptocom(response) == {FirstPrice(response)}
Okx(response)       == {FirstPrice(response)}

\* Faulty variant: the price is not compared with zero.
HuobiUnchecked(response) == {IF response = Failed THEN NoAnswer ELSE response}

Huobi(response) ==
    {IF response = Failed THEN NoAnswer ELSE IF response <= 0 THEN NoAnswer ELSE response}

(***************************************************************************)
(* Kraken sends a map, walked in any order: the first entry that is blank, *)
(* has no price (v.Price[0] panics), or whose key contains the base or the *)
(* quote decides.  An entry is [key, prices], its key Blank or the set of  *)
(* the names it contains.                                                  *)
(***************************************************************************)
KrakenDecides(entry, base, quote) ==
    \/ entry.key = Blank
    \/ entry.prices = << >> \/ entry.prices[1] = Blank
    \/ {base, quote} \cap entry.key # {}

KrakenEntry(entry) ==
    IF entry.key = Blank THEN NoAnswer
    ELSE IF entry.prices = << >> THEN Crash ELSE StrToPositiveFloat64(entry.prices[1])

Kraken(response, base, quote) ==
    IF response = Failed THEN {NoAnswer}
    ELSE LET deciding == {e \in response : KrakenDecides(e, base, quote)}
         IN  IF deciding = {} THEN {NoAnswer} ELSE {KrakenEntry(e) : e \in deciding}

FetchPrice(name, base, quote, response) ==
    IF name = "Binance"         THEN Binance(response)
    ELSE IF name = "Bitfinex"   THEN Bitfinex(response)
    ELSE IF name = "Gemini"     THEN Gemini(response)
    ELSE IF name = "HitBTC"     THEN Hitbtc(response)
    ELSE IF name = "Crypto.com" THEN Cryptocom(response)
    ELSE IF name = "Okx"        THEN Okx(response)
    ELSE IF name = "Huobi"      THEN Huobi(response)
    ELSE Kraken(response, base, NormalizeQuoteName(quote, name))

(***************************************************************************)
(* The gas station: the number scanned from the selected field, of any     *)
(* sign.                                                                   *)
(***************************************************************************)
EvmGasPrice(response) ==
    IF response \in {Failed, Blank, Malformed} THEN NoAnswer ELSE response
=============================================================================
