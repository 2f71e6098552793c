---------------------------- MODULE PriceSources ----------------------------
(***************************************************************************)
(* cmd/oracle/main.go: the pairs of the configuration are registered with  *)
(* the fetchers of their exchanges and handed to the price notifier, which *)
(* then polls.  A round asks every fetcher for every pair (the aggregator  *)
(* upper-cases the names first), counts the answers, and converts the gas  *)
(* price; which prices come out is left to PriceAggregator and             *)
(* PriceNotifier, here it is who they come from and whether the round      *)
(* succeeds.                                                               *)
(*                                                                         *)
(* A pair is a record [base, quote, decimals, exchanges].  The process may *)
(* be started again at any time, with the same configuration.              *)
(***************************************************************************)
EXTENDS Fetchers, GasConversion, FiniteSets

CONSTANTS
    Configs,        \* records [pairs, gasPairs, minResultsNum, autoSendInterval]
    Exchanges,      \* the keys of ImplementedFetchers
    Responses,      \* the responses of each exchange
    GasResponses,   \* the responses of the gas station
    NotAsked

PairArgs == [base : STRING, quote : STRING, decimals : Nat, exchanges : SUBSET STRING]

ASSUME ConfigsAssumption ==
    Configs \subseteq [pairs : Seq(PairArgs), gasPairs : Seq(PairArgs),
                       minResultsNum : Int, autoSendInterval : Int]
ASSUME ExchangesAssumption ==
    Exchanges \subseteq ImplementedFetchers /\ IsFiniteSet(Exchanges)
ASSUME ResponsesAssumption == \A f \in Exchanges : Responses[f] \subseteq ResponsesOf(f)
ASSUME NotAskedAssumption  == NotAsked # NoAnswer /\ NotAsked \notin Int \cup {Inf, NaN}

VARIABLES
    config,
    stage,          \* where startOracle is, or the round
    next,           \* the loop index
    knownPairs,     \* baseFetcher.knownPairs of every exchange
    gasKnownPairs,  \* and of the gas price fetcher
    pairs,          \* the pairs of the price notifier
    answers,        \* what each fetcher replied for the current pair
    sources,        \* who answered for the pairs fetched in this round
    outcome,        \* what the last round returned
    healthy         \* history: in this round everyone asked gave a usable price

registry == <<knownPairs, gasKnownPairs, pairs>>
vars == <<config, stage, next, registry, answers, sources, outcome, healthy>>

NobodyAsked == [f \in Exchanges |-> NotAsked]

StartState ==
    /\ stage' = "start" /\ next' = 1
    /\ knownPairs' = [f \in Exchanges |-> {}] /\ gasKnownPairs' = {} /\ pairs' = << >>
    /\ answers' = NobodyAsked /\ sources' = << >>
    /\ outcome' = "none" /\ healthy' = TRUE

Init ==
    /\ config \in Configs
    /\ stage = "start" /\ next = 1
    /\ knownPairs = [f \in Exchanges |-> {}] /\ gasKnownPairs = {} /\ pairs = << >>
    /\ answers = NobodyAsked /\ sources = << >>
    /\ outcome = "none" /\ healthy = TRUE

(***************************************************************************)
(* createPriceFetchers and NewPriceAggregator.                             *)
(***************************************************************************)
CreateFetchers ==
    /\ stage = "start"
    /\ stage' = IF config.minResultsNum \in 1 .. Cardinality(Exchanges)
                THEN "register" ELSE "exited"
    /\ UNCHANGED <<config, next, registry, answers, sources, outcome, healthy>>

(***************************************************************************)
(* The two loops over the configuration, addPairToFetchers and AddPair.    *)
(***************************************************************************)
Key(pair) == <<pair.base, pair.quote>>

\* Faulty variant: the pair is added to every fetcher.
AddPairToAll(pair) == [f \in Exchanges |-> knownPairs[f] \cup {Key(pair)}]

AddPairToFetchers(pair) ==
    [f \in Exchanges |-> IF f \in pair.exchanges THEN knownPairs[f] \cup {Key(pair)}
                                                 ELSE knownPairs[f]]

AddPair ==
    /\ stage = "register" /\ next \in DOMAIN config.pairs
    /\ knownPairs' = AddPairToFetchers(config.pairs[next])
    /\ pairs' = Append(pairs, config.pairs[next])
    /\ next' = next + 1
    /\ UNCHANGED <<config, stage, gasKnownPairs, answers, sources, outcome, healthy>>

GasPair == [config.gasPairs[next - Len(config.pairs)] EXCEPT !.base = gweiTicker]

AddGasPair ==
    /\ stage = "register" /\ next - Len(config.pairs) \in DOMAIN config.gasPairs
    /\ gasKnownPairs' = gasKnownPairs \cup {Key(GasPair)}
    /\ pairs' = Append(pairs, GasPair)
    /\ next' = next + 1
    /\ UNCHANGED <<config, stage, knownPairs, answers, sources, outcome, healthy>>

(***************************************************************************)
(* NewPriceNotifier, checkArgsPriceNotifier and checkPairArgs, intervals   *)
(* in seconds; an error ends the process.                                  *)
(***************************************************************************)
minAutoSendInterval == 1

ValidPair(pair) ==
    /\ pair.base # "" /\ pair.quote # ""
    /\ pair.decimals \in 1 .. 18
    /\ pair.exchanges # {}

NewPriceNotifier ==
    /\ stage = "register" /\ next > Len(config.pairs) + Len(config.gasPairs)
    /\ stage' = IF /\ Len(pairs) >= 1
                   /\ config.autoSendInterval >= minAutoSendInterval
                   /\ \A k \in DOMAIN pairs : ValidPair(pairs[k])
                THEN "idle" ELSE "exited"
    /\ UNCHANGED <<config, next, registry, answers, sources, outcome, healthy>>

(***************************************************************************)
(* A round.  Every fetcher is asked for the upper-cased names.             *)
(***************************************************************************)
StartRound ==
    /\ stage = "idle"
    /\ stage' = "fetch" /\ next' = 1
    /\ answers' = NobodyAsked /\ sources' = << >>
    /\ outcome' = "none" /\ healthy' = TRUE
    /\ UNCHANGED <<config, registry>>

NeedsFetching == next \in DOMAIN pairs /\ pairs[next].base # gweiTicker
HasPair(f) == <<Upper[pairs[next].base], Upper[pairs[next].quote]>> \in knownPairs[f]

PairNotSupported(f) ==
    /\ stage = "fetch" /\ NeedsFetching /\ answers[f] = NotAsked
    /\ ~HasPair(f)
    /\ answers' = [answers EXCEPT ![f] = NoAnswer]
    /\ UNCHANGED <<config, stage, next, registry, sources, outcome, healthy>>

\* Faulty variant: the panic is recovered, and the reply kept.
PriceFetchedOrCrash(f) ==
    /\ stage = "fetch" /\ NeedsFetching /\ answers[f] = NotAsked
    /\ HasPair(f)
    /\ \E response \in Responses[f] :
         \E reply \in FetchPrice(f, Upper[pairs[next].base], Upper[pairs[next].quote], response) :
            /\ answers' = [answers EXCEPT ![f] = reply]
            /\ healthy' = (healthy /\ reply # NoAnswer)
    /\ UNCHANGED <<config, stage, next, registry, sources, outcome>>

PriceFetched(f) ==
    /\ stage = "fetch" /\ NeedsFetching /\ answers[f] = NotAsked
    /\ HasPair(f)
    /\ \E response \in Responses[f] :
         \E reply \in FetchPrice(f, Upper[pairs[next].base], Upper[pairs[next].quote], response) :
            /\ reply # Crash
            /\ answers' = [answers EXCEPT ![f] = reply]
            /\ healthy' = (healthy /\ reply # NoAnswer)
    /\ UNCHANGED <<config, stage, next, registry, sources, outcome>>

FetcherPanics(f) ==
    /\ stage = "fetch" /\ NeedsFetching /\ answers[f] = NotAsked
    /\ HasPair(f)
    /\ \E response \in Responses[f] :
         Crash \in FetchPrice(f, Upper[pairs[next].base], Upper[pairs[next].quote], response)
    /\ stage' = "exited"
    /\ UNCHANGED <<config, next, registry, answers, sources, outcome, healthy>>

(***************************************************************************)
(* The end of the aggregator's FetchPrice: wg.Wait, and enough answers or  *)
(* not.  A GWEI pair is not fetched.                                       *)
(***************************************************************************)
AllAsked == \A f \in Exchanges : answers[f] # NotAsked
Answering == {f \in Exchanges : answers[f] \notin {NotAsked, NoAnswer}}

\* Faulty variant: one answer less is enough.
EnoughLessOne(answering) == Cardinality(answering) + 1 >= config.minResultsNum

Enough(answering) == Cardinality(answering) >= config.minResultsNum

PairFetched ==
    /\ stage = "fetch" /\ NeedsFetching /\ AllAsked
    /\ Enough(Answering)
    /\ sources' = Append(sources, Answering)
    /\ next' = next + 1 /\ answers' = NobodyAsked
    /\ UNCHANGED <<config, stage, registry, outcome, healthy>>

GweiPairSkipped ==
    /\ stage = "fetch" /\ next \in DOMAIN pairs /\ ~NeedsFetching
    /\ sources' = Append(sources, {})
    /\ next' = next + 1
    /\ UNCHANGED <<config, stage, registry, answers, outcome, healthy>>

EndRound(result) ==
    /\ stage' = "idle" /\ next' = 1 /\ answers' = NobodyAsked
    /\ outcome' = result
    /\ UNCHANGED <<config, registry, sources>>

NotEnoughResponses ==
    /\ stage = "fetch" /\ NeedsFetching /\ AllAsked
    /\ ~Enough(Answering)
    /\ EndRound("ErrNotEnoughResponses")
    /\ UNCHANGED healthy

(***************************************************************************)
(* denominateGasPrice and ConvertGasPrices, in the order of their checks.  *)
(***************************************************************************)
AllFetched == stage = "fetch" /\ next > Len(pairs)
Verified == AllFetched /\ VerifyRequiredPairs(pairs) = "nil"
GasFetcherHasPair == <<gweiTicker, quoteUSD>> \in gasKnownPairs

NoGasPairs ==
    /\ AllFetched /\ VerifyRequiredPairs(pairs) = "ErrNoGasPairs"
    /\ EndRound("nil") /\ UNCHANGED healthy

RequiredPairsMissing ==
    /\ AllFetched /\ VerifyRequiredPairs(pairs) = "ErrMissingPairs"
    /\ EndRound("ErrMissingPairs") /\ UNCHANGED healthy

EthPriceZero ==
    /\ Verified
    /\ EndRound("ErrEthUsdPriceZero") /\ healthy' = FALSE

GasPairNotSupported ==
    /\ Verified /\ ~GasFetcherHasPair
    /\ EndRound("ErrPairNotSupported") /\ UNCHANGED healthy

GasStationFails ==
    /\ Verified /\ GasFetcherHasPair
    /\ \E response \in GasResponses : EvmGasPrice(response) = NoAnswer
    /\ EndRound("ErrGasStation") /\ healthy' = FALSE

GasPriceConverted ==
    /\ Verified /\ GasFetcherHasPair
    /\ \E response \in GasResponses : EvmGasPrice(response) # NoAnswer
    /\ EndRound(IF TargetsFound(pairs) THEN "nil" ELSE "ErrMissingPairs")
    /\ UNCHANGED healthy

Restart == StartState /\ UNCHANGED config

Setup == CreateFetchers \/ AddPair \/ AddGasPair \/ NewPriceNotifier
Fetch == \E f \in Exchanges : PairNotSupported(f) \/ PriceFetched(f) \/ FetcherPanics(f)
Convert == \/ NoGasPairs \/ RequiredPairsMissing \/ EthPriceZero
           \/ GasPairNotSupported \/ GasStationFails \/ GasPriceConverted
Round == StartRound \/ Fetch \/ PairFetched \/ GweiPairSkipped \/ NotEnoughResponses \/ Convert

Next == Setup \/ Round \/ Restart

Spec == Init /\ [][Next]_vars
-----------------------------------------------------------------------------
Outcomes == {"none", "nil", "ErrNotEnoughResponses", "ErrMissingPairs", "ErrEthUsdPriceZero",
             "ErrPairNotSupported", "ErrGasStation"}

TypeOK ==
    /\ config \in Configs
    /\ stage \in {"start", "register", "idle", "fetch", "exited"}
    /\ next \in Nat \ {0}
    /\ knownPairs \in [Exchanges -> SUBSET {Key(config.pairs[k]) : k \in DOMAIN config.pairs}]
    /\ DOMAIN pairs \subseteq 1 .. Len(config.pairs) + Len(config.gasPairs)
    /\ answers \in [Exchanges -> Int \cup {Inf, NaN, NoAnswer, NotAsked}]
    /\ DOMAIN sources \subseteq DOMAIN pairs
    /\ outcome \in Outcomes
    /\ healthy \in BOOLEAN

(***************************************************************************)
(* Whatever an exchange sends, no zero and no negative price reaches the   *)
(* aggregator.                                                             *)
(***************************************************************************)
AnsweredPricesPositive ==
    \A f \in Exchanges : answers[f] \in Int => answers[f] > 0

(***************************************************************************)
(* The price of a pair rests on MinResultsNum different exchanges, each of *)
(* them named by the configuration for a pair with these base and quote.   *)
(***************************************************************************)
NamedFor(f, base, quote) ==
    \E k \in DOMAIN config.pairs : /\ Key(config.pairs[k]) = <<base, quote>>
                                   /\ f \in config.pairs[k].exchanges

PricesWellSourced ==
    \A k \in DOMAIN sources :
        pairs[k].base # gweiTicker =>
            /\ Cardinality(sources[k]) >= config.minResultsNum
            /\ \A f \in sources[k] : NamedFor(f, Upper[pairs[k].base], Upper[pairs[k].quote])

(***************************************************************************)
(* Which configurations can work: a round in which everyone who is asked   *)
(* answers succeeds exactly when every pair but GWEI has, in upper case,   *)
(* enough implemented exchanges (perhaps through an equal pair), and, if   *)
(* there are gas prices, ETH/USD is a pair, GWEI/USD a gas pair, and every *)
(* other quote of a gas price is neither ETH nor GWEI and has a TOKEN/USD. *)
(* With any other configuration the oracle, if it starts, never notifies   *)
(* anything.                                                               *)
(***************************************************************************)
Configured(base, quote) ==
    \E k \in DOMAIN config.pairs : Key(config.pairs[k]) = <<base, quote>>
NamedExchanges(pair) ==
    {f \in Exchanges : NamedFor(f, Upper[pair.base], Upper[pair.quote])}
GasPairQuotes == {config.gasPairs[k].quote : k \in DOMAIN config.gasPairs}
GasQuotes     == GweiQuotes(config.pairs) \cup GasPairQuotes

EnoughNamed ==
    \A k \in DOMAIN config.pairs : config.pairs[k].base # gweiTicker =>
        Cardinality(NamedExchanges(config.pairs[k])) >= config.minResultsNum
GasConvertible ==
    /\ Configured(ethTicker, quoteUSD)
    /\ quoteUSD \in GasPairQuotes
    /\ \A q \in GasQuotes \ {quoteUSD} :
          q \notin {ethTicker, gweiTicker} /\ Configured(q, quoteUSD)

Usable == EnoughNamed /\ (GasQuotes # {} => GasConvertible)

UsableIffRoundsSucceed ==
    stage = "idle" /\ outcome # "none" /\ healthy => (outcome = "nil" <=> Usable)

-----------------------------------------------------------------------------
(***************************************************************************)
(* What the repository says of the program, and the code does not do.      *)
(*                                                                         *)
(* aggregator/gasStation/gasPriceService.go:120, "VerifyRequiredPairs      *)
(* checks if all required pairs for gas price calculation are available":  *)
(* when it has passed, the conversion does not find a pair missing after   *)
(* all.  (That the fetcher may not know GWEI/USD is another matter.)       *)
(***************************************************************************)
VerifiedPairsSuffice ==
    stage = "idle" /\ VerifyRequiredPairs(pairs) = "nil" => outcome # "ErrMissingPairs"
=============================================================================
