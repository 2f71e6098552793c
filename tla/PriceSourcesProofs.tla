------------------------- MODULE PriceSourcesProofs -------------------------
(***************************************************************************)
(* Proofs about PriceSources, for every configuration, set of exchanges    *)
(* and set of responses.                                                   *)
(***************************************************************************)
EXTENDS PriceSources, FiniteSetTheorems, SequenceTheorems, TLAPS

(***************************************************************************)
(* A reply that is a number is positive, whichever exchange gave it and    *)
(* whatever the response was.                                              *)
(***************************************************************************)
LEMMA ConvertedPositive ==
    ASSUME NEW v, StrToPositiveFloat64(v) \in Int
    PROVE  StrToPositiveFloat64(v) > 0
BY RepliesAssumption DEF StrToPositiveFloat64

LEMMA RepliesPositive ==
    ASSUME NEW name \in ImplementedFetchers, NEW base, NEW quote, NEW response,
           NEW reply \in FetchPrice(name, base, quote, response), reply \in Int
    PROVE  reply > 0
<1>1. OnePrice(response) \in Int => OnePrice(response) > 0
  BY ConvertedPositive, RepliesAssumption DEF OnePrice
<1>2. FirstPrice(response) \in Int => FirstPrice(response) > 0
  BY ConvertedPositive, RepliesAssumption DEF FirstPrice
<1>3. CASE name \in {"Binance", "Bitfinex", "Gemini", "HitBTC"}
  BY <1>1, <1>3 DEF FetchPrice, Binance, Bitfinex, Gemini, Hitbtc
<1>4. CASE name \in {"Crypto.com", "Okx"}
  BY <1>2, <1>4 DEF FetchPrice, Cryptocom, Okx
<1>5. CASE name = "Huobi"
  <2>1. reply \in Huobi(response)
    BY <1>5 DEF FetchPrice
  <2>2. QED
    BY <2>1, RepliesAssumption DEF Huobi
<1>6. CASE name = "Kraken"
  <2>1. reply \in Kraken(response, base, NormalizeQuoteName(quote, name))
    BY <1>6 DEF FetchPrice
  <2>2. \A entry : KrakenEntry(entry) \in Int => KrakenEntry(entry) > 0
    BY ConvertedPositive, RepliesAssumption DEF KrakenEntry
  <2>3. reply = NoAnswer \/ \E entry : reply = KrakenEntry(entry)
    BY <2>1 DEF Kraken
  <2>4. QED
    BY <2>2, <2>3, RepliesAssumption
<1>7. QED
  BY <1>3, <1>4, <1>5, <1>6 DEF ImplementedFetchers

(***************************************************************************)
(* What a fetcher knows was configured for it; during a round, an answer   *)
(* comes from a fetcher that knows the pair, and sources has one entry for *)
(* every pair before next.                                                 *)
(***************************************************************************)
\* A pair of the configuration, or one whose base has become GWEI.
RegisteredPair == [base : STRING \cup {gweiTicker}, quote : STRING, decimals : Nat,
                   exchanges : SUBSET STRING]

ConfigInv == config \in Configs

KnownInv ==
    /\ knownPairs \in [Exchanges -> SUBSET (STRING \X STRING)]
    /\ \A f \in Exchanges : \A key \in knownPairs[f] :
          \E k \in DOMAIN config.pairs : /\ Key(config.pairs[k]) = key
                                         /\ f \in config.pairs[k].exchanges

RoundInv ==
    /\ next \in Nat \ {0}
    /\ pairs \in Seq(RegisteredPair)
    /\ sources \in Seq(SUBSET Exchanges)
    /\ Len(sources) <= Len(pairs)
    /\ stage \in {"start", "register"} => sources = << >> /\ answers = NobodyAsked
    /\ stage = "fetch" => Len(sources) = next - 1
    /\ answers = [f \in Exchanges |-> answers[f]]
    /\ \A f \in Exchanges : answers[f] \in Int => answers[f] > 0

AnswersInv ==
    \A f \in Exchanges : answers[f] \notin {NotAsked, NoAnswer} => NeedsFetching /\ HasPair(f)

IInv == ConfigInv /\ KnownInv /\ RoundInv /\ AnswersInv /\ PricesWellSourced

LEMMA InitInv == Init => IInv
BY ConfigsAssumption, NotAskedAssumption
   DEF Init, IInv, ConfigInv, KnownInv, RoundInv, AnswersInv, PricesWellSourced, NobodyAsked

(***************************************************************************)
(* Setup: until the first round there are no sources, and nobody has been  *)
(* asked.                                                                  *)
(***************************************************************************)
LEMMA SetupStep == ASSUME IInv, Setup PROVE IInv'
<1> USE DEF IInv
<1>1. CASE CreateFetchers
  BY <1>1 DEF CreateFetchers, registry, ConfigInv, KnownInv, RoundInv, AnswersInv,
              NeedsFetching, HasPair, PricesWellSourced, NamedFor
<1>2. CASE AddPair
  <2> DEFINE pair == config.pairs[next]
  <2>1. /\ config \in Configs /\ config.pairs \in Seq(PairArgs)
        /\ next \in DOMAIN config.pairs /\ pair \in PairArgs
    BY <1>2, ConfigsAssumption DEF AddPair, ConfigInv
  <2> HIDE DEF pair
  <2>2. pair \in RegisteredPair
    BY <2>1 DEF PairArgs, RegisteredPair
  <2> USE DEF pair
  <2>3. KnownInv'
    <3>1. Key(pair) \in STRING \X STRING
      BY <2>1 DEF Key, PairArgs
    <3>2. knownPairs' \in [Exchanges -> SUBSET (STRING \X STRING)]
      BY <1>2, <3>1 DEF AddPair, AddPairToFetchers, KnownInv
    <3>3. ASSUME NEW f \in Exchanges, NEW key \in knownPairs'[f]
          PROVE  \E k \in DOMAIN config.pairs : /\ Key(config.pairs[k]) = key
                                                /\ f \in config.pairs[k].exchanges
      <4>1. CASE key \in knownPairs[f]
        BY <4>1 DEF KnownInv
      <4>2. CASE key \notin knownPairs[f]
        <5>1. f \in pair.exchanges /\ key = Key(pair)
          BY <1>2, <4>2, <3>3 DEF AddPair, AddPairToFetchers
        <5>2. QED
          BY <5>1, <2>1
      <4>3. QED
        BY <4>1, <4>2
    <3>4. QED
      BY <1>2, <3>2, <3>3 DEF AddPair, KnownInv
  <2>4. /\ pairs' \in Seq(RegisteredPair) /\ Len(pairs') = Len(pairs) + 1
    BY <1>2, <2>2 DEF AddPair, RoundInv
  <2>5. RoundInv' /\ sources' = << >>
    BY <1>2, <2>4 DEF AddPair, RoundInv, NobodyAsked
  <2>6. \A f \in Exchanges : answers'[f] \in {NotAsked, NoAnswer}
    BY <1>2 DEF AddPair, RoundInv, NobodyAsked
  <2>7. QED
    BY <1>2, <2>3, <2>5, <2>6 DEF AddPair, ConfigInv, AnswersInv, PricesWellSourced
<1>3. CASE AddGasPair
  <2>1. config \in Configs /\ config.gasPairs \in Seq(PairArgs)
    BY ConfigsAssumption DEF ConfigInv
  <2>2. GasPair \in RegisteredPair
    <3> DEFINE pair == config.gasPairs[next - Len(config.pairs)]
    <3>1. pair \in PairArgs
      BY <1>3, <2>1 DEF AddGasPair
    <3>2. GasPair = [pair EXCEPT !.base = gweiTicker]
      BY DEF GasPair
    <3> HIDE DEF pair
    <3>3. QED
      BY <3>1, <3>2 DEF PairArgs, RegisteredPair
  <2>3. /\ pairs' \in Seq(RegisteredPair) /\ Len(pairs') = Len(pairs) + 1
    BY <1>3, <2>2 DEF AddGasPair, RoundInv
  <2>4. RoundInv' /\ sources' = << >>
    BY <1>3, <2>3 DEF AddGasPair, RoundInv, NobodyAsked
  <2>5. \A f \in Exchanges : answers'[f] \in {NotAsked, NoAnswer}
    BY <1>3 DEF AddGasPair, RoundInv, NobodyAsked
  <2>6. QED
    BY <1>3, <2>4, <2>5 DEF AddGasPair, ConfigInv, KnownInv, AnswersInv, PricesWellSourced
<1>4. CASE NewPriceNotifier
  BY <1>4 DEF NewPriceNotifier, registry, ConfigInv, KnownInv, RoundInv, AnswersInv,
              NeedsFetching, HasPair, PricesWellSourced, NamedFor
<1>5. QED
  BY <1>1, <1>2, <1>3, <1>4 DEF Setup

(***************************************************************************)
(* The steps of a round leave the configuration and the registry alone.    *)
(***************************************************************************)
LEMMA RegistryKept ==
    ASSUME IInv, UNCHANGED <<config, registry>>
    PROVE  ConfigInv' /\ KnownInv'
BY DEF IInv, ConfigInv, KnownInv, registry

LEMMA FetchStep == ASSUME IInv, Fetch PROVE IInv'
<1> USE DEF IInv
<1>1. PICK f \in Exchanges : PairNotSupported(f) \/ PriceFetched(f) \/ FetcherPanics(f)
  BY DEF Fetch
<1>2. CASE PairNotSupported(f)
  <2>1. ConfigInv' /\ KnownInv'
    BY <1>2, RegistryKept DEF PairNotSupported
  <2>2. RoundInv'
    BY <1>2, RepliesAssumption DEF PairNotSupported, RoundInv, registry
  <2>3. AnswersInv'
    BY <1>2 DEF PairNotSupported, AnswersInv, RoundInv, registry, NeedsFetching, HasPair
  <2>4. PricesWellSourced'
    BY <1>2 DEF PairNotSupported, PricesWellSourced, NamedFor, registry
  <2>5. QED
    BY <2>1, <2>2, <2>3, <2>4
<1>3. CASE PriceFetched(f)
  <2> DEFINE base == Upper[pairs[next].base]
             quote == Upper[pairs[next].quote]
  <2>1. ConfigInv' /\ KnownInv'
    BY <1>3, RegistryKept DEF PriceFetched
  <2>2. PICK response \in Responses[f] :
           \E reply \in FetchPrice(f, base, quote, response) :
              answers' = [answers EXCEPT ![f] = reply]
    BY <1>3 DEF PriceFetched
  <2>3. PICK reply \in FetchPrice(f, base, quote, response) :
           answers' = [answers EXCEPT ![f] = reply]
    BY <2>2
  <2> HIDE DEF base, quote
  <2>4. reply \in Int => reply > 0
    BY RepliesPositive, ExchangesAssumption
  <2>5. RoundInv'
    BY <1>3, <2>3, <2>4 DEF PriceFetched, RoundInv, registry
  <2>6. AnswersInv'
    BY <1>3, <2>3 DEF PriceFetched, AnswersInv, RoundInv, registry, NeedsFetching, HasPair
  <2>7. PricesWellSourced'
    BY <1>3 DEF PriceFetched, PricesWellSourced, NamedFor, registry
  <2>8. QED
    BY <2>1, <2>5, <2>6, <2>7
<1>4. CASE FetcherPanics(f)
  BY <1>4, RegistryKept DEF FetcherPanics, registry, RoundInv, AnswersInv, NeedsFetching,
     HasPair, PricesWellSourced, NamedFor
<1>5. QED
  BY <1>1, <1>2, <1>3, <1>4

(***************************************************************************)
(* A pair with enough answers gets its entry in sources: every answering   *)
(* fetcher knows the pair, so the configuration names it.                  *)
(***************************************************************************)
LEMMA PairFetchedStep == ASSUME IInv, PairFetched PROVE IInv'
<1> USE DEF IInv
<1>1. ConfigInv' /\ KnownInv'
  BY RegistryKept DEF PairFetched
<1>2. /\ sources' = Append(sources, Answering) /\ Answering \in SUBSET Exchanges
      /\ sources' \in Seq(SUBSET Exchanges)
      /\ Len(sources) = next - 1 /\ next \in DOMAIN pairs /\ Len(sources') = next
  BY DEF PairFetched, Answering, RoundInv, NeedsFetching
<1>3. RoundInv'
  BY <1>2, NotAskedAssumption DEF PairFetched, RoundInv, registry, NobodyAsked
<1>4. AnswersInv'
  BY DEF PairFetched, AnswersInv, NobodyAsked
<1>5. \A f \in Answering : NamedFor(f, Upper[pairs[next].base], Upper[pairs[next].quote])
  BY DEF AnswersInv, Answering, HasPair, KnownInv, NamedFor
<1>6. Cardinality(Answering) >= config.minResultsNum
  BY DEF PairFetched, Enough
<1>7. PricesWellSourced'
  <2>1. SUFFICES ASSUME NEW k \in DOMAIN sources', pairs[k].base # gweiTicker
                 PROVE  /\ Cardinality(sources'[k]) >= config.minResultsNum
                        /\ \A f \in sources'[k] :
                              NamedFor(f, Upper[pairs[k].base], Upper[pairs[k].quote])
    BY DEF PairFetched, PricesWellSourced, NamedFor, registry
  <2>2. CASE k = next
    <3>1. sources'[k] = Answering
      BY <1>2, <2>2 DEF RoundInv
    <3>2. QED
      BY <1>5, <1>6, <2>2, <3>1
  <2>3. CASE k # next
    <3>1. k \in DOMAIN sources /\ sources'[k] = sources[k]
      BY <1>2, <2>1, <2>3 DEF RoundInv
    <3>2. QED
      BY <2>1, <3>1 DEF PricesWellSourced
  <2>4. QED
    BY <2>2, <2>3
<1>8. QED
  BY <1>1, <1>3, <1>4, <1>7

LEMMA GweiPairSkippedStep == ASSUME IInv, GweiPairSkipped PROVE IInv'
<1> USE DEF IInv
<1>1. ConfigInv' /\ KnownInv'
  BY RegistryKept DEF GweiPairSkipped
<1>2. /\ sources' = Append(sources, {})
      /\ sources' \in Seq(SUBSET Exchanges)
      /\ Len(sources) = next - 1 /\ next \in DOMAIN pairs /\ Len(sources') = next
      /\ pairs[next].base = gweiTicker
  BY DEF GweiPairSkipped, RoundInv, NeedsFetching
<1>3. RoundInv'
  BY <1>2 DEF GweiPairSkipped, RoundInv, registry
<1>4. AnswersInv'
  BY <1>2 DEF GweiPairSkipped, AnswersInv, NeedsFetching
<1>5. \A k \in DOMAIN sources' : k # next => k \in DOMAIN sources /\ sources'[k] = sources[k]
  BY <1>2 DEF RoundInv
<1>6. PricesWellSourced'
  BY <1>2, <1>5 DEF GweiPairSkipped, PricesWellSourced, NamedFor, registry
<1>7. QED
  BY <1>1, <1>3, <1>4, <1>6

(***************************************************************************)
(* The end of a round keeps its sources.                                   *)
(***************************************************************************)
LEMMA EndRoundStep == ASSUME IInv, NEW result, EndRound(result) PROVE IInv'
<1> USE DEF IInv
<1>1. ConfigInv' /\ KnownInv'
  BY RegistryKept DEF EndRound
<1>2. RoundInv'
  BY NotAskedAssumption DEF EndRound, RoundInv, registry, NobodyAsked
<1>3. AnswersInv' /\ PricesWellSourced'
  BY DEF EndRound, AnswersInv, PricesWellSourced, NamedFor, registry, NobodyAsked
<1>4. QED
  BY <1>1, <1>2, <1>3

LEMMA NextStep == ASSUME IInv, [Next]_vars PROVE IInv'
<1>1. CASE Setup
  BY <1>1, SetupStep
<1>2. CASE StartRound
  <2>1. ConfigInv' /\ KnownInv'
    BY <1>2, RegistryKept DEF StartRound
  <2>2. QED
    BY <1>2, <2>1, NotAskedAssumption
       DEF StartRound, IInv, RoundInv, registry, AnswersInv, NobodyAsked, PricesWellSourced
<1>3. CASE Fetch
  BY <1>3, FetchStep
<1>4. CASE PairFetched
  BY <1>4, PairFetchedStep
<1>5. CASE GweiPairSkipped
  BY <1>5, GweiPairSkippedStep
<1>6. CASE NotEnoughResponses \/ Convert
  BY <1>6, EndRoundStep
     DEF NotEnoughResponses, Convert, NoGasPairs, RequiredPairsMissing, EthPriceZero,
         GasPairNotSupported, GasStationFails, GasPriceConverted
<1>7. CASE Restart
  BY <1>7, NotAskedAssumption
     DEF Restart, StartState, IInv, ConfigInv, KnownInv, RoundInv, AnswersInv, NobodyAsked,
         PricesWellSourced
<1>8. CASE UNCHANGED vars
  BY <1>8 DEF vars, registry, IInv, ConfigInv, KnownInv, RoundInv, AnswersInv, NeedsFetching,
              HasPair, PricesWellSourced, NamedFor
<1>9. QED
  BY <1>1, <1>2, <1>3, <1>4, <1>5, <1>6, <1>7, <1>8 DEF Next, Round

THEOREM Invariance == Spec => []IInv
<1>1. Init => IInv
  BY InitInv
<1>2. IInv /\ [Next]_vars => IInv'
  BY NextStep
<1>3. QED
  BY <1>1, <1>2, PTL DEF Spec

(***************************************************************************)
(* The price of a pair rests on MinResultsNum exchanges that the           *)
(* configuration names for it (startOracle, addPairToFetchers, the         *)
(* aggregator's count).                                                    *)
(***************************************************************************)
THEOREM WellSourced == Spec => []PricesWellSourced
BY Invariance, PTL DEF IInv

(***************************************************************************)
(* No exchange can make a fetcher answer a zero or a negative price.       *)
(***************************************************************************)
THEOREM AnswersPositive == Spec => []AnsweredPricesPositive
<1>1. IInv => AnsweredPricesPositive
  BY DEF IInv, RoundInv, AnsweredPricesPositive
<1>2. QED
  BY <1>1, Invariance, PTL

(***************************************************************************)
(* Registration.  While the two loops run, the pairs registered so far are *)
(* the first ones of the configuration, the gas pairs under the name GWEI, *)
(* and every fetcher knows those that name it.                             *)
(***************************************************************************)
RegisteredAs(k) ==
    IF k <= Len(config.pairs) THEN config.pairs[k]
    ELSE [config.gasPairs[k - Len(config.pairs)] EXCEPT !.base = gweiTicker]

Total == Len(config.pairs) + Len(config.gasPairs)

ProgressInv ==
    /\ stage \in {"start", "register", "idle", "fetch", "exited"}
    /\ Len(pairs) <= Total
    /\ stage = "start" => next = 1 /\ Len(pairs) = 0
    /\ stage = "register" => next = Len(pairs) + 1
    /\ stage \in {"idle", "fetch"} => Len(pairs) = Total

RegisteredInv ==
    /\ \A k \in DOMAIN pairs : pairs[k] = RegisteredAs(k)
    /\ \A f \in Exchanges : \A k \in DOMAIN config.pairs :
          k <= Len(pairs) /\ f \in config.pairs[k].exchanges
          => Key(config.pairs[k]) \in knownPairs[f]
    /\ gasKnownPairs =
          {<<gweiTicker, config.gasPairs[k].quote>> :
              k \in {l \in DOMAIN config.gasPairs : Len(config.pairs) + l <= Len(pairs)}}

SetupInv == ProgressInv /\ RegisteredInv

LEMMA ListFacts ==
    ASSUME IInv
    PROVE  /\ config.pairs \in Seq(PairArgs) /\ config.gasPairs \in Seq(PairArgs)
           /\ Len(config.pairs) \in Nat /\ DOMAIN config.pairs = 1 .. Len(config.pairs)
           /\ Len(config.gasPairs) \in Nat /\ DOMAIN config.gasPairs = 1 .. Len(config.gasPairs)
           /\ Len(pairs) \in Nat /\ DOMAIN pairs = 1 .. Len(pairs)
           /\ config.minResultsNum \in Int
           /\ Total \in Nat /\ Len(config.pairs) <= Total
           /\ \A l \in DOMAIN config.gasPairs : Len(config.pairs) + l <= Total
           /\ \A k \in Nat : k > Len(config.pairs) + Len(config.gasPairs) => k > Total
           /\ config' = config => Total' = Total
<1>1. config.pairs \in Seq(PairArgs) /\ config.gasPairs \in Seq(PairArgs)
      /\ config.minResultsNum \in Int
  BY ConfigsAssumption DEF IInv, ConfigInv
<1>2. pairs \in Seq(RegisteredPair)
  BY DEF IInv, RoundInv
<1> DEFINE n == Len(config.pairs)
           m == Len(config.gasPairs)
<1>3. /\ n \in Nat /\ DOMAIN config.pairs = 1 .. n
      /\ m \in Nat /\ DOMAIN config.gasPairs = 1 .. m
      /\ Len(pairs) \in Nat /\ DOMAIN pairs = 1 .. Len(pairs)
  BY <1>1, <1>2
<1>4. Total = n + m /\ (config' = config => Total' = Total)
  BY DEF Total
<1> HIDE DEF n, m
<1>5. /\ Total \in Nat /\ n <= Total
      /\ \A l \in 1 .. m : n + l <= Total
      /\ \A k \in Nat : k > n + m => k > Total
  BY <1>3, <1>4
<1>6. QED
  BY <1>1, <1>3, <1>4, <1>5 DEF n, m

LEMMA AddPairSetup == ASSUME IInv, SetupInv, AddPair PROVE SetupInv'
<1>1. /\ stage = "register" /\ next \in DOMAIN config.pairs /\ next' = next + 1
      /\ pairs' = Append(pairs, config.pairs[next]) /\ knownPairs' = AddPairToFetchers(config.pairs[next])
      /\ UNCHANGED <<config, stage, gasKnownPairs>>
  BY DEF AddPair
<1>2. /\ next = Len(pairs) + 1 /\ next <= Len(config.pairs) /\ next \in Nat
  BY <1>1, ListFacts DEF SetupInv, ProgressInv
<1>3. /\ Len(pairs') = next /\ DOMAIN pairs' = 1 .. next
      /\ pairs'[next] = config.pairs[next]
      /\ \A k \in 1 .. Len(pairs) : pairs'[k] = pairs[k]
  BY <1>1, <1>2 DEF IInv, RoundInv
<1>4. ProgressInv'
  BY <1>1, <1>2, <1>3, ListFacts DEF SetupInv, ProgressInv
<1>5. \A k \in DOMAIN pairs' : pairs'[k] = RegisteredAs(k)'
  <2>1. ASSUME NEW k \in DOMAIN pairs' PROVE pairs'[k] = RegisteredAs(k)
    <3>1. CASE k = next
      BY <1>2, <1>3, <3>1 DEF RegisteredAs
    <3>2. CASE k # next
      <4>1. k \in DOMAIN pairs /\ pairs'[k] = pairs[k]
        BY <1>2, <1>3, <2>1, <3>2, ListFacts
      <4>2. QED
        BY <4>1 DEF SetupInv, RegisteredInv
    <3>3. QED
      BY <3>1, <3>2
  <2>2. QED
    BY <1>1, <2>1 DEF RegisteredAs
<1>6. ASSUME NEW f \in Exchanges, NEW k \in DOMAIN config.pairs,
             k <= Len(pairs'), f \in config.pairs[k].exchanges
      PROVE  Key(config.pairs[k]) \in knownPairs'[f]
  <2>1. CASE k = next
    BY <1>1, <1>6, <2>1 DEF AddPairToFetchers
  <2>2. CASE k # next
    <3>1. k <= Len(pairs)
      BY <1>2, <1>3, <1>6, <2>2, ListFacts
    <3>2. Key(config.pairs[k]) \in knownPairs[f]
      BY <1>6, <3>1 DEF SetupInv, RegisteredInv
    <3>3. QED
      BY <1>1, <3>2 DEF AddPairToFetchers
  <2>3. QED
    BY <2>1, <2>2
<1>7. \A l \in DOMAIN config.gasPairs : /\ ~(Len(config.pairs) + l <= Len(pairs))
                                        /\ ~(Len(config.pairs) + l <= Len(pairs'))
  BY <1>2, <1>3, ListFacts
<1>8. QED
  BY <1>1, <1>4, <1>5, <1>6, <1>7 DEF SetupInv, RegisteredInv

LEMMA AddGasPairSetup == ASSUME IInv, SetupInv, AddGasPair PROVE SetupInv'
<1> DEFINE g == next - Len(config.pairs)
<1>1. /\ stage = "register" /\ g \in DOMAIN config.gasPairs /\ next' = next + 1
      /\ pairs' = Append(pairs, GasPair) /\ gasKnownPairs' = gasKnownPairs \cup {Key(GasPair)}
      /\ UNCHANGED <<config, stage, knownPairs>>
  BY DEF AddGasPair
<1>2. /\ next = Len(pairs) + 1 /\ next > Len(config.pairs) /\ next \in Nat /\ next <= Total
      /\ g \in Nat /\ next = Len(config.pairs) + g
  BY <1>1, ListFacts DEF SetupInv, ProgressInv
<1>3. /\ Len(pairs') = next /\ DOMAIN pairs' = 1 .. next
      /\ pairs'[next] = GasPair
      /\ \A k \in 1 .. Len(pairs) : pairs'[k] = pairs[k]
  BY <1>1, <1>2 DEF IInv, RoundInv
<1>4. GasPair = RegisteredAs(next) /\ Key(GasPair) = <<gweiTicker, config.gasPairs[g].quote>>
  <2>1. config.gasPairs[g] \in PairArgs
    BY <1>1, ListFacts
  <2>2. GasPair = [config.gasPairs[g] EXCEPT !.base = gweiTicker]
    BY DEF GasPair
  <2>3. GasPair = RegisteredAs(next)
    BY <1>2, <2>2, ListFacts DEF RegisteredAs
  <2> HIDE DEF g
  <2>4. QED
    BY <2>1, <2>2, <2>3 DEF PairArgs, Key
<1> HIDE DEF g
<1>5. ProgressInv'
  BY <1>1, <1>2, <1>3, ListFacts DEF SetupInv, ProgressInv
<1>6. \A k \in DOMAIN pairs' : pairs'[k] = RegisteredAs(k)'
  <2>1. ASSUME NEW k \in DOMAIN pairs' PROVE pairs'[k] = RegisteredAs(k)
    <3>1. CASE k = next
      BY <1>3, <1>4, <3>1
    <3>2. CASE k # next
      <4>1. k \in DOMAIN pairs /\ pairs'[k] = pairs[k]
        BY <1>2, <1>3, <2>1, <3>2, ListFacts
      <4>2. QED
        BY <4>1 DEF SetupInv, RegisteredInv
    <3>3. QED
      BY <3>1, <3>2
  <2>2. QED
    BY <1>1, <2>1 DEF RegisteredAs
<1>7. \A k \in DOMAIN config.pairs : k <= Len(pairs') => k <= Len(pairs)
  BY <1>2, <1>3, ListFacts
<1>8. gasKnownPairs' =
          {<<gweiTicker, config.gasPairs[k].quote>> :
              k \in {l \in DOMAIN config.gasPairs : Len(config.pairs) + l <= Len(pairs')}}
  <2>1. \A l \in DOMAIN config.gasPairs :
           Len(config.pairs) + l <= Len(pairs') <=> l = g \/ Len(config.pairs) + l <= Len(pairs)
    BY <1>2, <1>3, ListFacts
  <2>2. {l \in DOMAIN config.gasPairs : Len(config.pairs) + l <= Len(pairs')} =
            {l \in DOMAIN config.gasPairs : Len(config.pairs) + l <= Len(pairs)} \cup {g}
    BY <1>1, <2>1
  <2>3. gasKnownPairs =
          {<<gweiTicker, config.gasPairs[k].quote>> :
              k \in {l \in DOMAIN config.gasPairs : Len(config.pairs) + l <= Len(pairs)}}
    BY DEF SetupInv, RegisteredInv
  <2>4. QED
    BY <1>1, <1>4, <2>2, <2>3
<1>9. QED
  BY <1>1, <1>5, <1>6, <1>7, <1>8 DEF SetupInv, RegisteredInv

\* Everything but the two loops and a restart leaves the registry alone.
LEMMA RegistrySetup ==
    ASSUME IInv, SetupInv, UNCHANGED <<config, registry>>, ProgressInv'
    PROVE  SetupInv'
BY DEF SetupInv, RegisteredInv, RegisteredAs, registry

LEMMA NextSetup == ASSUME IInv, SetupInv, [Next]_vars PROVE SetupInv'
<1>1. CASE AddPair
  BY <1>1, AddPairSetup
<1>2. CASE AddGasPair
  BY <1>2, AddGasPairSetup
<1>3. CASE CreateFetchers
  <2>1. ProgressInv'
    BY <1>3, ListFacts DEF CreateFetchers, registry, SetupInv, ProgressInv
  <2>2. QED
    BY <1>3, <2>1, RegistrySetup DEF CreateFetchers
<1>4. CASE NewPriceNotifier
  <2>1. Len(pairs) = Total
    <3>1. next = Len(pairs) + 1 /\ Len(pairs) <= Total
      BY <1>4 DEF NewPriceNotifier, SetupInv, ProgressInv
    <3>2. next > Len(config.pairs) + Len(config.gasPairs) /\ next \in Nat
      BY <1>4 DEF NewPriceNotifier, IInv, RoundInv
    <3>3. next > Total
      BY <3>2, ListFacts
    <3>4. QED
      BY <3>1, <3>3, ListFacts
  <2>2. ProgressInv'
    BY <1>4, <2>1, ListFacts DEF NewPriceNotifier, registry, SetupInv, ProgressInv
  <2>3. QED
    BY <1>4, <2>2, RegistrySetup DEF NewPriceNotifier
<1>5. CASE Round
  <2>1. /\ UNCHANGED <<config, registry>> /\ stage \in {"idle", "fetch"}
        /\ stage' \in {"idle", "fetch", "exited"}
    BY <1>5 DEF Round, StartRound, Fetch, PairNotSupported, PriceFetched, FetcherPanics,
                PairFetched, GweiPairSkipped, NotEnoughResponses, Convert, NoGasPairs,
                RequiredPairsMissing, EthPriceZero, GasPairNotSupported, GasStationFails,
                GasPriceConverted, AllFetched, Verified, EndRound
  <2>2. ProgressInv'
    BY <2>1, ListFacts DEF registry, SetupInv, ProgressInv
  <2>3. QED
    BY <2>1, <2>2, RegistrySetup
<1>6. CASE Restart
  <2>1. /\ stage' = "start" /\ next' = 1 /\ pairs' = << >> /\ gasKnownPairs' = {}
        /\ config' = config
    BY <1>6 DEF Restart, StartState
  <2>2. Len(pairs') = 0 /\ DOMAIN pairs' = {}
    BY <2>1
  <2>3. ProgressInv'
    BY <2>1, <2>2, ListFacts DEF ProgressInv
  <2>4. \A k \in Nat \ {0} : ~(k <= 0)
    OBVIOUS
  <2>5. /\ \A k \in DOMAIN config.pairs : ~(k <= Len(pairs'))
        /\ \A l \in DOMAIN config.gasPairs : ~(Len(config.pairs) + l <= Len(pairs'))
    BY <2>2, ListFacts
  <2>6. QED
    BY <2>1, <2>2, <2>3, <2>5 DEF SetupInv, RegisteredInv
<1>7. CASE UNCHANGED vars
  BY <1>7 DEF vars, registry, SetupInv, ProgressInv, RegisteredInv, RegisteredAs, Total
<1>8. QED
  BY <1>1, <1>2, <1>3, <1>4, <1>5, <1>6, <1>7 DEF Next, Setup

LEMMA InitSetup == ASSUME Init PROVE SetupInv
<1>1. IInv
  BY InitInv
<1>2. stage = "start" /\ next = 1 /\ pairs = << >> /\ gasKnownPairs = {}
  BY DEF Init
<1>3. Len(pairs) = 0 /\ DOMAIN pairs = {}
  BY <1>2
<1>4. ProgressInv
  BY <1>1, <1>2, <1>3, ListFacts DEF ProgressInv
<1>5. /\ \A k \in DOMAIN config.pairs : ~(k <= Len(pairs))
      /\ \A l \in DOMAIN config.gasPairs : ~(Len(config.pairs) + l <= Len(pairs))
  BY <1>1, <1>3, ListFacts
<1>6. QED
  BY <1>2, <1>3, <1>4, <1>5 DEF SetupInv, RegisteredInv

(***************************************************************************)
(* Once registration is complete, what the rounds look up in the fetchers  *)
(* and in the list of pairs can be read off the configuration.             *)
(***************************************************************************)
LEMMA RegisteredPairs ==
    ASSUME IInv, SetupInv, Len(pairs) = Total
    PROVE  /\ \A k \in DOMAIN config.pairs : k \in DOMAIN pairs /\ pairs[k] = config.pairs[k]
           /\ \A l \in DOMAIN config.gasPairs :
                 /\ Len(config.pairs) + l \in DOMAIN pairs
                 /\ pairs[Len(config.pairs) + l].base = gweiTicker
                 /\ pairs[Len(config.pairs) + l].quote = config.gasPairs[l].quote
           /\ \A k \in DOMAIN pairs : k \notin DOMAIN config.pairs =>
                 pairs[k].base = gweiTicker /\ pairs[k].quote \in GasPairQuotes
<1> DEFINE n == Len(config.pairs)
<1>1. \A k \in DOMAIN config.pairs : k \in DOMAIN pairs /\ pairs[k] = config.pairs[k]
  <2>1. \A k \in DOMAIN config.pairs : k \in DOMAIN pairs /\ k <= n
    BY ListFacts
  <2>2. QED
    BY <2>1 DEF SetupInv, RegisteredInv, RegisteredAs
<1>2. \A l \in DOMAIN config.gasPairs :
         LET pair == [config.gasPairs[l] EXCEPT !.base = gweiTicker]
         IN  pair.base = gweiTicker /\ pair.quote = config.gasPairs[l].quote
  <2>1. \A l \in DOMAIN config.gasPairs : config.gasPairs[l] \in PairArgs
    BY ListFacts
  <2>2. QED
    BY <2>1 DEF PairArgs
<1>3. ASSUME NEW l \in DOMAIN config.gasPairs
      PROVE  /\ n + l \in DOMAIN pairs
             /\ pairs[n + l].base = gweiTicker
             /\ pairs[n + l].quote = config.gasPairs[l].quote
  <2>1. n + l \in DOMAIN pairs /\ ~(n + l <= n) /\ (n + l) - n = l
    <3>1. n \in Nat /\ l \in Nat /\ l >= 1 /\ n + l <= Total /\ DOMAIN pairs = 1 .. Total
      BY ListFacts
    <3> HIDE DEF n
    <3>2. QED
      BY <3>1
  <2>2. pairs[n + l] = [config.gasPairs[l] EXCEPT !.base = gweiTicker]
    BY <2>1 DEF SetupInv, RegisteredInv, RegisteredAs
  <2>3. QED
    BY <1>2, <2>1, <2>2
<1>4. ASSUME NEW k \in DOMAIN pairs, k \notin DOMAIN config.pairs
      PROVE  pairs[k].base = gweiTicker /\ pairs[k].quote \in GasPairQuotes
  <2>1. k - n \in DOMAIN config.gasPairs /\ n + (k - n) = k
    <3>1. /\ n \in Nat /\ Len(config.gasPairs) \in Nat /\ Total = n + Len(config.gasPairs)
          /\ k \in 1 .. Total /\ k \notin 1 .. n
          /\ DOMAIN config.gasPairs = 1 .. Len(config.gasPairs)
      BY <1>4, ListFacts DEF Total
    <3> HIDE DEF n
    <3>2. QED
      BY <3>1
  <2>2. QED
    BY <1>3, <2>1 DEF GasPairQuotes
<1>5. QED
  BY <1>1, <1>3, <1>4

LEMMA KnownAsNamed ==
    ASSUME IInv, SetupInv, Len(pairs) = Total, NEW f \in Exchanges, NEW base, NEW quote
    PROVE  <<base, quote>> \in knownPairs[f] <=> NamedFor(f, base, quote)
<1>1. <<base, quote>> \in knownPairs[f] => NamedFor(f, base, quote)
  BY DEF IInv, KnownInv, NamedFor
<1>2. \A k \in DOMAIN config.pairs : k <= Len(pairs)
  BY RegisteredPairs, ListFacts
<1>3. NamedFor(f, base, quote) => <<base, quote>> \in knownPairs[f]
  BY <1>2 DEF SetupInv, RegisteredInv, NamedFor
<1>4. QED
  BY <1>1, <1>3

LEMMA ConversionAsConfigured ==
    ASSUME IInv, SetupInv, Len(pairs) = Total
    PROVE  /\ GweiQuotes(pairs) = GasQuotes
           /\ EthUsdIndices(pairs) # {} <=> Configured(ethTicker, quoteUSD)
           /\ \A q : TargetIndices(pairs, q) # {} <=>
                        q \notin {ethTicker, gweiTicker} /\ Configured(q, quoteUSD)
           /\ \A q : Configured(q, quoteUSD) => q \in UsdBases(pairs)
           /\ GasFetcherHasPair <=> quoteUSD \in GasPairQuotes
<1>1. GweiQuotes(pairs) = GasQuotes
  <2>1. GweiQuotes(pairs) \subseteq GasQuotes
    BY RegisteredPairs DEF GasQuotes, GweiQuotes
  <2>2. GasQuotes \subseteq GweiQuotes(pairs)
    BY RegisteredPairs DEF GasQuotes, GasPairQuotes, GweiQuotes
  <2>3. QED
    BY <2>1, <2>2
<1>2. \A base : base # gweiTicker =>
         ((\E k \in DOMAIN pairs : pairs[k].base = base /\ pairs[k].quote = quoteUSD)
             <=> Configured(base, quoteUSD))
  BY RegisteredPairs DEF Configured, Key
<1>3. EthUsdIndices(pairs) # {} <=> Configured(ethTicker, quoteUSD)
  <2>1. ethTicker # gweiTicker
    BY DEF ethTicker, gweiTicker
  <2>2. QED
    BY <1>2, <2>1 DEF EthUsdIndices
<1>4. \A q : TargetIndices(pairs, q) # {} <=>
                q \notin {ethTicker, gweiTicker} /\ Configured(q, quoteUSD)
  BY <1>2 DEF TargetIndices
<1>5. \A q : Configured(q, quoteUSD) => q \in UsdBases(pairs)
  BY RegisteredPairs DEF Configured, Key, UsdBases
<1>6. GasFetcherHasPair <=> quoteUSD \in GasPairQuotes
  <2>1. \A l \in DOMAIN config.gasPairs : Len(config.pairs) + l <= Len(pairs)
    BY ListFacts
  <2>2. gasKnownPairs = {<<gweiTicker, config.gasPairs[k].quote>> : k \in DOMAIN config.gasPairs}
    BY <2>1 DEF SetupInv, RegisteredInv
  <2>3. QED
    BY <2>2 DEF GasFetcherHasPair, GasPairQuotes
<1>7. QED
  BY <1>1, <1>3, <1>4, <1>5, <1>6

(***************************************************************************)
(* Types.  Whatever an exchange sends, its fetcher replies with a number,  *)
(* one of the two special values, an error or a crash.                     *)
(***************************************************************************)
LEMMA RepliesTyped ==
    ASSUME NEW name \in ImplementedFetchers, NEW base, NEW quote,
           NEW response \in ResponsesOf(name), NEW reply \in FetchPrice(name, base, quote, response)
    PROVE  reply \in Int \cup {Inf, NaN, NoAnswer, Crash}
<1> DEFINE Replies == Int \cup {Inf, NaN, NoAnswer, Crash}
<1>1. \A v \in Quoted : StrToPositiveFloat64(v) \in Replies
  BY DEF Quoted, StrToPositiveFloat64
<1>2. NoAnswer \in Replies /\ Crash \in Replies
  OBVIOUS
<1> HIDE DEF Replies
<1>3. CASE name \in {"Binance", "Bitfinex", "Gemini", "HitBTC"}
  <2>1. response = Failed \/ response \in Quoted
    BY <1>3 DEF ResponsesOf
  <2>2. OnePrice(response) \in Replies
    BY <1>1, <1>2, <2>1 DEF OnePrice
  <2>3. QED
    BY <1>3, <2>2 DEF FetchPrice, Binance, Bitfinex, Gemini, Hitbtc, Replies
<1>4. CASE name \in {"Crypto.com", "Okx"}
  <2>1. response = Failed \/ response \in Seq(Quoted)
    BY <1>4 DEF ResponsesOf
  <2>2. response \in Seq(Quoted) /\ response # << >> => response[1] \in Quoted
    OBVIOUS
  <2>3. FirstPrice(response) \in Replies
    BY <1>1, <1>2, <2>1, <2>2 DEF FirstPrice
  <2>4. QED
    BY <1>4, <2>3 DEF FetchPrice, Cryptocom, Okx, Replies
<1>5. CASE name = "Huobi"
  <2>1. response = Failed \/ response \in Int
    BY <1>5 DEF ResponsesOf
  <2>2. reply \in Huobi(response)
    BY <1>5 DEF FetchPrice
  <2>3. QED
    BY <2>1, <2>2 DEF Huobi
<1>6. CASE name = "Kraken"
  <2> DEFINE Entry == [key : {Blank} \cup SUBSET STRING, prices : Seq(Quoted)]
  <2>1. response = Failed \/ response \subseteq Entry
    BY <1>6 DEF ResponsesOf
  <2>2. reply \in Kraken(response, base, NormalizeQuoteName(quote, name))
    BY <1>6 DEF FetchPrice
  <2>3. \A entry \in Entry : entry.prices \in Seq(Quoted)
    OBVIOUS
  <2>4. \A prices \in Seq(Quoted) : prices # << >> => prices[1] \in Quoted
    OBVIOUS
  <2> HIDE DEF Entry
  <2>5. \A entry \in Entry : KrakenEntry(entry) \in Replies
    BY <1>1, <1>2, <2>3, <2>4 DEF KrakenEntry
  <2>6. reply = NoAnswer \/ \E entry \in Entry : reply = KrakenEntry(entry)
    BY <2>1, <2>2 DEF Kraken
  <2>7. QED
    BY <1>2, <2>5, <2>6 DEF Replies
<1>7. QED
  BY <1>3, <1>4, <1>5, <1>6 DEF ImplementedFetchers

(***************************************************************************)
(* Rounds.  Every answer is typed; while a round fetches, whoever has been *)
(* asked was asked for the current pair, and in a healthy round has none   *)
(* only where the pair is not known; the pairs behind have enough named    *)
(* exchanges.                                                              *)
(***************************************************************************)
AnswersTyped == \A f \in Exchanges : answers[f] \in Int \cup {Inf, NaN, NoAnswer, NotAsked}

AskedInv ==
    stage = "fetch" => \A f \in Exchanges :
        \/ answers[f] = NotAsked
        \/ NeedsFetching /\ (healthy /\ answers[f] = NoAnswer => ~HasPair(f))

FetchedInv ==
    stage = "fetch" => \A k \in DOMAIN config.pairs :
        k < next /\ config.pairs[k].base # gweiTicker =>
            Cardinality(NamedExchanges(config.pairs[k])) >= config.minResultsNum

OutcomeInv ==
    /\ outcome \in Outcomes /\ healthy \in BOOLEAN
    /\ stage \in {"start", "register"} => outcome = "none"

HealthInv == /\ AnswersTyped /\ AskedInv /\ FetchedInv /\ OutcomeInv
             /\ UsableIffRoundsSucceed

LEMMA UsableKept == ASSUME config' = config PROVE Usable' = Usable
BY DEF Usable, EnoughNamed, GasConvertible, NamedExchanges, NamedFor, Configured,
       GasQuotes, GasPairQuotes, GweiQuotes

\* Nobody has been asked: what remains is what the loop says of the pairs behind.
LEMMA NobodyAskedHealth ==
    ASSUME answers' = NobodyAsked, UNCHANGED config, FetchedInv', OutcomeInv',
           stage' # "idle" \/ outcome' = "none" \/ ~healthy' \/ (outcome' = "nil" <=> Usable)
    PROVE  HealthInv'
<1>1. AnswersTyped' /\ AskedInv'
  BY DEF AnswersTyped, AskedInv, NobodyAsked
<1>2. UsableIffRoundsSucceed'
  BY UsableKept DEF UsableIffRoundsSucceed
<1>3. QED
  BY <1>1, <1>2 DEF HealthInv

LEMMA EndRoundHealth ==
    ASSUME IInv, SetupInv, HealthInv, NEW result \in Outcomes, EndRound(result),
           healthy' \in BOOLEAN, ~healthy' \/ (result = "nil" <=> Usable)
    PROVE  HealthInv'
<1>1. /\ stage' = "idle" /\ answers' = NobodyAsked /\ outcome' = result
      /\ UNCHANGED config
  BY DEF EndRound
<1>2. FetchedInv' /\ OutcomeInv'
  BY <1>1 DEF FetchedInv, OutcomeInv
<1>3. QED
  BY <1>1, <1>2, NobodyAskedHealth

\* The pair being fetched is an ordinary pair of the configuration.
LEMMA CurrentPair ==
    ASSUME IInv, SetupInv, stage = "fetch", NeedsFetching
    PROVE  /\ next \in DOMAIN config.pairs /\ pairs[next] = config.pairs[next]
           /\ config.pairs[next].base # gweiTicker
           /\ NamedExchanges(config.pairs[next]) = {f \in Exchanges : HasPair(f)}
<1>1. Len(pairs) = Total
  BY DEF SetupInv, ProgressInv
<1>2. next \in DOMAIN config.pairs /\ pairs[next] = config.pairs[next]
  BY <1>1, RegisteredPairs DEF NeedsFetching
<1>3. \A f \in Exchanges :
         HasPair(f) <=> NamedFor(f, Upper[pairs[next].base], Upper[pairs[next].quote])
  BY <1>1, KnownAsNamed DEF HasPair
<1>4. QED
  BY <1>2, <1>3 DEF NeedsFetching, NamedExchanges

LEMMA FetchHealth == ASSUME IInv, SetupInv, HealthInv, Fetch PROVE HealthInv'
<1>1. PICK f \in Exchanges : PairNotSupported(f) \/ PriceFetched(f) \/ FetcherPanics(f)
  BY DEF Fetch
<1>2. answers = [g \in Exchanges |-> answers[g]]
  BY DEF IInv, RoundInv
<1>3. CASE PairNotSupported(f)
  <2>1. /\ stage = "fetch" /\ NeedsFetching /\ ~HasPair(f)
        /\ answers' = [answers EXCEPT ![f] = NoAnswer]
        /\ UNCHANGED <<config, stage, next, knownPairs, pairs, outcome, healthy>>
    BY <1>3 DEF PairNotSupported, registry
  <2>2. AnswersTyped'
    BY <1>2, <2>1 DEF HealthInv, AnswersTyped
  <2>3. AskedInv'
    BY <1>2, <2>1 DEF HealthInv, AskedInv, NeedsFetching, HasPair
  <2>4. FetchedInv' /\ OutcomeInv' /\ UsableIffRoundsSucceed'
    BY <2>1 DEF HealthInv, FetchedInv, NamedExchanges, NamedFor, OutcomeInv,
                UsableIffRoundsSucceed
  <2>5. QED
    BY <2>2, <2>3, <2>4 DEF HealthInv
<1>4. CASE PriceFetched(f)
  <2> DEFINE base == Upper[pairs[next].base]
             quote == Upper[pairs[next].quote]
  <2>1. PICK response \in Responses[f] :
           \E reply \in FetchPrice(f, base, quote, response) :
              /\ reply # Crash /\ answers' = [answers EXCEPT ![f] = reply]
              /\ healthy' = (healthy /\ reply # NoAnswer)
    BY <1>4 DEF PriceFetched
  <2>2. PICK reply \in FetchPrice(f, base, quote, response) :
           /\ reply # Crash /\ answers' = [answers EXCEPT ![f] = reply]
           /\ healthy' = (healthy /\ reply # NoAnswer)
    BY <2>1
  <2> HIDE DEF base, quote
  <2>3. response \in ResponsesOf(f)
    BY ResponsesAssumption
  <2>4. reply \in Int \cup {Inf, NaN, NoAnswer, Crash}
    BY <2>3, RepliesTyped, ExchangesAssumption
  <2>5. /\ stage = "fetch" /\ NeedsFetching
        /\ UNCHANGED <<config, stage, next, knownPairs, pairs, outcome>>
    BY <1>4 DEF PriceFetched, registry
  <2>6. AnswersTyped'
    BY <1>2, <2>2, <2>4 DEF HealthInv, AnswersTyped
  <2>7. AskedInv'
    <3>1. ASSUME NEW g \in Exchanges, answers'[g] # NotAsked, healthy', answers'[g] = NoAnswer
          PROVE  ~HasPair(g)
      <4>1. g # f
        BY <1>2, <2>2, <3>1
      <4>2. answers'[g] = answers[g] /\ healthy
        BY <1>2, <2>2, <3>1, <4>1
      <4>3. QED
        BY <2>5, <3>1, <4>2 DEF HealthInv, AskedInv
    <3>2. NeedsFetching' /\ \A g \in Exchanges : HasPair(g)' = HasPair(g)
      BY <2>5 DEF NeedsFetching, HasPair
    <3>3. QED
      BY <3>1, <3>2 DEF AskedInv
  <2>8. OutcomeInv'
    BY <2>2, <2>5 DEF HealthInv, OutcomeInv
  <2>9. FetchedInv' /\ UsableIffRoundsSucceed'
    BY <2>5 DEF HealthInv, FetchedInv, NamedExchanges, NamedFor, UsableIffRoundsSucceed
  <2>10. QED
    BY <2>6, <2>7, <2>8, <2>9 DEF HealthInv
<1>5. CASE FetcherPanics(f)
  BY <1>5 DEF FetcherPanics, registry, HealthInv, AnswersTyped, AskedInv, FetchedInv,
              OutcomeInv, UsableIffRoundsSucceed
<1>6. QED
  BY <1>1, <1>3, <1>4, <1>5

LEMMA PairFetchedHealth == ASSUME IInv, SetupInv, HealthInv, PairFetched PROVE HealthInv'
<1>1. /\ stage = "fetch" /\ NeedsFetching /\ Enough(Answering)
      /\ next' = next + 1 /\ answers' = NobodyAsked
      /\ UNCHANGED <<config, stage, outcome, healthy>>
  BY DEF PairFetched
<1> DEFINE named == NamedExchanges(config.pairs[next])
<1>2. Answering \subseteq named
  BY <1>1, CurrentPair DEF IInv, AnswersInv, Answering
<1>3. IsFiniteSet(named) /\ named \subseteq Exchanges
  BY ExchangesAssumption, FS_Subset DEF NamedExchanges
<1>4. Cardinality(named) >= config.minResultsNum
  <2> HIDE DEF named
  <2>1. /\ IsFiniteSet(Answering) /\ Cardinality(Answering) <= Cardinality(named)
    BY <1>2, <1>3, FS_Subset
  <2>2. Cardinality(Answering) \in Nat /\ Cardinality(named) \in Nat
    BY <1>3, <2>1, FS_CardinalityType
  <2>3. QED
    BY <1>1, <2>1, <2>2, ListFacts DEF Enough
<1> HIDE DEF named
<1>5. ASSUME NEW k \in DOMAIN config.pairs, k < next + 1, config.pairs[k].base # gweiTicker
      PROVE  Cardinality(NamedExchanges(config.pairs[k])) >= config.minResultsNum
  <2>1. CASE k = next
    BY <1>4, <2>1 DEF named
  <2>2. CASE k # next
    <3>1. k \in Nat /\ next \in Nat
      <4>1. k \in Nat
        BY ListFacts
      <4>2. next \in Nat
        BY DEF IInv, RoundInv
      <4>3. QED
        BY <4>1, <4>2
    <3>2. k < next
      BY <1>5, <2>2, <3>1
    <3>3. QED
      BY <1>1, <1>5, <3>2 DEF HealthInv, FetchedInv
  <2>3. QED
    BY <2>1, <2>2
<1>6. FetchedInv'
  BY <1>1, <1>5 DEF FetchedInv, NamedExchanges, NamedFor
<1>7. OutcomeInv'
  BY <1>1 DEF HealthInv, OutcomeInv
<1>8. QED
  BY <1>1, <1>6, <1>7, NobodyAskedHealth

LEMMA GweiPairSkippedHealth ==
    ASSUME IInv, SetupInv, HealthInv, GweiPairSkipped PROVE HealthInv'
<1>1. /\ stage = "fetch" /\ next \in DOMAIN pairs /\ pairs[next].base = gweiTicker
      /\ next' = next + 1 /\ ~NeedsFetching
      /\ UNCHANGED <<config, stage, pairs, answers, outcome, healthy>>
  BY DEF GweiPairSkipped, NeedsFetching, registry
<1>2. \A f \in Exchanges : answers[f] = NotAsked
  BY <1>1 DEF HealthInv, AskedInv
<1>3. AnswersTyped' /\ AskedInv'
  BY <1>1, <1>2 DEF AnswersTyped, AskedInv
<1>4. ASSUME NEW k \in DOMAIN config.pairs, k < next + 1, config.pairs[k].base # gweiTicker
      PROVE  Cardinality(NamedExchanges(config.pairs[k])) >= config.minResultsNum
  <2>1. k # next
    <3>1. Len(pairs) = Total
      BY <1>1 DEF SetupInv, ProgressInv
    <3>2. pairs[k] = config.pairs[k]
      BY <3>1, RegisteredPairs
    <3>3. QED
      BY <1>1, <1>4, <3>2
  <2>2. k \in Nat /\ next \in Nat
    <3>1. k \in Nat
      BY ListFacts
    <3>2. next \in Nat
      BY DEF IInv, RoundInv
    <3>3. QED
      BY <3>1, <3>2
  <2>3. k < next
    BY <1>4, <2>1, <2>2
  <2>4. QED
    BY <1>1, <1>4, <2>3 DEF HealthInv, FetchedInv
<1>5. FetchedInv'
  BY <1>1, <1>4 DEF FetchedInv, NamedExchanges, NamedFor
<1>6. OutcomeInv' /\ UsableIffRoundsSucceed'
  BY <1>1 DEF HealthInv, OutcomeInv, UsableIffRoundsSucceed
<1>7. QED
  BY <1>3, <1>5, <1>6 DEF HealthInv

(***************************************************************************)
(* The ways a round ends.  A pair without enough answers, in a healthy     *)
(* round, has not enough named exchanges.                                  *)
(***************************************************************************)
LEMMA NotEnoughHealth ==
    ASSUME IInv, SetupInv, HealthInv, NotEnoughResponses PROVE HealthInv'
<1>1. /\ stage = "fetch" /\ NeedsFetching /\ AllAsked /\ ~Enough(Answering)
      /\ EndRound("ErrNotEnoughResponses") /\ UNCHANGED healthy
  BY DEF NotEnoughResponses
<1>2. healthy => ~Usable
  <2>1. ASSUME healthy
        PROVE  Answering = NamedExchanges(config.pairs[next])
    <3>1. \A f \in Exchanges : answers[f] # NotAsked
      BY <1>1 DEF AllAsked
    <3>2. \A f \in Exchanges : answers[f] = NoAnswer => ~HasPair(f)
      BY <1>1, <2>1, <3>1 DEF HealthInv, AskedInv
    <3>3. \A f \in Exchanges : answers[f] # NoAnswer => HasPair(f)
      BY <3>1 DEF IInv, AnswersInv
    <3>4. Answering = {f \in Exchanges : HasPair(f)}
      BY <3>1, <3>2, <3>3 DEF Answering
    <3>5. QED
      BY <1>1, <3>4, CurrentPair
  <2>2. QED
    BY <1>1, <2>1, CurrentPair DEF Enough, Usable, EnoughNamed
<1>3. "ErrNotEnoughResponses" \in Outcomes /\ healthy' \in BOOLEAN /\ (healthy' => ~Usable)
  BY <1>1, <1>2 DEF HealthInv, OutcomeInv, Outcomes
<1>4. QED
  BY <1>1, <1>3, EndRoundHealth

LEMMA AllFetchedEnough ==
    ASSUME IInv, SetupInv, HealthInv, AllFetched
    PROVE  EnoughNamed /\ Len(pairs) = Total
<1>1. Len(pairs) = Total
  BY DEF AllFetched, SetupInv, ProgressInv
<1>2. \A k \in DOMAIN config.pairs : k < next
  <2>1. \A k \in DOMAIN config.pairs : k \in Nat /\ k <= Len(pairs)
    BY <1>1, RegisteredPairs, ListFacts
  <2>2. next > Len(pairs) /\ next \in Nat /\ Len(pairs) \in Nat
    BY ListFacts DEF AllFetched, IInv, RoundInv
  <2>3. QED
    BY <2>1, <2>2
<1>3. QED
  BY <1>1, <1>2 DEF AllFetched, HealthInv, FetchedInv, EnoughNamed

LEMMA ConvertHealth == ASSUME IInv, SetupInv, HealthInv, Convert PROVE HealthInv'
<1>1. EnoughNamed /\ Len(pairs) = Total
  BY AllFetchedEnough DEF Convert, NoGasPairs, RequiredPairsMissing, EthPriceZero, Verified,
     GasPairNotSupported, GasStationFails, GasPriceConverted
<1>2. /\ GweiQuotes(pairs) = GasQuotes
      /\ EthUsdIndices(pairs) # {} <=> Configured(ethTicker, quoteUSD)
      /\ \A q : TargetIndices(pairs, q) # {} <=>
                   q \notin {ethTicker, gweiTicker} /\ Configured(q, quoteUSD)
      /\ \A q : Configured(q, quoteUSD) => q \in UsdBases(pairs)
      /\ GasFetcherHasPair <=> quoteUSD \in GasPairQuotes
  BY <1>1, ConversionAsConfigured
<1>3. Usable <=> (GasQuotes # {} => GasConvertible)
  BY <1>1 DEF Usable
<1>4. healthy \in BOOLEAN
  BY DEF HealthInv, OutcomeInv
<1>5. CASE NoGasPairs
  <2>1. Usable
    BY <1>2, <1>3, <1>5 DEF NoGasPairs, VerifyRequiredPairs
  <2>2. EndRound("nil") /\ healthy' = healthy /\ "nil" \in Outcomes
    BY <1>5 DEF NoGasPairs, Outcomes
  <2>3. QED
    BY <1>4, <2>1, <2>2, EndRoundHealth
<1>6. CASE RequiredPairsMissing
  <2>1. VerifyRequiredPairs(pairs) = "ErrMissingPairs"
    BY <1>6 DEF RequiredPairsMissing
  <2>2. /\ GasQuotes # {}
        /\ \/ ~Configured(ethTicker, quoteUSD)
           \/ \E q \in GasQuotes \ {quoteUSD} : q \notin UsdBases(pairs)
    BY <1>2, <2>1 DEF VerifyRequiredPairs
  <2>3. ~Usable
    BY <1>2, <1>3, <2>2 DEF GasConvertible
  <2>4. EndRound("ErrMissingPairs") /\ healthy' = healthy /\ "ErrMissingPairs" \in Outcomes
    BY <1>6 DEF RequiredPairsMissing, Outcomes
  <2>5. QED
    BY <1>4, <2>3, <2>4, EndRoundHealth
<1>7. CASE EthPriceZero
  <2>1. EndRound("ErrEthUsdPriceZero") /\ healthy' = FALSE /\ "ErrEthUsdPriceZero" \in Outcomes
    BY <1>7 DEF EthPriceZero, Outcomes
  <2>2. QED
    BY <2>1, EndRoundHealth
<1>8. CASE GasStationFails
  <2>1. EndRound("ErrGasStation") /\ healthy' = FALSE /\ "ErrGasStation" \in Outcomes
    BY <1>8 DEF GasStationFails, Outcomes
  <2>2. QED
    BY <2>1, EndRoundHealth
<1>9. CASE GasPairNotSupported
  <2>1. GasQuotes # {}
    BY <1>2, <1>9 DEF GasPairNotSupported, Verified, VerifyRequiredPairs
  <2>2. ~Usable
    BY <1>2, <1>3, <1>9, <2>1 DEF GasPairNotSupported, GasConvertible
  <2>3. EndRound("ErrPairNotSupported") /\ healthy' = healthy /\ "ErrPairNotSupported" \in Outcomes
    BY <1>9 DEF GasPairNotSupported, Outcomes
  <2>4. QED
    BY <1>4, <2>2, <2>3, EndRoundHealth
<1>10. CASE GasPriceConverted
  <2>1. /\ GasQuotes # {} /\ Configured(ethTicker, quoteUSD) /\ quoteUSD \in GasPairQuotes
    BY <1>2, <1>10 DEF GasPriceConverted, Verified, VerifyRequiredPairs
  <2>2. TargetsFound(pairs) <=> Usable
    BY <1>2, <1>3, <2>1 DEF TargetsFound, GasConvertible
  <2> DEFINE result == IF TargetsFound(pairs) THEN "nil" ELSE "ErrMissingPairs"
  <2>3. EndRound(result) /\ healthy' = healthy
    BY <1>10 DEF GasPriceConverted
  <2>4. result \in Outcomes /\ (result = "nil" <=> Usable)
    BY <2>2 DEF Outcomes
  <2> HIDE DEF result
  <2>5. QED
    BY <1>4, <2>3, <2>4, EndRoundHealth
<1>11. QED
  BY <1>5, <1>6, <1>7, <1>8, <1>9, <1>10 DEF Convert

LEMMA NextHealth == ASSUME IInv, SetupInv, HealthInv, [Next]_vars PROVE HealthInv'
<1>1. CASE Setup
  <2>1. /\ stage \in {"start", "register"} /\ stage' \in {"register", "idle", "exited"}
        /\ UNCHANGED <<config, answers, outcome, healthy>>
    BY <1>1 DEF Setup, CreateFetchers, AddPair, AddGasPair, NewPriceNotifier
  <2>2. answers' = NobodyAsked /\ outcome' = "none"
    BY <2>1 DEF IInv, RoundInv, HealthInv, OutcomeInv
  <2>3. FetchedInv' /\ OutcomeInv'
    BY <2>1, <2>2 DEF FetchedInv, OutcomeInv, HealthInv
  <2>4. QED
    BY <2>1, <2>2, <2>3, NobodyAskedHealth
<1>2. CASE StartRound
  <2>1. /\ stage' = "fetch" /\ next' = 1 /\ answers' = NobodyAsked
        /\ outcome' = "none" /\ healthy' = TRUE /\ UNCHANGED config
    BY <1>2 DEF StartRound
  <2>2. \A k \in DOMAIN config.pairs : ~(k < 1)
    BY ListFacts
  <2>3. FetchedInv' /\ OutcomeInv'
    BY <2>1, <2>2 DEF FetchedInv, OutcomeInv, Outcomes
  <2>4. QED
    BY <2>1, <2>3, NobodyAskedHealth
<1>3. CASE Fetch
  BY <1>3, FetchHealth
<1>4. CASE PairFetched
  BY <1>4, PairFetchedHealth
<1>5. CASE GweiPairSkipped
  BY <1>5, GweiPairSkippedHealth
<1>6. CASE NotEnoughResponses
  BY <1>6, NotEnoughHealth
<1>7. CASE Convert
  BY <1>7, ConvertHealth
<1>8. CASE Restart
  <2>1. /\ stage' = "start" /\ answers' = NobodyAsked
        /\ outcome' = "none" /\ healthy' = TRUE /\ UNCHANGED config
    BY <1>8 DEF Restart, StartState
  <2>2. FetchedInv' /\ OutcomeInv'
    BY <2>1 DEF FetchedInv, OutcomeInv, Outcomes
  <2>3. QED
    BY <2>1, <2>2, NobodyAskedHealth
<1>9. CASE UNCHANGED vars
  BY <1>9, UsableKept DEF vars, registry, HealthInv, AnswersTyped, AskedInv, NeedsFetching, HasPair,
     FetchedInv, NamedExchanges, NamedFor, OutcomeInv, UsableIffRoundsSucceed
<1>10. QED
  BY <1>1, <1>2, <1>3, <1>4, <1>5, <1>6, <1>7, <1>8, <1>9 DEF Next, Round

LEMMA HealthInvariance == Spec => [](IInv /\ SetupInv /\ HealthInv)
<1>1. Init => HealthInv
  BY DEF Init, HealthInv, AnswersTyped, AskedInv, FetchedInv, OutcomeInv, Outcomes,
         UsableIffRoundsSucceed, NobodyAsked
<1>2. Init => IInv /\ SetupInv /\ HealthInv
  BY <1>1, InitInv, InitSetup
<1>3. (IInv /\ SetupInv /\ HealthInv) /\ [Next]_vars => (IInv /\ SetupInv /\ HealthInv)'
  BY NextStep, NextSetup, NextHealth
<1>4. QED
  BY <1>2, <1>3, PTL DEF Spec

(***************************************************************************)
(* The oracle can notify exactly with the usable configurations: with any  *)
(* of them every round in which everyone answers succeeds, with any other  *)
(* none does (main.go's two loops, the aggregator's count, and the checks  *)
(* of ConvertGasPrices together).                                          *)
(***************************************************************************)
THEOREM RoundsSucceedIffUsable == Spec => []UsableIffRoundsSucceed
BY HealthInvariance, PTL DEF HealthInv

\* Whatever the exchanges send, every variable keeps its type; in particular
\* no crash is ever taken for an answer.
THEOREM TypeCorrect == Spec => []TypeOK
<1>1. IInv /\ SetupInv /\ HealthInv => TypeOK
  <2> SUFFICES ASSUME IInv, SetupInv, HealthInv PROVE TypeOK
    OBVIOUS
  <2>1. config \in Configs /\ next \in Nat \ {0}
    BY DEF IInv, ConfigInv, RoundInv
  <2>2. stage \in {"start", "register", "idle", "fetch", "exited"}
        /\ outcome \in Outcomes /\ healthy \in BOOLEAN
    BY DEF SetupInv, ProgressInv, HealthInv, OutcomeInv
  <2>3. knownPairs \in [Exchanges -> SUBSET {Key(config.pairs[k]) : k \in DOMAIN config.pairs}]
    BY DEF IInv, KnownInv
  <2>4. DOMAIN pairs \subseteq 1 .. Len(config.pairs) + Len(config.gasPairs)
    <3>1. DOMAIN pairs = 1 .. Len(pairs) /\ Len(pairs) \in Nat
          /\ Len(config.pairs) \in Nat /\ Len(config.gasPairs) \in Nat
      BY ListFacts
    <3>2. Len(pairs) <= Len(config.pairs) + Len(config.gasPairs)
      BY DEF SetupInv, ProgressInv, Total
    <3>3. \A a, b, c \in Nat : a <= b + c => 1 .. a \subseteq 1 .. b + c
      OBVIOUS
    <3>4. QED
      BY <3>1, <3>2, <3>3
  <2>5. answers \in [Exchanges -> Int \cup {Inf, NaN, NoAnswer, NotAsked}]
    BY DEF IInv, RoundInv, HealthInv, AnswersTyped
  <2>6. DOMAIN sources \subseteq DOMAIN pairs
    BY DEF IInv, RoundInv
  <2>7. QED
    BY <2>1, <2>2, <2>3, <2>4, <2>5, <2>6 DEF TypeOK
<1>2. QED
  BY <1>1, HealthInvariance, PTL
=============================================================================
