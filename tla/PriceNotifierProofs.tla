------------------------ MODULE PriceNotifierProofs ------------------------
(***************************************************************************)
(* Theorems about PriceNotifier, for every list of pairs, interval, set of *)
(* answers and bound.                                                      *)
(***************************************************************************)
EXTENDS PriceNotifier, PriceLemmas, TLAPS

(***************************************************************************)
(* GasConversion: converting a list of pair infos keeps their shape.       *)
(***************************************************************************)
PairInfo == [base : STRING, quote : STRING, price : Price, timestamp : Nat]

LEMMA EthPriceIsPrice ==
    ASSUME NEW pairs \in Seq(PairInfo), EthUsdIndices(pairs) # {}
    PROVE  EthPrice(pairs) \in Price
<1>1. EthUsdIndices(pairs) \subseteq DOMAIN pairs /\ DOMAIN pairs \subseteq Nat
    BY DEF EthUsdIndices
<1>2. \E i \in EthUsdIndices(pairs) : \A j \in EthUsdIndices(pairs) : i <= j
    BY <1>1, LeastElement
<1> DEFINE i == CHOOSE i \in EthUsdIndices(pairs) : \A j \in EthUsdIndices(pairs) : i <= j
<1>3. i \in DOMAIN pairs
    BY <1>1, <1>2
<1>4. pairs[i] \in PairInfo
    BY <1>3
<1> QED
    BY <1>4 DEF EthPrice, PairInfo

LEMMA TargetPriceIsPrice ==
    ASSUME NEW pairs \in Seq(PairInfo), NEW token, TargetIndices(pairs, token) # {}
    PROVE  TargetPrice(pairs, token) \in Price
<1>1. TargetIndices(pairs, token) \subseteq 1 .. Len(pairs) /\ Len(pairs) \in Nat
    BY DEF TargetIndices
<1>2. \E i \in TargetIndices(pairs, token) : \A j \in TargetIndices(pairs, token) : j <= i
    BY <1>1, GreatestElement
<1> DEFINE i == CHOOSE i \in TargetIndices(pairs, token) :
                    \A j \in TargetIndices(pairs, token) : j <= i
<1>3. i \in 1 .. Len(pairs)
    BY <1>1, <1>2
<1>4. pairs[i] \in PairInfo
    BY <1>3
<1> QED
    BY <1>4 DEF TargetPrice, PairInfo

LEMMA ConvertedIsPairInfo ==
    ASSUME NEW pairs \in Seq(PairInfo), NEW gasPrice \in Price,
           EthUsdIndices(pairs) # {}, TargetsFound(pairs)
    PROVE  \A i \in DOMAIN pairs : ConvertGasPrices(pairs, gasPrice)[i] \in PairInfo
<1> SUFFICES ASSUME NEW i \in DOMAIN pairs
             PROVE  ConvertGasPrices(pairs, gasPrice)[i] \in PairInfo
    OBVIOUS
<1>1. pairs[i] \in PairInfo
    OBVIOUS
<1>2. CASE pairs[i].base # gweiTicker
    BY <1>1, <1>2 DEF ConvertGasPrices
<1>3. CASE pairs[i].base = gweiTicker
    <2>1. NominalValue(EthPrice(pairs), gasPrice) \in Price
        BY EthPriceIsPrice, NominalValueIsPrice
    <2>2. GasPriceIn(pairs, pairs[i].quote, gasPrice) \in Price
        <3>1. CASE pairs[i].quote = quoteUSD
            BY <2>1, <3>1 DEF GasPriceIn
        <3>2. CASE pairs[i].quote # quoteUSD
            <4>1. TargetIndices(pairs, pairs[i].quote) # {}
                BY <1>3, <3>2 DEF TargetsFound, GweiQuotes
            <4> QED
                BY <2>1, <3>2, <4>1, TargetPriceIsPrice, QuotientIsPrice DEF GasPriceIn
        <3> QED
            BY <3>1, <3>2
    <2> QED
        BY <1>1, <1>3, <2>2 DEF ConvertGasPrices, PairInfo
<1> QED
    BY <1>2, <1>3

(***************************************************************************)
(* PriceNotifier: the pairs, and what the conversion leaves behind.        *)
(***************************************************************************)
LEMMA IndexFacts ==
    /\ Len(Pairs) \in Nat /\ 1 \in Index /\ Index \subseteq Nat
    /\ DOMAIN Pairs = Index
    /\ \A i \in Index : /\ Pairs[i].base \in STRING /\ Pairs[i].quote \in STRING
                         /\ Pairs[i].percent \in Nat
                         /\ Pairs[i].precision \in Nat \ {0}
<1> DEFINE Pair == [base : STRING, quote : STRING, percent : Nat, precision : Nat \ {0}]
<1>1. Pairs \in Seq(Pair) /\ Len(Pairs) >= 1
    BY PairsAssumption
<1>2. /\ Len(Pairs) \in Nat /\ 1 \in Index /\ Index \subseteq Nat
      /\ DOMAIN Pairs = Index
    BY <1>1 DEF Index
<1>3. ASSUME NEW i \in Index
      PROVE  /\ Pairs[i].base \in STRING /\ Pairs[i].quote \in STRING
             /\ Pairs[i].percent \in Nat
             /\ Pairs[i].precision \in Nat \ {0}
    <2>1. Pairs[i] \in Pair
        <3> HIDE DEF Pair
        <3> QED
            BY <1>1 DEF Index
    <2> QED
        BY <2>1
<1> QED
    BY <1>2, <1>3

LEMMA LastEqualPairFacts ==
    ASSUME NEW i \in Index
    PROVE  /\ LastEqualPair(i) \in Index
           /\ Pairs[LastEqualPair(i)].base = Pairs[i].base
           /\ Pairs[LastEqualPair(i)].quote = Pairs[i].quote
           /\ \A k \in Index : Pairs[k].base = Pairs[i].base /\ Pairs[k].quote = Pairs[i].quote
                              => k <= LastEqualPair(i)
<1> DEFINE Same == {j \in Index : Pairs[j].base = Pairs[i].base /\ Pairs[j].quote = Pairs[i].quote}
<1>1. Same \subseteq 1 .. Len(Pairs) /\ Same # {}
    BY DEF Index
<1>2. PICK j \in Same : \A k \in Same : k <= j
    BY <1>1, GreatestElement, IndexFacts
<1>3. /\ j \in Index
      /\ Pairs[j].base = Pairs[i].base /\ Pairs[j].quote = Pairs[i].quote
    BY <1>2
<1>4. ASSUME NEW k \in j + 1 .. Len(Pairs)
      PROVE  ~(Pairs[k].base = Pairs[i].base /\ Pairs[k].quote = Pairs[i].quote)
    <2>1. k \in Index /\ ~(k <= j)
        BY <1>3, IndexFacts DEF Index
    <2>2. k \notin Same
        BY <1>2, <2>1
    <2> QED
        BY <2>1, <2>2
<1> DEFINE last == LastEqualPair(i)
<1>5. /\ last \in Index
      /\ Pairs[last].base = Pairs[i].base /\ Pairs[last].quote = Pairs[i].quote
      /\ \A k \in last + 1 .. Len(Pairs) :
            ~(Pairs[k].base = Pairs[i].base /\ Pairs[k].quote = Pairs[i].quote)
    BY <1>3, <1>4 DEF LastEqualPair
<1> HIDE DEF last
<1>6. ASSUME NEW k \in Index, ~(k <= last)
      PROVE  k \in last + 1 .. Len(Pairs)
    BY <1>5, <1>6, IndexFacts DEF Index
<1>7. \A k \in Index : Pairs[k].base = Pairs[i].base /\ Pairs[k].quote = Pairs[i].quote
                     => k <= last
    BY <1>5, <1>6
<1> QED
    BY <1>5, <1>7 DEF last

FetchedType == [Index -> [price : Price, timestamp : Nat]]

LEMMA PairInfosType ==
    ASSUME fetchedPrices \in FetchedType
    PROVE  PairInfos \in Seq(PairInfo) /\ DOMAIN PairInfos = Index
<1>1. \A i \in Index : fetchedPrices[i].price \in Price /\ fetchedPrices[i].timestamp \in Nat
    BY DEF FetchedType
<1>2. PairInfos \in [1 .. Len(Pairs) -> PairInfo]
    BY <1>1, IndexFacts DEF PairInfos, PairInfo, Index
<1> QED
    BY <1>2, IndexFacts DEF Index

LEMMA CopyBackType ==
    ASSUME NEW infos, \A i \in Index : infos[i] \in PairInfo
    PROVE  CopyBack(infos) \in FetchedType
<1>1. ASSUME NEW i \in Index
      PROVE  [price |-> infos[LastEqualPair(i)].price,
              timestamp |-> infos[LastEqualPair(i)].timestamp]
                \in [price : Price, timestamp : Nat]
    <2>1. infos[LastEqualPair(i)] \in PairInfo
        BY LastEqualPairFacts
    <2> QED
        BY <2>1 DEF PairInfo
<1> QED
    BY <1>1 DEF CopyBack, FetchedType

LEMMA DenominatedType ==
    ASSUME fetchedPrices \in FetchedType, DenominateGasPrice
    PROVE  fetchedPrices' \in FetchedType
<1>1. PairInfos \in Seq(PairInfo) /\ DOMAIN PairInfos = Index
    BY PairInfosType
<1>2. \A i \in Index : PairInfos[i] \in PairInfo
    BY <1>1
<1>3. CASE VerifyRequiredPairs(PairInfos) = "ErrNoGasPairs"
    <2>1. fetchedPrices' = CopyBack(PairInfos)
        BY <1>3 DEF DenominateGasPrice
    <2> QED
        BY <1>2, <2>1, CopyBackType
<1>4. CASE VerifyRequiredPairs(PairInfos) = "nil"
    <2>1. TargetsFound(PairInfos)
        BY <1>4 DEF DenominateGasPrice
    <2>2. PICK gasPrice \in GasResults :
             fetchedPrices' = CopyBack(ConvertGasPrices(PairInfos, gasPrice))
        BY <1>4 DEF DenominateGasPrice
    <2>3. EthUsdIndices(PairInfos) # {}
        BY <1>4 DEF VerifyRequiredPairs
    <2>4. gasPrice \in Price
        BY AnswersAssumption
    <2>5. \A i \in Index : ConvertGasPrices(PairInfos, gasPrice)[i] \in PairInfo
        BY <1>1, <2>1, <2>3, <2>4, ConvertedIsPairInfo
    <2> QED
        BY <2>2, <2>5, CopyBackType
<1> QED
    BY <1>3, <1>4 DEF DenominateGasPrice

\* The conversion moves no timestamp but between equal pairs.
LEMMA DenominatedTimestamps ==
    ASSUME fetchedPrices \in FetchedType, DenominateGasPrice, NEW i \in Index
    PROVE  /\ LastEqualPair(i) \in Index
           /\ fetchedPrices'[i].timestamp = fetchedPrices[LastEqualPair(i)].timestamp
<1>1. LastEqualPair(i) \in Index
    BY LastEqualPairFacts
<1>2. PairInfos[LastEqualPair(i)].timestamp = fetchedPrices[LastEqualPair(i)].timestamp
    BY <1>1 DEF PairInfos
<1>3. CASE fetchedPrices' = CopyBack(PairInfos)
    BY <1>1, <1>2, <1>3 DEF CopyBack
<1>4. CASE \E gasPrice \in GasResults :
             fetchedPrices' = CopyBack(ConvertGasPrices(PairInfos, gasPrice))
    <2>1. PICK gasPrice \in GasResults :
             fetchedPrices' = CopyBack(ConvertGasPrices(PairInfos, gasPrice))
        BY <1>4
    <2>2. LastEqualPair(i) \in DOMAIN PairInfos
        BY <1>1 DEF PairInfos
    <2>3. PairInfos[LastEqualPair(i)] \in PairInfo
        BY <2>2, PairInfosType
    <2>4. ConvertGasPrices(PairInfos, gasPrice)[LastEqualPair(i)].timestamp
             = PairInfos[LastEqualPair(i)].timestamp
        BY <2>2, <2>3 DEF ConvertGasPrices, PairInfo
    <2> QED
        BY <1>1, <1>2, <2>1, <2>4 DEF CopyBack
<1> QED
    BY <1>3, <1>4 DEF DenominateGasPrice

(***************************************************************************)
(* Type correctness.  Every variable of the notifier keeps its type, and   *)
(* no time it remembers, nor any in flight or in the contract, lies ahead  *)
(* of the clock.  The process and what is outside of it are two halves.    *)
(***************************************************************************)
ProcessTyped ==
    /\ pc \in {"idle", "fetch", "convert", "compute", "notify", "send"}
    /\ idx \in 1 .. Len(Pairs) + 1
    /\ fetchedPrices \in [Index -> Info]
    /\ toNotify \subseteq Index
    /\ IsArgs(args)
    /\ lastNotifiedPrices \in [Index -> Price]
    /\ lastTimeAutoSent \in 0 .. now
    /\ now \in Nat
    /\ result \in {"none", "nil", "fetchErr", "convertErr", "sendErr"}
    /\ attemptedAt \in [Index -> 0 .. now]

OutsideTyped ==
    /\ now \in Nat /\ run \in Nat \ {0}
    /\ \A b \in inFlight :
          b.run \in 1 .. run /\ b.place \in 1 .. MaxInFlight /\ IsArgs(b.args)
    /\ submitted \in [Index -> [price : Price, timestamp : 0 .. now, run : 0 .. run]]

LEMMA TypeHalves == TypeOK <=> ProcessTyped /\ OutsideTyped
BY DEF TypeOK, ProcessTyped, OutsideTyped

LEMMA NoArgsTyped == IsArgs(NoArgs) /\ DOMAIN NoArgs = {}
BY DEF IsArgs, NoArgs

LEMMA InfoGrows ==
    ASSUME now \in Nat, now' \in Nat, now <= now'
    PROVE  /\ Info \subseteq Info'
           /\ \A a : IsArgs(a) => /\ DOMAIN a \subseteq Index
                                  /\ a \in [DOMAIN a -> Info']
<1>1. 0 .. now \subseteq 0 .. now'
    OBVIOUS
<1>2. Info \subseteq Info'
    BY <1>1 DEF Info
<1> QED
    BY <1>2 DEF IsArgs

LEMMA TypedFetched ==
    ASSUME TypeOK
    PROVE  fetchedPrices \in FetchedType
<1>1. Info \subseteq [price : Price, timestamp : Nat]
    BY DEF Info, TypeOK
<1> QED
    BY <1>1 DEF TypeOK, FetchedType

LEMMA InitTypeOK == Init => TypeOK
<1> SUFFICES ASSUME Init PROVE TypeOK
    OBVIOUS
<1>1. 0 \in Price /\ NoPrice \in Info /\ 0 \in 0 .. now
    BY DEF Price, NoPrice, Init, Info
<1>2. IsArgs(args)
    BY NoArgsTyped DEF Init
<1>3. submitted \in [Index -> [price : Price, timestamp : 0 .. now, run : 0 .. run]]
    <2>1. run = 1
        BY DEF Init
    <2> QED
        BY <1>1, <2>1 DEF Init
<1> QED
    BY <1>1, <1>2, <1>3, IndexFacts DEF Init, TypeOK

LEMMA HandOverTyped ==
    ASSUME TypeOK, HandOver, UNCHANGED <<now, run, submitted>>
    PROVE  OutsideTyped'
<1>1. PICK place \in 1 .. MaxInFlight :
         inFlight' = inFlight \cup {[run |-> run, place |-> place, args |-> args]}
    BY DEF HandOver
<1>2. ASSUME NEW b \in inFlight'
      PROVE  b.run \in 1 .. run /\ b.place \in 1 .. MaxInFlight /\ IsArgs(b.args)
    <2>1. CASE b \in inFlight
        BY <2>1 DEF TypeOK
    <2>2. CASE b = [run |-> run, place |-> place, args |-> args]
        BY <2>2 DEF TypeOK
    <2> QED
        BY <1>1, <2>1, <2>2
<1> QED
    BY <1>2 DEF TypeOK, OutsideTyped, IsArgs, Info

LEMMA ExecuteTyped ==
    ASSUME TypeOK, Execute
    PROVE  OutsideTyped'
<1>1. PICK b \in inFlight :
         SubmitArgs(b) /\ inFlight' = {c \in inFlight : c.run = b.run => c.place > b.place}
    BY DEF Execute
<1>2. UNCHANGED <<now, run>>
    BY DEF Execute
<1>3. ASSUME NEW i \in DOMAIN b.args
      PROVE  [price |-> b.args[i].price, timestamp |-> b.args[i].timestamp, run |-> b.run]
                \in [price : Price, timestamp : 0 .. now, run : 0 .. run]
    <2>1. b.args[i] \in Info /\ b.run \in 1 .. run /\ run \in Nat
        BY DEF TypeOK, IsArgs
    <2> QED
        BY <2>1 DEF Info
<1>4. submitted' \in [Index -> [price : Price, timestamp : 0 .. now, run : 0 .. run]]
    BY <1>1, <1>3 DEF SubmitArgs, TypeOK
<1> QED
    BY <1>1, <1>2, <1>4 DEF TypeOK, OutsideTyped, IsArgs, Info

LEMMA NextOutsideTyped == TypeOK /\ [Next]_vars => OutsideTyped'
<1> SUFFICES ASSUME TypeOK, [Next]_vars PROVE OutsideTyped'
    OBVIOUS
<1>1. CASE UNCHANGED <<now, outside>>
    BY <1>1 DEF TypeOK, OutsideTyped, outside, IsArgs, Info
<1>2. CASE PriceChangedAccepted \/ PriceChangedUnacknowledged
    BY <1>2, HandOverTyped DEF PriceChangedAccepted, PriceChangedUnacknowledged,
                               ReturnFromNotify
<1>3. CASE Execute
    BY <1>3, ExecuteTyped
<1>4. CASE Lose
    BY <1>4 DEF Lose, TypeOK, OutsideTyped, IsArgs, Info
<1>5. CASE Tick
    <2>1. now' = now + 1 /\ UNCHANGED <<inFlight, submitted, run>> /\ now \in Nat /\ run \in Nat \ {0}
        BY <1>5 DEF Tick, outside, TypeOK
    <2>2. 0 .. now \subseteq 0 .. now'
        BY <2>1
    <2>3. \A b \in inFlight : IsArgs(b.args)'
        BY <2>1, InfoGrows DEF TypeOK, IsArgs
    <2>4. submitted \in [Index -> [price : Price, timestamp : 0 .. now', run : 0 .. run]]
        BY <2>2 DEF TypeOK
    <2> QED
        BY <2>1, <2>3, <2>4 DEF TypeOK, OutsideTyped
<1>6. CASE Restart
    <2>1. run' = run + 1 /\ UNCHANGED <<now, inFlight, submitted>> /\ now \in Nat /\ run \in Nat \ {0}
        BY <1>6 DEF Restart, TypeOK
    <2>2. 1 .. run \subseteq 1 .. run' /\ 0 .. run \subseteq 0 .. run'
        BY <2>1
    <2>3. submitted \in [Index -> [price : Price, timestamp : 0 .. now, run : 0 .. run']]
        BY <2>2 DEF TypeOK
    <2> QED
        BY <2>1, <2>2, <2>3 DEF TypeOK, OutsideTyped, IsArgs, Info
<1>7. CASE \/ StartExecute \/ FetchPair \/ FetchPairFails
           \/ DenominateGasPrice \/ DenominateGasPriceFails
           \/ ComputeNotifyArgsSlice \/ NotifyNothing \/ NotifyPair \/ PriceChangedRejected
    BY <1>1, <1>7 DEF StartExecute, FetchPair, FetchPairFails, DenominateGasPrice,
                      DenominateGasPriceFails, ReturnError, ComputeNotifyArgsSlice,
                      NotifyNothing, NotifyPair, PriceChangedRejected, ReturnFromNotify, outside
<1>8. CASE UNCHANGED vars
    BY <1>1, <1>8 DEF vars
<1> QED
    BY <1>2, <1>3, <1>4, <1>5, <1>6, <1>7, <1>8 DEF Next, RoundStep

LEMMA ReturnErrorTyped ==
    ASSUME TypeOK, NEW err \in {"fetchErr", "convertErr"}, ReturnError(err)
    PROVE  ProcessTyped'
<1>1. NoPrice \in Info
    BY DEF Price, NoPrice, TypeOK, Info
<1> QED
    BY <1>1, IndexFacts DEF TypeOK, ProcessTyped, ReturnError, memory, Info, IsArgs

LEMMA ReturnFromNotifyTyped ==
    ASSUME TypeOK, NEW err \in {"nil", "sendErr"}, ReturnFromNotify(err)
    PROVE  ProcessTyped'
<1>1. IsArgs(args)'
    BY NoArgsTyped DEF ReturnFromNotify, IsArgs, NoArgs
<1> QED
    BY <1>1 DEF TypeOK, ProcessTyped, ReturnFromNotify, memory, Info

LEMMA NextProcessTyped == TypeOK /\ [Next]_vars => ProcessTyped'
<1> SUFFICES ASSUME TypeOK, [Next]_vars PROVE ProcessTyped'
    OBVIOUS
<1>a. 0 \in Price /\ NoPrice \in Info
    BY DEF Price, NoPrice, TypeOK, Info
<1>1. CASE StartExecute
    BY <1>1, <1>a, IndexFacts DEF StartExecute, TypeOK, ProcessTyped, memory, Info, IsArgs
<1>2. CASE FetchPair
    <2>1. PICK price \in (IF IsGweiPair(idx) THEN {0} ELSE FetchResults) :
             fetchedPrices' = [fetchedPrices EXCEPT ![idx] =
                 [price |-> Trim(price, Pairs[idx].precision), timestamp |-> now]]
        BY <1>2 DEF FetchPair
    <2>2. price \in Price
        BY <1>a, AnswersAssumption
    <2>3. idx \in Index
        BY <1>2 DEF FetchPair
    <2>4. Trim(price, Pairs[idx].precision) \in Price
        BY <2>2, <2>3, IndexFacts, TrimIsPrice
    <2>5. [price |-> Trim(price, Pairs[idx].precision), timestamp |-> now] \in Info
        BY <2>4 DEF TypeOK, Info
    <2>6. fetchedPrices' \in [Index -> Info]
        BY <2>1, <2>5 DEF TypeOK
    <2>7. idx' \in 1 .. Len(Pairs) + 1
        BY <1>2, <2>3, IndexFacts DEF FetchPair, Index
    <2> QED
        BY <1>2, <2>6, <2>7 DEF FetchPair, TypeOK, ProcessTyped, memory, Info, IsArgs
<1>3. CASE FetchPairFails
    BY <1>3, ReturnErrorTyped DEF FetchPairFails
<1>4. CASE DenominateGasPrice
    <2>1. fetchedPrices' \in FetchedType
        BY <1>4, TypedFetched, DenominatedType
    <2>2. \A i \in Index : fetchedPrices'[i].timestamp \in 0 .. now
        <3> SUFFICES ASSUME NEW i \in Index
                     PROVE  fetchedPrices'[i].timestamp \in 0 .. now
            OBVIOUS
        <3>1. /\ LastEqualPair(i) \in Index
              /\ fetchedPrices'[i].timestamp = fetchedPrices[LastEqualPair(i)].timestamp
            BY <1>4, TypedFetched, DenominatedTimestamps
        <3>2. fetchedPrices[LastEqualPair(i)] \in Info
            BY <3>1 DEF TypeOK
        <3> QED
            BY <3>1, <3>2 DEF Info
    <2>3. fetchedPrices' \in [Index -> Info]
        BY <2>1, <2>2 DEF FetchedType, Info
    <2> QED
        BY <1>4, <2>3, IndexFacts DEF DenominateGasPrice, TypeOK, ProcessTyped, memory, Info,
                                      IsArgs
<1>5. CASE DenominateGasPriceFails
    BY <1>5, ReturnErrorTyped DEF DenominateGasPriceFails
<1>6. CASE ComputeNotifyArgsSlice
    <2>1. toNotify' \subseteq Index
        BY <1>6 DEF ComputeNotifyArgsSlice, PairsToNotify
    <2>2. lastTimeAutoSent' \in 0 .. now
        BY <1>6 DEF ComputeNotifyArgsSlice, TypeOK
    <2> QED
        BY <1>6, <2>1, <2>2 DEF ComputeNotifyArgsSlice, TypeOK, ProcessTyped, Info, IsArgs
<1>7. CASE NotifyNothing
    BY <1>7 DEF NotifyNothing, TypeOK, ProcessTyped, local, memory, Info, IsArgs
<1>8. CASE NotifyPair
    <2>1. PICK i \in toNotify :
             /\ args' = [j \in DOMAIN args \cup {i} |->
                           IF j = i THEN [price |-> NotifiedPrice(i),
                                          timestamp |-> fetchedPrices[i].timestamp]
                                    ELSE args[j]]
             /\ lastNotifiedPrices' = [lastNotifiedPrices EXCEPT ![i] = NotifiedPrice(i)]
             /\ attemptedAt' = [attemptedAt EXCEPT ![i] = now]
             /\ toNotify' = toNotify \ {i}
             /\ pc' = IF toNotify' = {} THEN "send" ELSE "notify"
        BY <1>8 DEF NotifyPair
    <2>2. i \in Index /\ fetchedPrices[i].price \in Price /\ fetchedPrices[i].timestamp \in 0 .. now
        BY DEF TypeOK, Info
    <2>3. NotifiedPrice(i) \in Price
        BY <2>2, IndexFacts, TrimIsPrice DEF NotifiedPrice
    <2>4. IsArgs(args')
        <3>1. [price |-> NotifiedPrice(i), timestamp |-> fetchedPrices[i].timestamp] \in Info
            BY <2>2, <2>3 DEF Info
        <3> QED
            BY <2>1, <2>2, <3>1 DEF TypeOK, IsArgs
    <2>5. lastNotifiedPrices' \in [Index -> Price]
        BY <2>1, <2>3 DEF TypeOK
    <2>6. attemptedAt' \in [Index -> 0 .. now]
        BY <2>1 DEF TypeOK
    <2>7. pc' \in {"notify", "send"} /\ toNotify' \subseteq Index
        BY <2>1 DEF TypeOK
    <2> QED
        BY <1>8, <2>4, <2>5, <2>6, <2>7 DEF NotifyPair, TypeOK, ProcessTyped, Info, IsArgs
<1>9. CASE PriceChangedAccepted \/ PriceChangedRejected \/ PriceChangedUnacknowledged
    BY <1>9, ReturnFromNotifyTyped DEF PriceChangedAccepted, PriceChangedRejected,
                                       PriceChangedUnacknowledged
<1>10. CASE Execute \/ Lose
    BY <1>10 DEF Execute, Lose, TypeOK, ProcessTyped, local, memory, Info, IsArgs
<1>11. CASE Tick
    <2>1. now \in Nat /\ now' \in Nat /\ now <= now' /\ 0 .. now \subseteq 0 .. now'
        BY <1>11 DEF Tick, TypeOK
    <2>2. fetchedPrices' \in [Index -> Info'] /\ IsArgs(args)'
        BY <1>11, <2>1, InfoGrows DEF Tick, TypeOK, local, IsArgs
    <2>3. attemptedAt' \in [Index -> 0 .. now'] /\ lastTimeAutoSent' \in 0 .. now'
        BY <1>11, <2>1 DEF Tick, TypeOK, memory
    <2> QED
        BY <1>11, <2>1, <2>2, <2>3 DEF Tick, TypeOK, ProcessTyped, local, memory
<1>12. CASE Restart
    <2>1. IsArgs(args)'
        BY <1>12 DEF Restart, IsArgs, NoArgs
    <2>2. lastTimeAutoSent' \in 0 .. now
        BY <1>12 DEF Restart, TypeOK
    <2> QED
        BY <1>12, <1>a, <2>1, <2>2, IndexFacts DEF Restart, TypeOK, ProcessTyped, Info
<1>13. CASE UNCHANGED vars
    BY <1>13 DEF vars, local, memory, TypeOK, ProcessTyped, Info, IsArgs
<1> QED
    BY <1>1, <1>2, <1>3, <1>4, <1>5, <1>6, <1>7, <1>8, <1>9, <1>10, <1>11, <1>12,
       <1>13 DEF Next, RoundStep

LEMMA NextTypeOK == TypeOK /\ [Next]_vars => TypeOK'
<1>1. TypeOK' <=> ProcessTyped' /\ OutsideTyped'
    BY DEF TypeOK, ProcessTyped, OutsideTyped
<1> QED
    BY <1>1, NextProcessTyped, NextOutsideTyped

THEOREM TypeCorrect == Spec => []TypeOK
BY InitTypeOK, NextTypeOK, PTL DEF Spec

(***************************************************************************)
(* No pair is forgotten by the timer.  The invariant: a pair that is not   *)
(* waiting in the loop, and that has a record, got it after the timer was  *)
(* last reset.  Zero stands for "no record": it is below epsilon.          *)
(***************************************************************************)
TimerInv ==
    /\ pc # "notify" => toNotify = {}
    /\ \A i \in Index : \/ i \in toNotify
                        \/ lastNotifiedPrices[i] = 0
                        \/ attemptedAt[i] >= lastTimeAutoSent

LEMMA LeftOut ==
    ASSUME TypeOK, TimerInv, ComputeNotifyArgsSlice, NEW i \in Index \ toNotify'
    PROVE  /\ ~ShouldNotifyAll
           /\ ~ShouldNotify(lastNotifiedPrices[i], fetchedPrices[i].price, Pairs[i].percent)
           /\ attemptedAt[i] >= lastTimeAutoSent
           /\ now - attemptedAt[i] <= AutoSendInterval
<1>1. /\ ~ShouldNotifyAll
      /\ ~ShouldNotify(lastNotifiedPrices[i], fetchedPrices[i].price, Pairs[i].percent)
    BY DEF ComputeNotifyArgsSlice, PairsToNotify
<1>2. lastNotifiedPrices[i] # 0
    <2>1. Finite(0) /\ 0 < Epsilon
        BY SpecialsAssumption, UnitsAssumption DEF Finite
    <2> QED
        BY <1>1, <2>1 DEF ShouldNotify, BypassPercentCheck
<1>3. attemptedAt[i] >= lastTimeAutoSent
    BY <1>2 DEF TimerInv, ComputeNotifyArgsSlice
<1>4. now \in Nat /\ attemptedAt[i] \in Nat /\ lastTimeAutoSent \in Nat
    BY DEF TypeOK
<1> QED
    BY <1>1, <1>3, <1>4, IntervalAssumption DEF ShouldNotifyAll

LEMMA NextTimerInv == TypeOK /\ TimerInv /\ [Next]_vars => TimerInv'
<1> SUFFICES ASSUME TypeOK, TimerInv, [Next]_vars PROVE TimerInv'
    OBVIOUS
<1>1. CASE ComputeNotifyArgsSlice
    <2>1. ASSUME NEW i \in Index \ toNotify'
          PROVE  attemptedAt'[i] >= lastTimeAutoSent'
        BY <1>1, <2>1, LeftOut DEF ComputeNotifyArgsSlice
    <2>2. pc' = "notify"
        BY <1>1 DEF ComputeNotifyArgsSlice
    <2> QED
        BY <2>1, <2>2 DEF TimerInv
<1>2. CASE NotifyPair
    <2>1. PICK i \in toNotify :
             /\ lastNotifiedPrices' = [lastNotifiedPrices EXCEPT ![i] = NotifiedPrice(i)]
             /\ attemptedAt' = [attemptedAt EXCEPT ![i] = now]
             /\ toNotify' = toNotify \ {i}
             /\ pc' = IF toNotify' = {} THEN "send" ELSE "notify"
        BY <1>2 DEF NotifyPair
    <2>2. lastTimeAutoSent' = lastTimeAutoSent /\ lastTimeAutoSent <= now
        BY <1>2 DEF NotifyPair, TypeOK
    <2>3. ASSUME NEW j \in Index \ toNotify'
          PROVE  lastNotifiedPrices'[j] = 0 \/ attemptedAt'[j] >= lastTimeAutoSent'
        <3>1. CASE j = i
            BY <2>1, <2>2, <3>1 DEF TypeOK
        <3>2. CASE j # i
            BY <2>1, <2>2, <2>3, <3>2 DEF TypeOK, TimerInv
        <3> QED
            BY <3>1, <3>2
    <2>4. pc' # "notify" => toNotify' = {}
        BY <2>1
    <2> QED
        BY <2>3, <2>4 DEF TimerInv
<1>3. CASE Restart
    BY <1>3 DEF Restart, TimerInv
<1>4. CASE \/ StartExecute \/ FetchPair \/ FetchPairFails
           \/ DenominateGasPrice \/ DenominateGasPriceFails
    BY <1>4 DEF StartExecute, FetchPair, FetchPairFails, DenominateGasPrice,
                DenominateGasPriceFails, ReturnError, memory, TimerInv
<1>5. CASE \/ NotifyNothing
           \/ PriceChangedAccepted \/ PriceChangedRejected \/ PriceChangedUnacknowledged
    BY <1>5 DEF NotifyNothing, PriceChangedAccepted, PriceChangedRejected,
                PriceChangedUnacknowledged, ReturnFromNotify, local, memory, TimerInv
<1>6. CASE Execute \/ Lose \/ Tick
    BY <1>6 DEF Execute, Lose, Tick, local, memory, TimerInv
<1>7. CASE UNCHANGED vars
    BY <1>7 DEF vars, local, memory, TimerInv
<1> QED
    BY <1>1, <1>2, <1>3, <1>4, <1>5, <1>6, <1>7 DEF Next, RoundStep

LEMMA TimerInvariant == Spec => [](TypeOK /\ TimerInv)
<1>1. Init => TypeOK /\ TimerInv
    BY InitTypeOK DEF Init, TimerInv
<1>2. (TypeOK /\ TimerInv) /\ [Next]_vars => (TypeOK /\ TimerInv)'
    BY NextTypeOK, NextTimerInv
<1> QED
    BY <1>1, <1>2, PTL DEF Spec

(***************************************************************************)
(* A round leaves a pair out of its batch only if it recorded that pair    *)
(* within the auto-send interval, whatever failed or was started again.    *)
(***************************************************************************)
THEOREM PairsNotForgotten == Spec => NoPairForgotten
<1>1. TypeOK /\ TimerInv /\ [Next]_vars =>
        [ComputeNotifyArgsSlice =>
            \A i \in Index \ toNotify' : now - attemptedAt[i] <= AutoSendInterval]_vars
    BY LeftOut
<1> QED
    BY <1>1, TimerInvariant, PTL DEF Spec, NoPairForgotten

(***************************************************************************)
(* The recorded prices.  The invariant carries the claim through the loop: *)
(* it holds of every pair that is not waiting to be recorded.              *)
(***************************************************************************)
RecordedInv ==
    /\ pc \in {"notify", "send"} =>
          \A i \in Index \ toNotify : WithinPercent(lastNotifiedPrices[i], i)
    /\ pc = "idle" /\ result \in {"nil", "sendErr"} =>
          \A i \in Index : WithinPercent(lastNotifiedPrices[i], i)

\* A pair that shouldNotify leaves out is within its percent.
LEMMA NotNotifiedIsWithin ==
    ASSUME TypeOK, NEW i \in Index,
           ~ShouldNotify(lastNotifiedPrices[i], fetchedPrices[i].price, Pairs[i].percent)
    PROVE  WithinPercent(lastNotifiedPrices[i], i)
<1> DEFINE last == lastNotifiedPrices[i]
           new  == fetchedPrices[i].price
           percent == Pairs[i].percent
<1>1. last \in Price /\ new \in Price /\ percent \in Nat
    BY IndexFacts DEF TypeOK, Info
<1>2. CASE ~Finite(last) \/ new = NaN
    BY <1>2 DEF WithinPercent
<1>3. CASE Finite(last) /\ new # NaN
    <2>1. Finite(new) /\ ~DeviatesBy(last, new, percent)
        BY <1>3 DEF ShouldNotify, Finite
    <2>2. last \in Nat /\ new \in Nat /\ percent * last \in Nat
        BY <1>1, <1>3, <2>1 DEF Price, Finite
    <2>3. Closer(last, new, percent)
        <3>1. CASE new >= last
            BY <2>1, <2>2, <3>1 DEF DeviatesBy, Closer
        <3>2. CASE ~(new >= last)
            BY <2>1, <2>2, <3>2 DEF DeviatesBy, Closer
        <3> QED
            BY <3>1, <3>2
    <2> QED
        BY <2>1, <2>3 DEF WithinPercent
<1> QED
    BY <1>2, <1>3

LEMMA NextRecordedInv == TypeOK /\ TimerInv /\ RecordedInv /\ [Next]_vars => RecordedInv'
<1> SUFFICES ASSUME TypeOK, TimerInv, RecordedInv, [Next]_vars PROVE RecordedInv'
    OBVIOUS
<1>1. CASE ComputeNotifyArgsSlice
    <2>1. ASSUME NEW i \in Index \ toNotify'
          PROVE  WithinPercent(lastNotifiedPrices[i], i)
        BY <1>1, LeftOut, NotNotifiedIsWithin
    <2>2. /\ pc' = "notify"
          /\ lastNotifiedPrices' = lastNotifiedPrices /\ fetchedPrices' = fetchedPrices
        BY <1>1 DEF ComputeNotifyArgsSlice
    <2> QED
        BY <2>1, <2>2 DEF RecordedInv, WithinPercent, NotifiedPrice
<1>2. CASE NotifyPair
    <2>1. PICK i \in toNotify :
             /\ lastNotifiedPrices' = [lastNotifiedPrices EXCEPT ![i] = NotifiedPrice(i)]
             /\ toNotify' = toNotify \ {i}
             /\ pc' = IF toNotify' = {} THEN "send" ELSE "notify"
        BY <1>2 DEF NotifyPair
    <2>2. pc = "notify" /\ fetchedPrices' = fetchedPrices
        BY <1>2 DEF NotifyPair
    <2>3. ASSUME NEW j \in Index \ toNotify'
          PROVE  WithinPercent(lastNotifiedPrices[j], j)'
        <3>1. CASE j = i
            BY <2>1, <2>2, <3>1 DEF TypeOK, WithinPercent, NotifiedPrice
        <3>2. CASE j # i
            <4>1. WithinPercent(lastNotifiedPrices[j], j)
                BY <2>1, <2>2, <2>3, <3>2 DEF RecordedInv
            <4>2. lastNotifiedPrices'[j] = lastNotifiedPrices[j]
                BY <2>1, <3>2 DEF TypeOK
            <4> QED
                BY <2>2, <4>1, <4>2 DEF WithinPercent, NotifiedPrice
        <3> QED
            BY <3>1, <3>2
    <2>4. pc' # "idle"
        BY <2>1
    <2> QED
        BY <2>3, <2>4 DEF RecordedInv
<1>3. CASE \/ PriceChangedAccepted \/ PriceChangedRejected \/ PriceChangedUnacknowledged
    <2>1. /\ pc = "send" /\ pc' = "idle"
          /\ lastNotifiedPrices' = lastNotifiedPrices /\ fetchedPrices' = fetchedPrices
        BY <1>3 DEF PriceChangedAccepted, PriceChangedRejected,
                    PriceChangedUnacknowledged, ReturnFromNotify, memory
    <2>2. toNotify = {}
        BY <2>1 DEF TimerInv
    <2> QED
        BY <2>1, <2>2 DEF RecordedInv, WithinPercent, NotifiedPrice
<1>4. CASE NotifyNothing
    <2>1. /\ pc = "notify" /\ pc' = "idle" /\ toNotify = {}
          /\ lastNotifiedPrices' = lastNotifiedPrices /\ fetchedPrices' = fetchedPrices
        BY <1>4 DEF NotifyNothing, local, memory
    <2> QED
        BY <2>1 DEF RecordedInv, WithinPercent, NotifiedPrice
<1>5. CASE StartExecute \/ FetchPair \/ DenominateGasPrice
    BY <1>5 DEF StartExecute, FetchPair, DenominateGasPrice, RecordedInv
<1>6. CASE FetchPairFails \/ DenominateGasPriceFails
    BY <1>6 DEF FetchPairFails, DenominateGasPriceFails, ReturnError, RecordedInv
<1>7. CASE Restart
    BY <1>7 DEF Restart, RecordedInv
<1>8. CASE Execute \/ Lose \/ Tick
    BY <1>8 DEF Execute, Lose, Tick, local, memory, RecordedInv, WithinPercent, NotifiedPrice
<1>9. CASE UNCHANGED vars
    BY <1>9 DEF vars, local, memory, RecordedInv, WithinPercent, NotifiedPrice
<1> QED
    BY <1>1, <1>2, <1>3, <1>4, <1>5, <1>6, <1>7, <1>8, <1>9 DEF Next, RoundStep

(***************************************************************************)
(* When a batch goes out, and after it did or failed to, the record of     *)
(* every pair is this round's price or within the pair's percent of it.    *)
(***************************************************************************)
THEOREM RecordsWithinPercent == Spec => []RecordedWithinPercent
<1>1. Init => RecordedInv
    BY DEF Init, RecordedInv
<1>2. TypeOK /\ TimerInv /\ RecordedInv => RecordedWithinPercent
    BY DEF TimerInv, RecordedInv, RecordedWithinPercent, RoundDecided
<1> QED
    BY <1>1, <1>2, TimerInvariant, NextRecordedInv, PTL DEF Spec

(***************************************************************************)
(* Submissions are fresh.  The invariant of the round: what it has fetched *)
(* and what it will hand over is no older than anything the contract holds *)
(* or may still execute, and the arguments are the recorded prices.        *)
(***************************************************************************)
NotOlder(timestamp) ==
    /\ \A j \in Index : timestamp >= submitted[j].timestamp
    /\ \A b \in inFlight : \A j \in DOMAIN b.args : timestamp >= b.args[j].timestamp

FreshInv ==
    /\ pc = "fetch" => \A i \in Index : i < idx => NotOlder(fetchedPrices[i].timestamp)
    /\ pc \in {"convert", "compute", "notify"} =>
          \A i \in Index : NotOlder(fetchedPrices[i].timestamp)
    /\ pc \notin {"notify", "send"} => DOMAIN args = {}
    /\ pc = "send" => DOMAIN args # {}
    /\ \A i \in DOMAIN args : /\ NotOlder(args[i].timestamp)
                             /\ args[i].price = lastNotifiedPrices[i]

(***************************************************************************)
(* The invariant of what is in flight: the places tell the batches apart,  *)
(* a later run, or a later place of the same run, has no older prices, and *)
(* only a batch of an earlier run is older than what the contract holds.   *)
(***************************************************************************)
Before(b, c) == b.run < c.run \/ (b.run = c.run /\ b.place < c.place)

FlightInv ==
    /\ \A b, c \in inFlight : b.place = c.place => b = c
    /\ \A b, c \in inFlight : Before(b, c) =>
          \A i \in DOMAIN b.args \cap DOMAIN c.args : b.args[i].timestamp <= c.args[i].timestamp
    /\ \A b \in inFlight : \A i \in DOMAIN b.args :
          b.run >= submitted[i].run => b.args[i].timestamp >= submitted[i].timestamp

LEMMA NowNotOlder == TypeOK => NotOlder(now)
<1> SUFFICES ASSUME TypeOK PROVE NotOlder(now)
    OBVIOUS
<1>1. now \in Nat /\ \A j \in Index : submitted[j].timestamp \in 0 .. now
    BY DEF TypeOK
<1>2. ASSUME NEW b \in inFlight, NEW j \in DOMAIN b.args
      PROVE  b.args[j].timestamp \in 0 .. now
    BY DEF TypeOK, IsArgs, Info
<1> QED
    BY <1>1, <1>2 DEF NotOlder

\* Executing and losing batches leaves nothing newer behind.
LEMMA StaysNotOlder ==
    ASSUME TypeOK, Execute \/ Lose, NEW timestamp, NotOlder(timestamp)
    PROVE  NotOlder(timestamp)'
<1>1. CASE Lose
    <2>1. inFlight' \subseteq inFlight /\ submitted' = submitted
        BY <1>1 DEF Lose
    <2> QED
        BY <2>1 DEF NotOlder
<1>2. CASE Execute
    <2>1. PICK b \in inFlight :
             SubmitArgs(b) /\ inFlight' = {c \in inFlight : c.run = b.run => c.place > b.place}
        BY <1>2 DEF Execute
    <2>2. ASSUME NEW j \in Index
          PROVE  timestamp >= submitted'[j].timestamp
        BY <2>1 DEF SubmitArgs, NotOlder
    <2>3. inFlight' \subseteq inFlight
        BY <2>1
    <2> QED
        BY <2>2, <2>3 DEF NotOlder
<1> QED
    BY <1>1, <1>2

LEMMA DenominatedNotOlder ==
    ASSUME TypeOK, DenominateGasPrice, \A i \in Index : NotOlder(fetchedPrices[i].timestamp)
    PROVE  \A i \in Index : NotOlder(fetchedPrices'[i].timestamp)
<1> SUFFICES ASSUME NEW i \in Index
             PROVE  NotOlder(fetchedPrices'[i].timestamp)
    OBVIOUS
<1>1. /\ LastEqualPair(i) \in Index
      /\ fetchedPrices'[i].timestamp = fetchedPrices[LastEqualPair(i)].timestamp
    BY TypedFetched, DenominatedTimestamps
<1> QED
    BY <1>1

LEMMA NextFreshInv == TypeOK /\ FreshInv /\ [Next]_vars => FreshInv'
<1> SUFFICES ASSUME TypeOK, FreshInv, [Next]_vars PROVE FreshInv'
    OBVIOUS
<1> USE DEF outside
<1>1. CASE StartExecute
    <2>1. \A i \in Index : ~(i < idx')
        BY <1>1, IndexFacts DEF StartExecute, Index
    <2> QED
        BY <1>1, <2>1 DEF StartExecute, FreshInv, NotOlder, memory
<1>2. CASE FetchPair
    <2>1. PICK price \in (IF IsGweiPair(idx) THEN {0} ELSE FetchResults) :
             fetchedPrices' = [fetchedPrices EXCEPT ![idx] =
                 [price |-> Trim(price, Pairs[idx].precision), timestamp |-> now]]
        BY <1>2 DEF FetchPair
    <2>2. /\ pc = "fetch" /\ idx \in Index /\ idx' = idx + 1
          /\ pc' = IF idx = Len(Pairs) THEN "convert" ELSE "fetch"
          /\ UNCHANGED <<args, lastNotifiedPrices, inFlight, submitted>>
        BY <1>2 DEF FetchPair, memory
    <2>3. NotOlder(now)
        BY NowNotOlder
    <2>4. ASSUME NEW i \in Index, i < idx'
          PROVE  NotOlder(fetchedPrices'[i].timestamp)
        <3>1. CASE i = idx
            BY <2>1, <2>2, <2>3, <3>1 DEF TypeOK
        <3>2. CASE i # idx
            <4>1. i < idx
                BY <2>2, <2>4, <3>2, IndexFacts
            <4> QED
                BY <2>1, <2>2, <3>2, <4>1 DEF FreshInv, TypeOK
        <3> QED
            BY <3>1, <3>2
    <2>5. idx = Len(Pairs) => \A i \in Index : i < idx'
        BY <2>2, IndexFacts DEF Index
    <2> QED
        BY <2>2, <2>4, <2>5 DEF FreshInv, NotOlder
<1>3. CASE DenominateGasPrice
    <2>1. \A i \in Index : NotOlder(fetchedPrices'[i].timestamp)
        BY <1>3, DenominatedNotOlder DEF DenominateGasPrice, FreshInv
    <2>2. /\ pc = "convert" /\ pc' = "compute"
          /\ UNCHANGED <<args, lastNotifiedPrices, inFlight, submitted>>
        BY <1>3 DEF DenominateGasPrice, memory
    <2> QED
        BY <2>1, <2>2 DEF FreshInv, NotOlder
<1>4. CASE ComputeNotifyArgsSlice
    BY <1>4 DEF ComputeNotifyArgsSlice, FreshInv, NotOlder
<1>5. CASE NotifyPair
    <2>1. PICK i \in toNotify :
             /\ args' = [j \in DOMAIN args \cup {i} |->
                           IF j = i THEN [price |-> NotifiedPrice(i),
                                          timestamp |-> fetchedPrices[i].timestamp]
                                    ELSE args[j]]
             /\ lastNotifiedPrices' = [lastNotifiedPrices EXCEPT ![i] = NotifiedPrice(i)]
             /\ pc' = IF toNotify' = {} THEN "send" ELSE "notify"
        BY <1>5 DEF NotifyPair
    <2>2. /\ pc = "notify" /\ i \in Index
          /\ UNCHANGED <<fetchedPrices, inFlight, submitted>>
        BY <1>5 DEF NotifyPair, TypeOK
    <2>3. NotOlder(fetchedPrices[i].timestamp)
        BY <2>2 DEF FreshInv
    <2>4. ASSUME NEW j \in DOMAIN args'
          PROVE  NotOlder(args'[j].timestamp) /\ args'[j].price = lastNotifiedPrices'[j]
        <3>1. CASE j = i
            BY <2>1, <2>2, <2>3, <3>1 DEF TypeOK
        <3>2. CASE j # i
            <4>1. j \in DOMAIN args /\ args'[j] = args[j]
                BY <2>1, <2>4, <3>2
            <4>2. lastNotifiedPrices'[j] = lastNotifiedPrices[j]
                BY <2>1, <3>2, <4>1 DEF TypeOK, IsArgs
            <4> QED
                BY <4>1, <4>2 DEF FreshInv
        <3> QED
            BY <3>1, <3>2
    <2>5. i \in DOMAIN args'
        BY <2>1
    <2> QED
        BY <2>1, <2>2, <2>4, <2>5 DEF FreshInv, NotOlder
<1>6. CASE \/ PriceChangedAccepted \/ PriceChangedRejected \/ PriceChangedUnacknowledged
    <2>1. pc' = "idle" /\ DOMAIN args' = {}
        BY <1>6 DEF PriceChangedAccepted, PriceChangedRejected,
                    PriceChangedUnacknowledged, ReturnFromNotify, NoArgs
    <2> QED
        BY <2>1 DEF FreshInv
<1>7. CASE NotifyNothing
    <2>1. pc' = "idle" /\ DOMAIN args' = {}
        BY <1>7 DEF NotifyNothing, NoArgs, local
    <2> QED
        BY <2>1 DEF FreshInv
<1>8. CASE FetchPairFails \/ DenominateGasPriceFails
    <2>1. pc' = "idle" /\ args' = args /\ DOMAIN args = {}
        BY <1>8 DEF FetchPairFails, DenominateGasPriceFails, ReturnError, FreshInv
    <2> QED
        BY <2>1 DEF FreshInv
<1>9. CASE Restart
    BY <1>9 DEF Restart, NoArgs, FreshInv
<1>10. CASE Execute \/ Lose
    <2>1. UNCHANGED <<pc, idx, fetchedPrices, args, lastNotifiedPrices>>
        BY <1>10 DEF Execute, Lose, local, memory
    <2>2. \A timestamp : NotOlder(timestamp) => NotOlder(timestamp)'
        BY <1>10, StaysNotOlder
    <2> QED
        BY <2>1, <2>2 DEF FreshInv, NotOlder
<1>11. CASE Tick
    BY <1>11 DEF Tick, local, memory, FreshInv, NotOlder
<1>12. CASE UNCHANGED vars
    BY <1>12 DEF vars, local, memory, FreshInv, NotOlder
<1> QED
    BY <1>1, <1>2, <1>3, <1>4, <1>5, <1>6, <1>7, <1>8, <1>9, <1>10, <1>11, <1>12
       DEF Next, RoundStep

LEMMA HandOverFlightInv ==
    ASSUME TypeOK, FreshInv, FlightInv, HandOver, UNCHANGED submitted
    PROVE  FlightInv'
<1>1. PICK place \in 1 .. MaxInFlight :
         /\ \A b \in inFlight : b.place < place
         /\ inFlight' = inFlight \cup {[run |-> run, place |-> place, args |-> args]}
    BY DEF HandOver
<1> DEFINE new == [run |-> run, place |-> place, args |-> args]
<1>2. /\ new.run = run /\ new.place = place /\ new.args = args
      /\ inFlight' = inFlight \cup {new}
    BY <1>1
<1> HIDE DEF new
<1>3. ASSUME NEW b \in inFlight
      PROVE  /\ b.place # new.place /\ ~Before(new, b)
             /\ \A i \in DOMAIN b.args \cap DOMAIN args : b.args[i].timestamp <= args[i].timestamp
    <2>1. b.run \in 1 .. run /\ b.place \in Nat /\ place \in Nat /\ run \in Nat /\ b.place < place
        BY <1>1 DEF TypeOK
    <2>2. ASSUME NEW i \in DOMAIN b.args \cap DOMAIN args
          PROVE  b.args[i].timestamp <= args[i].timestamp
        <3>1. args[i].timestamp >= b.args[i].timestamp
            BY DEF FreshInv, NotOlder
        <3>2. args[i].timestamp \in Nat /\ b.args[i].timestamp \in Nat
            BY DEF TypeOK, IsArgs, Info
        <3> QED
            BY <3>1, <3>2
    <2> QED
        BY <1>2, <2>1, <2>2 DEF Before
<1>4. ~Before(new, new)
    <2>1. run \in Nat /\ place \in Nat
        BY DEF TypeOK
    <2> QED
        BY <1>2, <2>1 DEF Before
<1>5. \A i \in DOMAIN args : args[i].timestamp >= submitted[i].timestamp
    BY DEF FreshInv, NotOlder, TypeOK, IsArgs
<1>6. \A b, c \in inFlight' : b.place = c.place => b = c
    BY <1>2, <1>3 DEF FlightInv
<1>7. ASSUME NEW b \in inFlight', NEW c \in inFlight', Before(b, c)
      PROVE  \A i \in DOMAIN b.args \cap DOMAIN c.args :
                b.args[i].timestamp <= c.args[i].timestamp
    <2>1. b \in inFlight
        BY <1>2, <1>3, <1>4, <1>7
    <2>2. CASE c \in inFlight
        BY <1>7, <2>1, <2>2 DEF FlightInv
    <2>3. CASE c = new
        BY <1>2, <1>3, <2>1, <2>3
    <2> QED
        BY <1>2, <2>2, <2>3
<1>8. ASSUME NEW b \in inFlight', NEW i \in DOMAIN b.args, b.run >= submitted[i].run
      PROVE  b.args[i].timestamp >= submitted[i].timestamp
    BY <1>2, <1>5, <1>8 DEF FlightInv
<1> QED
    BY <1>6, <1>7, <1>8 DEF FlightInv, Before

LEMMA ExecuteFlightInv ==
    ASSUME TypeOK, FlightInv, Execute
    PROVE  FlightInv'
<1>1. PICK b \in inFlight :
         SubmitArgs(b) /\ inFlight' = {c \in inFlight : c.run = b.run => c.place > b.place}
    BY DEF Execute
<1>2. inFlight' \subseteq inFlight
    BY <1>1
<1>3. ASSUME NEW c \in inFlight', NEW i \in DOMAIN c.args, c.run >= submitted'[i].run
      PROVE  c.args[i].timestamp >= submitted'[i].timestamp
    <2>1. c \in inFlight /\ i \in Index
        BY <1>2 DEF TypeOK, IsArgs
    <2>2. CASE i \notin DOMAIN b.args
        <3>1. submitted'[i] = submitted[i]
            BY <1>1, <2>1, <2>2 DEF SubmitArgs
        <3> QED
            BY <1>3, <2>1, <3>1 DEF FlightInv
    <2>3. CASE i \in DOMAIN b.args
        <3>1. submitted'[i].timestamp = b.args[i].timestamp /\ submitted'[i].run = b.run
            BY <1>1, <2>1, <2>3 DEF SubmitArgs
        <3>2. b.run \in Nat /\ c.run \in Nat /\ b.place \in Nat /\ c.place \in Nat
            BY <2>1 DEF TypeOK
        <3>3. Before(b, c)
            BY <1>1, <1>3, <3>1, <3>2 DEF Before
        <3>4. b.args[i].timestamp <= c.args[i].timestamp
            BY <2>1, <2>3, <3>3 DEF FlightInv
        <3>5. b.args[i].timestamp \in Nat /\ c.args[i].timestamp \in Nat
            BY <2>1, <2>3 DEF TypeOK, IsArgs, Info
        <3> QED
            BY <3>1, <3>4, <3>5
    <2> QED
        BY <2>2, <2>3
<1> QED
    BY <1>2, <1>3 DEF FlightInv, Before

LEMMA NextFlightInv == TypeOK /\ FreshInv /\ FlightInv /\ [Next]_vars => FlightInv'
<1> SUFFICES ASSUME TypeOK, FreshInv, FlightInv, [Next]_vars PROVE FlightInv'
    OBVIOUS
<1>1. CASE UNCHANGED <<inFlight, submitted>>
    BY <1>1 DEF FlightInv, Before
<1>2. CASE PriceChangedAccepted \/ PriceChangedUnacknowledged
    BY <1>2, HandOverFlightInv DEF PriceChangedAccepted, PriceChangedUnacknowledged,
                                   ReturnFromNotify
<1>3. CASE Execute
    BY <1>3, ExecuteFlightInv
<1>4. CASE Lose
    <2>1. inFlight' \subseteq inFlight /\ submitted' = submitted
        BY <1>4 DEF Lose
    <2> QED
        BY <2>1 DEF FlightInv, Before
<1>5. CASE \/ StartExecute \/ FetchPair \/ FetchPairFails
           \/ DenominateGasPrice \/ DenominateGasPriceFails
           \/ ComputeNotifyArgsSlice \/ NotifyNothing \/ NotifyPair
           \/ PriceChangedRejected \/ Tick \/ Restart
    BY <1>1, <1>5 DEF StartExecute, FetchPair, FetchPairFails, DenominateGasPrice,
                      DenominateGasPriceFails, ReturnError, ComputeNotifyArgsSlice,
                      NotifyNothing, NotifyPair, PriceChangedRejected, ReturnFromNotify,
                      Tick, Restart, outside
<1>6. CASE UNCHANGED vars
    BY <1>1, <1>6 DEF vars, outside
<1> QED
    BY <1>2, <1>3, <1>4, <1>5, <1>6 DEF Next, RoundStep

LEMMA FlightInvariant == Spec => [](TypeOK /\ FreshInv /\ FlightInv)
<1>1. Init => TypeOK /\ FreshInv /\ FlightInv
    BY InitTypeOK DEF Init, NoArgs, FreshInv, FlightInv
<1>2. (TypeOK /\ FreshInv /\ FlightInv) /\ [Next]_vars => (TypeOK /\ FreshInv /\ FlightInv)'
    BY NextTypeOK, NextFreshInv, NextFlightInv
<1> QED
    BY <1>1, <1>2, PTL DEF Spec

(***************************************************************************)
(* However late, lost or failed the batches are: an older price replaces a *)
(* newer one in the contract only from a batch of an earlier run of the    *)
(* process than the one whose price it replaces.                           *)
(***************************************************************************)
THEOREM SubmissionsFresh == Spec => FreshSubmission
<1> DEFINE Fresh ==
        \A i \in Index :
            submitted'[i].timestamp < submitted[i].timestamp =>
                submitted'[i].run < submitted[i].run
<1>1. TypeOK /\ FlightInv /\ [Next]_vars => [Fresh]_vars
    <2> SUFFICES ASSUME TypeOK, FlightInv, Next,
                        NEW i \in Index, submitted'[i].timestamp < submitted[i].timestamp
                 PROVE  submitted'[i].run < submitted[i].run
        OBVIOUS
    <2>1. submitted[i].timestamp \in Nat /\ submitted[i].run \in Nat
        BY DEF TypeOK
    <2>2. submitted'[i] # submitted[i]
        BY <2>1
    <2>3. Execute
        BY <2>2 DEF Next, RoundStep, StartExecute, FetchPair, FetchPairFails,
               DenominateGasPrice, DenominateGasPriceFails, ReturnError,
               ComputeNotifyArgsSlice, NotifyNothing, NotifyPair, PriceChangedAccepted,
               PriceChangedRejected, PriceChangedUnacknowledged, ReturnFromNotify, Lose,
               Tick, Restart, outside
    <2>4. PICK b \in inFlight : SubmitArgs(b)
        BY <2>3 DEF Execute
    <2>5. /\ i \in DOMAIN b.args
          /\ submitted'[i].timestamp = b.args[i].timestamp /\ submitted'[i].run = b.run
        BY <2>2, <2>4 DEF SubmitArgs
    <2>6. b.run \in Nat /\ b.args[i].timestamp \in Nat
        BY <2>5 DEF TypeOK, IsArgs, Info
    <2>7. ~(b.args[i].timestamp >= submitted[i].timestamp)
        BY <2>1, <2>5, <2>6
    <2>8. ~(b.run >= submitted[i].run)
        BY <2>5, <2>7 DEF FlightInv
    <2> QED
        BY <2>1, <2>5, <2>6, <2>8
<1> QED
    BY <1>1, FlightInvariant, PTL DEF Spec, FreshSubmission

(***************************************************************************)
(* The gas prices.  The conversion uses the first ETH/USD pair, copying    *)
(* back by name the last: they are one pair if ETH/USD is listed once.  Of *)
(* a token in USD both use the last pair, so repeating one does no harm.   *)
(***************************************************************************)
EthUsdOnce ==
    \A i, j \in Index : /\ Pairs[i].base = ethTicker /\ Pairs[i].quote = quoteUSD
                        /\ Pairs[j].base = ethTicker /\ Pairs[j].quote = quoteUSD
                        => i = j

\* Copying back by name moves no price but a gas price.
LEMMA CopiedBack ==
    ASSUME TypeOK, NEW gasPrice,
           fetchedPrices' = CopyBack(ConvertGasPrices(PairInfos, gasPrice)),
           NEW i \in Index
    PROVE  fetchedPrices'[i].price =
              IF IsGweiPair(i)
              THEN GasPriceIn(PairInfos, Pairs[i].quote, gasPrice)
              ELSE fetchedPrices[LastEqualPair(i)].price
<1> DEFINE last == LastEqualPair(i)
<1>1. last \in Index /\ Pairs[last].base = Pairs[i].base /\ Pairs[last].quote = Pairs[i].quote
    BY LastEqualPairFacts
<1>2. fetchedPrices'[i].price = ConvertGasPrices(PairInfos, gasPrice)[last].price
    BY DEF CopyBack
<1> HIDE DEF last
<1>3. /\ last \in DOMAIN PairInfos /\ PairInfos[last] \in PairInfo
      /\ PairInfos[last].base = Pairs[last].base /\ PairInfos[last].quote = Pairs[last].quote
      /\ PairInfos[last].price = fetchedPrices[last].price
    <2>1. PairInfos \in Seq(PairInfo) /\ DOMAIN PairInfos = Index
        BY PairInfosType, TypedFetched
    <2>2. PairInfos[last] \in PairInfo
        BY <1>1, <2>1
    <2> QED
        BY <1>1, <2>1, <2>2 DEF PairInfos
<1>4. CASE IsGweiPair(i)
    <2>1. ConvertGasPrices(PairInfos, gasPrice)[last] =
              [PairInfos[last] EXCEPT !.price = GasPriceIn(PairInfos, Pairs[i].quote, gasPrice)]
        BY <1>1, <1>3, <1>4 DEF ConvertGasPrices, IsGweiPair
    <2> QED
        BY <1>2, <1>3, <1>4, <2>1 DEF PairInfo
<1>5. CASE ~IsGweiPair(i)
    <2>1. ConvertGasPrices(PairInfos, gasPrice)[last] = PairInfos[last]
        BY <1>1, <1>3, <1>5 DEF ConvertGasPrices, IsGweiPair
    <2> QED
        BY <1>2, <1>3, <1>5, <2>1 DEF last
<1> QED
    BY <1>4, <1>5

\* The ETH/USD price of the conversion is the one the round decides on.
LEMMA EthPriceKept ==
    ASSUME TypeOK, EthUsdOnce, EthUsdIndices(PairInfos) # {}, NEW gasPrice,
           fetchedPrices' = CopyBack(ConvertGasPrices(PairInfos, gasPrice))
    PROVE  EthPrice(PairInfos) \in PriceOf(ethTicker, quoteUSD)'
<1>1. /\ EthUsdIndices(PairInfos) \subseteq Nat
      /\ \A k \in EthUsdIndices(PairInfos) :
            k \in Index /\ Pairs[k].base = ethTicker /\ Pairs[k].quote = quoteUSD
    BY IndexFacts DEF EthUsdIndices, PairInfos
<1>2. \E k \in EthUsdIndices(PairInfos) : \A j \in EthUsdIndices(PairInfos) : k <= j
    BY <1>1, LeastElement
<1> DEFINE e == CHOOSE k \in EthUsdIndices(PairInfos) :
                    \A j \in EthUsdIndices(PairInfos) : k <= j
<1>3. e \in EthUsdIndices(PairInfos) /\ EthPrice(PairInfos) = PairInfos[e].price
    BY <1>2 DEF EthPrice
<1> HIDE DEF e
<1>4. e \in Index /\ Pairs[e].base = ethTicker /\ Pairs[e].quote = quoteUSD
    BY <1>1, <1>3
<1>5. LastEqualPair(e) = e
    BY <1>4, LastEqualPairFacts DEF EthUsdOnce
<1>6. ~IsGweiPair(e)
    BY <1>4 DEF IsGweiPair, gweiTicker, ethTicker
<1>7. fetchedPrices'[e].price = fetchedPrices[e].price
    BY <1>4, <1>5, <1>6, CopiedBack
<1>8. PairInfos[e].price = fetchedPrices[e].price
    BY <1>4 DEF PairInfos
<1> QED
    BY <1>3, <1>4, <1>7, <1>8 DEF PriceOf

\* So is the price of a token that the conversion divides by.
LEMMA TargetPriceKept ==
    ASSUME TypeOK, NEW token, TargetIndices(PairInfos, token) # {}, NEW gasPrice,
           fetchedPrices' = CopyBack(ConvertGasPrices(PairInfos, gasPrice))
    PROVE  TargetPrice(PairInfos, token) \in PriceOf(token, quoteUSD)'
<1>1. /\ TargetIndices(PairInfos, token) = {k \in Index :
              /\ Pairs[k].base = token /\ Pairs[k].quote = quoteUSD
              /\ token \notin {ethTicker, gweiTicker}}
      /\ TargetIndices(PairInfos, token) \subseteq 1 .. Len(Pairs) /\ Len(Pairs) \in Nat
    BY IndexFacts DEF TargetIndices, PairInfos, Index
<1>2. \E k \in TargetIndices(PairInfos, token) :
          \A j \in TargetIndices(PairInfos, token) : j <= k
    BY <1>1, GreatestElement
<1> DEFINE t == CHOOSE k \in TargetIndices(PairInfos, token) :
                    \A j \in TargetIndices(PairInfos, token) : j <= k
<1>3. /\ t \in TargetIndices(PairInfos, token)
      /\ \A j \in TargetIndices(PairInfos, token) : j <= t
      /\ TargetPrice(PairInfos, token) = PairInfos[t].price
    BY <1>2 DEF TargetPrice
<1> HIDE DEF t
<1>4. t \in Index /\ Pairs[t].base = token /\ Pairs[t].quote = quoteUSD /\ ~IsGweiPair(t)
    BY <1>1, <1>3 DEF IsGweiPair
<1>5. LastEqualPair(t) = t
    <2>1. LastEqualPair(t) \in TargetIndices(PairInfos, token)
        BY <1>1, <1>3, <1>4, LastEqualPairFacts
    <2>2. LastEqualPair(t) <= t /\ t <= LastEqualPair(t)
        BY <1>3, <1>4, <2>1, LastEqualPairFacts
    <2>3. t \in Nat /\ LastEqualPair(t) \in Nat
        BY <1>4, LastEqualPairFacts, IndexFacts
    <2> QED
        BY <2>2, <2>3
<1>6. fetchedPrices'[t].price = fetchedPrices[t].price
    BY <1>4, <1>5, CopiedBack
<1>7. PairInfos[t].price = fetchedPrices[t].price
    BY <1>4 DEF PairInfos
<1> QED
    BY <1>3, <1>4, <1>6, <1>7 DEF PriceOf

LEMMA DenominatedConsistent ==
    ASSUME TypeOK, EthUsdOnce, DenominateGasPrice
    PROVE  GasPricesConsistent'
<1> SUFFICES ASSUME NEW g \in Index, IsGweiPair(g)
             PROVE  GasPricesConsistent'
    BY DEF GasPricesConsistent
<1>1. /\ DOMAIN PairInfos = Index
      /\ \A i \in Index : /\ PairInfos[i].base = Pairs[i].base
                          /\ PairInfos[i].quote = Pairs[i].quote
    BY DEF PairInfos
<1>2. \A i \in Index : IsGweiPair(i) => Pairs[i].quote \in GweiQuotes(PairInfos)
    BY <1>1 DEF GweiQuotes, IsGweiPair
<1>3. VerifyRequiredPairs(PairInfos) # "ErrNoGasPairs"
    BY <1>2 DEF VerifyRequiredPairs
<1>4. VerifyRequiredPairs(PairInfos) = "nil"
    BY <1>3 DEF DenominateGasPrice
<1>5. EthUsdIndices(PairInfos) # {} /\ TargetsFound(PairInfos)
    BY <1>3, <1>4 DEF VerifyRequiredPairs, DenominateGasPrice
<1>6. PICK gasPrice \in GasResults :
         fetchedPrices' = CopyBack(ConvertGasPrices(PairInfos, gasPrice))
    BY <1>3 DEF DenominateGasPrice
<1>7. EthPrice(PairInfos) \in PriceOf(ethTicker, quoteUSD)'
    BY <1>5, <1>6, EthPriceKept
<1>8. ASSUME NEW i \in Index, IsGweiPair(i)
      PROVE  \E ethPrice \in PriceOf(ethTicker, quoteUSD)' :
                IF Pairs[i].quote = quoteUSD
                THEN fetchedPrices'[i].price = NominalValue(ethPrice, gasPrice)
                ELSE \E tokenPrice \in PriceOf(Pairs[i].quote, quoteUSD)' :
                        fetchedPrices'[i].price =
                            Quotient(NominalValue(ethPrice, gasPrice), tokenPrice)
    <2>1. fetchedPrices'[i].price = GasPriceIn(PairInfos, Pairs[i].quote, gasPrice)
        BY <1>6, <1>8, CopiedBack
    <2>2. CASE Pairs[i].quote = quoteUSD
        BY <1>7, <2>1, <2>2 DEF GasPriceIn
    <2>3. CASE Pairs[i].quote # quoteUSD
        <3>1. TargetIndices(PairInfos, Pairs[i].quote) # {}
            BY <1>2, <1>5, <1>8, <2>3 DEF TargetsFound
        <3>2. TargetPrice(PairInfos, Pairs[i].quote) \in PriceOf(Pairs[i].quote, quoteUSD)'
            BY <1>6, <3>1, TargetPriceKept
        <3> QED
            BY <1>7, <2>1, <2>3, <3>2 DEF GasPriceIn
    <2> QED
        BY <2>2, <2>3
<1> QED
    BY <1>8 DEF GasPricesConsistent, PriceOf, IsGweiPair

\* What a round decides on does not change until the next round fetches.
LEMMA NextGasPricesConsistent ==
    EthUsdOnce /\ TypeOK /\ GasPricesConsistent /\ [Next]_vars => GasPricesConsistent'
<1> SUFFICES ASSUME EthUsdOnce, TypeOK, GasPricesConsistent, [Next]_vars
             PROVE  GasPricesConsistent'
    OBVIOUS
<1>1. CASE DenominateGasPrice
    BY <1>1, DenominatedConsistent
<1>2. CASE \/ ComputeNotifyArgsSlice \/ NotifyPair \/ Execute \/ Lose \/ Tick
           \/ UNCHANGED vars
    <2>1. /\ fetchedPrices' = fetchedPrices
          /\ pc' \in {"compute", "notify", "send"} => pc \in {"compute", "notify", "send"}
        BY <1>2 DEF ComputeNotifyArgsSlice, NotifyPair, Execute, Lose, Tick, vars, local
    <2> QED
        BY <2>1 DEF GasPricesConsistent, PriceOf
<1>3. CASE \/ StartExecute \/ FetchPair \/ FetchPairFails \/ DenominateGasPriceFails
           \/ NotifyNothing \/ Restart
           \/ PriceChangedAccepted \/ PriceChangedRejected \/ PriceChangedUnacknowledged
    <2>1. pc' \in {"idle", "fetch", "convert"}
        BY <1>3 DEF StartExecute, FetchPair, FetchPairFails, DenominateGasPriceFails,
                    ReturnError, NotifyNothing, Restart, ReturnFromNotify,
                    PriceChangedAccepted, PriceChangedRejected, PriceChangedUnacknowledged
    <2> QED
        BY <2>1 DEF GasPricesConsistent
<1> QED
    BY <1>1, <1>2, <1>3 DEF Next, RoundStep

(***************************************************************************)
(* The gas prices a round decides on follow from one gas price and from    *)
(* the prices it decides on with them, if ETH/USD is configured once.      *)
(***************************************************************************)
THEOREM GasPricesFromOneRound == EthUsdOnce => (Spec => []GasPricesConsistent)
<1> SUFFICES ASSUME EthUsdOnce PROVE Spec => []GasPricesConsistent
    OBVIOUS
<1>1. Init => GasPricesConsistent
    BY DEF Init, GasPricesConsistent
<1>2. TypeOK /\ GasPricesConsistent /\ [Next]_vars => GasPricesConsistent'
    BY NextGasPricesConsistent
<1> QED
    BY <1>1, <1>2, TypeCorrect, PTL DEF Spec
-----------------------------------------------------------------------------
(***************************************************************************)
(* PriceNotifier implements PriceFeed: every step of the notifier is a     *)
(* step of the feed, or changes nothing the feed knows.                    *)
(***************************************************************************)
\* What the feed sees of a state of the notifier.
Quotes   == [i \in Index |-> fetchedPrices[i].price]
Recorded == [i \in Index |-> IF i \in toNotify THEN NotifiedPrice(i) ELSE lastNotifiedPrices[i]]
Pending  == toNotify \cup DOMAIN args
Held     == [i \in Index |-> submitted[i].price]
Sent(b)  == [place |-> b.place, prices |-> [i \in DOMAIN b.args |-> b.args[i].price]]
Flying   == {Sent(b) : b \in inFlight}

LEMMA SamePrices ==
    /\ \A last, new, percent :
          Feed!ShouldNotify(last, new, percent) = ShouldNotify(last, new, percent)
    /\ \A v, precision : Feed!Trim(v, precision) = Trim(v, precision)
    /\ Feed!Price = Price
BY DEF Feed!ShouldNotify, ShouldNotify, Feed!BypassPercentCheck, BypassPercentCheck,
       Feed!DeviatesBy, DeviatesBy, Feed!Trim, Trim, Feed!Finite, Finite,
       Feed!Price, Price

LEMMA InitImplements == Init => Feed!Init
<1> SUFFICES ASSUME Init PROVE Feed!Init
    OBVIOUS
<1>1. \A i \in Index : fetchedPrices[i].price = 0 /\ submitted[i].price = 0
    BY DEF Init, NoPrice
<1>2. ShouldNotifyAll = FALSE
    BY IntervalAssumption DEF Init, ShouldNotifyAll
<1>3. toNotify = {} /\ DOMAIN args = {}
    BY DEF Init, NoArgs
<1> QED
    BY <1>1, <1>2, <1>3 DEF Init, Feed!Init

\* Fetching and converting: the quotes on the table change, nothing else does.
LEMMA ObserveStep ==
    ASSUME TypeOK', toNotify = {}, DOMAIN args = {},
           UNCHANGED <<toNotify, args, memory, now, inFlight, submitted>>
    PROVE  Feed!Observe
<1>1. Quotes' \in [Index -> Price]
    BY DEF TypeOK, Quotes, Info
<1>2. Recorded' = Recorded /\ Pending' = Pending /\ Held' = Held /\ Flying' = Flying
    BY DEF Recorded, Pending, Held, Flying, Sent, memory
<1>3. ShouldNotifyAll' = ShouldNotifyAll
    BY DEF ShouldNotifyAll, memory
<1> QED
    BY <1>1, <1>2, <1>3 DEF Feed!Observe, Quotes, Recorded, Pending, Held, Flying, Sent

LEMMA DecideStep ==
    ASSUME TypeOK, TimerInv, FreshInv, ComputeNotifyArgsSlice
    PROVE  Feed!Decide
<1>1. toNotify = {} /\ DOMAIN args = {} /\ DOMAIN args' = {}
    BY DEF ComputeNotifyArgsSlice, TimerInv, FreshInv
<1>2. UNCHANGED <<fetchedPrices, lastNotifiedPrices, inFlight, submitted, now>>
    BY DEF ComputeNotifyArgsSlice, outside
<1>3. Pending = {} /\ Pending' = PairsToNotify
    BY <1>1 DEF Pending, ComputeNotifyArgsSlice
<1>4. Recorded = lastNotifiedPrices
    BY <1>1 DEF Recorded, TypeOK
<1>5. Recorded' = [i \in Index |-> IF i \in Pending' THEN NotifiedPrice(i) ELSE Recorded[i]]
    BY <1>1, <1>2, <1>4 DEF Recorded, Pending, NotifiedPrice
<1>6. ShouldNotifyAll' = FALSE
    <2>1. lastTimeAutoSent' = IF ShouldNotifyAll THEN now ELSE lastTimeAutoSent
        BY DEF ComputeNotifyArgsSlice
    <2>2. now - now = 0
        BY DEF TypeOK
    <2> QED
        BY <1>2, <2>1, <2>2, IntervalAssumption DEF ShouldNotifyAll
<1>7. Quotes' = Quotes /\ Held' = Held /\ Flying' = Flying
    BY <1>2 DEF Quotes, Held, Flying, Sent
<1>8. Pending' = {i \in Index : ShouldNotifyAll \/
                     Feed!ShouldNotify(Recorded[i], Quotes[i], Pairs[i].percent)}
    BY <1>3, <1>4, SamePrices DEF PairsToNotify, Quotes
<1>9. \A i \in Index : NotifiedPrice(i) = Feed!Trim(Quotes[i], Pairs[i].precision)
    BY SamePrices DEF NotifiedPrice, Quotes
<1> QED
    BY <1>3, <1>5, <1>6, <1>7, <1>8, <1>9
       DEF Feed!Decide, Quotes, Recorded, Pending, Held, Flying, Sent

LEMMA NotifyPairStep ==
    ASSUME TypeOK, NotifyPair
    PROVE  UNCHANGED Feed!vars
<1>1. PICK i \in toNotify :
         /\ args' = [j \in DOMAIN args \cup {i} |->
                       IF j = i THEN [price |-> NotifiedPrice(i),
                                      timestamp |-> fetchedPrices[i].timestamp]
                                ELSE args[j]]
         /\ lastNotifiedPrices' = [lastNotifiedPrices EXCEPT ![i] = NotifiedPrice(i)]
         /\ toNotify' = toNotify \ {i}
    BY DEF NotifyPair
<1>2. UNCHANGED <<fetchedPrices, lastTimeAutoSent, now, inFlight, submitted>>
    BY DEF NotifyPair, outside
<1>3. Pending' = Pending
    BY <1>1 DEF Pending
<1>4. \A j \in Index : NotifiedPrice(j)' = NotifiedPrice(j)
    BY <1>2 DEF NotifiedPrice
<1>5. \A j \in Index : Recorded'[j] = Recorded[j]
    BY <1>1, <1>4 DEF Recorded, TypeOK
<1>6. Recorded' = Recorded
    BY <1>5 DEF Recorded
<1>7. /\ Quotes' = Quotes /\ Held' = Held /\ Flying' = Flying
      /\ ShouldNotifyAll' = ShouldNotifyAll
    BY <1>2 DEF Quotes, Held, Flying, Sent, ShouldNotifyAll
<1> QED
    BY <1>3, <1>6, <1>7 DEF Feed!vars, Quotes, Recorded, Pending, Held, Flying, Sent

LEMMA SendStep ==
    ASSUME TypeOK, TimerInv, FreshInv, pc = "send",
           NEW err, ReturnFromNotify(err), HandOver \/ UNCHANGED inFlight
    PROVE  Feed!HandOver \/ Feed!Drop
<1>1. toNotify = {} /\ toNotify' = {} /\ DOMAIN args' = {} /\ DOMAIN args # {}
    BY DEF TimerInv, FreshInv, ReturnFromNotify, NoArgs
<1>2. Pending = DOMAIN args /\ Pending # {} /\ Pending' = {}
    BY <1>1 DEF Pending
<1>3. Recorded = lastNotifiedPrices /\ Recorded' = Recorded
    BY <1>1 DEF Recorded, TypeOK, ReturnFromNotify, memory
<1>4. Quotes' = Quotes /\ Held' = Held /\ ShouldNotifyAll' = ShouldNotifyAll
    BY DEF Quotes, Held, ShouldNotifyAll, ReturnFromNotify, memory
<1>5. CASE HandOver
    <2>1. PICK place \in 1 .. MaxInFlight :
             /\ \A b \in inFlight : b.place < place
             /\ inFlight' = inFlight \cup {[run |-> run, place |-> place, args |-> args]}
        BY <1>5 DEF HandOver
    <2>2. Sent([run |-> run, place |-> place, args |-> args])
             = [place |-> place, prices |-> [i \in Pending |-> Recorded[i]]]
        <3>1. \A i \in DOMAIN args : args[i].price = Recorded[i]
            BY <1>3 DEF FreshInv
        <3> QED
            BY <1>2, <3>1 DEF Sent
    <2>3. Flying' = Flying \cup {[place |-> place, prices |-> [i \in Pending |-> Recorded[i]]]}
        BY <2>1, <2>2 DEF Flying
    <2>4. Flying = {b \in Flying : b.place # place}
        <3>1. ASSUME NEW b \in inFlight
              PROVE  Sent(b).place # place
            <4>1. b.place \in Nat /\ place \in Nat /\ b.place < place
                BY <2>1 DEF TypeOK
            <4> QED
                BY <4>1 DEF Sent
        <3> QED
            BY <3>1 DEF Flying
    <2>5. Flying' = {b \in Flying : b.place # place}
                       \cup {[place |-> place, prices |-> [i \in Pending |-> Recorded[i]]]}
        BY <2>3, <2>4
    <2> QED
        BY <1>2, <1>3, <1>4, <2>5
           DEF Feed!HandOver, Quotes, Recorded, Pending, Held, Flying, Sent
<1>6. CASE UNCHANGED inFlight
    <2>1. Flying' = Flying
        BY <1>6 DEF Flying, Sent
    <2> QED
        BY <1>2, <1>3, <1>4, <2>1
           DEF Feed!Drop, Quotes, Recorded, Pending, Held, Flying, Sent
<1> QED
    BY <1>5, <1>6

\* A batch that is executed, and one that is lost, is none the process knows of.
LEMMA ProcessUnmoved ==
    ASSUME UNCHANGED <<local, memory, now>>
    PROVE  UNCHANGED <<Quotes, Recorded, Pending>> /\ ShouldNotifyAll' = ShouldNotifyAll
BY DEF local, memory, Quotes, Recorded, Pending, NotifiedPrice, ShouldNotifyAll

LEMMA ExecuteStep ==
    ASSUME TypeOK, FlightInv, Execute
    PROVE  \E b \in Flying : Feed!Deliver(b)
<1>1. PICK b \in inFlight :
         SubmitArgs(b) /\ inFlight' = {c \in inFlight : c.run = b.run => c.place > b.place}
    BY DEF Execute
<1>2. UNCHANGED <<Quotes, Recorded, Pending>> /\ ShouldNotifyAll' = ShouldNotifyAll
    BY ProcessUnmoved DEF Execute
<1>3. Held' = [i \in Index |-> IF i \in DOMAIN Sent(b).prices THEN Sent(b).prices[i]
                                                           ELSE Held[i]]
    <2>1. \A i \in Index : submitted'[i].price = IF i \in DOMAIN b.args THEN b.args[i].price
                                                                    ELSE submitted[i].price
        BY <1>1 DEF SubmitArgs
    <2>2. /\ DOMAIN Sent(b).prices = DOMAIN b.args
          /\ \A i \in DOMAIN b.args : Sent(b).prices[i] = b.args[i].price
        BY DEF Sent
    <2> QED
        BY <2>1, <2>2 DEF Held
<1>4. Flying' \in SUBSET (Flying \ {Sent(b)})
    <2>1. ASSUME NEW c \in inFlight'
          PROVE  Sent(c) \in Flying /\ Sent(c) # Sent(b)
        <3>1. c \in inFlight /\ b.place \in Nat /\ c # b
            BY <1>1 DEF TypeOK
        <3>2. c.place # b.place
            BY <3>1 DEF FlightInv
        <3>3. Sent(c).place # Sent(b).place
            BY <3>2 DEF Sent
        <3> QED
            BY <3>1, <3>3 DEF Flying
    <2>2. Flying' = {Sent(c) : c \in inFlight'}
        BY DEF Flying, Sent
    <2> QED
        BY <2>1, <2>2
<1>5. Sent(b) \in Flying
    BY DEF Flying
<1>6. Feed!Deliver(Sent(b))
    <2> DEFINE sent == Sent(b)
    <2>1. /\ Held' = [i \in Index |-> IF i \in DOMAIN sent.prices THEN sent.prices[i] ELSE Held[i]]
          /\ Flying' \in SUBSET (Flying \ {sent})
        BY <1>3, <1>4
    <2> HIDE DEF sent
    <2>2. Feed!Deliver(sent)
        BY <1>2, <2>1 DEF Feed!Deliver, Quotes, Recorded, Pending, Held, Flying, Sent
    <2> QED
        BY <2>2 DEF sent
<1> QED
    BY <1>5, <1>6

LEMMA LoseStep ==
    ASSUME Lose
    PROVE  Feed!Lose
<1>1. UNCHANGED <<Quotes, Recorded, Pending>> /\ ShouldNotifyAll' = ShouldNotifyAll
    BY ProcessUnmoved DEF Lose
<1>2. inFlight' \subseteq inFlight /\ Held' = Held
    BY DEF Lose, Held
<1>3. Flying' \in SUBSET Flying
    BY <1>2 DEF Flying, Sent
<1> QED
    BY <1>1, <1>2, <1>3 DEF Feed!Lose, Quotes, Recorded, Pending, Held, Flying, Sent

LEMMA TickStep ==
    ASSUME TypeOK, Tick
    PROVE  [Feed!Next]_(Feed!vars)
<1>1. UNCHANGED <<Quotes, Recorded, Pending, Held, Flying>>
    BY DEF Tick, local, memory, outside, Quotes, Recorded, Pending, Held, NotifiedPrice,
           Flying, Sent
<1>2. ShouldNotifyAll => ShouldNotifyAll'
    BY IntervalAssumption DEF Tick, memory, TypeOK, ShouldNotifyAll
<1>3. CASE ShouldNotifyAll'
    <2>1. ShouldNotifyAll' = TRUE
        BY <1>3 DEF ShouldNotifyAll
    <2> QED
        BY <1>1, <2>1
           DEF Feed!Next, Feed!Timer, Quotes, Recorded, Pending, Held, Flying, Sent
<1>4. CASE ~ShouldNotifyAll'
    <2>1. ShouldNotifyAll' = ShouldNotifyAll
        BY <1>2, <1>4 DEF ShouldNotifyAll
    <2> QED
        BY <1>1, <2>1 DEF Feed!vars, Quotes, Recorded, Pending, Held, Flying, Sent
<1> QED
    BY <1>3, <1>4

LEMMA RestartStep ==
    ASSUME TypeOK, Restart
    PROVE  Feed!Restart
<1>1. /\ toNotify' = {} /\ DOMAIN args' = {}
      /\ submitted' = submitted /\ inFlight' = inFlight
    BY DEF Restart, NoArgs
<1>2. \A i \in Index : fetchedPrices'[i].price = 0 /\ lastNotifiedPrices'[i] = 0
    BY DEF Restart, NoPrice
<1>3. ShouldNotifyAll' = FALSE
    BY IntervalAssumption DEF Restart, TypeOK, ShouldNotifyAll
<1> QED
    BY <1>1, <1>2, <1>3 DEF Feed!Restart

LEMMA StepImplements ==
    ASSUME TypeOK, TypeOK', TimerInv, FreshInv, FlightInv, [Next]_vars
    PROVE  [Feed!Next]_(Feed!vars)
<1>1. CASE StartExecute \/ FetchPair \/ DenominateGasPrice
    <2>1. /\ pc \notin {"notify", "send"}
          /\ UNCHANGED <<toNotify, args, memory, now, inFlight, submitted>>
        BY <1>1 DEF StartExecute, FetchPair, DenominateGasPrice, outside
    <2>2. toNotify = {} /\ DOMAIN args = {}
        BY <2>1 DEF TimerInv, FreshInv
    <2> QED
        BY <2>1, <2>2, ObserveStep DEF Feed!Next
<1>2. CASE FetchPairFails \/ DenominateGasPriceFails
    <2>1. /\ pc \notin {"notify", "send"}
          /\ UNCHANGED <<toNotify, args, memory, now, inFlight, submitted>>
        BY <1>2 DEF FetchPairFails, DenominateGasPriceFails, ReturnError, outside
    <2>2. toNotify = {} /\ DOMAIN args = {}
        BY <2>1 DEF TimerInv, FreshInv
    <2> QED
        BY <2>1, <2>2, ObserveStep DEF Feed!Next
<1>3. CASE ComputeNotifyArgsSlice
    BY <1>3, DecideStep DEF Feed!Next
<1>4. CASE NotifyNothing \/ UNCHANGED vars
    <2>1. UNCHANGED <<local, memory, now, inFlight, submitted>>
        BY <1>4 DEF NotifyNothing, vars, outside
    <2>2. UNCHANGED <<Quotes, Recorded, Pending>> /\ ShouldNotifyAll' = ShouldNotifyAll
        BY <2>1, ProcessUnmoved
    <2>3. UNCHANGED <<Held, Flying>>
        BY <2>1 DEF Held, Flying, Sent
    <2> QED
        BY <2>2, <2>3 DEF Feed!vars, Quotes, Recorded, Pending, Held, Flying, Sent
<1>5. CASE NotifyPair
    BY <1>5, NotifyPairStep
<1>6. CASE PriceChangedAccepted \/ PriceChangedRejected \/ PriceChangedUnacknowledged
    BY <1>6, SendStep DEF PriceChangedAccepted, PriceChangedRejected,
                          PriceChangedUnacknowledged, Feed!Next
<1>7. CASE Execute
    BY <1>7, ExecuteStep DEF Feed!Next, Flying, Sent
<1>8. CASE Lose
    BY <1>8, LoseStep DEF Feed!Next
<1>9. CASE Tick
    BY <1>9, TickStep
<1>10. CASE Restart
    BY <1>10, RestartStep DEF Feed!Next
<1> QED
    BY <1>1, <1>2, <1>3, <1>4, <1>5, <1>6, <1>7, <1>8, <1>9, <1>10 DEF Next, RoundStep

(***************************************************************************)
(* Every behaviour of the notifier is one of the feed, with batches that   *)
(* are executed late, after other rounds or after a restart, or never.     *)
(***************************************************************************)
THEOREM NotifierImplementsFeed == Spec => ImplementsPriceFeed
<1>1. /\ TypeOK /\ TypeOK' /\ TimerInv /\ FreshInv /\ FlightInv
      /\ [Next]_vars
      => [Feed!Next]_(Feed!vars)
    BY StepImplements
<1> QED
    BY <1>1, InitImplements, TimerInvariant, FlightInvariant, PTL
       DEF Spec, ImplementsPriceFeed, Feed!Safety
=============================================================================
