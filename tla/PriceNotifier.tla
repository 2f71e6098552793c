--------------------------- MODULE PriceNotifier ---------------------------
(***************************************************************************)
(* aggregator/priceNotifier.go.  One call of Execute is a round: fetch     *)
(* every pair, convert the gas prices, decide which pairs to notify,       *)
(* record them, hand them to the notifee.  The polling handler calls       *)
(* Execute from one goroutine, so rounds never overlap; the process can    *)
(* be killed between any two steps and be started again.                   *)
(*                                                                         *)
(* What the notifee took is in flight: the contract executes it at its     *)
(* nonce, rounds later perhaps, after a restart, or never.  How a batch    *)
(* comes to be in flight is module KCNotifee.                              *)
(*                                                                         *)
(* Time is in seconds, prices as in module Prices.  The arguments handed   *)
(* to the notifee carry the trimmed price; its denomination to an integer  *)
(* is left out.                                                            *)
(***************************************************************************)
EXTENDS GasConversion

CONSTANTS
    Pairs,              \* the configured pairs, in order
    AutoSendInterval,   \* ArgsPriceNotifier.AutoSendInterval
    FetchResults,       \* prices an aggregator may answer
    GasResults,         \* gas prices, in GWEI, the gas station may answer
    MaxTime,            \* bound: the clock stops here
    MaxInFlight,        \* bound: batches that wait for the contract
    MaxRuns             \* bound: starts of the process

ASSUME PairsAssumption ==
    /\ Pairs \in Seq([base : STRING, quote : STRING, percent : Nat, precision : Nat \ {0}])
    /\ Len(Pairs) >= 1
ASSUME IntervalAssumption == AutoSendInterval \in Nat \ {0}
ASSUME AnswersAssumption  == FetchResults \subseteq Price /\ GasResults \subseteq Price
ASSUME BoundsAssumption   == MaxTime \in Nat /\ MaxInFlight \in Nat /\ MaxRuns \in Nat

VARIABLES
    pc,                  \* where Execute is
    idx,                 \* the loop index of getAllPrices
    fetchedPrices,       \* priceInfo of each pair in this round
    toNotify,            \* the pairs of notifyArgsSlice not yet recorded
    args,                \* ArgsPriceChanged built so far, by pair
    lastNotifiedPrices,  \* pn.lastNotifiedPrices
    lastTimeAutoSent,    \* pn.lastTimeAutoSent
    now,                 \* the clock
    result,              \* what the last Execute returned
    inFlight,            \* the batches the contract may still execute
    submitted,           \* what the contract holds of each pair, and of which run
    run,                 \* history: how often the process was started
    attemptedAt          \* history: when each pair was last recorded as notified

local  == <<idx, fetchedPrices, toNotify, args>>
memory == <<lastNotifiedPrices, lastTimeAutoSent>>
outside == <<inFlight, submitted, run>>
vars   == <<pc, local, memory, now, result, outside, attemptedAt>>

Index == 1 .. Len(Pairs)
NoPrice == [price |-> 0, timestamp |-> 0]
NoArgs == [i \in {} |-> NoPrice]

(***************************************************************************)
(* NewPriceNotifier.                                                       *)
(***************************************************************************)
Init ==
    /\ pc = "idle" /\ result = "none" /\ now = 0
    /\ idx = 1
    /\ fetchedPrices = [i \in Index |-> NoPrice]
    /\ toNotify = {} /\ args = NoArgs
    /\ lastNotifiedPrices = [i \in Index |-> 0]
    /\ lastTimeAutoSent = now
    /\ inFlight = {} /\ run = 1
    /\ submitted = [i \in Index |-> [price |-> 0, timestamp |-> 0, run |-> 0]]
    /\ attemptedAt = [i \in Index |-> 0]

(***************************************************************************)
(* Execute is called, and getAllPrices fetches the pairs one after the     *)
(* other; a GWEI pair is not fetched, and any error ends the round.        *)
(***************************************************************************)
StartExecute ==
    /\ pc = "idle"
    /\ pc' = "fetch" /\ idx' = 1
    /\ fetchedPrices' = [i \in Index |-> NoPrice]
    /\ UNCHANGED <<toNotify, args, memory, now, result, outside, attemptedAt>>

IsGweiPair(i) == Pairs[i].base = gweiTicker

FetchPair ==
    /\ pc = "fetch" /\ idx \in Index
    /\ \E price \in (IF IsGweiPair(idx) THEN {0} ELSE FetchResults) :
          fetchedPrices' = [fetchedPrices EXCEPT ![idx] =
              [price |-> Trim(price, Pairs[idx].precision), timestamp |-> now]]
    /\ idx' = idx + 1
    /\ pc' = IF idx = Len(Pairs) THEN "convert" ELSE "fetch"
    /\ UNCHANGED <<toNotify, args, memory, now, result, outside, attemptedAt>>

ReturnError(err) ==
    /\ pc' = "idle" /\ idx' = 1 /\ result' = err
    /\ fetchedPrices' = [i \in Index |-> NoPrice]
    /\ UNCHANGED <<toNotify, args, memory, now, outside, attemptedAt>>

FetchPairFails ==
    /\ pc = "fetch" /\ idx \in Index
    /\ ~IsGweiPair(idx)
    /\ ReturnError("fetchErr")

(***************************************************************************)
(* denominateGasPrice.  Each converted info overwrites every pair with the *)
(* same base and quote, so of two equal pairs the last one counts.         *)
(***************************************************************************)
PairInfos ==
    [i \in Index |-> [base  |-> Pairs[i].base, quote |-> Pairs[i].quote,
                      price |-> fetchedPrices[i].price,
                      timestamp |-> fetchedPrices[i].timestamp]]

LastEqualPair(i) ==
    CHOOSE j \in Index :
        /\ Pairs[j].base = Pairs[i].base /\ Pairs[j].quote = Pairs[i].quote
        /\ \A k \in j + 1 .. Len(Pairs) :
              ~(Pairs[k].base = Pairs[i].base /\ Pairs[k].quote = Pairs[i].quote)

CopyBack(infos) ==
    [i \in Index |-> [price     |-> infos[LastEqualPair(i)].price,
                      timestamp |-> infos[LastEqualPair(i)].timestamp]]

DenominateGasPrice ==
    /\ pc = "convert"
    /\ \/ /\ VerifyRequiredPairs(PairInfos) = "ErrNoGasPairs"
          /\ fetchedPrices' = CopyBack(PairInfos)
       \/ /\ VerifyRequiredPairs(PairInfos) = "nil"
          /\ EthPrice(PairInfos) # 0
          /\ TargetsFound(PairInfos)
          /\ \E gasPrice \in GasResults :
                fetchedPrices' = CopyBack(ConvertGasPrices(PairInfos, gasPrice))
    /\ pc' = "compute" /\ idx' = 1
    /\ UNCHANGED <<toNotify, args, memory, now, result, outside, attemptedAt>>

\* Pairs missing, ETH/USD at zero, the gas station failing (at any time), or a
\* quote that cannot be converted.
DenominateGasPriceFails ==
    /\ pc = "convert"
    /\ VerifyRequiredPairs(PairInfos) # "ErrNoGasPairs"
    /\ ReturnError("convertErr")

(***************************************************************************)
(* computeNotifyArgsSlice, under pn.mut.                                   *)
(***************************************************************************)
ShouldNotifyAll == now - lastTimeAutoSent > AutoSendInterval

PairsToNotify ==
    {i \in Index : \/ ShouldNotifyAll
                   \/ ShouldNotify(lastNotifiedPrices[i], fetchedPrices[i].price,
                                   Pairs[i].percent)}

\* Faulty variant: the timer is reset by every batch.
ComputeResettingAlways ==
    /\ pc = "compute"
    /\ toNotify' = PairsToNotify
    /\ lastTimeAutoSent' = IF PairsToNotify # {} THEN now ELSE lastTimeAutoSent
    /\ pc' = "notify"
    /\ UNCHANGED <<idx, fetchedPrices, args, lastNotifiedPrices, now, result,
                   outside, attemptedAt>>

\* Faulty variant: the time of the next auto-send is kept in place of the last.
ComputeNextAutoSend ==
    /\ pc = "compute"
    /\ toNotify' = PairsToNotify
    /\ lastTimeAutoSent' = IF ShouldNotifyAll THEN now + AutoSendInterval ELSE lastTimeAutoSent
    /\ pc' = "notify"
    /\ UNCHANGED <<idx, fetchedPrices, args, lastNotifiedPrices, now, result,
                   outside, attemptedAt>>

ComputeNotifyArgsSlice ==
    /\ pc = "compute"
    /\ toNotify' = PairsToNotify
    /\ lastTimeAutoSent' = IF ShouldNotifyAll THEN now ELSE lastTimeAutoSent
    /\ pc' = "notify"
    /\ UNCHANGED <<idx, fetchedPrices, args, lastNotifiedPrices, now, result,
                   outside, attemptedAt>>

(***************************************************************************)
(* notify: nothing to do, or one locked update of lastNotifiedPrices per   *)
(* pair, in order, and then the call of notifee.PriceChanged.              *)
(***************************************************************************)
NotifyNothing ==
    /\ pc = "notify" /\ toNotify = {} /\ args = NoArgs
    /\ pc' = "idle" /\ result' = "nil"
    /\ UNCHANGED <<local, memory, now, outside, attemptedAt>>

NotifiedPrice(i) == Trim(fetchedPrices[i].price, Pairs[i].precision)

NotifyPair ==
    /\ pc = "notify"
    /\ \E i \in toNotify :
          /\ \A j \in toNotify : i <= j
          /\ args' = [j \in DOMAIN args \cup {i} |->
                        IF j = i THEN [price |-> NotifiedPrice(i),
                                       timestamp |-> fetchedPrices[i].timestamp]
                                 ELSE args[j]]
          /\ lastNotifiedPrices' = [lastNotifiedPrices EXCEPT ![i] = NotifiedPrice(i)]
          /\ attemptedAt' = [attemptedAt EXCEPT ![i] = now]
          /\ toNotify' = toNotify \ {i}
          /\ pc' = IF toNotify' = {} THEN "send" ELSE "notify"
    /\ UNCHANGED <<idx, fetchedPrices, lastTimeAutoSent, now, result, outside>>

(***************************************************************************)
(* The notifee hands the whole batch over in one transaction: it is in     *)
(* flight behind what is in flight already.  PriceChanged returns nil, or  *)
(* an error before anything was handed over, or the error of the broadcast *)
(* of a transaction that the nonce handler has kept and sends again.       *)
(***************************************************************************)
\* Faulty variant: PriceChanged runs in a goroutine of its own, so that a batch
\* may get its nonce before one of an earlier round.
HandOverConcurrently ==
    \E place \in 1 .. MaxInFlight :
        /\ \A b \in inFlight : b.place # place
        /\ inFlight' = inFlight \cup {[run |-> run, place |-> place, args |-> args]}

HandOver ==
    \E place \in 1 .. MaxInFlight :
        /\ \A b \in inFlight : b.place < place
        /\ place > 1 => \E b \in inFlight : b.place = place - 1
        /\ inFlight' = inFlight \cup {[run |-> run, place |-> place, args |-> args]}

ReturnFromNotify(err) ==
    /\ pc' = "idle" /\ result' = err /\ args' = NoArgs
    /\ UNCHANGED <<idx, fetchedPrices, toNotify, memory, now, submitted, run, attemptedAt>>

PriceChangedAccepted ==
    pc = "send" /\ HandOver /\ ReturnFromNotify("nil")

PriceChangedRejected ==
    pc = "send" /\ UNCHANGED inFlight /\ ReturnFromNotify("sendErr")

PriceChangedUnacknowledged ==
    pc = "send" /\ HandOver /\ ReturnFromNotify("sendErr")

(***************************************************************************)
(* The chain executes a batch in flight at its nonce, or never.  Those of  *)
(* the same run with an earlier nonce cannot be executed any more; nothing *)
(* is known of the order between two runs.                                 *)
(***************************************************************************)
\* Faulty variant: only the first price of the batch is submitted.
SubmitFirst(b) ==
    submitted' = [i \in Index |-> IF i \in DOMAIN b.args /\ \A j \in DOMAIN b.args : i <= j
                                  THEN [price |-> b.args[i].price,
                                        timestamp |-> b.args[i].timestamp, run |-> b.run]
                                  ELSE submitted[i]]

SubmitArgs(b) ==
    submitted' = [i \in Index |-> IF i \in DOMAIN b.args
                                  THEN [price |-> b.args[i].price,
                                        timestamp |-> b.args[i].timestamp, run |-> b.run]
                                  ELSE submitted[i]]

Execute ==
    /\ \E b \in inFlight :
          /\ SubmitArgs(b)
          /\ inFlight' = {c \in inFlight : c.run = b.run => c.place > b.place}
    /\ UNCHANGED <<pc, local, memory, now, result, run, attemptedAt>>

Lose ==
    /\ \E b \in inFlight : inFlight' = inFlight \ {b}
    /\ UNCHANGED <<pc, local, memory, now, result, submitted, run, attemptedAt>>

(***************************************************************************)
(* The clock, and a kill with a new start: everything but the contract,    *)
(* and what is in flight to it, is in memory.                              *)
(***************************************************************************)
Tick ==
    /\ now < MaxTime
    /\ now' = now + 1
    /\ UNCHANGED <<pc, local, memory, result, outside, attemptedAt>>

Restart ==
    /\ run < MaxRuns /\ run' = run + 1
    /\ pc' = "idle" /\ result' = "none"
    /\ idx' = 1 /\ toNotify' = {} /\ args' = NoArgs
    /\ fetchedPrices' = [i \in Index |-> NoPrice]
    /\ lastNotifiedPrices' = [i \in Index |-> 0]
    /\ lastTimeAutoSent' = now
    /\ UNCHANGED <<now, inFlight, submitted, attemptedAt>>

RoundStep ==
    \/ FetchPair \/ FetchPairFails
    \/ DenominateGasPrice \/ DenominateGasPriceFails
    \/ ComputeNotifyArgsSlice
    \/ NotifyNothing \/ NotifyPair
    \/ PriceChangedAccepted \/ PriceChangedRejected \/ PriceChangedUnacknowledged

Next == StartExecute \/ RoundStep \/ Execute \/ Lose \/ Tick \/ Restart

Spec == Init /\ [][Next]_vars
-----------------------------------------------------------------------------
Info == [price : Price, timestamp : 0 .. now]
IsArgs(a) == DOMAIN a \subseteq Index /\ a \in [DOMAIN a -> Info]

TypeOK ==
    /\ pc \in {"idle", "fetch", "convert", "compute", "notify", "send"}
    /\ idx \in 1 .. Len(Pairs) + 1
    /\ fetchedPrices \in [Index -> Info]
    /\ toNotify \subseteq Index
    /\ IsArgs(args)
    /\ lastNotifiedPrices \in [Index -> Price]
    /\ lastTimeAutoSent \in 0 .. now
    /\ now \in Nat
    /\ result \in {"none", "nil", "fetchErr", "convertErr", "sendErr"}
    /\ run \in Nat \ {0}
    /\ \A b \in inFlight :
          b.run \in 1 .. run /\ b.place \in 1 .. MaxInFlight /\ IsArgs(b.args)
    /\ submitted \in [Index -> [price : Price, timestamp : 0 .. now, run : 0 .. run]]
    /\ attemptedAt \in [Index -> 0 .. now]

(***************************************************************************)
(* A round that leaves a pair out of its batch recorded that pair no       *)
(* longer than AutoSendInterval ago, restarts or not: no pair is starved   *)
(* by the timer, which all pairs share and which is reset before the loop  *)
(* that records them.                                                      *)
(***************************************************************************)
NoPairForgotten ==
    [][ComputeNotifyArgsSlice =>
         \A i \in Index \ toNotify' : now - attemptedAt[i] <= AutoSendInterval]_vars

(***************************************************************************)
(* When a batch is ready to be sent, and after the round that sent it, the *)
(* recorded price of every pair is this round's price, or off by less than *)
(* the pair's percent; only a record that is infinite or not a number, or  *)
(* a fetched not-a-number, escapes the comparison.                         *)
(***************************************************************************)
Closer(last, new, percent) ==
    LET change == IF new >= last THEN new - last ELSE last - new
    IN  change * 100 < percent * last

WithinPercent(known, i) ==
    LET new == fetchedPrices[i].price
    IN  \/ known = NotifiedPrice(i)
        \/ ~Finite(known) \/ new = NaN
        \/ Finite(new) /\ Closer(known, new, Pairs[i].percent)

RoundDecided == pc = "send" \/ (pc = "idle" /\ result \in {"nil", "sendErr"})

RecordedWithinPercent ==
    RoundDecided => \A i \in Index : WithinPercent(lastNotifiedPrices[i], i)

(***************************************************************************)
(* However late batches are executed, whatever is lost, and although a     *)
(* batch whose sending failed may be executed all the same, rounds after   *)
(* its prices were replaced in the records: within one run of the process  *)
(* an older price never replaces a newer one in the contract.  Only what   *)
(* was in flight when the process was started again can.                   *)
(***************************************************************************)
FreshSubmission ==
    [][\A i \in Index :
          submitted'[i].timestamp < submitted[i].timestamp =>
              submitted'[i].run < submitted[i].run]_vars

(***************************************************************************)
(* The gas prices a round decides on all follow from one gas price and     *)
(* from the ETH/USD and token prices the same round decides on.            *)
(***************************************************************************)
PriceOf(base, quote) ==
    {fetchedPrices[i].price : i \in {j \in Index : Pairs[j].base = base /\ Pairs[j].quote = quote}}

GasPricesConsistent ==
    pc \in {"compute", "notify", "send"} /\ (\E i \in Index : IsGweiPair(i)) =>
      \E gasPrice \in GasResults :
        \A i \in {j \in Index : IsGweiPair(j)} :
          \E ethPrice \in PriceOf(ethTicker, quoteUSD) :
            IF Pairs[i].quote = quoteUSD
            THEN fetchedPrices[i].price = NominalValue(ethPrice, gasPrice)
            ELSE \E tokenPrice \in PriceOf(Pairs[i].quote, quoteUSD) :
                   fetchedPrices[i].price = Quotient(NominalValue(ethPrice, gasPrice), tokenPrice)

(***************************************************************************)
(* The notifier implements the feed: the loop that records the batch pair  *)
(* by pair, the ticking clock and the failures are one decision, one timer *)
(* and one batch that is handed over or dropped.  A pair still to be       *)
(* recorded in the loop counts as recorded.                                *)
(***************************************************************************)
Feed == INSTANCE PriceFeed WITH
    Percent   <- [i \in Index |-> Pairs[i].percent],
    Precision <- [i \in Index |-> Pairs[i].precision],
    Quotes    <- Price,
    Places    <- 1 .. MaxInFlight,
    quotes    <- [i \in Index |-> fetchedPrices[i].price],
    recorded  <- [i \in Index |-> IF i \in toNotify THEN NotifiedPrice(i)
                                                    ELSE lastNotifiedPrices[i]],
    pending   <- toNotify \cup DOMAIN args,
    due       <- ShouldNotifyAll,
    inFlight  <- {[place |-> b.place, prices |-> [i \in DOMAIN b.args |-> b.args[i].price]] :
                     b \in inFlight},
    submitted <- [i \in Index |-> submitted[i].price]

ImplementsPriceFeed == Feed!Safety

-----------------------------------------------------------------------------
(***************************************************************************)
(* What the repository says of the program, and the code does not do.      *)
(*                                                                         *)
(* cmd/oracle/main.go:54, "will write to the contract if the price         *)
(* changed": after a round without error, and with nothing on its way, the *)
(* contract is within percent.                                             *)
(***************************************************************************)
SubmittedWithinPercent ==
    pc = "idle" /\ result = "nil" /\ inFlight = {} =>
        \A i \in Index : WithinPercent(submitted[i].price, i)
=============================================================================
