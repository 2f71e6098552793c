# A formal model of klv-oracles-go

The oracle is one process. It polls exchanges for the prices of the pairs in its configuration and submits
to an aggregator contract on the Klever blockchain the prices that moved by more than a threshold, and all
prices every so often. This directory holds TLA+ modules of its core, instances of them that TLC checks, and
theorems that TLAPS proves. File names below are relative to the repository.

## 1. The system

| component | state | operations | talks to |
|---|---|---|---|
| price notifier (`aggregator/priceNotifier.go`) | `lastNotifiedPrices`, `lastTimeAutoSent` | `Execute`: fetch, convert, decide, record, send | aggregator, gas price service, notifee; called by the polling handler |
| gas price service (`aggregator/gasStation`) | none | `VerifyRequiredPairs`, `ConvertGasPrices` | gas price fetcher |
| price aggregator (`aggregator/priceAggregator.go`, `computers.go`) | per call: result slice, mutex, wait group | `FetchPrice`: one goroutine per fetcher, median | fetchers |
| fetchers (`aggregator/fetchers`) | `knownPairs` of each | `AddPair`, `FetchPrice` | HTTP response getter |
| HTTP response getter (`aggregator/httpResponseGetter.go`) | none | `Get` | the exchanges |
| contract notifee (`aggregator/notifees/kcNotifee.go`) | none | `PriceChanged`: build, nonce, hash, sign, send | proxy and nonce handler (libraries), wallet |
| start-up (`cmd/oracle/main.go`, `config`) | the wiring, the signal channel | load the key, register pairs, start the web server and the polling, wait for a signal, close | all of them |
| web server (`aggregator/api/gin`) | the last `http.Server`, a lock | start, close, log websocket | logger only |
| wallet and PEM (`tools/wallet`) | the key | load, sign | read at start-up |

What must hold, and what makes it hard:

* **Notifier.** A price is recorded as notified *before* it is sent, one timer is shared by all pairs and reset
  before the send, and every record is lost at a restart while the contract stays. So what is recorded, what is
  on its way and what the contract holds are three different things. Within a run no older price may replace a newer
  one in the contract, no pair may be forgotten, and a record must be close to the price it was compared with.
* **Gas prices** are computed from other prices of the same round, divided by a token price that may have been
  rounded to zero: infinities and NaN enter the comparisons.
* **Aggregator.** The goroutines race on one slice; the wait must end neither too early nor never; the median
  must not depend on the order, nor on a minority of odd answers.
* **Notifee.** A nonce is taken before the transaction is hashed, signed and sent; the nonce handler sends again what
  the chain has not executed; a failed send may have succeeded; a restart begins with a new handler beside old
  transactions. Batches must not be executed twice, nor in another order than they were called for.
* **Denomination.** A decimal price goes through float64 divisions, roundings and products and ends as an integer,
  unsigned, then signed, then without its sign.
* **Process and web server.** The order of the start, a signal at any moment, a server that is closed before its
  goroutine listens, requests that never end while `Close` holds the lock.
* **Key file.** A loop over blocks that may be encrypted, malformed or missing, and keys of every length.
* **Fetchers and start-up.** Eight parsers with a guard each; names registered in one spelling and asked for in
  another; checks that accept configurations which can never work.

`PROJECT.json` lists the hazards at their lines, with the properties that would catch them.

## 2. Modules

| module | models | lines of the code |
|---|---|---|
| `Prices` | finite prices as integers, `Inf` and `NaN` with the IEEE rules; `trim`, `shouldNotify`, the gas arithmetic | `converters.go`, `priceNotifier.go:173` |
| `GasConversion` | `VerifyRequiredPairs`, `ConvertGasPrices` | `gasPriceService.go` |
| `PriceNotifier` | one `Execute` after another, each call it makes a step that may fail; the clock; kill and restart; batches in flight, executed late or never; the contract | `priceNotifier.go` |
| `PriceFeed` | what the notifier promises: decide, hand over or drop, deliver or lose, timer, restart | abstract |
| `PriceAggregator` | `FetchPrice`: a process per goroutine, mutex, wait group, median | `priceAggregator.go`, `computers.go` |
| `Fetchers` | what each `FetchPrice` makes of a response, the quote it asks for | `fetchers/*.go` |
| `PriceSources` | registration of the configured pairs, then rounds: who answers, who errs, whether the round succeeds | `main.go:148-268`, `fetchers`, `priceNotifier.go:122` |
| `KCNotifee` | `PriceChanged` call by call with its errors; the nonce handler, the mempool and the chain; restarts | `kcNotifee.go:84-164` |
| `BatchDelivery` | what notifee and handler promise: at most once, in order within a run | abstract |
| `BinaryFloats` | floats with a mantissa of `MantissaBits` bits, rounded as IEEE 754 says | external, `converters.go` |
| `Denomination` | `newPair`'s factor and precision, `trim` twice, the conversions to `uint64`, `int64` and bytes | `pair.go:38`, `priceNotifier.go:192-209`, `kcNotifee.go:151` |
| `KeyFile` | `LoadKey`, the loop over PEM blocks, (de)encryption, `NewWalletFromPEM` | `pem.go`, `wallet.go:24-65` |
| `WebServer` | `StartHttpServer` and `Close`, the listening goroutine, requests, log senders, the shutdown timeout | `webServer.go`, `httpServer.go` |
| `OracleProcess` | `startOracle` step by step, the polling loop, signals, the end of the process | `main.go:66-279` |
| `MC*` | instances for TLC | |
| `*Proofs` | theorems | |
| `PriceLemmas` | what several proofs cite: price arithmetic yields prices, least and greatest elements, sorting | |

How they fit: `PriceSources` says from whom the answers come and when a round fails; `PriceAggregator` turns
the answers for one pair into one price; `PriceNotifier` takes any such price, or a failure, for each pair
(`FetchResults`, `FetchPairFails`) and follows it to the contract; `PriceFeed` is what remains of that when
rounds, loops and clocks are hidden. `PriceChanged`, one step with three outcomes there, is opened in `KCNotifee`,
whose abstract side is `BatchDelivery`: of it the notifier takes that a batch handed over is executed at most once, and
in the order of the calls within a run (`Execute` forgets the batches of the run that are behind). What it hands over, with
or without an error, is in flight; that the order between two runs is open is common to both modules. `Denomination` opens the one price in a batch. `OracleProcess` extends `KeyFile`, from
which it gets the wallet, and `WebServer`, which it starts; a round is one step of it, or one that never ends, and
`PriceSources` and `PriceNotifier` are what happens in the round. `GasConversion` is shared by `PriceNotifier` (values) and `PriceSources`
(errors).

### Correspondence

* `PriceNotifier`: `pc` is the place in `Execute`; `idx`, `fetchedPrices`, `toNotify`, `args` are locals;
  `lastNotifiedPrices` and `lastTimeAutoSent` the fields. `FetchPair`/`FetchPairFails` are one iteration of
  `getAllPrices`, `DenominateGasPrice(Fails)` is `denominateGasPrice` with `ConvertGasPrices`,
  `ComputeNotifyArgsSlice` is that function (under the mutex, hence one step), `NotifyPair` one iteration of the
  loop in `notify`, `PriceChanged...` the call at line 211 with its three outcomes: handed over and nil; an error
  before anything was handed over (`kcNotifee.go:85-124`); handed over, and an error all the same (`kcNotifee.go:128-131`:
  the nonce handler has kept the transaction). `inFlight` are the batches handed over, by run and by place in the order of
  their nonces; `Execute` is the chain taking one of them, at any later time. `submitted` (what the contract holds, fetched
  when, and by which run), `run` and `attemptedAt` (when a pair was last recorded) are not in the code.
* `PriceAggregator`: `gpc[f]` is the place of a goroutine. The append is split into the read of the slice
  header and its write. `found`, and the fetcher in each slice entry, are history.
* `PriceSources`: `stage` and `next` are the place in `startOracle`'s loops, then in the round; `knownPairs`,
  `gasKnownPairs` and `pairs` the registry. `healthy` is history: in this round everyone asked gave a usable
  answer.
* `KCNotifee`: `pc` is the call `PriceChanged` makes next, each with its error return; `tx` is the transaction under
  construction. A batch is the number of its call; a hash or signature is the raw data it was taken of, so that "what
  is signed is what is sent" can be said. `nextNonce` and `kept` are the nonce handler, `mempool`, `accountNonce` and
  `executed` the chain; `calls`, `run`, `reported`, `usedUp` are history.
* `Denomination`: `fetched` is `priceInfo.price`, `recorded` is `lastNotifiedPrices`, `denominated` the `uint64`,
  `argument` what the contract reads. `NextPrice` climbs from each float to the next.
* `KeyFile`: a file is its blocks, and whether anything that is no block follows; data are digits of a key, text, or
  sealed under a password and a hash function. `Unreadable` names the iterations of the loop that return.
* `WebServer`: `servers[i]` is the i-th `http.Server`; `closing` is `Close` inside `Shutdown`, with the lock.
* `OracleProcess`: `at` is the next statement of `startOracle`; `SetUp` stands for the calls before and after the key
  is loaded that touch nothing modelled here, `SetUpFails` for any of their errors. `StartProcessingLoop` and `Close` of the polling handler may return an error as
  well, the latter behind rounds; `Return` is `main` with its exit status. `sigs` is the channel.

Definitions called *Faulty variant* in the modules are plausible mistakes in the definition that follows them;
`PROJECT.json` ("mutants") names, for each property, the one that breaks it. No specification uses them.

### Abstractions

* Finite float arithmetic is exact, then rounded to a unit (`Prices`). The rounding
  errors of float64 are in `Denomination` only, which shows (`RecordedAsDecided`) that `trim` applied twice is
  `trim`, as `Prices` has it. The percent comparison is multiplied out.
* Prices are not negative. For exchange prices this is `AnswersPositive`, proved; a gas station that sends a
  negative number is not modelled in `PriceNotifier`.
* The clock is in seconds and never goes back (Go compares monotonic readings, except for the timestamps).
* Rounds do not overlap: the polling handler calls `Execute` from one goroutine.
* For `PriceNotifier`, nonces are places in an order, and a batch behind one that never leaves the nonce handler is
  lost like any other; which batches are held up, and for how long, is in `KCNotifee`.
* `KCNotifee` has one account with one key: two oracles with the same key are outside. Gas and balances are too.
* The nonce handler is `nonceHandlerV2` of `klv-bridge-eth-go` (`main.go:12`, `main.go:133`), whose source is not in
  the repository. What is modelled: it never gives a nonce twice in a run, keeps a transaction
  before it broadcasts it, and sends it again until the account is past its nonce.
* `OracleProcess`: a wallet's left-over digits depend on how `hex.DecodeString` allocates; with go 1.23 a short
  key either panics or is completed from the buffer (`Capacities` allows every capacity).
* Names are strings or members of small sets; `Upper` and `UsdNames` stand for `strings.ToUpper` and
  `strings.Contains(quote, "USD")`. A registry key is a pair of names (the code joins them by "-").
* `PriceSources` counts answers and does not compute prices; that ETH/USD was rounded to zero is a choice
  (`EthPriceZero`).
* A panic in a fetcher ends the process; it may be started again at any time.

## 3. Runs

Each finishes within three minutes on two cores. Deadlock is checked except where noted.

| run | instance | shows |
|---|---|---|
| `notifier_gas` | ETH/USD, KLV/USD twice with different decimals, and GWEI/KLV, where KLV/USD can be trimmed to 0; gas prices 0 and 5; one batch in flight | `RecordedWithinPercent`, `GasPricesConsistent`, with infinite and NaN gas prices occurring, and the copy by name over equal pairs (`priceNotifier.go:233`) with different prices |
| `notifier_plain` | two pairs, one with percent 0; interval 1, clock up to 4; two batches in flight, two runs | `TypeOK`, `NoPairForgotten`, `FreshSubmission`, and `ImplementsPriceFeed`, the refinement |
| `feed` | two pairs, two batches in flight, quotes 0 and Inf | `ContractCatchesUp`: the contract holds the remembered price of each pair again and again |
| `aggregator` | four fetchers, answers 40, 44, Inf and NaN | `NoResultLost`, `ReplyIsMedian`, `OutliersDoNotMove`, `FetchPriceReturns` |
| `sources` | eight exchanges with every kind of response; 308 configurations of two exchanges, also some with a GWEI pair among the ordinary pairs | `AnsweredPricesPositive`, `PricesWellSourced`, `UsableIffRoundsSucceed`; a crash leaves no answer behind (`TypeOK`) |
| `notifee` | four calls, two runs of the process, every call may fail | `ExecutedInCallOrder`, `LostOnlyToAnotherRun`, `QueueMoves`, and `ImplementsBatchDelivery`, the refinement |
| `denomination` | mantissas of 10 bits, integers of 13, one and two decimals, prices from 2^-8 to 2^10 | `RecordedAsDecided`, `SentWithinOneUnit`, `HigherNeverSentLower` |
| `process` | 19 key files, every call of the start and of the end failing at will, two servers, two clients, two signals | `PollsWithTheFirstKey`, `OnlySignalsStopPolling`, `LastServerStaysClosed`, `SignalEndsProcess`, `CloseGivesUp` |

Deadlock is not checked in `notifee` (the calls are bounded, and with everything executed nothing remains) and in
`process` (the process ends).

**Bounds.** `MaxTime` stops the clock: with an interval of 1, time 4 is enough for two auto-sends, for one that
is lost and for the rounds in between; `notifier_gas` needs no tick, its properties not being about
time, and one run of the process. `MaxInFlight` bounds the batches that wait for the contract; when there are as many, a
round can only fail to hand its own over. Two are the least of which one can be late behind another, of the same run or of
the run before, which `MaxRuns` = 2 adds. In the feed, `Places` bounds them in the same way, but a new batch may take the
place of an old one, which is then lost. `notifier_unsent` has `MaxInFlight` = 0: no batch gets as far as the nonce handler. Two pairs suffice for what pairs can do to each other in the notifier (the shared timer, the batch), four
for a gas pair with its two inputs, of which one is repeated. Four goroutines give an even and, when one fails, an odd number of results,
and a majority against a minority. In `PriceSources` nothing is counted, so there is no bound but the sets of
configurations and responses; two exchanges distinguish none, some and all, and `minResultsNum` goes from the
invalid 0 to the invalid 3. `MaxCalls` = 4 and `MaxRuns` = 2 give two calls to each of two runs, and three to one: a
call that uses up a nonce, one behind it, and one of the run before that competes with both. In `Denomination` the
prices are all the floats between two bounds, and reach from below a unit to beyond the integers. With 53 and 64 bits
instead of 10 and 13 the numbers move apart, but their order is the same: first the units a float can tell apart,
then those of `int64`, then those of `uint64`. All of it is proved for every number of bits,
`SentWithinOneUnit` for factors that are floats, as 10 and 100 are here. Two servers are what "the last one" needs;
a third adds nothing that the second does not do to the first.

**Fairness.** `aggregator`: the Go scheduler runs every goroutine (`SchedulerFairness`), the notifier calls
again, and every fetcher answers or errs at some time (`WF(Answer(f))`), which the code itself does not
guarantee. That is why `aggregator_hang` uses `FairSpec` without it. `feed`: rounds go on (`WF(Decide)`), the
interval passes (`WF(Timer)`), a pair that is pending again and again is handed over at some time
(`SF(i \in pending /\ HandOver)`): the calls before the hand-over do not always fail just when this pair is sent; and a
pair of which a batch in flight carries the recorded price again and again is executed with it at some time
(`SF(DeliverRecorded(i))`): the chain is not always down, and does not lose every such batch. `notifee`:
`PriceChanged` takes its steps and the handler sends again every interval (`WF`), and a transaction that can be
executed again and again is executed (`SF(Execute)`, strong because a node may drop it in between). `process`: `main`
goes on, and `Shutdown` returns or its second passes (`WF`); nothing is assumed of rounds, requests, clients, or the
goroutine that listens. The other runs assume no fairness.

### What the runs of the notifee, the process and the denomination say

* Within a run of the process nothing is delivered twice or out of order, whatever fails. Between two runs neither
  holds: the new handler takes the nonce the account has, so a batch of the old run that still waits may be executed
  after a batch of the new run, or take the nonce of one that was reported as sent. `LostOnlyToAnotherRun` and
  `BatchDelivery` say how far this goes. The contract gets a timestamp with every price to tell them apart.
* A nonce used up by a failed hash or signature (`kcNotifee.go:116-124`) holds up every later batch of the run until
  the process is started again; a failing configuration, address or nonce call, or a failing send, does not
  (`QueueMoves`). Neither hash nor signature fails with the libraries in use.
* A signal ends the process from its first statement to its last, with exit status 0 only if it comes after
  `signal.Notify` and closing the polling handler returns no error. A round in flight, or one that never ends, does not delay it, and is cut off.
* `LastServerStaysClosed` is about the server that is the last when `Close` is called. One that a second
  `StartHttpServer` replaced is out of reach; it may go on listening, and then the second cannot. `main.go` starts
  one server and closes none, so these interleavings are those of the interface and its tests.
* A key of fewer than 32 bytes in the file is not refused: the process panics, or starts with a key completed by
  whatever followed in the buffer. `PollsWithTheFirstKey` says that nothing else can go wrong.
* From 2^63 units on, the contract receives 2^64 - u instead of u: `HigherNeverSentLower` ends there.

### Where the code and the repository disagree

| run | the repository says | the code does |
|---|---|---|
| `notifier_unsent` | "will write to the contract if the price changed" (`main.go:54`) | a price that was never handed over counts as notified; the next rounds return nil and send nothing, and nothing is on its way (`priceNotifier.go:207`) |
| `aggregator_hang` | "polling interval for fetchers" (`config.toml:11`) | no time-out anywhere: one exchange that never answers ends the polling (`httpResponseGetter.go:26`, `priceAggregator.go:97`) |
| `sources_verified` | "checks if all required pairs for gas price calculation are available" (`gasPriceService.go:120`) | accepts GWEI/ETH and GWEI/GWEI beside GWEI/USD, in whose conversion a pair is then always missing (`gasPriceService.go:84`, `109`) |
| `denomination_exact` | `assert.Equal(t, uint64(199), ...)` of 1.987654321 (`priceNotifier_test.go:163`): a price arrives rounded | the rounded price is multiplied and cut off: 0.29 with two decimals arrives as 28 (`priceNotifier.go:194`) |

Evaluated in float64 for whole numbers of units up to 300,000, lines 193-194 lose a unit with 2 decimals (first at 29
units), 3 (4007), 6 (15), 7 (13), 8 (59), 11 (1) and 12 (23), and none with 1, 4, 5, 9 or 10; the shipped
configuration uses 4 and 9.

Two more disagreements were met, and have no run of their own. `config.toml:44` says "percent difference to notify price
change. 0 notifies for each change", but a recorded price below 0.0001 is notified in every round, whatever its percent
(`priceNotifier.go:175`); GWEI/USD always is. `config.toml:30` names an exchange "Okex", whose fetcher is
called "Okx" (`constants.go:22`); unknown names are ignored (`main.go:314`).

The positive side of `sources_verified` is `UsableIffRoundsSucceed`: it characterises the configurations that
can work. Every pair but GWEI ones needs, for its names in upper case, `MinResultsNum` implemented exchanges; with gas
prices to compute also ETH/USD, GWEI/USD, and TOKEN/USD for every other quote, which may be neither ETH nor GWEI. A
GWEI pair among the ordinary pairs asks for a gas price too, but for GWEI/USD only one among the gas pairs counts:
the gas station's fetcher is asked for GWEI/USD (`gasPriceService.go:76`), and only the gas pairs are registered with it
(`main.go:231`). So a list without GWEI/USD passes `VerifyRequiredPairs` too, and every round fails because the fetcher
does not know the pair; `VerifiedPairsSuffice` leaves that aside.

## 4. Proofs

Checked by TLAPS, for every value of the constants that satisfies the named assumptions of the modules.

| theorem | states | argument |
|---|---|---|
| `TypeCorrect` | `[]TypeOK` of the notifier | one step per action; the arithmetic lemmas say that each operator stays in `Price` |
| `PairsNotForgotten` | `NoPairForgotten` | `TimerInv` |
| `RecordsWithinPercent` | `[]RecordedWithinPercent` | `RecordedInv` |
| `SubmissionsFresh` | `FreshSubmission`: within a run, however late batches are executed | `FreshInv`, `FlightInv` |
| `GasPricesFromOneRound` | `[]GasPricesConsistent`, if ETH/USD is listed once (`EthUsdOnce`) | the pairs the conversion reads are those that are copied back |
| `NotifierImplementsFeed` | `ImplementsPriceFeed` | every action maps to one action of the feed or to a stutter |
| `PriceFeedProofs`: `TypeCorrect` | `[]TypeOK` of the feed | one step per action |
| `NoResultIsLost` | `[]NoResultLost` of the aggregator | `Inv` |
| `RepliesWithMedian`, `OutliersDoNotMoveReply` | `[]ReplyIsMedian`, `[]OutliersDoNotMove` | `Inv`, and what sorting yields |
| `NobodyStuck` | `[]WaitGoesOn`: a waiting call has its wait group at zero, or a goroutine that is not waiting for the others | `Inv` |
| `PriceAggregatorProofs`: `TypeCorrect` | `[]TypeOK` of the aggregator | `Inv`, for the reply the median |
| `WellSourced`, `AnswersPositive` | `[]PricesWellSourced`, `[]AnsweredPricesPositive` | `IInv` |
| `RoundsSucceedIffUsable` | `[]UsableIffRoundsSucceed` | `IInv`, `SetupInv`, `HealthInv` |
| `PriceSourcesProofs`: `TypeCorrect` | `[]TypeOK` of start-up and rounds | the same |
| `KCNotifeeProofs`: `TypeCorrect`, `ExecutedInOrder`, `PlaceLostOnlyToAnotherRun` | `[]TypeOK`, `[]ExecutedInCallOrder`, `[]LostOnlyToAnotherRun` | `TxInv`, `DataInv`, `NonceInv` |
| `RefinesBatchDelivery` | `ImplementsBatchDelivery` | every action maps to one action of the abstract delivery or to a stutter |
| `OracleProcessProofs`: `TypeCorrect` | `[]TypeOK` of the process and the web server | one step per action |
| `PollsWithFirstKey`, `PollingStopsAtSignals`, `LastServerClosed` | `[]PollsWithTheFirstKey`, `[]OnlySignalsStopPolling`, `[]LastServerStaysClosed` | `LoadedInv`, `StartInv`, `ServersInv` |
| `HigherNeverLower` | `HigherNeverSentLower`, for every `MantissaBits`, `Width` and number of decimals | every operation on floats is monotone; `IInv` |
| `RecordsWhatItDecidedOn` | `[]RecordedAsDecided`, for every `MantissaBits` and number of decimals | what a trim returns is within a quarter of a unit of its number of units |
| `SentToWithinOneUnit` | `[]SentWithinOneUnit`, if every factor is a float (`FactorsExact`) and `MantissaBits < Width` | when trimming rounds to one unit too few, the conversion does not cut off another |
| `DenominationProofs`: `TypeCorrect` | `[]TypeOK` of the denomination | `IInv` |
| `EncryptionRoundTrip` | what `EncryptPEMBlock` wrote is read with its password, and with no other | by cases of the block |

Why the invariants need strengthening:

* `TimerInv`. That a pair left out was recorded within the interval follows only if no record is older than the
  timer, and while a batch is being recorded the timer is already newer than the records still to come. The
  invariant says: a pair is still in `toNotify`, or was recorded no earlier than the last auto-send. A restart
  resets the timer and forgets the records, and a price recorded as 0 is always below epsilon, so every pair
  not recorded since is in the next batch.
* `RecordedInv` follows a round: a pair outside the batch passed the comparison with this round's price; one in
  `args` has this round's trimmed price; one in `toNotify` will have it.
* `FreshInv`: prices in hand were fetched no earlier than any price that the contract holds or that is in flight, because
  prices do not survive the round. `FlightInv`: of two batches in flight, the one of the later run, or of the later place
  in the same run, has no older prices, and only one of an earlier run can be older than what the contract holds. A batch
  is executed with the earlier ones of its run out of the way, so both are kept.
* `Inv` of the aggregator: the counter of the wait group is the number of goroutines not through, the mutex
  holder is the only one between lock and unlock, what it has read is the current slice, and the slice has
  one entry for each goroutine past its write.
* The median. `Inv` gives the slice one entry for each goroutine that found a price, so counting places in the slice is
  counting goroutines. That sorting exists at all is not in the prover's reach by induction; `SortingExists` takes the
  least length of a list that cannot be sorted and contradicts it. `FloatOrderIsOrder` says that "less" with NaN
  first and infinity last is a strict weak order. A price at place k of the sorted list has fewer than k below it and at most
  n - k above it (`AroundPlace`), which for the middle places is `IsMiddle`; between the two middle places nothing lies
  (`NoneBetween`).
* A majority in a range: were the lower middle price below the range, or the upper above it, half of the goroutines
  would be outside (`MiddleInRange`). The mean of two prices in a range is in it.
* The gas prices. The conversion takes the first ETH/USD of the list and the last TOKEN/USD
  (`gasPriceService.go:64`, `83`), and copying back by name takes the last of equal pairs (`priceNotifier.go:233`). A token
  listed twice is read and copied from the same place; ETH/USD listed twice is not, and then the gas price follows
  from a price that the round overwrites. So the theorem has `EthUsdOnce`; the shipped configuration satisfies it.
* `IInv` of the sources: a fetcher knows only what was configured for it, an answer comes from a fetcher that
  knows the pair, and `sources` has one entry for each pair before `next`.
* `SetupInv`: the registry holds exactly what the loops of `startOracle` have come past, no less, which `IInv` does not
  need to say. `HealthInv` then follows a round in which everyone answers: everyone asked so far knew the pair and gave a
  price, every pair fetched so far had enough exchanges named for it, and the outcome is nil only if the list
  converts. A round that ends with an error before the end of the list names the pair that lacks exchanges. The
  assumption `ResponsesAssumption` says which values the response structs of Go can hold; without it an exchange could
  answer something that is no price.
* `NonceInv`, for calls of the same run: of two transactions given a nonce (at work, reported, kept, waiting or
  executed), the one of the later call has the higher nonce, and every nonce of the current run is below `nextNonce`. Execution in the order of the
  nonces is then execution in the order of the calls.
* `LoadedInv`, `StartInv`: the loop runs only behind the step that loads the key, and then the wallet is still the one
  that was made of the file; `LoadedIsFirst` is what the loop of `LoadSkPkFromPemFile` comes to for the index 0, which
  is the only one the program uses.
  `StartInv` also places the errors and the first signal: `startOracle` returns an error either before the loop
  could start, or from `Close`, and it comes to `Close` only with a signal out of the channel.
* `ServersInv`: `httpServer` is the last server, and a server that was shut down does not listen.
* `IInv` of the denomination: at each stage the values are those computed from the price, and until a price is sent the
  contract still has what was sent for some price that was not higher. The rest is arithmetic. `NoMore` orders numbers
  m 2^d without dividing. `RoundingMonotone` says that rounding ties to even keeps the order of fractions, `PlacedOrder`
  that the order of two nearest floats is that of their places and then of their significands; so `Nearest` and `Times` are
  monotone. A quotient is rounded twice, first to its guard bits; `StickyRounding` shows that the sticky bit makes
  this the rounding of the exact quotient, and so it is monotone as well (`DividedByMonotone`). `Truncated` and `Rounded`
  are whole divisions over a common denominator.
* Trimming twice. With h = 2^`MantissaBits`, the nearest float is off by at most 1/h of the number (`NearestError`), and
  so is a quotient (`QuotientError`). A countable price therefore is rounded to r units, r <= h/4: for more, the units of
  the price would have to be h/4 (`FactorErrors`, `BelowHalf`). r * `TrimPrecision`, rounded, is then less than a
  quarter of a unit away, and its quotient by `TrimPrecision` lies between the floats r - 1/4 and r + 1/4, because division
  is monotone and exact on these (`QuotientWithin`); it is rounded to r again (`TrimAgain`). For r = h/4 the upper bound
  is not to be had this way, but then r is a power of two and the product is exact.
* Sent within one unit. A price of v units is rounded to r, and sent as a. The errors of the five roundings bound each of
  the two steps: v - 1 <= r <= v + 1 (`UnitsRounded`), and r - 1 <= a <= r (`SentAlmost`). Their sum would allow
  a = v - 2, so the proof has to show that the two do not go down together (`NotCutOffToo`). If r = v - 1, the quotient
  price / precision is below r + 1/2 although the price is not below r + 1/2 units: the float r + 1/2 is at least half a
  place from the quotient before it was rounded (`QuotientMidpoint`), so precision * factor exceeds 1 by half a place
  (`RoundedDown`). If a = r - 1, the product is half a place below r (`NearestMidpoint`), and with one more rounding in
  between, of r * precision, precision * factor is too small for that: `TooFarApart` is the contradiction, on the grid
  of the floats between the powers of two around r (`Grid`). For r a power of two there is no rounding in between.
* `FactorsExact`: 10^decimals is a float. `checkPairArgs` admits 1 to 18 decimals (`pair.go:9-10`), and
  5^18 < 2^53, so in float64 each of the factors is one. `MantissaBits < Width` is 53 < 64.
* Powers of two and bit lengths are recursive functions. That a function with these equations exists is not in the
  prover's reach by induction; `RecursionExists` joins its beginnings, of which the shortest that is missing would be a
  contradiction, and `SmallestElement` takes the place of induction from there on.

Each invariant was model-checked before it was proved.

**Model-checked only.** `ContractCatchesUp` and `FetchPriceReturns` are liveness under fairness, which the prover
does not handle, and so are `QueueMoves`, `SignalEndsProcess` and `CloseGivesUp`. With ETH/USD listed
twice, `GasPricesConsistent` is neither checked nor proved. Every other invariant and every action property of the
passing runs is a theorem.

## 5. Plan

Written, in this order: `Prices`, `GasConversion`, `PriceNotifier`, `PriceFeed` and the refinement,
`PriceAggregator`, `Fetchers`, `PriceSources`, `BatchDelivery`, `KCNotifee` and its refinement, `BinaryFloats`,
`Denomination`, `KeyFile`, `WebServer`, `OracleProcess`. What is left:

1. The composition of aggregator and notifier (a round whose `FetchPair` is an aggregator call), so that
   `AnswersPositive`, `OutliersDoNotMoveReply` and `RecordsWithinPercent` are stated of one system.
2. `NewWalletFromMnemonic`, should the program come to use it: the option, the path, and the numbering of its levels
   (`wallet.go:120`).

## 6. Not modelled

Flags and file logging (`flags.go`) are argument parsing and I/O; that they may fail, and that the web server may be
turned off, is in `OracleProcess`. Of the wallet, `NewWalletFromMnemonic` with its key derivation is called by tests
only, and its arithmetic, like that of AES-GCM, PBKDF2 and ed25519, is beyond a model checker; `KeyFile` says what it is
relied on for. URLs, JSON and the transaction encoding are data formats no property speaks of. The log records the web
server sends are the library's. The test doubles and the unused interfaces (`GraphqlGetter`) are left out. The proxy,
the nonce handler, the polling handler, `net/http` and the contract are libraries or services outside the repository,
modelled only as far as the code relies on them.
