-------------------------- MODULE PriceAggregator --------------------------
(***************************************************************************)
(* aggregator/priceAggregator.go: FetchPrice asks every price fetcher in a *)
(* goroutine of its own, waits for all of them, and answers the median of  *)
(* what they found.  The goroutines share a slice, guarded by a mutex; a   *)
(* wait group tells the caller when the last one is through.               *)
(*                                                                         *)
(* The append is a read and a write of the shared slice, so that a         *)
(* goroutine could lose the work of another.  An entry of the slice is     *)
(* a price together with the fetcher it came from; the code keeps the      *)
(* price alone.                                                            *)
(***************************************************************************)
EXTENDS Prices, Sequences, FiniteSets, Functions

CONSTANTS
    Fetchers,        \* priceFetchers
    MinResultsNum,   \* minResultsNum
    Answers,         \* prices a fetcher may find
    None,            \* nothing found, nobody holding the mutex, no reply yet
    ErrNotEnoughResponses

ASSUME FetchersAssumption ==
    /\ IsFiniteSet(Fetchers)
    /\ MinResultsNum \in 1 .. Cardinality(Fetchers)
ASSUME AnswersAssumption == Answers \subseteq Price
ASSUME NoneAssumption    == None \notin Fetchers \cup Price
ASSUME ErrorAssumption   == ErrNotEnoughResponses \notin Price

VARIABLES
    pc,       \* where the caller is
    gpc,      \* where each goroutine is
    found,    \* the price each goroutine got from its fetcher
    seen,     \* the slice each goroutine read for its append
    prices,   \* the shared slice
    mut,      \* who holds the mutex
    wg,       \* the counter of the wait group
    reply     \* what FetchPrice returned: a price, or an error

vars == <<pc, gpc, found, seen, prices, mut, wg, reply>>

Entry == [from : Fetchers, price : Price]

Init ==
    /\ pc = "idle"
    /\ gpc = [f \in Fetchers |-> "none"]
    /\ found = [f \in Fetchers |-> None]
    /\ seen = [f \in Fetchers |-> << >>]
    /\ prices = << >> /\ mut = None /\ wg = 0
    /\ reply = None

(***************************************************************************)
(* A call, with a wait group, a mutex and a slice of its own.  The         *)
(* goroutines are started one by one, but nothing tells one that has not   *)
(* been started from one that has not been scheduled.                      *)
(***************************************************************************)
Call ==
    /\ pc = "idle"
    /\ pc' = "wait" /\ wg' = Cardinality(Fetchers)
    /\ gpc' = [f \in Fetchers |-> "fetch"]
    /\ found' = [f \in Fetchers |-> None]
    /\ seen' = [f \in Fetchers |-> << >>]
    /\ prices' = << >> /\ mut' = None /\ reply' = None

GoTo(f, from, to) == gpc[f] = from /\ gpc' = [gpc EXCEPT ![f] = to]

Answered(f) ==
    /\ GoTo(f, "fetch", "lock")
    /\ \E price \in Answers : found' = [found EXCEPT ![f] = price]
    /\ UNCHANGED <<pc, seen, prices, mut, wg, reply>>

\* ErrPairNotSupported, or any other error: the goroutine returns.
\* Faulty variants: no wg.Done on this path; wg.Done here and in the defer.
FailedWithoutDone(f) ==
    /\ GoTo(f, "fetch", "none")
    /\ UNCHANGED <<pc, found, seen, prices, mut, wg, reply>>
FailedDoneTwice(f) ==
    /\ GoTo(f, "fetch", "defer")
    /\ wg' = wg - 1
    /\ UNCHANGED <<pc, found, seen, prices, mut, reply>>

Failed(f) ==
    /\ GoTo(f, "fetch", "defer")
    /\ UNCHANGED <<pc, found, seen, prices, mut, wg, reply>>

\* Faulty variant: the mutex does not exclude.
LockUnguarded(f) ==
    /\ GoTo(f, "lock", "read")
    /\ mut' = f
    /\ UNCHANGED <<pc, found, seen, prices, wg, reply>>

Lock(f) ==
    /\ mut = None
    /\ GoTo(f, "lock", "read")
    /\ mut' = f
    /\ UNCHANGED <<pc, found, seen, prices, wg, reply>>

AppendRead(f) ==
    /\ GoTo(f, "read", "write")
    /\ seen' = [seen EXCEPT ![f] = prices]
    /\ UNCHANGED <<pc, found, prices, mut, wg, reply>>

AppendWrite(f) ==
    /\ GoTo(f, "write", "unlock")
    /\ prices' = Append(seen[f], [from |-> f, price |-> found[f]])
    /\ UNCHANGED <<pc, found, seen, mut, wg, reply>>

Unlock(f) ==
    /\ GoTo(f, "unlock", "defer")
    /\ mut' = None
    /\ UNCHANGED <<pc, found, seen, prices, wg, reply>>

Done(f) ==
    /\ GoTo(f, "defer", "none")
    /\ wg' = wg - 1
    /\ UNCHANGED <<pc, found, seen, prices, mut, reply>>

Wait ==
    /\ pc = "wait" /\ wg = 0
    /\ pc' = "return"
    /\ UNCHANGED <<gpc, found, seen, prices, mut, wg, reply>>

(***************************************************************************)
(* computeMedian.  sort.Float64s rearranges the list so that nothing comes *)
(* before what is less; NaN is less than any number, infinities come last. *)
(***************************************************************************)
FloatLess(a, b) ==
    \/ a = NaN /\ b # NaN
    \/ Finite(a) /\ b = Inf
    \/ Finite(a) /\ Finite(b) /\ a < b

Mean(a, b) ==
    IF NaN \in {a, b} THEN NaN
    ELSE IF Inf \in {a, b} THEN Inf ELSE (a + b) \div 2

SortFloat64s(nums) ==
    LET order == CHOOSE p \in Surjection(DOMAIN nums, DOMAIN nums) :
                    \A i, j \in DOMAIN nums : i < j => ~FloatLess(nums[p[j]], nums[p[i]])
    IN  [k \in DOMAIN nums |-> nums[order[k]]]

\* Faulty variants: one place too low; the prices not sorted.
ComputeMedianOneLower(nums) ==
    LET sorted == SortFloat64s(nums)
        mid    == Len(nums) \div 2
    IN  IF mid = 0 THEN sorted[1]
        ELSE IF Len(nums) % 2 # 0 THEN sorted[mid] ELSE Mean(sorted[mid], sorted[mid + 1])
ComputeMedianUnsorted(nums) ==
    LET mid == Len(nums) \div 2
    IN  IF Len(nums) % 2 # 0 THEN nums[mid + 1] ELSE Mean(nums[mid], nums[mid + 1])

ComputeMedian(nums) ==
    LET sorted == SortFloat64s(nums)
        mid    == Len(nums) \div 2
    IN  IF Len(nums) % 2 # 0 THEN sorted[mid + 1] ELSE Mean(sorted[mid], sorted[mid + 1])

Return ==
    /\ pc = "return"
    /\ pc' = "idle"
    /\ reply' = IF Len(prices) < MinResultsNum THEN ErrNotEnoughResponses
                ELSE ComputeMedian([k \in DOMAIN prices |-> prices[k].price])
    /\ UNCHANGED <<gpc, found, seen, prices, mut, wg>>

Answer(f) == Answered(f) \/ Failed(f)
Step(f) == Lock(f) \/ AppendRead(f) \/ AppendWrite(f) \/ Unlock(f) \/ Done(f)

Next == Call \/ Wait \/ Return \/ \E f \in Fetchers : Answer(f) \/ Step(f)

Spec == Init /\ [][Next]_vars

\* The scheduler runs every goroutine, and the notifier calls again.
SchedulerFairness ==
    /\ WF_vars(Call) /\ WF_vars(Wait) /\ WF_vars(Return)
    /\ \A f \in Fetchers : WF_vars(Step(f))

\* Nothing bounds the time a fetcher may take: there is no fairness of Answer.
FairSpec == Spec /\ SchedulerFairness

\* Every fetcher answers or fails at some time.
AnsweringSpec == FairSpec /\ \A f \in Fetchers : WF_vars(Answer(f))
-----------------------------------------------------------------------------
SharedTypeOK ==
    /\ pc \in {"idle", "wait", "return"}
    /\ gpc \in [Fetchers -> {"none", "fetch", "lock", "read", "write", "unlock", "defer"}]
    /\ found \in [Fetchers -> Price \cup {None}]
    /\ seen \in [Fetchers -> Seq(Entry)]
    /\ prices \in Seq(Entry)
    /\ mut \in Fetchers \cup {None}
    /\ wg \in Nat

TypeOK ==
    /\ SharedTypeOK
    /\ reply \in Price \cup {ErrNotEnoughResponses, None}

(***************************************************************************)
(* Once the caller is past the wait, the slice has exactly one entry for   *)
(* every fetcher that found a price, with that price, and no goroutine can *)
(* still change it: no append was lost to another, none comes late.        *)
(***************************************************************************)
NoResultLost ==
    pc = "return" =>
        /\ \A f \in Fetchers : gpc[f] = "none"
        /\ {prices[k] : k \in DOMAIN prices} =
              {[from |-> f, price |-> found[f]] : f \in {g \in Fetchers : found[g] # None}}
        /\ \A k, l \in DOMAIN prices : prices[k].from = prices[l].from => k = l

(***************************************************************************)
(* The order in which the goroutines finish does not matter: the reply is  *)
(* the middle of what the fetchers found, or of the two middle ones.       *)
(***************************************************************************)
Successful == {f \in Fetchers : found[f] # None}
Below(v) == {f \in Successful : FloatLess(found[f], v)}
Above(v) == {f \in Successful : FloatLess(v, found[f])}
IsMiddle(v) == /\ 2 * Cardinality(Below(v)) <= Cardinality(Successful)
               /\ 2 * Cardinality(Above(v)) <= Cardinality(Successful)

ReplyIsMedian ==
    pc = "idle" /\ reply # None =>
        IF Cardinality(Successful) < MinResultsNum
        THEN reply = ErrNotEnoughResponses
        ELSE \E f, g \in Successful :
                /\ IsMiddle(found[f]) /\ IsMiddle(found[g])
                /\ found[f] = found[g] \/ Below(found[g]) \cup Above(found[f]) = Successful
                /\ reply = Mean(found[f], found[g])

(***************************************************************************)
(* As long as more than half of the prices found lie in a range, so does   *)
(* the reply: a minority of fetchers, even one that finds an infinity or   *)
(* not-a-number, cannot move it out of the range of the others.            *)
(***************************************************************************)
OutliersDoNotMove ==
    pc = "idle" /\ reply \in Price =>
        \A lo, hi \in {v \in Answers : Finite(v)} :
            2 * Cardinality({f \in Successful : Finite(found[f]) /\ found[f] \in lo .. hi})
                > Cardinality(Successful)
            => Finite(reply) /\ reply \in lo .. hi

(***************************************************************************)
(* Every call returns, if every fetcher answers or fails.                  *)
(***************************************************************************)
FetchPriceReturns == pc = "wait" ~> pc = "idle"

(***************************************************************************)
(* cmd/oracle/config/config.toml:11, "polling interval for fetchers": the  *)
(* fetchers are asked again and again.                                     *)
(***************************************************************************)
FetchersPolledForever == []<>(pc = "idle")
=============================================================================
