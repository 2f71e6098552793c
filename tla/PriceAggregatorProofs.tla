----------------------- MODULE PriceAggregatorProofs -----------------------
(***************************************************************************)
(* Theorems about PriceAggregator, for every finite set of fetchers and    *)
(* every set of answers.                                                   *)
(***************************************************************************)
EXTENDS PriceAggregator, PriceLemmas, FiniteSetTheorems, TLAPS

Unfinished == {f \in Fetchers : gpc[f] # "none"}

(***************************************************************************)
(* The inductive invariant.  The mutex is held by the one goroutine that   *)
(* is between Lock and Unlock; the slice that goroutine has read is the    *)
(* shared one; the shared slice has one entry for each goroutine that has  *)
(* written; and the wait group counts the goroutines that are not through. *)
(***************************************************************************)
MutexInv ==
    \A f \in Fetchers : gpc[f] \in {"read", "write", "unlock"} <=> mut = f

FoundInv ==
    \A f \in Fetchers :
        /\ gpc[f] = "fetch" => found[f] = None
        /\ gpc[f] \in {"lock", "read", "write", "unlock"} => found[f] \in Price
        /\ gpc[f] = "write" => seen[f] = prices

EntriesInv ==
    /\ \A k \in DOMAIN prices :
          /\ gpc[prices[k].from] \in {"unlock", "defer", "none"}
          /\ prices[k].price = found[prices[k].from]
    /\ \A f \in Fetchers :
          found[f] # None /\ gpc[f] \notin {"lock", "read", "write"} =>
              \E k \in DOMAIN prices : prices[k] = [from |-> f, price |-> found[f]]
    /\ \A k, l \in DOMAIN prices : prices[k].from = prices[l].from => k = l

WaitGroupInv ==
    /\ pc = "wait" => wg = Cardinality(Unfinished)
    /\ pc # "wait" => Unfinished = {}

Inv == SharedTypeOK /\ MutexInv /\ FoundInv /\ EntriesInv /\ WaitGroupInv

LEMMA InitInv == Init => Inv
<1> SUFFICES ASSUME Init PROVE Inv
    OBVIOUS
<1>1. SharedTypeOK
    BY DEF Init, SharedTypeOK
<1>2. MutexInv
    BY NoneAssumption DEF Init, MutexInv
<1>3. FoundInv /\ EntriesInv /\ WaitGroupInv
    BY DEF Init, FoundInv, EntriesInv, WaitGroupInv, Unfinished
<1> QED
    BY <1>1, <1>2, <1>3 DEF Inv

LEMMA UnfinishedFinite == IsFiniteSet(Unfinished) /\ Cardinality(Unfinished) \in Nat
<1>1. Unfinished \subseteq Fetchers
    BY DEF Unfinished
<1> QED
    BY <1>1, FetchersAssumption, FS_Subset, FS_CardinalityType

LEMMA EntryFacts ==
    ASSUME Inv
    PROVE  /\ Len(prices) \in Nat /\ DOMAIN prices = 1 .. Len(prices)
           /\ \A k \in DOMAIN prices : prices[k] \in Entry /\ prices[k].from \in Fetchers
<1>1. prices \in Seq(Entry)
    BY DEF Inv, SharedTypeOK
<1>2. \A k \in DOMAIN prices : prices[k] \in Entry
    BY <1>1
<1> QED
    BY <1>1, <1>2 DEF Entry

LEMMA CallInv == ASSUME Inv, Call PROVE Inv'
<1>1. SharedTypeOK'
    BY FetchersAssumption, FS_CardinalityType DEF Call, Inv, SharedTypeOK
<1>2. MutexInv' /\ FoundInv' /\ EntriesInv'
    BY NoneAssumption DEF Call, MutexInv, FoundInv, EntriesInv
<1>3. Unfinished' = Fetchers
    BY DEF Call, Unfinished
<1>4. WaitGroupInv'
    BY <1>3 DEF Call, WaitGroupInv
<1> QED
    BY <1>1, <1>2, <1>4 DEF Inv

\* A step of a goroutine that is not its last leaves the wait group right.
LEMMA StillUnfinished ==
    ASSUME Inv, NEW f \in Fetchers, NEW from, NEW to, GoTo(f, from, to),
           from # "none", to # "none", UNCHANGED <<pc, wg>>
    PROVE  WaitGroupInv'
<1>1. Unfinished' = Unfinished
    BY DEF Unfinished, GoTo, Inv, SharedTypeOK
<1> QED
    BY <1>1 DEF Inv, WaitGroupInv

LEMMA AnswerInv == ASSUME Inv, NEW f \in Fetchers, Answer(f) PROVE Inv'
<1>1. CASE Answered(f)
    <2>1. PICK price \in Answers : found' = [found EXCEPT ![f] = price]
        BY <1>1 DEF Answered
    <2>2. price \in Price /\ price # None
        BY AnswersAssumption, NoneAssumption
    <2>3. /\ gpc[f] = "fetch" /\ gpc' = [gpc EXCEPT ![f] = "lock"]
          /\ UNCHANGED <<pc, seen, prices, mut, wg>>
        BY <1>1 DEF Answered, GoTo
    <2>4. SharedTypeOK'
        BY <2>1, <2>2, <2>3 DEF Inv, SharedTypeOK
    <2>5. MutexInv' /\ FoundInv'
        BY <2>1, <2>2, <2>3 DEF Inv, SharedTypeOK, MutexInv, FoundInv
    <2>6. EntriesInv'
        <3>1. \A k \in DOMAIN prices : prices[k].from \in Fetchers /\ prices[k].from # f
            BY <2>3, EntryFacts DEF Inv, EntriesInv
        <3> QED
            BY <2>1, <2>3, <3>1 DEF Inv, SharedTypeOK, EntriesInv
    <2>7. WaitGroupInv'
        BY <1>1, StillUnfinished DEF Answered
    <2> QED
        BY <2>4, <2>5, <2>6, <2>7 DEF Inv
<1>2. CASE Failed(f)
    <2>1. /\ gpc[f] = "fetch" /\ gpc' = [gpc EXCEPT ![f] = "defer"]
          /\ UNCHANGED <<pc, found, seen, prices, mut, wg>>
        BY <1>2 DEF Failed, GoTo
    <2>2. SharedTypeOK' /\ MutexInv' /\ FoundInv'
        BY <2>1 DEF Inv, SharedTypeOK, MutexInv, FoundInv
    <2>3. EntriesInv'
        <3>1. \A k \in DOMAIN prices : prices[k].from \in Fetchers
            BY EntryFacts
        <3>2. found[f] = None
            BY <2>1 DEF Inv, FoundInv
        <3> QED
            BY <2>1, <3>1, <3>2 DEF Inv, SharedTypeOK, EntriesInv
    <2>4. WaitGroupInv'
        BY <1>2, StillUnfinished DEF Failed
    <2> QED
        BY <2>2, <2>3, <2>4 DEF Inv
<1> QED
    BY <1>1, <1>2 DEF Answer

LEMMA LockInv == ASSUME Inv, NEW f \in Fetchers, Lock(f) PROVE Inv'
<1>1. /\ mut = None /\ mut' = f
      /\ gpc[f] = "lock" /\ gpc' = [gpc EXCEPT ![f] = "read"]
      /\ UNCHANGED <<pc, found, seen, prices, wg>>
    BY DEF Lock, GoTo
<1>2. SharedTypeOK' /\ FoundInv'
    BY <1>1 DEF Inv, SharedTypeOK, FoundInv
<1>3. MutexInv'
    <2>1. \A g \in Fetchers : gpc[g] \notin {"read", "write", "unlock"}
        BY <1>1, NoneAssumption DEF Inv, MutexInv
    <2> QED
        BY <1>1, <2>1 DEF Inv, SharedTypeOK, MutexInv
<1>4. EntriesInv'
    BY <1>1, EntryFacts DEF Inv, SharedTypeOK, EntriesInv
<1>5. WaitGroupInv'
    BY StillUnfinished DEF Lock
<1> QED
    BY <1>2, <1>3, <1>4, <1>5 DEF Inv

LEMMA AppendReadInv == ASSUME Inv, NEW f \in Fetchers, AppendRead(f) PROVE Inv'
<1>1. /\ gpc[f] = "read" /\ gpc' = [gpc EXCEPT ![f] = "write"]
      /\ seen' = [seen EXCEPT ![f] = prices]
      /\ UNCHANGED <<pc, found, prices, mut, wg>>
    BY DEF AppendRead, GoTo
<1>2. SharedTypeOK' /\ FoundInv' /\ MutexInv'
    BY <1>1 DEF Inv, SharedTypeOK, FoundInv, MutexInv
<1>3. EntriesInv'
    BY <1>1, EntryFacts DEF Inv, SharedTypeOK, EntriesInv
<1>4. WaitGroupInv'
    BY StillUnfinished DEF AppendRead
<1> QED
    BY <1>2, <1>3, <1>4 DEF Inv

\* The write of a goroutine that holds the mutex adds its entry, and no other
\* goroutine has read a slice that this write outdates.
LEMMA AppendWriteInv == ASSUME Inv, NEW f \in Fetchers, AppendWrite(f) PROVE Inv'
<1> DEFINE entry == [from |-> f, price |-> found[f]]
<1>1. /\ gpc[f] = "write" /\ gpc' = [gpc EXCEPT ![f] = "unlock"]
      /\ UNCHANGED <<pc, found, seen, mut, wg>>
    BY DEF AppendWrite, GoTo
<1>2. prices' = Append(prices, entry)
    BY <1>1 DEF AppendWrite, Inv, FoundInv
<1>3. entry \in Entry /\ found[f] # None
    BY <1>1, NoneAssumption DEF Inv, FoundInv, Entry
<1>4. /\ prices \in Seq(Entry) /\ prices' \in Seq(Entry)
      /\ DOMAIN prices' = DOMAIN prices \cup {Len(prices) + 1}
      /\ Len(prices) + 1 \notin DOMAIN prices
      /\ prices'[Len(prices) + 1] = entry
      /\ \A k \in DOMAIN prices : prices'[k] = prices[k]
    <2> HIDE DEF entry
    <2>1. prices \in Seq(Entry)
        BY DEF Inv, SharedTypeOK
    <2> QED
        BY <1>2, <1>3, <2>1
<1>5. SharedTypeOK'
    BY <1>1, <1>4 DEF Inv, SharedTypeOK
<1>6. MutexInv'
    BY <1>1 DEF Inv, SharedTypeOK, MutexInv
<1>7. FoundInv'
    <2>1. \A g \in Fetchers : g # f => gpc[g] # "write"
        BY <1>1 DEF Inv, MutexInv
    <2> QED
        BY <1>1, <2>1 DEF Inv, SharedTypeOK, FoundInv
<1>8. EntriesInv'
    <2>1. \A k \in DOMAIN prices : prices[k].from \in Fetchers /\ prices[k].from # f
        BY <1>1, EntryFacts DEF Inv, EntriesInv
    <2>2. \A k \in DOMAIN prices' :
             /\ gpc'[prices'[k].from] \in {"unlock", "defer", "none"}
             /\ prices'[k].price = found'[prices'[k].from]
        BY <1>1, <1>4, <2>1 DEF Inv, SharedTypeOK, EntriesInv
    <2>3. ASSUME NEW g \in Fetchers, found'[g] # None,
                 gpc'[g] \notin {"lock", "read", "write"}
          PROVE  \E k \in DOMAIN prices' : prices'[k] = [from |-> g, price |-> found'[g]]
        <3>1. CASE g = f
            BY <1>1, <1>4, <3>1
        <3>2. CASE g # f
            <4>1. PICK k \in DOMAIN prices : prices[k] = [from |-> g, price |-> found[g]]
                BY <1>1, <2>3, <3>2 DEF Inv, SharedTypeOK, EntriesInv
            <4> QED
                BY <1>1, <1>4, <4>1
        <3> QED
            BY <3>1, <3>2
    <2>4. \A k, l \in DOMAIN prices' : prices'[k].from = prices'[l].from => k = l
        BY <1>4, <2>1 DEF Inv, EntriesInv
    <2> QED
        BY <2>2, <2>3, <2>4 DEF EntriesInv
<1>9. WaitGroupInv'
    BY StillUnfinished DEF AppendWrite
<1> QED
    BY <1>5, <1>6, <1>7, <1>8, <1>9 DEF Inv

LEMMA UnlockInv == ASSUME Inv, NEW f \in Fetchers, Unlock(f) PROVE Inv'
<1>1. /\ gpc[f] = "unlock" /\ gpc' = [gpc EXCEPT ![f] = "defer"]
      /\ mut' = None
      /\ UNCHANGED <<pc, found, seen, prices, wg>>
    BY DEF Unlock, GoTo
<1>2. SharedTypeOK' /\ FoundInv'
    BY <1>1 DEF Inv, SharedTypeOK, FoundInv
<1>3. MutexInv'
    <2>1. \A g \in Fetchers : g # f => gpc[g] \notin {"read", "write", "unlock"}
        BY <1>1 DEF Inv, MutexInv
    <2> QED
        BY <1>1, <2>1, NoneAssumption DEF Inv, SharedTypeOK, MutexInv
<1>4. EntriesInv'
    BY <1>1, EntryFacts DEF Inv, SharedTypeOK, EntriesInv
<1>5. WaitGroupInv'
    BY StillUnfinished DEF Unlock
<1> QED
    BY <1>2, <1>3, <1>4, <1>5 DEF Inv

LEMMA DoneInv == ASSUME Inv, NEW f \in Fetchers, Done(f) PROVE Inv'
<1>1. /\ gpc[f] = "defer" /\ gpc' = [gpc EXCEPT ![f] = "none"]
      /\ wg' = wg - 1
      /\ UNCHANGED <<pc, found, seen, prices, mut>>
    BY DEF Done, GoTo
<1>2. f \in Unfinished /\ Unfinished' = Unfinished \ {f}
    BY <1>1 DEF Unfinished, Inv, SharedTypeOK
<1>3. pc = "wait" /\ wg = Cardinality(Unfinished)
    BY <1>2 DEF Inv, WaitGroupInv
<1>4. Cardinality(Unfinished') = Cardinality(Unfinished) - 1
    BY <1>2, UnfinishedFinite, FS_RemoveElement
<1>5. Cardinality(Unfinished') \in Nat
    <2>1. IsFiniteSet(Unfinished')
        BY <1>2, UnfinishedFinite, FS_RemoveElement
    <2> QED
        BY <2>1, FS_CardinalityType
<1>6. WaitGroupInv' /\ wg' \in Nat
    BY <1>1, <1>3, <1>4, <1>5 DEF WaitGroupInv
<1>7. SharedTypeOK'
    BY <1>1, <1>6 DEF Inv, SharedTypeOK
<1>8. MutexInv' /\ FoundInv'
    BY <1>1 DEF Inv, SharedTypeOK, MutexInv, FoundInv
<1>9. EntriesInv'
    BY <1>1, EntryFacts DEF Inv, SharedTypeOK, EntriesInv
<1> QED
    BY <1>6, <1>7, <1>8, <1>9 DEF Inv

LEMMA CallerInv == ASSUME Inv, Wait \/ Return \/ UNCHANGED vars PROVE Inv'
<1>1. UNCHANGED <<gpc, found, seen, prices, mut, wg>>
    BY DEF Wait, Return, vars
<1>2. MutexInv' /\ FoundInv' /\ EntriesInv'
    BY <1>1 DEF Inv, MutexInv, FoundInv, EntriesInv
<1>3. SharedTypeOK'
    BY <1>1 DEF Wait, Return, vars, Inv, SharedTypeOK
<1>4. Unfinished' = Unfinished
    BY <1>1 DEF Unfinished
<1>5. CASE Wait
    <2>1. Cardinality(Unfinished) = 0
        BY <1>5 DEF Wait, Inv, WaitGroupInv
    <2>2. Unfinished = {}
        BY <2>1, UnfinishedFinite, FS_EmptySet
    <2> QED
        BY <1>2, <1>3, <1>4, <1>5, <2>2 DEF Wait, Inv, WaitGroupInv
<1>6. CASE Return
    BY <1>2, <1>3, <1>4, <1>6 DEF Return, Inv, WaitGroupInv
<1>7. CASE UNCHANGED vars
    BY <1>1, <1>2, <1>3, <1>4, <1>7 DEF vars, Inv, WaitGroupInv
<1> QED
    BY <1>5, <1>6, <1>7

LEMMA NextInv == Inv /\ [Next]_vars => Inv'
BY CallInv, AnswerInv, LockInv, AppendReadInv, AppendWriteInv, UnlockInv, DoneInv, CallerInv
   DEF Next, Step

THEOREM Invariance == Spec => []Inv
BY InitInv, NextInv, PTL DEF Spec

(***************************************************************************)
(* Past the wait, every price found is in the slice, once, and no          *)
(* goroutine is left that could still touch it.                            *)
(***************************************************************************)
THEOREM NoResultIsLost == Spec => []NoResultLost
<1>1. Inv => NoResultLost
    <2> SUFFICES ASSUME Inv, pc = "return"
                 PROVE  /\ \A f \in Fetchers : gpc[f] = "none"
                        /\ {prices[k] : k \in DOMAIN prices} =
                             {[from |-> f, price |-> found[f]] :
                                 f \in {g \in Fetchers : found[g] # None}}
                        /\ \A k, l \in DOMAIN prices : prices[k].from = prices[l].from => k = l
        BY DEF NoResultLost
    <2>1. \A f \in Fetchers : gpc[f] = "none"
        BY DEF Inv, WaitGroupInv, Unfinished
    <2>2. ASSUME NEW k \in DOMAIN prices
          PROVE  prices[k] \in {[from |-> f, price |-> found[f]] :
                                   f \in {g \in Fetchers : found[g] # None}}
        <3>1. prices[k] \in Entry /\ prices[k].price = found[prices[k].from]
            BY EntryFacts DEF Inv, EntriesInv
        <3>2. prices[k] = [from |-> prices[k].from, price |-> found[prices[k].from]]
            BY <3>1 DEF Entry
        <3>3. prices[k].from \in Fetchers /\ found[prices[k].from] # None
            BY <3>1, NoneAssumption DEF Entry
        <3> QED
            BY <3>2, <3>3
    <2>3. ASSUME NEW f \in Fetchers, found[f] # None
          PROVE  \E k \in DOMAIN prices : prices[k] = [from |-> f, price |-> found[f]]
        BY <2>1, <2>3 DEF Inv, EntriesInv
    <2> QED
        BY <2>1, <2>2, <2>3 DEF Inv, EntriesInv
<1> QED
    BY <1>1, Invariance, PTL

(***************************************************************************)
(* Nobody waits for everybody: while a call waits, its wait group is at    *)
(* zero, or some goroutine is with its fetcher, or past it and not held up *)
(* by the mutex.  With the fairness of the scheduler and of the fetchers   *)
(* this is why FetchPrice returns.                                         *)
(***************************************************************************)
CanGoOn(f) == \/ gpc[f] \in {"fetch", "read", "write", "unlock", "defer"}
              \/ gpc[f] = "lock" /\ mut = None

WaitGoesOn == pc = "wait" => wg = 0 \/ \E f \in Fetchers : CanGoOn(f)

THEOREM NobodyStuck == Spec => []WaitGoesOn
<1>1. Inv => WaitGoesOn
    <2> SUFFICES ASSUME Inv, pc = "wait", \A f \in Fetchers : ~CanGoOn(f)
                 PROVE  wg = 0
        BY DEF WaitGoesOn
    <2>1. \A f \in Fetchers : gpc[f] \in {"none", "lock"}
        BY DEF Inv, SharedTypeOK, CanGoOn
    <2>2. mut = None
        BY <2>1 DEF Inv, SharedTypeOK, MutexInv
    <2>3. Unfinished = {}
        BY <2>1, <2>2 DEF CanGoOn, Unfinished
    <2> QED
        BY <2>3, FS_EmptySet DEF Inv, WaitGroupInv
<1> QED
    BY <1>1, Invariance, PTL

(***************************************************************************)
(* Sorting.  FloatLess orders the prices, NaN and infinities included, so  *)
(* sort.Float64s has something to find.                                    *)
(***************************************************************************)
FloatOrder == {pair \in Price \X Price : FloatLess(pair[1], pair[2])}

LEMMA FloatOrderIsOrder == StrictWeakOrder(FloatOrder, Price)
<1>1. \A a, b \in Price : ~ (FloatLess(a, b) /\ FloatLess(b, a))
    BY SpecialsAssumption DEF Price, FloatLess, Finite
<1>2. ASSUME NEW a \in Price, NEW b \in Price, NEW c \in Price, FloatLess(a, c)
      PROVE  FloatLess(a, b) \/ FloatLess(b, c)
    BY <1>2, SpecialsAssumption DEF Price, FloatLess, Finite
<1> QED
    BY <1>1, <1>2 DEF StrictWeakOrder, FloatOrder

LEMMA SortFloat64sSorts ==
    ASSUME NEW nums \in Seq(Price)
    PROVE  \E p \in Surjection(DOMAIN nums, DOMAIN nums) :
              /\ \A i, j \in DOMAIN nums : i < j => ~FloatLess(nums[p[j]], nums[p[i]])
              /\ SortFloat64s(nums) = [k \in DOMAIN nums |-> nums[p[k]]]
<1> DEFINE n == Len(nums)
           Sorts(p) == \A i, j \in DOMAIN nums : i < j => ~FloatLess(nums[p[j]], nums[p[i]])
<1>1. n \in Nat /\ DOMAIN nums = 1 .. n /\ nums \in [1 .. n -> Price]
    OBVIOUS
<1>2. PICK q \in Surjection(1 .. n, 1 .. n) : SortedBy(q, nums, n, FloatOrder)
    BY <1>1, FloatOrderIsOrder, SortingExists
<1>3. \A i \in 1 .. n : nums[q[i]] \in Price
    BY <1>1 DEF Surjection
<1>4. Sorts(q) /\ q \in Surjection(DOMAIN nums, DOMAIN nums)
    BY <1>1, <1>2, <1>3 DEF SortedBy, FloatOrder
<1> DEFINE order == CHOOSE p \in Surjection(DOMAIN nums, DOMAIN nums) : Sorts(p)
<1>5. order \in Surjection(DOMAIN nums, DOMAIN nums) /\ Sorts(order)
    <2> HIDE DEF Sorts
    <2> QED
        BY <1>4
<1>6. SortFloat64s(nums) = [k \in DOMAIN nums |-> nums[order[k]]]
    BY DEF SortFloat64s
<1> HIDE DEF order
<1> QED
    BY <1>5, <1>6

(***************************************************************************)
(* Once the caller is past the wait, the slice counts the fetchers that    *)
(* found a price, and sorting it ranks them.                               *)
(***************************************************************************)
LEMMA SuccessfulCounted ==
    ASSUME Inv, pc = "return"
    PROVE  /\ IsFiniteSet(Successful)
           /\ Cardinality(Successful) = Len(prices)
           /\ \A k \in DOMAIN prices : /\ prices[k].from \in Successful
                                       /\ prices[k].price = found[prices[k].from]
                                       /\ prices[k].price \in Price
           /\ \A f \in Successful : \E k \in DOMAIN prices : prices[k].from = f
<1>1. ASSUME NEW k \in DOMAIN prices
      PROVE  /\ prices[k].from \in Successful
             /\ prices[k].price = found[prices[k].from]
             /\ prices[k].price \in Price
    <2>1. prices[k] \in Entry /\ prices[k].price = found[prices[k].from]
        BY EntryFacts DEF Inv, EntriesInv
    <2> QED
        BY <2>1, NoneAssumption DEF Entry, Successful
<1>2. ASSUME NEW f \in Successful
      PROVE  \E k \in DOMAIN prices : prices[k].from = f
    <2>1. f \in Fetchers /\ found[f] # None /\ gpc[f] = "none"
        BY DEF Successful, Inv, WaitGroupInv, Unfinished
    <2>2. PICK k \in DOMAIN prices : prices[k] = [from |-> f, price |-> found[f]]
        BY <2>1 DEF Inv, EntriesInv
    <2> QED
        BY <2>2
<1>3. Len(prices) \in Nat /\ DOMAIN prices = 1 .. Len(prices)
    BY EntryFacts
<1>4. [k \in 1 .. Len(prices) |-> prices[k].from] \in Bijection(1 .. Len(prices), Successful)
    <2> DEFINE from == [k \in 1 .. Len(prices) |-> prices[k].from]
    <2>1. from \in [1 .. Len(prices) -> Successful]
        BY <1>1, <1>3
    <2>2. \A k, l \in 1 .. Len(prices) : from[k] = from[l] => k = l
        BY <1>3 DEF Inv, EntriesInv
    <2>3. \A f \in Successful : \E k \in 1 .. Len(prices) : from[k] = f
        BY <1>2, <1>3
    <2> HIDE DEF from
    <2>4. from \in Bijection(1 .. Len(prices), Successful)
        BY <2>1, <2>2, <2>3 DEF Bijection, Injection, Surjection, IsInjective
    <2> QED
        BY <2>4 DEF from
<1>5. Cardinality(Successful) = Len(prices)
    BY <1>3, <1>4, FS_CountingElements DEF ExistsBijection
<1>6. IsFiniteSet(Successful)
    BY FetchersAssumption, FS_Subset DEF Successful
<1> QED
    BY <1>1, <1>2, <1>5, <1>6

Found == [k \in DOMAIN prices |-> prices[k].price]

\* The fetcher at each place of the sorted slice.
Ranking(r) ==
    /\ r \in Surjection(1 .. Len(prices), Successful)
    /\ \A i, j \in 1 .. Len(prices) : i < j => ~FloatLess(found[r[j]], found[r[i]])

LEMMA RankingExists ==
    ASSUME Inv, pc = "return"
    PROVE  \E r : Ranking(r) /\ SortFloat64s(Found) = [k \in 1 .. Len(prices) |-> found[r[k]]]
<1>1. Len(prices) \in Nat /\ DOMAIN prices = 1 .. Len(prices)
    BY EntryFacts
<1>2. Found \in [1 .. Len(prices) -> Price] /\ DOMAIN Found = 1 .. Len(prices)
    BY <1>1, SuccessfulCounted DEF Found
<1>3. Found \in Seq(Price)
    BY <1>1, <1>2
<1>4. PICK p \in Surjection(1 .. Len(prices), 1 .. Len(prices)) :
         /\ \A i, j \in 1 .. Len(prices) : i < j => ~FloatLess(Found[p[j]], Found[p[i]])
         /\ SortFloat64s(Found) = [k \in 1 .. Len(prices) |-> Found[p[k]]]
    BY <1>2, <1>3, SortFloat64sSorts
<1>5. /\ \A k \in 1 .. Len(prices) : p[k] \in 1 .. Len(prices)
      /\ \A l \in 1 .. Len(prices) : \E k \in 1 .. Len(prices) : p[k] = l
    BY DEF Surjection
<1> DEFINE r == [k \in 1 .. Len(prices) |-> prices[p[k]].from]
<1>6. \A k \in 1 .. Len(prices) : r[k] \in Successful /\ found[r[k]] = Found[p[k]]
    BY <1>1, <1>5, SuccessfulCounted DEF Found
<1>7. \A f \in Successful : \E k \in 1 .. Len(prices) : r[k] = f
    <2>1. ASSUME NEW f \in Successful
          PROVE  \E k \in 1 .. Len(prices) : r[k] = f
        <3>1. PICK l \in 1 .. Len(prices) : prices[l].from = f
            BY <1>1, SuccessfulCounted
        <3>2. PICK k \in 1 .. Len(prices) : p[k] = l
            BY <1>5
        <3> QED
            BY <3>1, <3>2
    <2> QED
        BY <2>1
<1>8. r \in [1 .. Len(prices) -> Successful]
    BY <1>6
<1> HIDE DEF r
<1>9. Ranking(r)
    BY <1>4, <1>6, <1>7, <1>8 DEF Ranking, Surjection
<1>10. SortFloat64s(Found) = [k \in 1 .. Len(prices) |-> found[r[k]]]
    BY <1>4, <1>6
<1> QED
    BY <1>9, <1>10

\* There are no more values of a function on an interval than places in it.
LEMMA ImageOfInterval ==
    ASSUME NEW a \in Int, NEW b \in Int, a <= b + 1, NEW r
    PROVE  /\ IsFiniteSet({r[k] : k \in a .. b})
           /\ Cardinality({r[k] : k \in a .. b}) <= b - a + 1
<1> DEFINE image == {r[k] : k \in a .. b}
           onto  == [k \in a .. b |-> r[k]]
<1>1. onto \in Surjection(a .. b, image)
    BY DEF Surjection
<1>2. IsFiniteSet(a .. b) /\ Cardinality(a .. b) = b - a + 1
    BY FS_Interval
<1> HIDE DEF onto, image
<1>3. IsFiniteSet(image) /\ Cardinality(image) <= Cardinality(a .. b)
    BY <1>1, <1>2, FS_Surjection
<1> QED
    BY <1>2, <1>3 DEF image

\* Only earlier ones are less than the price at a place, only later ones greater.
LEMMA AroundPlace ==
    ASSUME Inv, pc = "return", NEW r, Ranking(r), NEW m \in 1 .. Len(prices)
    PROVE  /\ Cardinality(Below(found[r[m]])) \in Nat
           /\ Cardinality(Below(found[r[m]])) <= m - 1
           /\ Cardinality(Above(found[r[m]])) \in Nat
           /\ Cardinality(Above(found[r[m]])) <= Len(prices) - m
<1>1. Len(prices) \in Nat
    BY EntryFacts
<1>2. \A f \in Successful : \E k \in 1 .. Len(prices) : r[k] = f
    BY DEF Ranking, Surjection
<1>3. \A k \in 1 .. Len(prices) : r[k] \in Successful /\ found[r[k]] \in Price
    <2>1. \A k \in 1 .. Len(prices) : r[k] \in Successful
        BY DEF Ranking, Surjection
    <2>2. \A f \in Successful : found[f] \in Price
        BY DEF Successful, Inv, SharedTypeOK
    <2> QED
        BY <2>1, <2>2
<1>4. \A a, b \in Price : FloatLess(a, b) => ~FloatLess(b, a) /\ a # b
    BY SpecialsAssumption DEF Price, FloatLess, Finite
<1>5. Below(found[r[m]]) \subseteq {r[k] : k \in 1 .. m - 1}
    <2>1. ASSUME NEW f \in Below(found[r[m]])
          PROVE  \E k \in 1 .. m - 1 : r[k] = f
        <3>1. PICK k \in 1 .. Len(prices) : r[k] = f
            BY <1>2 DEF Below
        <3>2. FloatLess(found[r[k]], found[r[m]])
            BY <3>1 DEF Below
        <3>3. ~(m <= k)
            BY <1>3, <1>4, <3>2 DEF Ranking
        <3> QED
            BY <1>1, <3>1, <3>3
    <2> QED
        BY <2>1
<1>6. Above(found[r[m]]) \subseteq {r[k] : k \in m + 1 .. Len(prices)}
    <2>1. ASSUME NEW f \in Above(found[r[m]])
          PROVE  \E k \in m + 1 .. Len(prices) : r[k] = f
        <3>1. PICK k \in 1 .. Len(prices) : r[k] = f
            BY <1>2 DEF Above
        <3>2. FloatLess(found[r[m]], found[r[k]])
            BY <3>1 DEF Above
        <3>3. ~(k <= m)
            BY <1>3, <1>4, <3>2 DEF Ranking
        <3> QED
            BY <1>1, <3>1, <3>3
    <2> QED
        BY <2>1
<1>7. /\ Cardinality(Below(found[r[m]])) \in Nat
      /\ Cardinality(Below(found[r[m]])) <= m - 1
    <2> DEFINE T == {r[k] : k \in 1 .. m - 1}
    <2>1. IsFiniteSet(T) /\ Cardinality(T) <= m - 1
        <3>1. 1 \in Int /\ m - 1 \in Int /\ 1 <= (m - 1) + 1 /\ (m - 1) - 1 + 1 = m - 1
            OBVIOUS
        <3> QED
            BY <3>1, ImageOfInterval
    <2> HIDE DEF T
    <2>2. /\ IsFiniteSet(Below(found[r[m]]))
          /\ Cardinality(Below(found[r[m]])) <= Cardinality(T)
        BY <1>5, <2>1, FS_Subset DEF T
    <2>3. Cardinality(Below(found[r[m]])) \in Nat /\ Cardinality(T) \in Nat
        BY <2>1, <2>2, FS_CardinalityType
    <2> QED
        BY <2>1, <2>2, <2>3
<1>8. /\ Cardinality(Above(found[r[m]])) \in Nat
      /\ Cardinality(Above(found[r[m]])) <= Len(prices) - m
    <2> DEFINE T == {r[k] : k \in m + 1 .. Len(prices)}
    <2>1. IsFiniteSet(T) /\ Cardinality(T) <= Len(prices) - m
        <3>1. /\ m + 1 \in Int /\ Len(prices) \in Int /\ m + 1 <= Len(prices) + 1
              /\ Len(prices) - (m + 1) + 1 = Len(prices) - m
            BY <1>1
        <3> QED
            BY <3>1, ImageOfInterval
    <2> HIDE DEF T
    <2>2. /\ IsFiniteSet(Above(found[r[m]]))
          /\ Cardinality(Above(found[r[m]])) <= Cardinality(T)
        BY <1>6, <2>1, FS_Subset DEF T
    <2>3. Cardinality(Above(found[r[m]])) \in Nat /\ Cardinality(T) \in Nat
        BY <2>1, <2>2, FS_CardinalityType
    <2> QED
        BY <1>1, <2>1, <2>2, <2>3
<1> QED
    BY <1>7, <1>8

(***************************************************************************)
(* The median.  Of an odd number of prices it is the one at the middle     *)
(* place, of an even number the mean of the two around the middle, between *)
(* which there is none.                                                    *)
(***************************************************************************)
MiddleOf(f, g) ==
    /\ IsMiddle(found[f]) /\ IsMiddle(found[g])
    /\ found[f] = found[g] \/ Below(found[g]) \cup Above(found[f]) = Successful

LEMMA MeanOfEqual == \A v \in Price : Mean(v, v) = v
<1>1. \A v \in Nat : v \notin {Inf, NaN} /\ (v + v) \div 2 = v
    BY SpecialsAssumption
<1> QED
    BY <1>1, SpecialsAssumption DEF Mean, Price

LEMMA MeanIsPrice == \A v, w \in Price : Mean(v, w) \in Price
<1>1. \A v, w \in Nat : (v + w) \div 2 \in Nat
    OBVIOUS
<1> QED
    BY <1>1 DEF Mean, Price

LEMMA NoneBetween ==
    ASSUME Inv, pc = "return", NEW r, Ranking(r),
           NEW a \in 1 .. Len(prices), a + 1 \in 1 .. Len(prices)
    PROVE  \/ found[r[a]] = found[r[a + 1]]
           \/ Below(found[r[a + 1]]) \cup Above(found[r[a]]) = Successful
<1> DEFINE v(k) == found[r[k]]
<1>1. /\ \A k \in 1 .. Len(prices) : r[k] \in Successful
      /\ \A h \in Successful : \E k \in 1 .. Len(prices) : r[k] = h
    BY DEF Ranking, Surjection
<1>2. \A k \in 1 .. Len(prices) : v(k) \in Price
    BY <1>1 DEF Successful, Inv, SharedTypeOK
<1>3. \A i, j \in 1 .. Len(prices) : i < j => ~FloatLess(v(j), v(i))
    BY DEF Ranking
<1>4. /\ \A x, y \in Price : x = y \/ FloatLess(x, y) \/ FloatLess(y, x)
      /\ \A x \in Price : ~FloatLess(x, x)
      /\ \A x, y, z \in Price : FloatLess(x, z) => FloatLess(x, y) \/ FloatLess(y, z)
    <2>1. \A x, y \in Price : x = y \/ FloatLess(x, y) \/ FloatLess(y, x)
        BY SpecialsAssumption DEF Price, FloatLess, Finite
    <2>2. \A x \in Price : ~FloatLess(x, x)
        BY SpecialsAssumption DEF Price, FloatLess, Finite
    <2>3. ASSUME NEW x \in Price, NEW y \in Price, NEW z \in Price, FloatLess(x, z)
          PROVE  FloatLess(x, y) \/ FloatLess(y, z)
        BY <2>3, SpecialsAssumption DEF Price, FloatLess, Finite
    <2> QED
        BY <2>1, <2>2, <2>3
<1> HIDE DEF v
<1>5. CASE v(a) # v(a + 1)
    <2>1. FloatLess(v(a), v(a + 1))
        BY <1>2, <1>3, <1>4, <1>5
    <2>2. ASSUME NEW k \in 1 .. Len(prices)
          PROVE  FloatLess(v(k), v(a + 1)) \/ FloatLess(v(a), v(k))
        BY <1>2, <1>4, <2>1
    <2>3. \A h \in Successful : h \in Below(v(a + 1)) \/ h \in Above(v(a))
        BY <1>1, <2>2 DEF Below, Above, v
    <2>4. Below(v(a + 1)) \subseteq Successful /\ Above(v(a)) \subseteq Successful
        BY DEF Below, Above
    <2>5. Below(v(a + 1)) \cup Above(v(a)) = Successful
        BY <2>3, <2>4
    <2> QED
        BY <2>5 DEF v
<1> QED
    BY <1>5 DEF v

LEMMA MedianOfFound ==
    ASSUME Inv, pc = "return", Len(prices) >= 1
    PROVE  \E f, g \in Successful :
              MiddleOf(f, g) /\ ComputeMedian(Found) = Mean(found[f], found[g])
<1> DEFINE n   == Len(prices)
           mid == n \div 2
<1>1. /\ n \in Nat /\ DOMAIN prices = 1 .. n /\ mid \in Nat
      /\ n = 2 * mid \/ (n = 2 * mid + 1 /\ n % 2 # 0)
      /\ n = 2 * mid => n % 2 = 0
    <2>1. n \in Nat /\ DOMAIN prices = 1 .. n
        BY EntryFacts
    <2>2. \A k \in Nat : /\ k \div 2 \in Nat
                         /\ k = 2 * (k \div 2) \/ (k = 2 * (k \div 2) + 1 /\ k % 2 # 0)
                         /\ k = 2 * (k \div 2) => k % 2 = 0
        OBVIOUS
    <2> HIDE DEF n
    <2> QED
        BY <2>1, <2>2
<1>2. PICK r : Ranking(r) /\ SortFloat64s(Found) = [k \in 1 .. n |-> found[r[k]]]
    BY RankingExists
<1>3. Len(Found) = n
    <2>1. Found \in [1 .. n -> Price]
        BY <1>1, SuccessfulCounted DEF Found
    <2> HIDE DEF n
    <2>2. Found \in Seq(Price)
        <3>1. n \in Nat
            BY <1>1
        <3> QED
            BY <2>1, <3>1
    <2>3. n \in Nat /\ DOMAIN Found = 1 .. n
        BY <1>1, <2>1
    <2> QED
        BY <2>2, <2>3
<1>4. Cardinality(Successful) = n
    BY SuccessfulCounted
<1>5. \A k \in 1 .. n : r[k] \in Successful
    BY <1>2 DEF Ranking, Surjection
<1>6. \A k \in 1 .. n : found[r[k]] \in Price
    BY <1>5 DEF Successful, Inv, SharedTypeOK
<1>7. ASSUME NEW m \in 1 .. n, 2 * (m - 1) <= n, 2 * (n - m) <= n
      PROVE  IsMiddle(found[r[m]])
    <2>1. /\ Cardinality(Below(found[r[m]])) \in Nat
          /\ Cardinality(Below(found[r[m]])) <= m - 1
          /\ Cardinality(Above(found[r[m]])) \in Nat
          /\ Cardinality(Above(found[r[m]])) <= n - m
        BY <1>2, AroundPlace
    <2> HIDE DEF n
    <2> QED
        BY <1>1, <1>4, <1>7, <2>1 DEF IsMiddle
<1> HIDE DEF n, mid
<1>8. CASE n = 2 * mid + 1 /\ n % 2 # 0
    <2>1. mid + 1 \in 1 .. n /\ 2 * (mid + 1 - 1) <= n /\ 2 * (n - (mid + 1)) <= n
        BY <1>1, <1>8
    <2>2. IsMiddle(found[r[mid + 1]])
        <3> DEFINE m == mid + 1
        <3>1. m \in 1 .. n /\ 2 * (m - 1) <= n /\ 2 * (n - m) <= n
            BY <1>1, <2>1
        <3> HIDE DEF m
        <3>2. IsMiddle(found[r[m]])
            BY <1>7, <3>1
        <3> QED
            BY <3>2 DEF m
    <2>3. ComputeMedian(Found) = found[r[mid + 1]]
        BY <1>2, <1>3, <1>8, <2>1 DEF ComputeMedian, mid
    <2>4. ComputeMedian(Found) = Mean(found[r[mid + 1]], found[r[mid + 1]])
        BY <1>6, <2>1, <2>3, MeanOfEqual
    <2> QED
        BY <1>5, <2>1, <2>2, <2>4 DEF MiddleOf
<1>9. CASE n = 2 * mid
    <2>1. /\ n >= 1 /\ n % 2 = 0
          /\ mid \in 1 .. n /\ 2 * (mid - 1) <= n /\ 2 * (n - mid) <= n
          /\ mid + 1 \in 1 .. n /\ 2 * (mid + 1 - 1) <= n /\ 2 * (n - (mid + 1)) <= n
        <3>1. n >= 1
            BY DEF n
        <3> QED
            BY <1>1, <1>9, <3>1
    <2>2. IsMiddle(found[r[mid]]) /\ IsMiddle(found[r[mid + 1]])
        BY <1>7, <2>1
    <2>3. \/ found[r[mid]] = found[r[mid + 1]]
          \/ Below(found[r[mid + 1]]) \cup Above(found[r[mid]]) = Successful
        BY <1>2, <2>1, NoneBetween DEF n
    <2>4. ComputeMedian(Found) = Mean(found[r[mid]], found[r[mid + 1]])
        BY <1>2, <1>3, <2>1 DEF ComputeMedian, mid
    <2> QED
        BY <1>5, <2>1, <2>2, <2>3, <2>4 DEF MiddleOf
<1> QED
    BY <1>1, <1>8, <1>9

(***************************************************************************)
(* Only a call and its return touch the reply: while the caller is idle no *)
(* goroutine is left that could change what it was computed from.          *)
(***************************************************************************)
LEMMA ReturnIsMedian == ASSUME Inv, Return PROVE ReplyIsMedian'
<1>1. /\ pc = "return" /\ pc' = "idle" /\ UNCHANGED found
      /\ reply' = IF Len(prices) < MinResultsNum THEN ErrNotEnoughResponses
                                                 ELSE ComputeMedian(Found)
    BY DEF Return, Found
<1>2. Cardinality(Successful) = Len(prices) /\ Len(prices) \in Nat
    BY <1>1, SuccessfulCounted, EntryFacts
<1>3. Successful' = Successful /\ \A v : (Below(v))' = Below(v') /\ (Above(v))' = Above(v')
    BY <1>1 DEF Successful, Below, Above
<1>4. CASE Len(prices) < MinResultsNum
    BY <1>1, <1>2, <1>3, <1>4 DEF ReplyIsMedian
<1>5. CASE ~(Len(prices) < MinResultsNum)
    <2>1. Len(prices) >= 1
        BY <1>2, <1>5, FetchersAssumption, FS_CardinalityType
    <2>2. PICK f, g \in Successful :
             MiddleOf(f, g) /\ ComputeMedian(Found) = Mean(found[f], found[g])
        BY <1>1, <2>1, MedianOfFound
    <2>3. reply' = Mean(found[f], found[g])
        BY <1>1, <1>5, <2>2
    <2>4. ~(Cardinality(Successful) < MinResultsNum)
        BY <1>2, <1>5
    <2>5. /\ IsMiddle(found[f]) /\ IsMiddle(found[g])
          /\ found[f] = found[g] \/ Below(found[g]) \cup Above(found[f]) = Successful
        BY <2>2 DEF MiddleOf
    <2> QED
        BY <1>1, <2>3, <2>4, <2>5 DEF ReplyIsMedian, IsMiddle, Below, Above, Successful
<1> QED
    BY <1>4, <1>5

LEMMA GoroutineRunsOnlyInCall ==
    ASSUME Inv, NEW f \in Fetchers, Answer(f) \/ Step(f)
    PROVE  pc = "wait" /\ UNCHANGED <<pc, reply>>
<1>1. gpc[f] # "none"
    BY DEF Answer, Answered, Failed, Step, Lock, AppendRead, AppendWrite, Unlock, Done, GoTo
<1>2. f \in Unfinished
    BY <1>1 DEF Unfinished
<1>3. UNCHANGED <<pc, reply>>
    BY DEF Answer, Answered, Failed, Step, Lock, AppendRead, AppendWrite, Unlock, Done
<1> QED
    BY <1>2, <1>3 DEF Inv, WaitGroupInv

LEMMA NextReplyIsMedian == Inv /\ ReplyIsMedian /\ [Next]_vars => ReplyIsMedian'
<1> SUFFICES ASSUME Inv, ReplyIsMedian, [Next]_vars PROVE ReplyIsMedian'
    OBVIOUS
<1>1. CASE Call \/ Wait
    <2>1. pc' # "idle"
        BY <1>1 DEF Call, Wait
    <2> QED
        BY <2>1 DEF ReplyIsMedian
<1>2. CASE Return
    BY <1>2, ReturnIsMedian
<1>3. CASE \E f \in Fetchers : Answer(f) \/ Step(f)
    <2>1. pc' = "wait"
        BY <1>3, GoroutineRunsOnlyInCall
    <2> QED
        BY <2>1 DEF ReplyIsMedian
<1>4. CASE UNCHANGED vars
    BY <1>4 DEF vars, ReplyIsMedian, IsMiddle, Below, Above, Successful
<1> QED
    BY <1>1, <1>2, <1>3, <1>4 DEF Next

(***************************************************************************)
(* In whatever order the goroutines finish, FetchPrice answers the median  *)
(* of what the fetchers found, for any number of them.                     *)
(***************************************************************************)
THEOREM RepliesWithMedian == Spec => []ReplyIsMedian
<1>1. Init => ReplyIsMedian
    BY DEF Init, ReplyIsMedian
<1> QED
    BY <1>1, Invariance, NextReplyIsMedian, PTL DEF Spec

(***************************************************************************)
(* As long as most of the prices found lie in a range, the reply does: a   *)
(* middle price outside would have all of them on one side.                *)
(***************************************************************************)
LEMMA MiddleInRange ==
    ASSUME Inv, NEW lo \in Nat, NEW hi \in Nat, NEW v \in Price, IsMiddle(v),
           2 * Cardinality({f \in Successful : Finite(found[f]) /\ found[f] \in lo .. hi})
               > Cardinality(Successful)
    PROVE  Finite(v) /\ v \in lo .. hi
<1> DEFINE In == {f \in Successful : Finite(found[f]) /\ found[f] \in lo .. hi}
<1>1. /\ IsFiniteSet(Successful) /\ Cardinality(Successful) \in Nat
      /\ In \subseteq Successful /\ Below(v) \subseteq Successful /\ Above(v) \subseteq Successful
    <2>1. IsFiniteSet(Successful)
        BY FetchersAssumption, FS_Subset DEF Successful
    <2> QED
        BY <2>1, FS_CardinalityType DEF Below, Above
<1>2. /\ IsFiniteSet(Below(v)) /\ Cardinality(Below(v)) \in Nat
      /\ IsFiniteSet(Above(v)) /\ Cardinality(Above(v)) \in Nat
      /\ IsFiniteSet(In) /\ Cardinality(In) \in Nat
    BY <1>1, FS_Subset, FS_CardinalityType
<1>3. ~(In \subseteq Below(v)) /\ ~(In \subseteq Above(v))
    <2> HIDE DEF In
    <2>1. In \subseteq Below(v) => Cardinality(In) <= Cardinality(Below(v))
        BY <1>2, FS_Subset
    <2>2. In \subseteq Above(v) => Cardinality(In) <= Cardinality(Above(v))
        BY <1>2, FS_Subset
    <2>3. 2 * Cardinality(In) > Cardinality(Successful)
        BY DEF In
    <2> QED
        BY <1>1, <1>2, <2>1, <2>2, <2>3 DEF IsMiddle
<1>4. CASE v = NaN
    <2>1. In \subseteq Above(v)
        BY <1>4, SpecialsAssumption DEF Above, FloatLess, Finite
    <2> QED
        BY <1>3, <2>1
<1>5. CASE v = Inf
    <2>1. In \subseteq Below(v)
        BY <1>5 DEF Below, FloatLess
    <2> QED
        BY <1>3, <2>1
<1>6. CASE Finite(v)
    <2>1. v \in Nat
        BY <1>6 DEF Price, Finite
    <2>2. v < lo => In \subseteq Above(v)
        BY <1>6, <2>1 DEF Above, FloatLess
    <2>3. v > hi => In \subseteq Below(v)
        BY <1>6, <2>1 DEF Below, FloatLess
    <2> HIDE DEF In
    <2> QED
        BY <1>3, <1>6, <2>1, <2>2, <2>3
<1> QED
    BY <1>4, <1>5, <1>6 DEF Finite

\* A minority of the fetchers cannot move the reply of FetchPrice out of the
\* range of the others, for any number of them.
THEOREM OutliersDoNotMoveReply == Spec => []OutliersDoNotMove
<1>1. Inv /\ ReplyIsMedian => OutliersDoNotMove
    <2> SUFFICES ASSUME Inv, ReplyIsMedian, pc = "idle", reply \in Price,
                        NEW lo \in {v \in Answers : Finite(v)},
                        NEW hi \in {v \in Answers : Finite(v)},
                        2 * Cardinality({f \in Successful :
                                            Finite(found[f]) /\ found[f] \in lo .. hi})
                            > Cardinality(Successful)
                 PROVE  Finite(reply) /\ reply \in lo .. hi
        BY DEF OutliersDoNotMove
    <2>1. lo \in Nat /\ hi \in Nat
        BY AnswersAssumption DEF Price, Finite
    <2>2. PICK f, g \in Successful : /\ IsMiddle(found[f]) /\ IsMiddle(found[g])
                                     /\ reply = Mean(found[f], found[g])
        BY NoneAssumption, ErrorAssumption DEF ReplyIsMedian
    <2>3. found[f] \in Price /\ found[g] \in Price
        BY DEF Successful, Inv, SharedTypeOK
    <2>4. /\ Finite(found[f]) /\ found[f] \in lo .. hi
          /\ Finite(found[g]) /\ found[g] \in lo .. hi
        BY <2>1, <2>2, <2>3, MiddleInRange
    <2>5. reply = (found[f] + found[g]) \div 2
        BY <2>2, <2>4 DEF Mean, Finite
    <2>6. reply \in Nat /\ reply \in lo .. hi
        BY <2>1, <2>4, <2>5
    <2> QED
        BY <2>6, SpecialsAssumption DEF Finite
<1> QED
    BY <1>1, Invariance, RepliesWithMedian, PTL

(***************************************************************************)
(* Types.  That the reply is a price is a consequence of its being a       *)
(* median, not of the shape of Return.                                     *)
(***************************************************************************)
LEMMA NextReplyType ==
    Inv /\ ReplyIsMedian' /\ TypeOK /\ [Next]_vars => TypeOK'
<1> SUFFICES ASSUME Inv, ReplyIsMedian', TypeOK, [Next]_vars PROVE TypeOK'
    OBVIOUS
<1>1. SharedTypeOK' /\ Inv'
    BY NextInv DEF Inv
<1>2. CASE Return
    <2>1. pc' = "idle"
        BY <1>2 DEF Return
    <2>2. CASE reply' # None /\ ~(Cardinality(Successful) < MinResultsNum)'
        <3>1. PICK f, g \in Successful' : reply' = Mean(found'[f], found'[g])
            BY <2>1, <2>2 DEF ReplyIsMedian
        <3>2. found'[f] \in Price /\ found'[g] \in Price
            BY <1>1, <3>1 DEF Successful, SharedTypeOK
        <3> QED
            BY <1>1, <3>1, <3>2, MeanIsPrice DEF TypeOK
    <2>3. CASE reply' = None \/ (Cardinality(Successful) < MinResultsNum)'
        BY <1>1, <2>1, <2>3 DEF TypeOK, ReplyIsMedian
    <2> QED
        BY <2>2, <2>3
<1>3. CASE Call \/ Wait \/ UNCHANGED vars
    BY <1>1, <1>3 DEF Call, Wait, vars, TypeOK
<1>4. CASE \E f \in Fetchers : Answer(f) \/ Step(f)
    BY <1>1, <1>4, GoroutineRunsOnlyInCall DEF TypeOK
<1> QED
    BY <1>2, <1>3, <1>4 DEF Next

\* FetchPrice answers a price or the error, and every variable has its type.
THEOREM TypeCorrect == Spec => []TypeOK
<1>1. Init => TypeOK
    BY InitInv DEF Init, Inv, TypeOK
<1> QED
    BY <1>1, Invariance, RepliesWithMedian, NextReplyType, PTL DEF Spec
=============================================================================
