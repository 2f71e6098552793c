---------------------------- MODULE PriceLemmas ----------------------------
(***************************************************************************)
(* Facts that the proofs of several components cite: the price arithmetic  *)
(* yields prices, sets of naturals have least and greatest elements, and   *)
(* every finite list can be sorted.                                        *)
(***************************************************************************)
EXTENDS Prices, Functions, WellFoundedInduction, TLAPS

(***************************************************************************)
(* Prices: trimming and converting yield prices.                           *)
(***************************************************************************)
LEMMA DivIsNat ==
    ASSUME NEW a \in Nat, NEW b \in Nat \ {0}
    PROVE  a \div b \in Nat
OBVIOUS

LEMMA TrimIsPrice ==
    ASSUME NEW v \in Price, NEW precision \in Nat \ {0}
    PROVE  Trim(v, precision) \in Price
<1>1. CASE Finite(v)
    <2>1. v \in Nat
        BY <1>1 DEF Price, Finite
    <2>2. (2 * v + precision) \div (2 * precision) \in Nat
        BY <2>1, DivIsNat
    <2> QED
        BY <1>1, <2>2 DEF Trim, Price
<1>2. CASE ~Finite(v)
    BY <1>2 DEF Trim
<1> QED
    BY <1>1, <1>2

LEMMA NominalValueIsPrice ==
    ASSUME NEW e \in Price, NEW g \in Price
    PROVE  NominalValue(e, g) \in Price
<1>1. CASE Finite(e) /\ Finite(g)
    <2>1. e \in Nat /\ g \in Nat /\ e * g \in Nat
        BY <1>1 DEF Price, Finite
    <2> QED
        BY <1>1, <2>1, DivIsNat, UnitsAssumption DEF NominalValue, Price
<1>2. CASE ~(Finite(e) /\ Finite(g))
    BY <1>2 DEF NominalValue, Price
<1> QED
    BY <1>1, <1>2

LEMMA QuotientIsPrice ==
    ASSUME NEW n \in Price, NEW t \in Price
    PROVE  Quotient(n, t) \in Price
<1>1. CASE Finite(n) /\ Finite(t) /\ t # 0
    <2>1. n \in Nat /\ t \in Nat \ {0} /\ n * One \in Nat
        BY <1>1, UnitsAssumption DEF Price, Finite
    <2>2. (n * One) \div t \in Nat
        BY <2>1, DivIsNat
    <2> QED
        BY <1>1, <2>2 DEF Quotient, Price
<1>2. CASE ~(Finite(n) /\ Finite(t) /\ t # 0)
    BY <1>2 DEF Quotient, Price
<1> QED
    BY <1>1, <1>2

(***************************************************************************)
(* Least and greatest elements.                                            *)
(***************************************************************************)
LEMMA LeastElement ==
    ASSUME NEW T, T \subseteq Nat, T # {}
    PROVE  \E x \in T : \A y \in T : x <= y
<1>1. PICK x \in T : \A y \in T : ~ (<<y, x>> \in OpToRel(<, Nat))
    BY NatLessThanWellFounded, WFMin
<1>2. \A y \in T : ~ (y < x)
    BY <1>1 DEF OpToRel
<1> QED
    BY <1>2

LEMMA GreatestElement ==
    ASSUME NEW n \in Nat, NEW T, T \subseteq 1 .. n, T # {}
    PROVE  \E x \in T : \A y \in T : y <= x
<1> DEFINE D == {n - x : x \in T}
<1>1. D \subseteq Nat /\ D # {}
    <2>1. \A x \in T : n - x \in Nat
        BY SMT
    <2> QED
        BY <2>1
<1>2. PICK d \in D : \A e \in D : d <= e
    BY <1>1, LeastElement
<1>3. PICK x \in T : d = n - x
    BY <1>2
<1>4. \A y \in T : n - y \in D
    OBVIOUS
<1>5. \A y \in T : y <= x
    BY <1>2, <1>3, <1>4
<1> QED
    BY <1>5

(***************************************************************************)
(* Sorting.  R is "comes before": no two values come before each other,    *)
(* and where one comes before another, a third comes after the one or      *)
(* before the other.  The first n entries of s are sorted by the           *)
(* rearrangement p when none comes before an earlier one.                  *)
(***************************************************************************)
StrictWeakOrder(R, V) ==
    /\ \A a, b \in V : ~ (<<a, b>> \in R /\ <<b, a>> \in R)
    /\ \A a, b, c \in V : <<a, c>> \in R => <<a, b>> \in R \/ <<b, c>> \in R

SortedBy(p, s, n, R) ==
    \A i, j \in 1 .. n : i < j => <<s[p[j]], s[p[i]]>> \notin R

\* One more value is inserted before the first value that comes after it.
LEMMA InsertOne ==
    ASSUME NEW V, NEW R, StrictWeakOrder(R, V), NEW n \in Nat,
           NEW s \in [1 .. n + 1 -> V],
           NEW q \in Surjection(1 .. n, 1 .. n), SortedBy(q, s, n, R)
    PROVE  \E p \in Surjection(1 .. n + 1, 1 .. n + 1) : SortedBy(p, s, n + 1, R)
<1> DEFINE new == s[n + 1]
           After == {k \in 1 .. n : <<new, s[q[k]]>> \in R} \cup {n + 1}
<1>1. q \in [1 .. n -> 1 .. n] /\ \A t \in 1 .. n : \E u \in 1 .. n : q[u] = t
    BY DEF Surjection
<1>2. PICK k \in After : \A l \in After : k <= l
    <2>1. \A l \in After : l \in Nat
        OBVIOUS
    <2>2. After \subseteq Nat /\ After # {}
        BY <2>1
    <2> HIDE DEF After
    <2> QED
        BY <2>2, LeastElement
<1>3. k \in 1 .. n + 1
    BY <1>2
<1> DEFINE p == [i \in 1 .. n + 1 |-> IF i < k THEN q[i]
                                      ELSE IF i = k THEN n + 1 ELSE q[i - 1]]
<1>4. p \in Surjection(1 .. n + 1, 1 .. n + 1)
    <2>1. p \in [1 .. n + 1 -> 1 .. n + 1]
        <3>1. ASSUME NEW i \in 1 .. n + 1
              PROVE  (IF i < k THEN q[i] ELSE IF i = k THEN n + 1 ELSE q[i - 1]) \in 1 .. n + 1
            <4>1. \A l \in 1 .. n : q[l] \in 1 .. n + 1
                <5>1. \A l \in 1 .. n : q[l] \in 1 .. n
                    BY <1>1
                <5> QED
                    BY <5>1
            <4>2. CASE i < k
                <5>1. i \in 1 .. n
                    BY <1>3, <4>2
                <5> QED
                    BY <4>1, <4>2, <5>1
            <4>3. CASE i = k
                BY <1>3, <4>3
            <4>4. CASE i > k
                <5>1. i - 1 \in 1 .. n
                    BY <1>3, <4>4
                <5> QED
                    BY <1>3, <4>1, <4>4, <5>1
            <4> QED
                BY <1>3, <4>2, <4>3, <4>4
        <3> QED
            BY <3>1
    <2>2. ASSUME NEW t \in 1 .. n + 1
          PROVE  \E i \in 1 .. n + 1 : p[i] = t
        <3>1. CASE t = n + 1
            BY <1>3, <3>1
        <3>2. CASE t # n + 1
            <4>1. PICK u \in 1 .. n : q[u] = t
                BY <1>1, <3>2
            <4>2. u \in 1 .. n + 1 /\ u + 1 \in 1 .. n + 1 /\ u + 1 - 1 = u
                OBVIOUS
            <4>3. u < k => p[u] = t
                BY <4>1, <4>2
            <4>4. ~(u < k) => p[u + 1] = t
                BY <1>3, <4>1, <4>2
            <4> HIDE DEF p
            <4> QED
                BY <4>2, <4>3, <4>4
        <3> QED
            BY <3>1, <3>2
    <2> QED
        BY <2>1, <2>2 DEF Surjection
<1>5. ASSUME NEW i \in 1 .. n + 1, NEW j \in 1 .. n + 1, i < j
      PROVE  <<s[p[j]], s[p[i]]>> \notin R
    <2>0. \A l \in 1 .. n : s[q[l]] \in V /\ q[l] \in 1 .. n
        BY <1>1
    <2>a. new \in V
        OBVIOUS
    <2>1. CASE j < k
        BY <1>3, <1>5, <2>1 DEF SortedBy
    <2>2. CASE j = k
        <3>1. i \in 1 .. n /\ i \notin After
            BY <1>2, <1>3, <1>5, <2>2
        <3>2. p[j] = n + 1 /\ p[i] = q[i]
            BY <1>5, <2>2
        <3> QED
            BY <3>1, <3>2
    <2>3. CASE j > k /\ i < k
        <3>1. p[j] = q[j - 1] /\ p[i] = q[i] /\ i \in 1 .. n /\ j - 1 \in 1 .. n /\ i < j - 1
            BY <1>3, <1>5, <2>3
        <3> QED
            BY <3>1 DEF SortedBy
    <2>4. CASE j > k /\ i = k
        <3>1. /\ p[j] = q[j - 1] /\ p[i] = n + 1
              /\ j - 1 \in 1 .. n /\ k \in 1 .. n /\ k <= j - 1
            BY <1>3, <1>5, <2>4
        <3>2. <<new, s[q[k]]>> \in R
            BY <1>2, <3>1
        <3>3. <<new, s[q[j - 1]]>> \in R
            <4>1. CASE k = j - 1
                BY <3>2, <4>1
            <4>2. CASE k # j - 1
                <5>1. <<s[q[j - 1]], s[q[k]]>> \notin R
                    BY <3>1, <4>2 DEF SortedBy
                <5> QED
                    BY <2>0, <2>a, <3>1, <3>2, <5>1 DEF StrictWeakOrder
            <4> QED
                BY <4>1, <4>2
        <3> QED
            BY <2>0, <2>a, <3>1, <3>3 DEF StrictWeakOrder
    <2>5. CASE j > k /\ i > k
        <3>1. /\ p[j] = q[j - 1] /\ p[i] = q[i - 1]
              /\ i - 1 \in 1 .. n /\ j - 1 \in 1 .. n /\ i - 1 < j - 1
            BY <1>3, <1>5, <2>5
        <3> QED
            BY <3>1 DEF SortedBy
    <2> QED
        BY <1>3, <2>1, <2>2, <2>3, <2>4, <2>5
<1>6. SortedBy(p, s, n + 1, R)
    BY <1>5 DEF SortedBy
<1> QED
    BY <1>4, <1>6

\* Every finite list can be sorted: a shortest one that could not would be
\* one value longer than a list that can.
LEMMA SortingExists ==
    ASSUME NEW V, NEW R, StrictWeakOrder(R, V), NEW n \in Nat, NEW s \in [1 .. n -> V]
    PROVE  \E p \in Surjection(1 .. n, 1 .. n) : SortedBy(p, s, n, R)
<1> DEFINE Unsortable ==
        {m \in Nat : \E t \in [1 .. m -> V] :
            \A p \in Surjection(1 .. m, 1 .. m) : ~ SortedBy(p, t, m, R)}
<1>1. SUFFICES ASSUME Unsortable # {} PROVE FALSE
    OBVIOUS
<1>2. PICK m \in Unsortable : \A l \in Unsortable : m <= l
    <2>1. Unsortable \subseteq Nat
        OBVIOUS
    <2> HIDE DEF Unsortable
    <2> QED
        BY <1>1, <2>1, LeastElement
<1>3. m \in Nat
    BY <1>2
<1>4. PICK t \in [1 .. m -> V] : \A p \in Surjection(1 .. m, 1 .. m) : ~ SortedBy(p, t, m, R)
    BY <1>2
<1>5. CASE m = 0
    <2> DEFINE p == [i \in 1 .. 0 |-> i]
    <2>1. p \in Surjection(1 .. m, 1 .. m) /\ SortedBy(p, t, m, R)
        BY <1>5 DEF Surjection, SortedBy
    <2> QED
        BY <1>4, <2>1
<1>6. CASE m # 0
    <2> DEFINE l == m - 1
               u == [i \in 1 .. l |-> t[i]]
    <2>1. l \in Nat /\ l + 1 = m /\ ~(m <= l)
        BY <1>3, <1>6
    <2>2. u \in [1 .. l -> V]
        BY <1>3, <1>4, <1>6
    <2>3. l \notin Unsortable
        BY <1>2, <2>1
    <2>4. PICK q \in Surjection(1 .. l, 1 .. l) : SortedBy(q, u, l, R)
        BY <2>1, <2>2, <2>3
    <2>5. SortedBy(q, t, l, R)
        <3>1. \A i \in 1 .. l : q[i] \in 1 .. l
            BY DEF Surjection
        <3> QED
            BY <2>1, <2>4, <3>1 DEF SortedBy
    <2>6. t \in [1 .. l + 1 -> V]
        BY <1>4, <2>1
    <2> HIDE DEF l
    <2>7. \E p \in Surjection(1 .. l + 1, 1 .. l + 1) : SortedBy(p, t, l + 1, R)
        BY <2>1, <2>5, <2>6, InsertOne
    <2> QED
        BY <1>4, <2>1, <2>7
<1> QED
    BY <1>5, <1>6
=============================================================================
