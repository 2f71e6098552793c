------------------------ MODULE DenominationProofs ------------------------
(***************************************************************************)
(* Theorems about Denomination, for floats and integers of every width,    *)
(* so also for the 53 and 64 bits of the program.  Every operation between *)
(* the price and the argument of the contract call is monotone, and so a   *)
(* higher price is never sent as a lower one; a price trimmed twice is the *)
(* price trimmed once; and what is sent is the price to within one unit.   *)
(***************************************************************************)
EXTENDS Denomination, WellFoundedInduction, TLAPS

LEMMA SmallestElement ==
    ASSUME NEW T, T \subseteq Nat, T # {}
    PROVE  \E x \in T : \A y \in T : x <= y
<1>1. PICK x \in T : \A y \in T : ~ (<<y, x>> \in OpToRel(<, Nat))
    BY NatLessThanWellFounded, WFMin
<1>2. \A y \in T : ~ (y < x)
    BY <1>1 DEF OpToRel
<1> QED
    BY <1>2

(***************************************************************************)
(* The functions that are defined by recursion exist: what p makes of a    *)
(* number is smaller, and h makes the value there the value here.          *)
(***************************************************************************)
Descends(p) == \A n \in Nat \ {0} : p[n] < n
Follows(g, k, p, z, h) == g[k] = IF k = 0 THEN z ELSE h[g[p[k]]]
Begun(n, p, z, h) == {g \in [0 .. n -> Nat] : \A k \in 0 .. n : Follows(g, k, p, z, h)}

LEMMA BegunExists ==
    ASSUME NEW p \in [Nat -> Nat], Descends(p),
           NEW z \in Nat, NEW h \in [Nat -> Nat], NEW n \in Nat
    PROVE  Begun(n, p, z, h) # {}
<1> DEFINE Missing == {j \in Nat : Begun(j, p, z, h) = {}}
<1>1. SUFFICES ASSUME Missing # {} PROVE FALSE
    OBVIOUS
<1>2. PICK j \in Missing : \A i \in Missing : j <= i
    BY <1>1, SmallestElement
<1>3. CASE j = 0
    <2> DEFINE g == [k \in 0 .. 0 |-> z]
    <2>1. g \in Begun(0, p, z, h)
        BY DEF Begun, Follows
    <2> QED
        BY <1>2, <1>3, <2>1
<1>4. CASE j # 0
    <2>1. j - 1 \in Nat /\ j - 1 \notin Missing
        BY <1>2, <1>4
    <2>2. PICK g : g \in Begun(j - 1, p, z, h)
        BY <2>1
    <2>3. g \in [0 .. j - 1 -> Nat] /\ \A k \in 0 .. j - 1 : Follows(g, k, p, z, h)
        BY <2>2 DEF Begun
    <2> DEFINE f == [k \in 0 .. j |-> IF k = j THEN h[g[p[j]]] ELSE g[k]]
    <2>4. p[j] \in 0 .. j - 1
        BY <1>2, <1>4 DEF Descends
    <2>5. f \in [0 .. j -> Nat]
        <3>1. h[g[p[j]]] \in Nat
            BY <2>3, <2>4
        <3>2. \A k \in 0 .. j : k # j => k \in 0 .. j - 1
            BY <1>2
        <3> QED
            BY <2>3, <3>1, <3>2
    <2>6. ASSUME NEW k \in 0 .. j PROVE Follows(f, k, p, z, h)
        <3>1. CASE k = j
            <4>1. f[j] = h[g[p[j]]] /\ f[p[j]] = g[p[j]]
                BY <1>2, <2>4
            <4> QED
                BY <1>4, <3>1, <4>1 DEF Follows
        <3>2. CASE k # j
            <4>1. k \in 0 .. j - 1
                BY <1>2, <3>2
            <4>2. Follows(g, k, p, z, h)
                BY <2>3, <4>1
            <4>3. CASE k = 0
                BY <3>2, <4>2, <4>3 DEF Follows
            <4>4. CASE k # 0
                <5>1. p[k] \in 0 .. j - 1 /\ p[k] \in 0 .. j /\ p[k] # j
                    BY <1>2, <4>1, <4>4 DEF Descends
                <5>2. f[p[k]] = g[p[k]] /\ f[k] = g[k]
                    BY <5>1, <3>2
                <5> QED
                    BY <4>2, <4>4, <5>2 DEF Follows
            <4> QED
                BY <4>3, <4>4
        <3> QED
            BY <3>1, <3>2
    <2>7. f \in Begun(j, p, z, h)
        BY <2>5, <2>6 DEF Begun
    <2> QED
        BY <1>2, <2>7
<1> QED
    BY <1>3, <1>4

LEMMA RecursionExists ==
    ASSUME NEW p \in [Nat -> Nat], Descends(p),
           NEW z \in Nat, NEW h \in [Nat -> Nat]
    PROVE  \E f \in [Nat -> Nat] : \A n \in Nat : Follows(f, n, p, z, h)
<1>0. \A m, n, k \in Nat : k <= m /\ k <= n =>
          \A f \in Begun(m, p, z, h), g \in Begun(n, p, z, h) : f[k] = g[k]
    <2> SUFFICES ASSUME NEW m \in Nat, NEW n \in Nat,
                        NEW f \in Begun(m, p, z, h), NEW g \in Begun(n, p, z, h),
                        NEW k \in Nat, k <= m, k <= n
                 PROVE  f[k] = g[k]
        OBVIOUS
    <2> DEFINE Differ == {j \in Nat : j <= m /\ j <= n /\ f[j] # g[j]}
    <2>1. SUFFICES ASSUME Differ # {} PROVE FALSE
        OBVIOUS
    <2>2. PICK j \in Differ : \A i \in Differ : j <= i
        BY <2>1, SmallestElement
    <2>3. Follows(f, j, p, z, h) /\ Follows(g, j, p, z, h)
        BY <2>2 DEF Begun
    <2>4. CASE j = 0
        BY <2>2, <2>3, <2>4 DEF Follows
    <2>5. CASE j # 0
        <3>1. p[j] \in Nat /\ p[j] < j
            BY <2>2, <2>5 DEF Descends
        <3>2. p[j] \notin Differ
            BY <2>2, <3>1
        <3>3. f[p[j]] = g[p[j]]
            BY <2>2, <3>1, <3>2
        <3> QED
            BY <2>2, <2>3, <2>5, <3>3 DEF Follows
    <2> QED
        BY <2>4, <2>5
<1> DEFINE G(n) == CHOOSE g : g \in Begun(n, p, z, h)
           f    == [n \in Nat |-> G(n)[n]]
<1>1. \A n \in Nat : G(n) \in Begun(n, p, z, h)
    BY BegunExists
<1> HIDE DEF G
<1>2. f \in [Nat -> Nat]
    BY <1>1 DEF Begun
<1>3. ASSUME NEW n \in Nat PROVE Follows(f, n, p, z, h)
    <2>1. Follows(G(n), n, p, z, h)
        BY <1>1 DEF Begun
    <2>2. CASE n = 0
        BY <2>1, <2>2 DEF Follows
    <2>3. CASE n # 0
        <3>1. p[n] \in Nat /\ p[n] <= n
            BY <2>3 DEF Descends
        <3>2. G(n) \in Begun(n, p, z, h) /\ G(p[n]) \in Begun(p[n], p, z, h)
            BY <1>1, <3>1
        <3>3. p[n] <= p[n]
            BY <3>1
        <3>4. \A a \in Begun(n, p, z, h), b \in Begun(p[n], p, z, h) : a[p[n]] = b[p[n]]
            BY <1>0, <3>1, <3>3
        <3>5. G(n)[p[n]] = G(p[n])[p[n]]
            BY <3>2, <3>4
        <3> QED
            BY <2>1, <2>3, <3>1, <3>5 DEF Follows
    <2> QED
        BY <2>2, <2>3
<1> QED
    BY <1>2, <1>3

(***************************************************************************)
(* The powers of two and of ten, and the length of a number in bits.       *)
(***************************************************************************)
LEMMA PowersExist ==
    ASSUME NEW c \in Nat
    PROVE  \E f \in [Nat -> Nat] : f = [n \in Nat |-> IF n = 0 THEN 1 ELSE c * f[n - 1]]
<1> DEFINE p == [n \in Nat |-> IF n = 0 THEN 0 ELSE n - 1]
           h == [v \in Nat |-> c * v]
<1>1. p \in [Nat -> Nat] /\ Descends(p) /\ h \in [Nat -> Nat]
    BY DEF Descends
<1> HIDE DEF p, h
<1>2. PICK f \in [Nat -> Nat] : \A n \in Nat : Follows(f, n, p, 1, h)
    BY <1>1, RecursionExists
<1>3. ASSUME NEW n \in Nat PROVE f[n] = IF n = 0 THEN 1 ELSE c * f[n - 1]
    <2>1. f[n] = IF n = 0 THEN 1 ELSE h[f[p[n]]]
        BY <1>2 DEF Follows
    <2>2. CASE n # 0
        <3>1. p[n] = n - 1 /\ n - 1 \in Nat
            BY <2>2 DEF p
        <3>2. h[f[n - 1]] = c * f[n - 1]
            BY <1>2, <3>1 DEF h
        <3> QED
            BY <2>1, <2>2, <3>1, <3>2
    <2> QED
        BY <2>1, <2>2
<1> QED
    BY <1>2, <1>3

LEMMA PowersFacts ==
    ASSUME NEW c \in Nat \ {0}, NEW f, f = [n \in Nat |-> IF n = 0 THEN 1 ELSE c * f[n - 1]]
    PROVE  /\ f[0] = 1
           /\ \A n \in Nat : f[n] \in Nat \ {0} /\ f[n + 1] = c * f[n]
<1>1. \A n \in Nat : f[n] = IF n = 0 THEN 1 ELSE c * f[n - 1]
    OBVIOUS
<1>2. f[0] = 1
    BY <1>1
<1>3. \A n \in Nat : f[n + 1] = c * f[n]
    <2> TAKE n \in Nat
    <2>1. n + 1 \in Nat /\ n + 1 # 0 /\ (n + 1) - 1 = n
        OBVIOUS
    <2> QED
        BY <1>1, <2>1
<1> DEFINE Wrong == {n \in Nat : f[n] \notin Nat \ {0}}
<1>4. ASSUME Wrong # {} PROVE FALSE
    <2>1. PICK n \in Wrong : \A m \in Wrong : n <= m
        BY <1>4, SmallestElement
    <2>2. n # 0 /\ n - 1 \in Nat
        BY <1>2, <2>1
    <2>3. f[n - 1] \in Nat \ {0}
        <3>1. ~(n <= n - 1)
            BY <2>1
        <3>2. n - 1 \notin Wrong
            BY <2>1, <3>1
        <3> QED
            BY <2>2, <3>2
    <2>4. c * f[n - 1] \in Nat \ {0}
        BY <2>3
    <2> QED
        BY <1>1, <2>1, <2>2, <2>4
<1> QED
    BY <1>2, <1>3, <1>4

LEMMA PowerOfTwoFacts ==
    /\ PowerOfTwo[0] = 1
    /\ \A n \in Nat : PowerOfTwo[n] \in Nat \ {0} /\ PowerOfTwo[n + 1] = 2 * PowerOfTwo[n]
<1>1. \E f : f = [n \in Nat |-> IF n = 0 THEN 1 ELSE 2 * f[n - 1]]
    <2>1. 2 \in Nat
        OBVIOUS
    <2> QED
        BY <2>1, PowersExist
<1>2. PowerOfTwo = [n \in Nat |-> IF n = 0 THEN 1 ELSE 2 * PowerOfTwo[n - 1]]
    BY <1>1 DEF PowerOfTwo
<1> QED
    BY <1>2, PowersFacts

LEMMA PowerOfTenFacts == \A n \in Nat : PowerOfTen[n] \in Nat \ {0}
<1>1. \E f : f = [n \in Nat |-> IF n = 0 THEN 1 ELSE 10 * f[n - 1]]
    <2>1. 10 \in Nat
        OBVIOUS
    <2> QED
        BY <2>1, PowersExist
<1>2. PowerOfTen = [n \in Nat |-> IF n = 0 THEN 1 ELSE 10 * PowerOfTen[n - 1]]
    BY <1>1 DEF PowerOfTen
<1> QED
    BY <1>2, PowersFacts

LEMMA PowerOfSum ==
    \A m, n \in Nat : PowerOfTwo[m + n] = PowerOfTwo[m] * PowerOfTwo[n]
<1> SUFFICES ASSUME NEW m \in Nat
             PROVE  \A n \in Nat : PowerOfTwo[m + n] = PowerOfTwo[m] * PowerOfTwo[n]
    OBVIOUS
<1> DEFINE Wrong == {n \in Nat : PowerOfTwo[m + n] # PowerOfTwo[m] * PowerOfTwo[n]}
<1>1. SUFFICES ASSUME Wrong # {} PROVE FALSE
    OBVIOUS
<1>2. PICK n \in Wrong : \A k \in Wrong : n <= k
    BY <1>1, SmallestElement
<1>3. n # 0 /\ n - 1 \in Nat /\ m + (n - 1) \in Nat
    <2>1. PowerOfTwo[m + 0] = PowerOfTwo[m] * PowerOfTwo[0]
        <3>1. m + 0 = m /\ PowerOfTwo[m] \in Nat /\ PowerOfTwo[0] = 1
            BY PowerOfTwoFacts
        <3> QED
            BY <3>1
    <2>2. n # 0
        BY <1>2, <2>1
    <2> QED
        BY <1>2, <2>2
<1>4. PowerOfTwo[m + (n - 1)] = PowerOfTwo[m] * PowerOfTwo[n - 1]
    BY <1>2, <1>3
<1>5. PowerOfTwo[n] = 2 * PowerOfTwo[n - 1]
    <2>1. n = (n - 1) + 1
        BY <1>3
    <2> QED
        BY <1>3, <2>1, PowerOfTwoFacts
<1>6. PowerOfTwo[m + n] = 2 * PowerOfTwo[m + (n - 1)]
    <2>1. m + n = (m + (n - 1)) + 1
        BY <1>3
    <2> QED
        BY <1>3, <2>1, PowerOfTwoFacts
<1>7. PowerOfTwo[m] \in Nat /\ PowerOfTwo[n - 1] \in Nat
    BY <1>3, PowerOfTwoFacts
<1>8. 2 * (PowerOfTwo[m] * PowerOfTwo[n - 1]) = PowerOfTwo[m] * (2 * PowerOfTwo[n - 1])
    BY <1>7
<1> QED
    BY <1>2, <1>4, <1>5, <1>6, <1>8

LEMMA BitLengthFacts ==
    \A n \in Nat \ {0} : /\ BitLength[n] \in Nat \ {0}
                          /\ PowerOfTwo[BitLength[n] - 1] <= n
                          /\ n < PowerOfTwo[BitLength[n]]
<1> DEFINE p == [n \in Nat |-> n \div 2]
           h == [v \in Nat |-> v + 1]
<1>1. p \in [Nat -> Nat] /\ Descends(p) /\ h \in [Nat -> Nat]
    BY DEF Descends
<1> HIDE DEF p, h
<1>2. PICK f \in [Nat -> Nat] : \A n \in Nat : Follows(f, n, p, 0, h)
    BY <1>1, RecursionExists
<1>3. ASSUME NEW n \in Nat PROVE f[n] = IF n = 0 THEN 0 ELSE f[n \div 2] + 1
    <2>1. f[n] = IF n = 0 THEN 0 ELSE h[f[p[n]]]
        BY <1>2 DEF Follows
    <2>2. p[n] = n \div 2 /\ n \div 2 \in Nat
        BY DEF p
    <2>3. h[f[n \div 2]] = f[n \div 2] + 1
        BY <1>2, <2>2 DEF h
    <2> QED
        BY <2>1, <2>2, <2>3
<1>4. f = [n \in Nat |-> IF n = 0 THEN 0 ELSE f[n \div 2] + 1]
    BY <1>2, <1>3
<1>5. BitLength = [n \in Nat |-> IF n = 0 THEN 0 ELSE BitLength[n \div 2] + 1]
    BY <1>4 DEF BitLength
<1>6. BitLength[0] = 0 /\ \A n \in Nat \ {0} : BitLength[n] = BitLength[n \div 2] + 1
    BY <1>5
<1> DEFINE Right(n) == /\ BitLength[n] \in Nat \ {0}
                       /\ PowerOfTwo[BitLength[n] - 1] <= n
                       /\ n < PowerOfTwo[BitLength[n]]
           Wrong == {n \in Nat \ {0} : ~Right(n)}
<1>7. SUFFICES ASSUME Wrong # {} PROVE FALSE
    OBVIOUS
<1>8. PICK n \in Wrong : \A k \in Wrong : n <= k
    BY <1>7, SmallestElement
<1>9. CASE n = 1
    <2>1. BitLength[1] = 1
        <3>1. 1 \div 2 = 0
            OBVIOUS
        <3> QED
            BY <1>6, <3>1
    <2>2. PowerOfTwo[0] = 1 /\ PowerOfTwo[1] = 2
        BY PowerOfTwoFacts
    <2> QED
        BY <1>8, <1>9, <2>1, <2>2
<1>10. CASE n # 1
    <2> DEFINE half == n \div 2
    <2>1. half \in Nat \ {0} /\ half < n /\ 2 * half <= n /\ n < 2 * half + 2
        BY <1>8, <1>10
    <2> HIDE DEF half
    <2>2. Right(half)
        BY <1>8, <2>1
    <2>3. BitLength[n] = BitLength[half] + 1
        BY <1>6, <1>8 DEF half
    <2>4. BitLength[n] - 1 = BitLength[half] /\ BitLength[half] = (BitLength[half] - 1) + 1
        BY <2>2, <2>3
    <2>5. /\ PowerOfTwo[BitLength[n]] = 2 * PowerOfTwo[BitLength[half]]
          /\ PowerOfTwo[BitLength[half]] = 2 * PowerOfTwo[BitLength[half] - 1]
        BY <2>2, <2>3, <2>4, PowerOfTwoFacts
    <2>6. PowerOfTwo[BitLength[half]] \in Nat /\ PowerOfTwo[BitLength[half] - 1] \in Nat
        BY <2>2, PowerOfTwoFacts
    <2>7. BitLength[n] \in Nat \ {0}
        BY <2>2, <2>3
    <2> QED
        BY <1>8, <2>1, <2>2, <2>4, <2>5, <2>6, <2>7
<1> QED
    BY <1>9, <1>10

(***************************************************************************)
(* Order.  m * 2^d is no more than n * 2^e.                                *)
(***************************************************************************)
NoMore(m, d, n, e) == IF d >= e THEN m * PowerOfTwo[d - e] <= n
                                ELSE m <= n * PowerOfTwo[e - d]

LEMMA Cancel ==
    ASSUME NEW a \in Nat, NEW b \in Nat, NEW c \in Nat \ {0}
    PROVE  a <= b <=> a * c <= b * c
<1>1. ASSUME a <= b PROVE a * c <= b * c
    <2>1. PICK x \in Nat : b = a + x
        <3>1. b - a \in Nat /\ b = a + (b - a)
            BY <1>1
        <3> QED
            BY <3>1
    <2>2. b * c = a * c + x * c /\ x * c \in Nat /\ a * c \in Nat
        BY <2>1
    <2> QED
        BY <2>2
<1>2. ASSUME ~(a <= b) PROVE ~(a * c <= b * c)
    <2>1. PICK x \in Nat \ {0} : a = b + x
        <3>1. a - b \in Nat \ {0} /\ a = b + (a - b)
            BY <1>2
        <3> QED
            BY <3>1
    <2>2. a * c = b * c + x * c /\ x * c \in Nat \ {0} /\ b * c \in Nat
        BY <2>1
    <2> QED
        BY <2>2
<1> QED
    BY <1>1, <1>2

\* Seen from any power of two that is not above the two of them.
LEMMA CommonBase ==
    ASSUME NEW m \in Nat, NEW d \in Int, NEW n \in Nat, NEW e \in Int,
           NEW base \in Int, base <= d, base <= e
    PROVE  NoMore(m, d, n, e) <=> m * PowerOfTwo[d - base] <= n * PowerOfTwo[e - base]
<1>1. CASE d >= e
    <2> DEFINE a == d - e
               b == e - base
    <2>1. a \in Nat /\ b \in Nat /\ d - base = a + b
        BY <1>1
    <2> HIDE DEF a, b
    <2>2. PowerOfTwo[a + b] = PowerOfTwo[a] * PowerOfTwo[b]
        BY <2>1, PowerOfSum
    <2>3. PowerOfTwo[a] \in Nat \ {0} /\ PowerOfTwo[b] \in Nat \ {0}
        BY <2>1, PowerOfTwoFacts
    <2>4. m * PowerOfTwo[a] \in Nat
        BY <2>3
    <2>5. m * (PowerOfTwo[a] * PowerOfTwo[b]) = (m * PowerOfTwo[a]) * PowerOfTwo[b]
        BY <2>3
    <2>6. m * PowerOfTwo[a] <= n <=> (m * PowerOfTwo[a]) * PowerOfTwo[b] <= n * PowerOfTwo[b]
        BY <2>3, <2>4, Cancel
    <2>7. NoMore(m, d, n, e) <=> m * PowerOfTwo[a] <= n
        BY <1>1 DEF NoMore, a
    <2>8. PowerOfTwo[d - base] = PowerOfTwo[a] * PowerOfTwo[b] /\ PowerOfTwo[e - base] = PowerOfTwo[b]
        BY <2>1, <2>2 DEF b
    <2> QED
        BY <2>5, <2>6, <2>7, <2>8
<1>2. CASE ~(d >= e)
    <2> DEFINE a == e - d
               b == d - base
    <2>1. a \in Nat /\ b \in Nat /\ e - base = a + b
        BY <1>2
    <2> HIDE DEF a, b
    <2>2. PowerOfTwo[a + b] = PowerOfTwo[a] * PowerOfTwo[b]
        BY <2>1, PowerOfSum
    <2>3. PowerOfTwo[a] \in Nat \ {0} /\ PowerOfTwo[b] \in Nat \ {0}
        BY <2>1, PowerOfTwoFacts
    <2>4. n * PowerOfTwo[a] \in Nat
        BY <2>3
    <2>5. n * (PowerOfTwo[a] * PowerOfTwo[b]) = (n * PowerOfTwo[a]) * PowerOfTwo[b]
        BY <2>3
    <2>6. m <= n * PowerOfTwo[a] <=> m * PowerOfTwo[b] <= (n * PowerOfTwo[a]) * PowerOfTwo[b]
        BY <2>3, <2>4, Cancel
    <2>7. NoMore(m, d, n, e) <=> m <= n * PowerOfTwo[a]
        BY <1>2 DEF NoMore, a
    <2>8. PowerOfTwo[e - base] = PowerOfTwo[a] * PowerOfTwo[b] /\ PowerOfTwo[d - base] = PowerOfTwo[b]
        BY <2>1, <2>2 DEF b
    <2> QED
        BY <2>5, <2>6, <2>7, <2>8
<1> QED
    BY <1>1, <1>2

LEMMA NoMoreTransitive ==
    ASSUME NEW l \in Nat, NEW c \in Int, NEW m \in Nat, NEW d \in Int,
           NEW n \in Nat, NEW e \in Int,
           NoMore(l, c, m, d), NoMore(m, d, n, e)
    PROVE  NoMore(l, c, n, e)
<1>1. PICK base \in Int : base <= c /\ base <= d /\ base <= e
    <2>1. CASE c <= d /\ c <= e
        BY <2>1
    <2>2. CASE d <= c /\ d <= e
        BY <2>2
    <2>3. CASE e <= c /\ e <= d
        BY <2>3
    <2> QED
        BY <2>1, <2>2, <2>3
<1> DEFINE x == l * PowerOfTwo[c - base]
           y == m * PowerOfTwo[d - base]
           z == n * PowerOfTwo[e - base]
<1>2. x <= y
    BY <1>1, CommonBase
<1>3. y <= z
    BY <1>1, CommonBase
<1>4. x \in Nat /\ y \in Nat /\ z \in Nat
    <2>1. c - base \in Nat /\ d - base \in Nat /\ e - base \in Nat
        BY <1>1
    <2>2. /\ PowerOfTwo[c - base] \in Nat /\ PowerOfTwo[d - base] \in Nat
          /\ PowerOfTwo[e - base] \in Nat
        BY <2>1, PowerOfTwoFacts
    <2> QED
        BY <2>2
<1> HIDE DEF x, y, z
<1>5. x <= z
    BY <1>2, <1>3, <1>4
<1> QED
    BY <1>1, <1>5, CommonBase DEF x, z

LEMMA NoMoreAtSame ==
    ASSUME NEW m \in Nat, NEW n \in Nat, NEW e \in Int
    PROVE  NoMore(m, e, n, e) <=> m <= n
<1>1. PowerOfTwo[e - e] = 1
    <2>1. e - e = 0
        OBVIOUS
    <2> QED
        BY <2>1, PowerOfTwoFacts
<1> QED
    BY <1>1 DEF NoMore

\* A factor that both have does not count.
LEMMA NoMoreTimes ==
    ASSUME NEW m \in Nat, NEW d \in Int, NEW n \in Nat, NEW e \in Int,
           NEW k \in Nat, NEW c \in Int, NoMore(m, d, n, e)
    PROVE  NoMore(m * k, d + c, n * k, e + c)
<1>1. d + c >= e + c <=> d >= e
    OBVIOUS
<1>2. (d + c) - (e + c) = d - e /\ (e + c) - (d + c) = e - d
    OBVIOUS
<1>3. CASE k = 0
    <2>1. m * k = 0 /\ n * k = 0
        BY <1>3
    <2>2. d >= e => PowerOfTwo[d - e] \in Nat
        BY PowerOfTwoFacts
    <2>3. ~(d >= e) => e - d \in Nat /\ PowerOfTwo[e - d] \in Nat
        <3>1. ~(d >= e) => e - d \in Nat
            OBVIOUS
        <3> QED
            BY <3>1, PowerOfTwoFacts
    <2> QED
        BY <1>1, <1>2, <2>1, <2>2, <2>3 DEF NoMore
<1>4. CASE k # 0 /\ d >= e
    <2>1. d - e \in Nat /\ PowerOfTwo[d - e] \in Nat
        BY <1>4, PowerOfTwoFacts
    <2>2. m * PowerOfTwo[d - e] \in Nat /\ m * PowerOfTwo[d - e] <= n
        BY <1>4, <2>1 DEF NoMore
    <2>3. (m * PowerOfTwo[d - e]) * k <= n * k
        BY <1>4, <2>2, Cancel
    <2>4. (m * PowerOfTwo[d - e]) * k = (m * k) * PowerOfTwo[d - e]
        BY <2>1
    <2> QED
        BY <1>1, <1>2, <1>4, <2>3, <2>4 DEF NoMore
<1>5. CASE k # 0 /\ ~(d >= e)
    <2>1. e - d \in Nat
        BY <1>5
    <2>2. PowerOfTwo[e - d] \in Nat
        BY <2>1, PowerOfTwoFacts
    <2>3. n * PowerOfTwo[e - d] \in Nat /\ m <= n * PowerOfTwo[e - d]
        BY <1>5, <2>2 DEF NoMore
    <2>4. m * k <= (n * PowerOfTwo[e - d]) * k
        BY <1>5, <2>3, Cancel
    <2>5. (n * PowerOfTwo[e - d]) * k = (n * k) * PowerOfTwo[e - d]
        BY <2>2
    <2> QED
        BY <1>1, <1>2, <1>5, <2>4, <2>5 DEF NoMore
<1> QED
    BY <1>3, <1>4, <1>5

(***************************************************************************)
(* Dividing, with the remainder cut off or rounded.                        *)
(***************************************************************************)
LEMMA Euclid ==
    ASSUME NEW a \in Nat, NEW c \in Nat \ {0}
    PROVE  a \div c \in Nat /\ a % c \in 0 .. c - 1 /\ a = (a \div c) * c + (a % c)
OBVIOUS

LEMMA QuotientAtLeast ==
    ASSUME NEW a \in Nat, NEW c \in Nat \ {0}, NEW n \in Nat
    PROVE  n * c <= a <=> n <= a \div c
<1> DEFINE q == a \div c
           r == a % c
<1>1. q \in Nat /\ r \in 0 .. c - 1 /\ a = q * c + r
    BY Euclid
<1> HIDE DEF q, r
<1>2. ASSUME n <= q PROVE n * c <= a
    <2>1. n * c <= q * c
        BY <1>1, <1>2, Cancel
    <2>2. n * c \in Nat /\ q * c \in Nat
        BY <1>1
    <2> QED
        BY <1>1, <2>1, <2>2
<1>3. ASSUME ~(n <= q) PROVE ~(n * c <= a)
    <2>1. (q + 1) * c <= n * c
        <3>1. q + 1 \in Nat /\ q + 1 <= n
            BY <1>1, <1>3
        <3> QED
            BY <3>1, Cancel
    <2>2. (q + 1) * c = q * c + c /\ n * c \in Nat /\ q * c \in Nat
        BY <1>1
    <2> QED
        BY <1>1, <2>1, <2>2
<1> QED
    BY <1>2, <1>3 DEF q

LEMMA ProductOrder ==
    ASSUME NEW a \in Nat, NEW b \in Nat, NEW c \in Nat, NEW d \in Nat, a <= b, c <= d
    PROVE  a * c <= b * d
<1>1. PICK x \in Nat : b = a + x
    <2>1. b - a \in Nat /\ b = a + (b - a)
        OBVIOUS
    <2> QED
        BY <2>1
<1>2. PICK y \in Nat : d = c + y
    <2>1. d - c \in Nat /\ d = c + (d - c)
        OBVIOUS
    <2> QED
        BY <2>1
<1>3. b * d = a * c + (a * y + x * c + x * y)
    BY <1>1, <1>2
<1>4. a * c \in Nat /\ a * y \in Nat /\ x * c \in Nat /\ x * y \in Nat
    OBVIOUS
<1> QED
    BY <1>3, <1>4

\* a / c <= b / d
LEMMA DivMonotone ==
    ASSUME NEW a \in Nat, NEW b \in Nat, NEW c \in Nat \ {0}, NEW d \in Nat \ {0},
           a * d <= b * c
    PROVE  a \div c <= b \div d
<1> DEFINE q == a \div c
           s == b \div d
           r == a % c
           t == b % d
<1>1. /\ q \in Nat /\ r \in Nat /\ r < c /\ a = q * c + r
      /\ s \in Nat /\ t \in Nat /\ t < d /\ b = s * d + t
    BY Euclid
<1> HIDE DEF q, s, r, t
<1>2. SUFFICES ASSUME ~(q <= s) PROVE FALSE
    BY DEF q, s
<1>3. s + 1 <= q
    BY <1>1, <1>2
<1>4. (s + 1) * (c * d) <= q * (c * d)
    <2>1. c * d \in Nat \ {0}
        OBVIOUS
    <2> QED
        BY <1>1, <1>3, <2>1, Cancel
<1>5. q * (c * d) <= a * d
    <2>1. a * d = q * (c * d) + r * d
        BY <1>1
    <2>2. q * (c * d) \in Nat /\ r * d \in Nat
        BY <1>1
    <2> QED
        BY <2>1, <2>2
<1>6. b * c < (s + 1) * (c * d)
    <2>1. t * c < d * c
        <3>1. ~(d <= t)
            BY <1>1
        <3>2. ~(d * c <= t * c)
            BY <1>1, <3>1, Cancel
        <3>3. d * c \in Nat /\ t * c \in Nat
            BY <1>1
        <3> QED
            BY <3>2, <3>3
    <2>2. b * c = s * (c * d) + t * c /\ (s + 1) * (c * d) = s * (c * d) + d * c
        BY <1>1
    <2>3. s * (c * d) \in Nat /\ t * c \in Nat /\ d * c \in Nat
        BY <1>1
    <2> QED
        BY <2>1, <2>2, <2>3
<1>7. /\ (s + 1) * (c * d) \in Nat /\ q * (c * d) \in Nat
      /\ a * d \in Nat /\ b * c \in Nat
    BY <1>1
<1> QED
    BY <1>4, <1>5, <1>6, <1>7

LEMMA RoundedIsNat ==
    ASSUME NEW a \in Nat, NEW c \in Nat \ {0}
    PROVE  RoundTiesToEven(a, c) \in Nat
BY Euclid DEF RoundTiesToEven

LEMMA RoundedWhole == \A a \in Nat : RoundTiesToEven(a, 1) = a
<1> TAKE a \in Nat
<1>1. a \div 1 = a /\ a % 1 = 0
    BY Euclid
<1> QED
    BY <1>1 DEF RoundTiesToEven

LEMMA RoundingMonotone ==
    ASSUME NEW a \in Nat, NEW b \in Nat, NEW c \in Nat \ {0}, NEW d \in Nat \ {0},
           a * d <= b * c
    PROVE  RoundTiesToEven(a, c) <= RoundTiesToEven(b, d)
<1> DEFINE q == a \div c
           s == b \div d
           r == a % c
           t == b % d
           RoundsUp(quotient, rest, divisor) ==
               2 * rest > divisor \/ (2 * rest = divisor /\ quotient % 2 = 1)
<1>1. /\ q \in Nat /\ r \in Nat /\ r < c /\ a = q * c + r
      /\ s \in Nat /\ t \in Nat /\ t < d /\ b = s * d + t
    BY Euclid
<1>2. q <= s
    BY DivMonotone
<1>3. /\ RoundTiesToEven(a, c) = IF RoundsUp(q, r, c) THEN q + 1 ELSE q
      /\ RoundTiesToEven(b, d) = IF RoundsUp(s, t, d) THEN s + 1 ELSE s
    BY DEF RoundTiesToEven
<1> HIDE DEF q, s, r, t
<1>4. CASE q < s
    <2>1. q + 1 <= s
        BY <1>1, <1>4
    <2> HIDE DEF RoundsUp
    <2> QED
        BY <1>1, <1>3, <2>1
<1>5. CASE q = s
    <2>1. r * d <= t * c
        <3>1. a * d = q * (c * d) + r * d /\ b * c = q * (c * d) + t * c
            BY <1>1, <1>5
        <3>2. q * (c * d) \in Nat /\ r * d \in Nat /\ t * c \in Nat
            BY <1>1
        <3> QED
            BY <3>1, <3>2
    <2>2. (2 * r) * d <= (2 * t) * c
        <3>1. (2 * r) * d = 2 * (r * d) /\ (2 * t) * c = 2 * (t * c)
            BY <1>1
        <3>2. r * d \in Nat /\ t * c \in Nat
            BY <1>1
        <3> QED
            BY <2>1, <3>1, <3>2
    <2>3. 2 * r > c => 2 * t > d
        <3>1. SUFFICES ASSUME ~(2 * r <= c), 2 * t <= d PROVE FALSE
            BY <1>1
        <3>2. ~((2 * r) * d <= c * d)
            BY <1>1, <3>1, Cancel
        <3>3. (2 * t) * c <= d * c
            BY <1>1, <3>1, Cancel
        <3>4. (2 * r) * d \in Nat /\ (2 * t) * c \in Nat /\ c * d \in Nat /\ c * d = d * c
            BY <1>1
        <3> QED
            BY <2>2, <3>2, <3>3, <3>4
    <2>4. 2 * r = c => 2 * t >= d
        <3>1. SUFFICES ASSUME 2 * r = c, ~(d <= 2 * t) PROVE FALSE
            BY <1>1
        <3>2. ~(d * c <= (2 * t) * c)
            BY <1>1, <3>1, Cancel
        <3>3. (2 * r) * d = d * c
            BY <1>1, <3>1
        <3> QED
            BY <2>2, <3>2, <3>3
    <2>5. RoundsUp(q, r, c) => RoundsUp(s, t, d)
        BY <1>1, <1>5, <2>3, <2>4
    <2> HIDE DEF RoundsUp
    <2> QED
        BY <1>1, <1>3, <1>5, <2>5
<1> QED
    BY <1>1, <1>2, <1>4, <1>5

(***************************************************************************)
(* The nearest float.  Its mantissa is a quotient, rounded, that lies      *)
(* between HiddenBit and twice HiddenBit.                                  *)
(***************************************************************************)
Shift(n)     == BitLength[n] - MantissaBits
Numerator(n) == IF Shift(n) <= 0 THEN n * PowerOfTwo[-Shift(n)] ELSE n
Divisor(n)   == IF Shift(n) <= 0 THEN 1 ELSE PowerOfTwo[Shift(n)]
Significand(n) == RoundTiesToEven(Numerator(n), Divisor(n))

LEMMA HiddenBitFacts ==
    HiddenBit \in Nat \ {0} /\ PowerOfTwo[MantissaBits] = 2 * HiddenBit
<1>1. MantissaBits - 1 \in Nat /\ MantissaBits = (MantissaBits - 1) + 1
    BY MantissaAssumption
<1> QED
    BY <1>1, PowerOfTwoFacts DEF HiddenBit

LEMMA ShiftType ==
    ASSUME NEW n \in Nat \ {0}
    PROVE  /\ Shift(n) \in Int
           /\ Numerator(n) \in Nat /\ Divisor(n) \in Nat \ {0}
<1>1. Shift(n) \in Int
    BY BitLengthFacts, MantissaAssumption DEF Shift
<1>2. CASE Shift(n) <= 0
    <2>1. -Shift(n) \in Nat
        BY <1>1, <1>2
    <2>2. PowerOfTwo[-Shift(n)] \in Nat
        BY <2>1, PowerOfTwoFacts
    <2> QED
        BY <1>1, <1>2, <2>2 DEF Numerator, Divisor
<1>3. CASE ~(Shift(n) <= 0)
    BY <1>1, <1>3, PowerOfTwoFacts DEF Numerator, Divisor
<1> QED
    BY <1>1, <1>2, <1>3

LEMMA SignificandBounds ==
    ASSUME NEW n \in Nat \ {0}
    PROVE  HiddenBit * Divisor(n) <= Numerator(n) /\ Numerator(n) <= (2 * HiddenBit) * Divisor(n)
<1> DEFINE L == BitLength[n]
           k == Shift(n)
<1>1. L \in Nat \ {0} /\ PowerOfTwo[L - 1] <= n /\ n < PowerOfTwo[L]
    BY BitLengthFacts
<1>2. k = L - MantissaBits /\ k \in Int
    BY <1>1, MantissaAssumption DEF Shift
<1> HIDE DEF L, k
<1>3. MantissaBits \in Nat \ {0} /\ L - 1 \in Nat /\ MantissaBits - 1 \in Nat
    BY <1>1, MantissaAssumption
<1>4. /\ HiddenBit = PowerOfTwo[MantissaBits - 1]
      /\ HiddenBit \in Nat \ {0} /\ 2 * HiddenBit = PowerOfTwo[MantissaBits]
    BY HiddenBitFacts DEF HiddenBit
<1> QED
    <2>1. CASE k <= 0
        <3>1. -k \in Nat
            BY <1>2, <2>1
        <3>2. Divisor(n) = 1 /\ Numerator(n) = n * PowerOfTwo[-k]
            BY <2>1 DEF Divisor, Numerator, k
        <3>3. MantissaBits - 1 = (L - 1) + -k /\ MantissaBits = L + -k
            BY <1>1, <1>2, <1>3
        <3>4. /\ HiddenBit = PowerOfTwo[L - 1] * PowerOfTwo[-k]
              /\ 2 * HiddenBit = PowerOfTwo[L] * PowerOfTwo[-k]
            <4>1. /\ PowerOfTwo[(L - 1) + -k] = PowerOfTwo[L - 1] * PowerOfTwo[-k]
                  /\ PowerOfTwo[L + -k] = PowerOfTwo[L] * PowerOfTwo[-k]
                BY <1>1, <1>3, <3>1, PowerOfSum
            <4> QED
                BY <1>4, <3>3, <4>1
        <3>5. /\ PowerOfTwo[L - 1] \in Nat /\ PowerOfTwo[L] \in Nat
              /\ PowerOfTwo[-k] \in Nat \ {0}
            BY <1>1, <1>3, <3>1, PowerOfTwoFacts
        <3>6. PowerOfTwo[L - 1] * PowerOfTwo[-k] <= n * PowerOfTwo[-k]
            BY <1>1, <3>5, Cancel
        <3>7. n * PowerOfTwo[-k] <= PowerOfTwo[L] * PowerOfTwo[-k]
            <4>1. n <= PowerOfTwo[L]
                BY <1>1, <3>5
            <4> QED
                BY <4>1, <3>5, Cancel
        <3> QED
            BY <1>4, <3>2, <3>4, <3>6, <3>7
    <2>2. CASE ~(k <= 0)
        <3>1. k \in Nat
            BY <1>2, <2>2
        <3>2. Divisor(n) = PowerOfTwo[k] /\ Numerator(n) = n
            BY <2>2 DEF Divisor, Numerator, k
        <3>3. (MantissaBits - 1) + k = L - 1 /\ MantissaBits + k = L
            BY <1>1, <1>2, <1>3
        <3>4. /\ HiddenBit * PowerOfTwo[k] = PowerOfTwo[L - 1]
              /\ (2 * HiddenBit) * PowerOfTwo[k] = PowerOfTwo[L]
            <4>1. /\ PowerOfTwo[(MantissaBits - 1) + k] = HiddenBit * PowerOfTwo[k]
                  /\ PowerOfTwo[MantissaBits + k] = (2 * HiddenBit) * PowerOfTwo[k]
                <5>1. /\ PowerOfTwo[(MantissaBits - 1) + k] = PowerOfTwo[MantissaBits - 1] * PowerOfTwo[k]
                      /\ PowerOfTwo[MantissaBits + k] = PowerOfTwo[MantissaBits] * PowerOfTwo[k]
                    BY <1>3, <3>1, PowerOfSum
                <5> QED
                    BY <1>4, <5>1
            <4> QED
                BY <3>3, <4>1
        <3>5. PowerOfTwo[L] \in Nat
            BY <1>1, PowerOfTwoFacts
        <3> QED
            BY <1>1, <3>2, <3>4, <3>5
    <2> QED
        BY <2>1, <2>2

LEMMA SignificandRange ==
    ASSUME NEW n \in Nat \ {0}
    PROVE  Significand(n) \in HiddenBit .. 2 * HiddenBit
<1>1. HiddenBit \in Nat \ {0}
    BY HiddenBitFacts
<1>2. HiddenBit * Divisor(n) <= Numerator(n) /\ Numerator(n) <= (2 * HiddenBit) * Divisor(n)
    BY SignificandBounds
<1>3. Numerator(n) \in Nat /\ Divisor(n) \in Nat \ {0}
    BY ShiftType
<1>4. RoundTiesToEven(HiddenBit, 1) <= Significand(n)
    <2>1. HiddenBit * Divisor(n) <= Numerator(n) * 1
        BY <1>2, <1>3
    <2> QED
        BY <1>1, <1>3, <2>1, RoundingMonotone DEF Significand
<1>5. Significand(n) <= RoundTiesToEven(2 * HiddenBit, 1)
    <2>1. Numerator(n) * 1 <= (2 * HiddenBit) * Divisor(n) /\ 2 * HiddenBit \in Nat
        BY <1>1, <1>2, <1>3
    <2> QED
        BY <1>3, <2>1, RoundingMonotone DEF Significand
<1>6. Significand(n) \in Nat
    BY <1>3, RoundedIsNat DEF Significand
<1>7. /\ RoundTiesToEven(HiddenBit, 1) = HiddenBit
       /\ RoundTiesToEven(2 * HiddenBit, 1) = 2 * HiddenBit
    BY <1>1, RoundedWhole
<1> QED
    BY <1>1, <1>4, <1>5, <1>6, <1>7

LEMMA NearestBySignificand ==
    ASSUME NEW n \in Nat \ {0}, NEW e \in Int
    PROVE  Nearest(n, e) = IF Significand(n) = 2 * HiddenBit
                           THEN [m |-> HiddenBit, e |-> e + Shift(n) + 1]
                           ELSE [m |-> Significand(n), e |-> e + Shift(n)]
<1> DEFINE m == IF Shift(n) <= 0 THEN n * PowerOfTwo[-Shift(n)]
                                 ELSE RoundTiesToEven(n, PowerOfTwo[Shift(n)])
<1>1. m = Significand(n)
    <2>1. CASE Shift(n) <= 0
        BY <2>1, ShiftType, RoundedWhole DEF Significand, Numerator, Divisor
    <2>2. CASE ~(Shift(n) <= 0)
        BY <2>2 DEF Significand, Numerator, Divisor
    <2> QED
        BY <2>1, <2>2
<1>2. Nearest(n, e) = IF m \in Mantissas THEN [m |-> m, e |-> e + Shift(n)]
                                          ELSE [m |-> HiddenBit, e |-> e + Shift(n) + 1]
    BY DEF Nearest, Shift
<1>3. Significand(n) \in Mantissas <=> Significand(n) # 2 * HiddenBit
    BY SignificandRange, HiddenBitFacts DEF Mantissas
<1> HIDE DEF m
<1> QED
    BY <1>1, <1>2, <1>3

LEMMA NearestType ==
    ASSUME NEW n \in Nat, NEW e \in Int
    PROVE  /\ Nearest(n, e) \in Float
           /\ n # 0 => Nearest(n, e) \in PositiveFloat
<1>1. CASE n = 0
    BY <1>1 DEF Nearest, Float
<1>2. CASE n # 0
    <2>1. Shift(n) \in Int /\ HiddenBit \in Nat \ {0}
        BY <1>2, ShiftType, HiddenBitFacts
    <2>2. HiddenBit \in Mantissas
        BY <2>1 DEF Mantissas
    <2>3. Significand(n) # 2 * HiddenBit => Significand(n) \in Mantissas
        BY <1>2, <2>1, SignificandRange DEF Mantissas
    <2> QED
        BY <1>2, <2>1, <2>2, <2>3, NearestBySignificand DEF Float, PositiveFloat
<1> QED
    BY <1>1, <1>2

\* Up to the place of the mantissa, the nearest float is the significand.
LEMMA NearestIsSignificand ==
    ASSUME NEW n \in Nat \ {0}, NEW e \in Int
    PROVE  /\ NoMore(Nearest(n, e).m, Nearest(n, e).e, Significand(n), e + Shift(n))
           /\ NoMore(Significand(n), e + Shift(n), Nearest(n, e).m, Nearest(n, e).e)
<1> DEFINE E == e + Shift(n)
<1>1. E \in Int
    BY ShiftType
<1>2. Significand(n) \in Nat /\ HiddenBit \in Nat
    BY SignificandRange, HiddenBitFacts
<1>3. CASE Significand(n) = 2 * HiddenBit
    <2>1. Nearest(n, e).m = HiddenBit /\ Nearest(n, e).e = E + 1
        BY <1>3, NearestBySignificand
    <2>2. PowerOfTwo[1] = 2
        BY PowerOfTwoFacts
    <2> HIDE DEF E
    <2>3. (E + 1) - E = 1 /\ E + 1 >= E /\ ~(E >= E + 1)
        BY <1>1
    <2> QED
        BY <1>2, <1>3, <2>1, <2>2, <2>3 DEF NoMore, E
<1>4. CASE Significand(n) # 2 * HiddenBit
    <2>1. Nearest(n, e).m = Significand(n) /\ Nearest(n, e).e = E
        BY <1>4, NearestBySignificand
    <2>2. NoMore(Significand(n), E, Significand(n), E)
        BY <1>1, <1>2, NoMoreAtSame
    <2> QED
        BY <2>1, <2>2
<1> QED
    BY <1>3, <1>4

\* Before rounding, the significand is exact.
LEMMA ExactSignificand ==
    ASSUME NEW n \in Nat \ {0}, NEW e \in Int, NEW base \in Int,
           base <= e, base <= e + Shift(n)
    PROVE  (n * PowerOfTwo[e - base]) * Divisor(n)
               = Numerator(n) * PowerOfTwo[e + Shift(n) - base]
<1> DEFINE k == Shift(n)
           b == e - base
<1>1. k \in Int /\ b \in Nat /\ e + k - base = b + k /\ b + k \in Nat
    BY ShiftType
<1>2. PowerOfTwo[b] \in Nat /\ PowerOfTwo[b + k] \in Nat
    BY <1>1, PowerOfTwoFacts
<1>3. CASE k <= 0
    <2>1. Divisor(n) = 1 /\ Numerator(n) = n * PowerOfTwo[-k]
        BY <1>3 DEF Divisor, Numerator
    <2> HIDE DEF k, b
    <2>2. -k \in Nat /\ -k + (b + k) = b
        BY <1>1, <1>3
    <2>3. PowerOfTwo[-k + (b + k)] = PowerOfTwo[-k] * PowerOfTwo[b + k] /\ PowerOfTwo[-k] \in Nat
        BY <1>1, <2>2, PowerOfSum, PowerOfTwoFacts
    <2>4. (n * PowerOfTwo[b]) * 1 = (n * PowerOfTwo[-k]) * PowerOfTwo[b + k]
        BY <1>2, <2>2, <2>3
    <2> QED
        BY <1>1, <2>1, <2>4 DEF k, b
<1>4. CASE ~(k <= 0)
    <2>1. Divisor(n) = PowerOfTwo[k] /\ Numerator(n) = n
        BY <1>4 DEF Divisor, Numerator
    <2> HIDE DEF k, b
    <2>2. k \in Nat
        BY <1>1, <1>4
    <2>3. PowerOfTwo[b + k] = PowerOfTwo[b] * PowerOfTwo[k] /\ PowerOfTwo[k] \in Nat
        BY <1>1, <2>2, PowerOfSum, PowerOfTwoFacts
    <2>4. (n * PowerOfTwo[b]) * PowerOfTwo[k] = n * PowerOfTwo[b + k]
        BY <1>2, <2>3
    <2> QED
        BY <1>1, <2>1, <2>4 DEF k, b
<1> QED
    BY <1>3, <1>4

LEMMA PowersGrow ==
    ASSUME NEW i \in Nat, NEW j \in Nat, i <= j
    PROVE  PowerOfTwo[i] <= PowerOfTwo[j]
<1>1. j - i \in Nat /\ j = i + (j - i)
    OBVIOUS
<1>2. PowerOfTwo[j] = PowerOfTwo[i] * PowerOfTwo[j - i]
    <2>1. PowerOfTwo[i + (j - i)] = PowerOfTwo[i] * PowerOfTwo[j - i]
        BY <1>1, PowerOfSum
    <2> QED
        BY <1>1, <2>1
<1>3. PowerOfTwo[i] \in Nat /\ PowerOfTwo[j - i] \in Nat /\ 1 <= PowerOfTwo[j - i]
    BY <1>1, PowerOfTwoFacts
<1>4. PowerOfTwo[i] * 1 <= PowerOfTwo[i] * PowerOfTwo[j - i]
    BY <1>3, ProductOrder
<1> QED
    BY <1>2, <1>3, <1>4

LEMMA NothingBelowZero ==
    /\ \A n \in Nat, d, e \in Int : NoMore(0, d, n, e)
    /\ \A m \in Nat, d, e \in Int : NoMore(m, d, 0, e) => m = 0
<1> SUFFICES ASSUME NEW n \in Nat, NEW d \in Int, NEW e \in Int
             PROVE  NoMore(0, d, n, e) /\ (NoMore(n, d, 0, e) => n = 0)
    OBVIOUS
<1>1. CASE d >= e
    <2>1. d - e \in Nat
        BY <1>1
    <2>2. PowerOfTwo[d - e] \in Nat \ {0}
        BY <2>1, PowerOfTwoFacts
    <2>3. 0 * PowerOfTwo[d - e] = 0 /\ (n # 0 => n * PowerOfTwo[d - e] \in Nat \ {0})
        BY <2>2
    <2>4. n * PowerOfTwo[d - e] <= 0 => n = 0
        BY <2>3
    <2> QED
        BY <1>1, <2>3, <2>4 DEF NoMore
<1>2. CASE ~(d >= e)
    <2>1. e - d \in Nat
        BY <1>2
    <2>2. PowerOfTwo[e - d] \in Nat \ {0}
        BY <2>1, PowerOfTwoFacts
    <2>3. 0 * PowerOfTwo[e - d] = 0 /\ 0 <= n * PowerOfTwo[e - d]
        BY <2>2
    <2> QED
        BY <1>2, <2>3 DEF NoMore
<1> QED
    BY <1>1, <1>2

\* A smaller number has no higher place.
LEMMA ShiftMonotone ==
    ASSUME NEW m \in Nat \ {0}, NEW d \in Int, NEW n \in Nat \ {0}, NEW e \in Int,
           NoMore(m, d, n, e)
    PROVE  d + Shift(m) <= e + Shift(n)
<1> DEFINE L == BitLength[m]
           K == BitLength[n]
<1>1. /\ L \in Nat \ {0} /\ PowerOfTwo[L - 1] <= m
      /\ K \in Nat \ {0} /\ n < PowerOfTwo[K]
    BY BitLengthFacts
<1>2. Shift(m) = L - MantissaBits /\ Shift(n) = K - MantissaBits
    BY DEF Shift
<1> HIDE DEF L, K
<1>3. SUFFICES ASSUME K + e <= (L - 1) + d PROVE FALSE
    BY <1>1, <1>2, MantissaAssumption
<1>4. PICK base \in Int : base <= d /\ base <= e
    <2>1. CASE d <= e
        BY <2>1
    <2>2. CASE e <= d
        BY <2>2
    <2> QED
        BY <2>1, <2>2
<1> DEFINE x == d - base
           y == e - base
<1>5. x \in Nat /\ y \in Nat /\ K + y <= (L - 1) + x /\ L - 1 \in Nat
    BY <1>1, <1>3, <1>4
<1>6. m * PowerOfTwo[x] <= n * PowerOfTwo[y]
    BY <1>4, CommonBase
<1> HIDE DEF x, y
<1>7. /\ PowerOfTwo[x] \in Nat \ {0} /\ PowerOfTwo[y] \in Nat \ {0}
      /\ PowerOfTwo[L - 1] \in Nat /\ PowerOfTwo[K] \in Nat
    BY <1>1, <1>5, PowerOfTwoFacts
<1>8. PowerOfTwo[L - 1] * PowerOfTwo[x] <= m * PowerOfTwo[x]
    BY <1>1, <1>7, Cancel
<1>9. ~(PowerOfTwo[K] * PowerOfTwo[y] <= n * PowerOfTwo[y])
    <2>1. ~(PowerOfTwo[K] <= n)
        BY <1>1, <1>7
    <2> QED
        BY <1>7, <2>1, Cancel
<1>10. PowerOfTwo[K] * PowerOfTwo[y] <= PowerOfTwo[L - 1] * PowerOfTwo[x]
    <2>1. PowerOfTwo[K + y] <= PowerOfTwo[(L - 1) + x]
        <3>1. K + y \in Nat /\ (L - 1) + x \in Nat
            BY <1>1, <1>5
        <3> QED
            BY <1>5, <3>1, PowersGrow
    <2>2. PowerOfTwo[K + y] = PowerOfTwo[K] * PowerOfTwo[y]
        BY <1>1, <1>5, PowerOfSum
    <2>3. PowerOfTwo[(L - 1) + x] = PowerOfTwo[L - 1] * PowerOfTwo[x]
        BY <1>5, PowerOfSum
    <2> QED
        BY <2>1, <2>2, <2>3
<1>11. /\ PowerOfTwo[L - 1] * PowerOfTwo[x] \in Nat /\ m * PowerOfTwo[x] \in Nat
       /\ PowerOfTwo[K] * PowerOfTwo[y] \in Nat /\ n * PowerOfTwo[y] \in Nat
    BY <1>7
<1> QED
    BY <1>6, <1>8, <1>9, <1>10, <1>11

\* At the same place, the order of the numbers is that of the significands.
LEMMA SignificandMonotone ==
    ASSUME NEW m \in Nat \ {0}, NEW d \in Int, NEW n \in Nat \ {0}, NEW e \in Int,
           NoMore(m, d, n, e), d + Shift(m) = e + Shift(n)
    PROVE  Significand(m) <= Significand(n)
<1>1. Shift(m) \in Int /\ Shift(n) \in Int
    BY ShiftType
<1>2. PICK E \in Int : E = e + Shift(n) /\ E = d + Shift(m)
    BY <1>1
<1>3. PICK base \in Int : base <= d /\ base <= e /\ base <= E
    <2>1. CASE d <= e /\ d <= E
        BY <2>1
    <2>2. CASE e <= d /\ e <= E
        BY <2>2
    <2>3. CASE E <= d /\ E <= e
        BY <1>2, <2>3
    <2> QED
        BY <1>2, <2>1, <2>2, <2>3
<1> DEFINE x == m * PowerOfTwo[d - base]
           y == n * PowerOfTwo[e - base]
           z == PowerOfTwo[E - base]
           a == Numerator(m)
           b == Numerator(n)
           u == Divisor(m)
           v == Divisor(n)
<1>4. x * u = a * z
    <2>1. base <= d + Shift(m)
        BY <1>2, <1>3
    <2>2. (m * PowerOfTwo[d - base]) * Divisor(m)
              = Numerator(m) * PowerOfTwo[d + Shift(m) - base]
        BY <1>3, <2>1, ExactSignificand
    <2>3. PowerOfTwo[d + Shift(m) - base] = PowerOfTwo[E - base]
        BY <1>1, <1>2
    <2> QED
        BY <2>2, <2>3
<1>5. y * v = b * z
    <2>1. base <= e + Shift(n)
        BY <1>2, <1>3
    <2>2. (n * PowerOfTwo[e - base]) * Divisor(n)
              = Numerator(n) * PowerOfTwo[e + Shift(n) - base]
        BY <1>3, <2>1, ExactSignificand
    <2>3. PowerOfTwo[e + Shift(n) - base] = PowerOfTwo[E - base]
        BY <1>1, <1>2
    <2> QED
        BY <2>2, <2>3
<1>6. x <= y
    BY <1>3, CommonBase
<1>7. a \in Nat /\ b \in Nat /\ u \in Nat \ {0} /\ v \in Nat \ {0}
    BY ShiftType
<1>8. x \in Nat /\ y \in Nat /\ z \in Nat \ {0}
    <2>1. d - base \in Nat /\ e - base \in Nat /\ E - base \in Nat
        BY <1>2, <1>3
    <2>2. /\ PowerOfTwo[d - base] \in Nat /\ PowerOfTwo[e - base] \in Nat
          /\ PowerOfTwo[E - base] \in Nat \ {0}
        BY <2>1, PowerOfTwoFacts
    <2> QED
        BY <2>2
<1> HIDE DEF x, y, z, a, b, u, v
<1>9. a * v <= b * u
    <2>1. u * v \in Nat \ {0} /\ a * v \in Nat /\ b * u \in Nat
        BY <1>7
    <2>2. x * (u * v) <= y * (u * v)
        BY <1>6, <1>8, <2>1, Cancel
    <2>3. x * (u * v) = (a * v) * z
        <3>1. x * (u * v) = (x * u) * v
            BY <1>7, <1>8
        <3>2. (a * z) * v = (a * v) * z
            BY <1>7, <1>8
        <3> QED
            BY <1>4, <3>1, <3>2
    <2>4. y * (u * v) = (b * u) * z
        <3>1. y * (u * v) = (y * v) * u
            BY <1>7, <1>8
        <3>2. (b * z) * u = (b * u) * z
            BY <1>7, <1>8
        <3> QED
            BY <1>5, <3>1, <3>2
    <2> QED
        BY <1>8, <2>1, <2>2, <2>3, <2>4, Cancel
<1> QED
    BY <1>7, <1>9, RoundingMonotone DEF Significand, a, b, u, v

LEMMA NextPlace ==
    ASSUME NEW k \in Int, NEW l \in Int, k < l
    PROVE  NoMore(2 * HiddenBit, k, HiddenBit, l)
<1>1. l - k - 1 \in Nat /\ l - k \in Nat /\ l - k = (l - k - 1) + 1 /\ ~(k >= l)
    OBVIOUS
<1>2. PowerOfTwo[(l - k - 1) + 1] = 2 * PowerOfTwo[l - k - 1] /\ PowerOfTwo[l - k - 1] \in Nat \ {0}
    BY <1>1, PowerOfTwoFacts
<1>3. HiddenBit \in Nat
    BY HiddenBitFacts
<1>4. HiddenBit * 1 <= HiddenBit * PowerOfTwo[l - k - 1]
    <2>1. 1 <= PowerOfTwo[l - k - 1]
        BY <1>2
    <2> QED
        BY <1>2, <1>3, <2>1, ProductOrder
<1>5. HiddenBit * (2 * PowerOfTwo[l - k - 1]) = 2 * (HiddenBit * PowerOfTwo[l - k - 1])
    BY <1>2, <1>3
<1>6. HiddenBit * PowerOfTwo[l - k - 1] \in Nat
    BY <1>2, <1>3
<1>7. 2 * HiddenBit <= HiddenBit * PowerOfTwo[l - k]
    BY <1>1, <1>2, <1>3, <1>4, <1>5, <1>6
<1> QED
    BY <1>1, <1>7 DEF NoMore

AtMost(f, g) == NoMore(f.m, f.e, g.m, g.e)

LEMMA FloatParts ==
    /\ HiddenBit \in Nat \ {0}
    /\ \A f \in Float : f.m \in Nat /\ f.e \in Int
    /\ \A f \in PositiveFloat :
          /\ f \in Float /\ f.m \in Nat \ {0}
          /\ HiddenBit <= f.m /\ f.m <= 2 * HiddenBit
    /\ \A f \in Float : f \notin PositiveFloat => f = Zero
BY HiddenBitFacts DEF Float, PositiveFloat, Mantissas, Zero

\* The order of two floats is that of their places, then of their significands.
LEMMA PlacedOrder ==
    ASSUME NEW m \in Nat \ {0}, NEW d \in Int, NEW n \in Nat \ {0}, NEW e \in Int,
           d + Shift(m) <= e + Shift(n),
           d + Shift(m) = e + Shift(n) => Significand(m) <= Significand(n)
    PROVE  AtMost(Nearest(m, d), Nearest(n, e))
<1> DEFINE f == Nearest(m, d)
           g == Nearest(n, e)
           D == d + Shift(m)
           E == e + Shift(n)
           x == Significand(m)
           y == Significand(n)
<1>1. f.m \in Nat /\ f.e \in Int /\ g.m \in Nat /\ g.e \in Int
    <2>1. f \in Float /\ g \in Float
        BY NearestType
    <2> QED
        BY <2>1, FloatParts
<1>2. /\ D \in Int /\ E \in Int /\ D <= E /\ (D = E => x <= y)
      /\ x \in Nat /\ x <= 2 * HiddenBit /\ y \in Nat /\ HiddenBit <= y
    <2>1. Shift(m) \in Int /\ Shift(n) \in Int
        BY ShiftType
    <2>2. x \in HiddenBit .. 2 * HiddenBit /\ y \in HiddenBit .. 2 * HiddenBit
        BY SignificandRange
    <2> HIDE DEF x, y
    <2>3. x \in Nat /\ x <= 2 * HiddenBit /\ y \in Nat /\ HiddenBit <= y
        BY <2>2, FloatParts
    <2> QED
        BY <2>1, <2>3 DEF x, y
<1>3. NoMore(f.m, f.e, x, D) /\ NoMore(y, E, g.m, g.e)
    BY NearestIsSignificand
<1> HIDE DEF f, g, D, E, x, y
<1>4. NoMore(x, D, y, E)
    <2>1. CASE D = E
        BY <1>2, <2>1, NoMoreAtSame
    <2>2. CASE D # E
        <3>1. NoMore(x, D, 2 * HiddenBit, D) /\ NoMore(HiddenBit, E, y, E)
            BY <1>2, NoMoreAtSame, FloatParts
        <3>2. NoMore(2 * HiddenBit, D, HiddenBit, E)
            BY <1>2, <2>2, NextPlace
        <3>3. HiddenBit \in Nat /\ 2 * HiddenBit \in Nat
            BY FloatParts
        <3>4. NoMore(x, D, HiddenBit, E)
            BY <1>2, <3>1, <3>2, <3>3, NoMoreTransitive
        <3> QED
            BY <1>2, <3>1, <3>3, <3>4, NoMoreTransitive
    <2> QED
        BY <2>1, <2>2
<1>5. NoMore(f.m, f.e, y, E)
    BY <1>1, <1>2, <1>3, <1>4, NoMoreTransitive
<1>6. NoMore(f.m, f.e, g.m, g.e)
    BY <1>1, <1>2, <1>3, <1>5, NoMoreTransitive
<1> QED
    BY <1>6 DEF AtMost, f, g

LEMMA ZeroIsLeast == \A f \in Float : AtMost(Zero, f)
<1> TAKE f \in Float
<1>1. f.m \in Nat /\ f.e \in Int /\ Zero.m = 0 /\ Zero.e = 0
    BY FloatParts DEF Zero
<1> QED
    BY <1>1, NothingBelowZero DEF AtMost

LEMMA NearestMonotone ==
    ASSUME NEW m \in Nat, NEW d \in Int, NEW n \in Nat, NEW e \in Int, NoMore(m, d, n, e)
    PROVE  AtMost(Nearest(m, d), Nearest(n, e))
<1>1. CASE m = 0
    <2>1. Nearest(m, d) = Zero /\ Nearest(n, e) \in Float
        BY <1>1, NearestType DEF Nearest
    <2> QED
        BY <2>1, ZeroIsLeast
<1>2. CASE m # 0
    <2>1. n # 0
        BY <1>2, NothingBelowZero
    <2>2. d + Shift(m) <= e + Shift(n)
        BY <1>2, <2>1, ShiftMonotone
    <2>3. d + Shift(m) = e + Shift(n) => Significand(m) <= Significand(n)
        BY <1>2, <2>1, SignificandMonotone
    <2> QED
        BY <1>2, <2>1, <2>2, <2>3, PlacedOrder
<1> QED
    BY <1>1, <1>2

LEMMA TimesMonotone ==
    ASSUME NEW a \in Float, NEW b \in Float, NEW c \in Float, AtMost(a, b)
    PROVE  AtMost(Times(a, c), Times(b, c))
<1>1. /\ a.m \in Nat /\ a.e \in Int /\ b.m \in Nat /\ b.e \in Int
      /\ c.m \in Nat /\ c.e \in Int
    BY FloatParts
<1>2. NoMore(a.m * c.m, a.e + c.e, b.m * c.m, b.e + c.e)
    BY <1>1, NoMoreTimes DEF AtMost
<1>3. a.m * c.m \in Nat /\ b.m * c.m \in Nat /\ a.e + c.e \in Int /\ b.e + c.e \in Int
    BY <1>1
<1> QED
    BY <1>2, <1>3, NearestMonotone DEF Times

LEMMA TimesType ==
    ASSUME NEW a \in Float, NEW b \in Float
    PROVE  Times(a, b) \in Float
<1>1. a.m \in Nat /\ a.e \in Int /\ b.m \in Nat /\ b.e \in Int
    BY FloatParts
<1>2. a.m * b.m \in Nat /\ a.e + b.e \in Int
    BY <1>1
<1> QED
    BY <1>2, NearestType DEF Times
-----------------------------------------------------------------------------
(***************************************************************************)
(* DividedBy rounds the quotient that was cut off after the guard bits and *)
(* got the sticky bit as it would round the exact one.                     *)
(***************************************************************************)
Sticky(n, c) == 2 * (n \div c) + (IF n % c = 0 THEN 0 ELSE 1)

LEMMA StickySize ==
    ASSUME NEW n \in Nat, NEW c \in Nat \ {0}, NEW k \in Nat
    PROVE  2 * k <= Sticky(n, c) <=> c * k <= n
<1> DEFINE q == n \div c
           r == n % c
<1>1. q \in Nat /\ r \in Nat /\ r <= c - 1 /\ n = q * c + r
    <2>1. q \in Nat /\ r \in 0 .. c - 1 /\ n = q * c + r
        BY Euclid
    <2> HIDE DEF q, r
    <2> QED
        BY <2>1
<1>2. Sticky(n, c) = 2 * q \/ Sticky(n, c) = 2 * q + 1
    BY <1>1 DEF Sticky
<1> HIDE DEF q, r
<1>3. 2 * k <= Sticky(n, c) <=> k <= q
    BY <1>1, <1>2
<1>4. k <= q => c * k <= n
    <2> HAVE k <= q
    <2>1. k * c <= q * c
        BY <1>1, Cancel
    <2>2. k * c \in Nat /\ q * c \in Nat /\ c * k = k * c
        BY <1>1
    <2> QED
        BY <1>1, <2>1, <2>2
<1>5. c * k <= n => k <= q
    <2> SUFFICES ASSUME q + 1 <= k PROVE ~(c * k <= n)
        BY <1>1
    <2>1. (q + 1) * c <= k * c
        BY <1>1, Cancel
    <2>2. k * c \in Nat /\ q * c \in Nat /\ c * k = k * c /\ (q + 1) * c = q * c + c
        BY <1>1
    <2> QED
        BY <1>1, <2>1, <2>2
<1> QED
    BY <1>3, <1>4, <1>5

\* A quotient and remainder are the ones of the division.
LEMMA DivisionIs ==
    ASSUME NEW n \in Nat, NEW c \in Nat \ {0}, NEW q \in Nat, NEW r \in 0 .. c - 1,
           n = q * c + r
    PROVE  n \div c = q /\ n % c = r
<1> DEFINE t == n \div c
           u == n % c
<1>1. t \in Nat /\ u \in Nat /\ u <= c - 1 /\ n = t * c + u
    <2>1. t \in Nat /\ u \in 0 .. c - 1 /\ n = t * c + u
        BY Euclid
    <2> HIDE DEF t, u
    <2> QED
        BY <2>1
<1> HIDE DEF t, u
<1>2. q * c \in Nat /\ t * c \in Nat
    BY <1>1
<1>3. ~(q + 1 <= t)
    <2> SUFFICES ASSUME q + 1 <= t PROVE FALSE
        OBVIOUS
    <2>1. (q + 1) * c <= t * c
        BY <1>1, Cancel
    <2>2. (q + 1) * c = q * c + c
        OBVIOUS
    <2> QED
        BY <1>1, <1>2, <2>1, <2>2
<1>4. ~(t + 1 <= q)
    <2> SUFFICES ASSUME t + 1 <= q PROVE FALSE
        OBVIOUS
    <2>1. (t + 1) * c <= q * c
        BY <1>1, Cancel
    <2>2. (t + 1) * c = t * c + c
        BY <1>1
    <2> QED
        BY <1>1, <1>2, <2>1, <2>2
<1>5. t = q
    BY <1>1, <1>3, <1>4
<1>6. u = r
    BY <1>1, <1>2, <1>5
<1> QED
    BY <1>5, <1>6 DEF t, u

LEMMA StickyRounding ==
    ASSUME NEW n \in Nat, NEW c \in Nat \ {0}, NEW h \in Nat \ {0}
    PROVE  RoundTiesToEven(Sticky(n, c), 4 * h) = RoundTiesToEven(n, c * (2 * h))
<1> DEFINE q == n \div c
           r == n % c
           s == IF r = 0 THEN 0 ELSE 1
           Q == q \div (2 * h)
           R == q % (2 * h)
<1>1. q \in Nat /\ r \in Nat /\ r <= c - 1 /\ n = q * c + r
    <2>1. q \in Nat /\ r \in 0 .. c - 1 /\ n = q * c + r
        BY Euclid
    <2> HIDE DEF q, r
    <2> QED
        BY <2>1
<1>2. 2 * h \in Nat \ {0}
    OBVIOUS
<1>3. Q \in Nat /\ R \in Nat /\ R <= 2 * h - 1 /\ q = Q * (2 * h) + R
    <2> HIDE DEF q
    <2>1. Q \in Nat /\ R \in 0 .. 2 * h - 1 /\ q = Q * (2 * h) + R
        BY <1>1, <1>2, Euclid
    <2> QED
        BY <1>2, <2>1
<1>4. Sticky(n, c) = 2 * q + s
    BY DEF Sticky
<1>5. s \in 0 .. 1 /\ (s = 0 <=> r = 0)
    OBVIOUS
<1> HIDE DEF q, r, s, Q, R
<1>6. Sticky(n, c) \div (4 * h) = Q /\ Sticky(n, c) % (4 * h) = 2 * R + s
    <2>1. Q * (2 * h) \in Nat /\ Q * (4 * h) = 2 * (Q * (2 * h)) /\ 4 * h \in Nat \ {0}
        BY <1>3
    <2>2. Sticky(n, c) = Q * (4 * h) + (2 * R + s)
        BY <1>1, <1>3, <1>4, <1>5, <2>1
    <2>3. Sticky(n, c) \in Nat
        BY <1>1, <1>4, <1>5
    <2>4. 2 * R + s \in 0 .. 4 * h - 1
        BY <1>3, <1>5
    <2> QED
        BY <1>3, <2>1, <2>2, <2>3, <2>4, DivisionIs
<1>7. R * c \in Nat /\ c * (2 * h) \in Nat \ {0} /\ c * h \in Nat /\ c * (2 * h) = 2 * (c * h)
    BY <1>3
<1>8. n \div (c * (2 * h)) = Q /\ n % (c * (2 * h)) = R * c + r
    <2>1. n = Q * (c * (2 * h)) + (R * c + r)
        <3>1. q * c = (Q * (2 * h)) * c + R * c
            BY <1>3
        <3>2. (Q * (2 * h)) * c = Q * (c * (2 * h))
            BY <1>3
        <3>3. Q * (c * (2 * h)) \in Nat
            BY <1>3, <1>7
        <3> QED
            BY <1>1, <1>7, <3>1, <3>2, <3>3
    <2>2. R * c + r \in 0 .. (c * (2 * h)) - 1
        <3>1. (R + 1) * c <= (2 * h) * c
            BY <1>2, <1>3, Cancel
        <3>2. (R + 1) * c = R * c + c /\ (2 * h) * c = c * (2 * h)
            BY <1>3
        <3> QED
            BY <1>1, <1>7, <3>1, <3>2
    <2> QED
        BY <1>3, <1>7, <2>1, <2>2, DivisionIs
<1>9. /\ 2 * (2 * R + s) > 4 * h <=> R > h \/ (R = h /\ r # 0)
      /\ 2 * (2 * R + s) = 4 * h <=> R = h /\ r = 0
    BY <1>3, <1>5
<1>10. /\ 2 * (R * c + r) > c * (2 * h) <=> R > h \/ (R = h /\ r # 0)
       /\ 2 * (R * c + r) = c * (2 * h) <=> R = h /\ r = 0
    <2>1. CASE R = h
        <3>1. R * c = c * h
            BY <2>1
        <3> QED
            BY <1>1, <1>7, <2>1, <3>1
    <2>2. CASE R > h
        <3>1. (h + 1) * c <= R * c
            <4>1. h + 1 <= R /\ h + 1 \in Nat
                BY <1>3, <2>2
            <4> QED
                BY <1>3, <4>1, Cancel
        <3>2. (h + 1) * c = c * h + c
            OBVIOUS
        <3> QED
            BY <1>1, <1>3, <1>7, <2>2, <3>1, <3>2
    <2>3. CASE R < h
        <3>1. (R + 1) * c <= h * c
            <4>1. R + 1 <= h /\ R + 1 \in Nat
                BY <1>3, <2>3
            <4> QED
                BY <1>3, <4>1, Cancel
        <3>2. (R + 1) * c = R * c + c /\ h * c = c * h
            BY <1>3
        <3> QED
            BY <1>1, <1>3, <1>7, <2>3, <3>1, <3>2
    <2> QED
        BY <1>3, <2>1, <2>2, <2>3
<1> QED
    BY <1>6, <1>8, <1>9, <1>10 DEF RoundTiesToEven

GuardBits == MantissaBits + 2
Quotient(a, c) == Sticky(a.m * PowerOfTwo[GuardBits], c.m)

LEMMA DividedByIs ==
    ASSUME NEW a, NEW c
    PROVE  DividedBy(a, c) = Nearest(Quotient(a, c), a.e - c.e - GuardBits - 1)
BY DEF DividedBy, Quotient, Sticky, GuardBits

LEMMA StickyIsNat ==
    ASSUME NEW n \in Nat, NEW c \in Nat \ {0}
    PROVE  Sticky(n, c) \in Nat
<1>1. n \div c \in Nat
    BY Euclid
<1> QED
    BY <1>1 DEF Sticky

\* A number with at least the bits of a mantissa, or zero.
IsDividend(a) == a.m \in Nat /\ a.e \in Int /\ (a.m = 0 \/ HiddenBit <= a.m)

LEMMA FloatIsDividend == \A a \in Float : IsDividend(a)
<1> TAKE a \in Float
<1>1. CASE a \in PositiveFloat
    BY <1>1, FloatParts DEF IsDividend
<1>2. CASE a \notin PositiveFloat
    BY <1>2, FloatParts DEF IsDividend, Zero
<1> QED
    BY <1>1, <1>2

LEMMA QuotientFacts ==
    ASSUME NEW a, IsDividend(a), a.m # 0, NEW c \in PositiveFloat
    PROVE  LET n == a.m * PowerOfTwo[GuardBits]
               x == Quotient(a, c)
               k == Shift(x)
           IN  /\ n \in Nat /\ x \in Nat \ {0} /\ k \in Int /\ 3 <= k
               /\ Significand(x) = RoundTiesToEven(n, c.m * PowerOfTwo[k - 1])
               /\ c.m * PowerOfTwo[k + MantissaBits - 2] <= n
               /\ ~(c.m * PowerOfTwo[k + MantissaBits - 1] <= n)
<1> DEFINE G == PowerOfTwo[GuardBits]
           n == a.m * PowerOfTwo[GuardBits]
           x == Quotient(a, c)
           k == Shift(x)
           L == BitLength[x]
<1>1. /\ a.m \in Nat \ {0} /\ HiddenBit <= a.m /\ HiddenBit \in Nat \ {0}
      /\ c.m \in Nat \ {0} /\ c.m <= 2 * HiddenBit
    BY FloatParts DEF IsDividend
<1>2. /\ MantissaBits \in Nat \ {0} /\ GuardBits \in Nat \ {0}
      /\ GuardBits = (MantissaBits + 1) + 1 /\ MantissaBits + 1 \in Nat
    BY MantissaAssumption DEF GuardBits
<1>3. /\ G \in Nat \ {0} /\ PowerOfTwo[MantissaBits + 1] \in Nat \ {0}
      /\ G = 2 * PowerOfTwo[MantissaBits + 1]
    BY <1>2, PowerOfTwoFacts
<1>4. n \in Nat
    <2> HIDE DEF G
    <2>1. a.m * G \in Nat
        BY <1>1, <1>3
    <2> QED
        BY <2>1 DEF G
<1>5. x \in Nat /\ x = Sticky(n, c.m)
    <2>1. x = Sticky(n, c.m)
        BY DEF Quotient
    <2> HIDE DEF n, x
    <2> QED
        BY <1>1, <1>4, <2>1, StickyIsNat
<1>6. c.m * PowerOfTwo[MantissaBits + 1] <= n
    <2> DEFINE H == PowerOfTwo[MantissaBits + 1]
    <2>1. H \in Nat /\ G \in Nat /\ G = 2 * H
        BY <1>3
    <2>2. n = a.m * G
        OBVIOUS
    <2> HIDE DEF H, G, n
    <2>3. c.m * H <= (2 * HiddenBit) * H
        BY <1>1, <2>1, ProductOrder
    <2>4. HiddenBit * G <= a.m * G
        BY <1>1, <2>1, ProductOrder
    <2>5. HiddenBit * (2 * H) = (2 * HiddenBit) * H
        BY <1>1, <2>1
    <2>6. c.m * H \in Nat /\ (2 * HiddenBit) * H \in Nat /\ a.m * G \in Nat
        BY <1>1, <2>1
    <2> QED
        BY <2>1, <2>2, <2>3, <2>4, <2>5, <2>6 DEF H
<1>7. 2 * PowerOfTwo[MantissaBits + 1] <= x
    <2> HIDE DEF n, x
    <2>1. PowerOfTwo[MantissaBits + 1] \in Nat
        BY <1>3
    <2> QED
        BY <1>1, <1>4, <1>5, <1>6, <2>1, StickySize
<1> HIDE DEF G, n, x
<1>8. x \in Nat \ {0}
    BY <1>3, <1>5, <1>7
<1>9. L \in Nat \ {0} /\ PowerOfTwo[L - 1] <= x /\ x < PowerOfTwo[L] /\ k = L - MantissaBits
    BY <1>8, BitLengthFacts DEF Shift
<1> HIDE DEF k, L
<1>10. GuardBits + 1 <= L
    <2> SUFFICES ASSUME L <= GuardBits PROVE FALSE
        BY <1>2, <1>9
    <2>1. PowerOfTwo[L] <= PowerOfTwo[GuardBits]
        BY <1>2, <1>9, PowersGrow
    <2>2. PowerOfTwo[L] \in Nat /\ PowerOfTwo[GuardBits] = G
        BY <1>9, PowerOfTwoFacts DEF G
    <2> QED
        BY <1>3, <1>7, <1>8, <1>9, <2>1, <2>2
<1>11. k \in Int /\ 3 <= k
    BY <1>2, <1>9, <1>10
<1>12. /\ L - 2 \in Nat /\ L - 1 = (L - 2) + 1 /\ L - 1 \in Nat /\ L = (L - 1) + 1
       /\ k + MantissaBits - 2 = L - 2 /\ k + MantissaBits - 1 = L - 1
    BY <1>2, <1>9, <1>10, <1>11
<1>13. /\ PowerOfTwo[L - 2] \in Nat /\ PowerOfTwo[L - 1] \in Nat
       /\ PowerOfTwo[L - 1] = 2 * PowerOfTwo[L - 2] /\ PowerOfTwo[L] = 2 * PowerOfTwo[L - 1]
    BY <1>12, PowerOfTwoFacts
<1>14. c.m * PowerOfTwo[k + MantissaBits - 2] <= n
    <2>1. 2 * PowerOfTwo[L - 2] <= x
        BY <1>9, <1>13
    <2> QED
        BY <1>1, <1>4, <1>5, <1>12, <1>13, <2>1, StickySize
<1>15. ~(c.m * PowerOfTwo[k + MantissaBits - 1] <= n)
    <2>1. ~(2 * PowerOfTwo[L - 1] <= x)
        BY <1>5, <1>9, <1>13
    <2> QED
        BY <1>1, <1>4, <1>5, <1>12, <1>13, <2>1, StickySize
<1>16. Significand(x) = RoundTiesToEven(n, c.m * PowerOfTwo[k - 1])
    <2> DEFINE h == PowerOfTwo[k - 2]
    <2>1. k - 2 \in Nat /\ k - 1 \in Nat /\ k - 1 = (k - 2) + 1 /\ k = (k - 1) + 1 /\ ~(k <= 0)
        BY <1>11
    <2>2. /\ h \in Nat \ {0} /\ PowerOfTwo[k - 1] = 2 * h
          /\ PowerOfTwo[k] = 2 * PowerOfTwo[k - 1]
        BY <2>1, PowerOfTwoFacts
    <2>3. Significand(x) = RoundTiesToEven(x, PowerOfTwo[k])
        BY <2>1 DEF Significand, Numerator, Divisor, k
    <2> HIDE DEF h
    <2>4. PowerOfTwo[k] = 4 * h
        BY <2>2
    <2>5. RoundTiesToEven(Sticky(n, c.m), 4 * h) = RoundTiesToEven(n, c.m * (2 * h))
        BY <1>1, <1>4, <2>2, StickyRounding
    <2> QED
        BY <1>5, <2>2, <2>3, <2>4, <2>5
<1> QED
    BY <1>4, <1>8, <1>11, <1>14, <1>15, <1>16 DEF n, x, k

\* With s = 2^x * 2^u and the like, the equation of the places.
LEMMA CrossProducts ==
    ASSUME NEW n \in Nat, NEW t \in Nat, NEW c \in Nat \ {0},
           NEW P \in Nat \ {0}, NEW R \in Nat \ {0}, NEW T \in Nat \ {0}, NEW U \in Nat \ {0},
           n * P <= t * R, P * T = R * U
    PROVE  n * (c * U) <= t * (c * T)
<1>1. /\ P * T \in Nat \ {0} /\ c * U \in Nat \ {0} /\ c * T \in Nat \ {0}
      /\ n * P \in Nat /\ t * R \in Nat
    OBVIOUS
<1>2. T * (c * U) \in Nat \ {0} /\ n * (c * U) \in Nat /\ t * (c * T) \in Nat
    BY <1>1
<1>3. (n * P) * (T * (c * U)) <= (t * R) * (T * (c * U))
    BY <1>1, <1>2, Cancel
<1>4. (n * P) * (T * (c * U)) = (n * (c * U)) * (P * T)
    OBVIOUS
<1>5. (t * R) * (T * (c * U)) = (t * (c * T)) * (R * U)
    OBVIOUS
<1> QED
    BY <1>1, <1>2, <1>3, <1>4, <1>5, Cancel

LEMMA DividedByMonotone ==
    ASSUME NEW a, IsDividend(a), NEW b, IsDividend(b), NEW c \in PositiveFloat, AtMost(a, b)
    PROVE  AtMost(DividedBy(a, c), DividedBy(b, c))
<1> DEFINE n == a.m * PowerOfTwo[GuardBits]
           t == b.m * PowerOfTwo[GuardBits]
           x == Quotient(a, c)
           y == Quotient(b, c)
           k == Shift(x)
           l == Shift(y)
           d == a.e - c.e - GuardBits - 1
           e == b.e - c.e - GuardBits - 1
<1>1. /\ a.m \in Nat /\ a.e \in Int /\ b.m \in Nat /\ b.e \in Int
      /\ c.m \in Nat \ {0} /\ c.e \in Int /\ GuardBits \in Nat
    BY FloatParts, MantissaAssumption DEF GuardBits, IsDividend
<1>2. d \in Int /\ e \in Int
    BY <1>1
<1>3. DividedBy(a, c) = Nearest(x, d) /\ DividedBy(b, c) = Nearest(y, e)
    BY DividedByIs
<1>4. PowerOfTwo[GuardBits] \in Nat
    BY <1>1, PowerOfTwoFacts
<1>5. n \in Nat /\ t \in Nat
    <2> DEFINE G == PowerOfTwo[GuardBits]
    <2> HIDE DEF G
    <2>1. G \in Nat
        BY <1>4 DEF G
    <2>2. a.m * G \in Nat /\ b.m * G \in Nat
        BY <1>1, <2>1
    <2> QED
        BY <2>2 DEF G
<1>6. x \in Nat /\ y \in Nat
    <2>1. x = Sticky(n, c.m) /\ y = Sticky(t, c.m)
        BY DEF Quotient
    <2> HIDE DEF n, t, x, y
    <2> QED
        BY <1>1, <1>5, <2>1, StickyIsNat
<1>7. CASE a.m = 0
    <2>1. n = 0
        BY <1>4, <1>7
    <2>2. x = 0
        <3>1. x = Sticky(n, c.m)
            BY DEF Quotient
        <3> HIDE DEF n, x
        <3>2. n \div c.m = 0 /\ n % c.m = 0
            <4>1. 0 \in 0 .. c.m - 1 /\ n = 0 * c.m + 0
                BY <1>1, <2>1
            <4> QED
                BY <1>1, <1>5, <4>1, DivisionIs
        <3>3. x = 2 * 0 + 0
            BY <3>1, <3>2 DEF Sticky
        <3> QED
            BY <3>3
    <2> HIDE DEF x, y, d, e
    <2>3. Nearest(x, d) = Zero /\ Nearest(y, e) \in Float
        BY <1>2, <1>6, <2>2, NearestType DEF Nearest
    <2> QED
        BY <1>3, <2>3, ZeroIsLeast
<1>8. CASE a.m # 0
    <2>1. b.m # 0
        BY <1>1, <1>8, NothingBelowZero DEF AtMost
    <2>2. /\ x \in Nat \ {0} /\ k \in Int /\ 3 <= k
          /\ Significand(x) = RoundTiesToEven(n, c.m * PowerOfTwo[k - 1])
          /\ c.m * PowerOfTwo[k + MantissaBits - 2] <= n
        BY <1>8, QuotientFacts
    <2>3. /\ y \in Nat \ {0} /\ l \in Int /\ 3 <= l
          /\ Significand(y) = RoundTiesToEven(t, c.m * PowerOfTwo[l - 1])
          /\ ~(c.m * PowerOfTwo[l + MantissaBits - 1] <= t)
        BY <2>1, QuotientFacts
    <2>4. PICK base \in Int : base <= a.e /\ base <= b.e
        <3>1. CASE a.e <= b.e
            BY <1>1, <3>1
        <3>2. CASE b.e <= a.e
            BY <1>1, <3>2
        <3> QED
            BY <1>1, <3>1, <3>2
    <2> DEFINE i == a.e - base
               j == b.e - base
               P == PowerOfTwo[i]
               R == PowerOfTwo[j]
    <2>5. i \in Nat /\ j \in Nat
        BY <1>1, <2>4
    <2>6. n * P <= t * R
        <3>1. PICK z \in Int : a.e + z = a.e /\ b.e + z = b.e
            BY <1>1
        <3>2. NoMore(a.m, a.e, b.m, b.e)
            BY DEF AtMost
        <3>3. NoMore(n, a.e + z, t, b.e + z)
            <4> DEFINE G == PowerOfTwo[GuardBits]
            <4>1. G \in Nat
                BY <1>4
            <4> HIDE DEF G
            <4>2. NoMore(a.m * G, a.e + z, b.m * G, b.e + z)
                BY <1>1, <3>2, <4>1, NoMoreTimes
            <4> QED
                BY <4>2 DEF G
        <3>4. NoMore(n, a.e, t, b.e)
            BY <3>1, <3>3
        <3> HIDE DEF n, t
        <3> QED
            BY <1>1, <1>5, <2>4, <3>4, CommonBase
    <2> HIDE DEF n, t, x, y, k, l, i, j
    <2>7. P \in Nat \ {0} /\ R \in Nat \ {0}
        BY <2>5, PowerOfTwoFacts
    <2>8. i + k <= j + l
        <3> SUFFICES ASSUME j + l + 1 <= i + k PROVE FALSE
            BY <2>2, <2>3, <2>5
        <3> DEFINE v == k + MantissaBits - 2
                   w == l + MantissaBits - 1
                   V == PowerOfTwo[v]
                   W == PowerOfTwo[w]
        <3>1. v \in Nat /\ w \in Nat /\ w + j <= v + i
            BY <2>2, <2>3, <2>5, MantissaAssumption
        <3>2. c.m * V <= n /\ ~(c.m * W <= t)
            BY <2>2, <2>3
        <3> HIDE DEF v, w
        <3>3. V \in Nat /\ W \in Nat
            BY <3>1, PowerOfTwoFacts
        <3>4. W * R <= V * P
            <4>1. PowerOfTwo[w + j] <= PowerOfTwo[v + i]
                <5>1. w + j \in Nat /\ v + i \in Nat
                    BY <2>5, <3>1
                <5> QED
                    BY <3>1, <5>1, PowersGrow
            <4> QED
                BY <2>5, <3>1, <4>1, PowerOfSum
        <3> HIDE DEF P, R, V, W
        <3>5. /\ c.m * V \in Nat /\ c.m * W \in Nat /\ V * P \in Nat /\ W * R \in Nat
              /\ n * P \in Nat /\ t * R \in Nat
            BY <1>1, <1>5, <2>7, <3>3
        <3>6. (c.m * V) * P <= n * P
            BY <1>5, <2>7, <3>2, <3>5, Cancel
        <3>7. ~((c.m * W) * R <= t * R)
            BY <1>5, <2>7, <3>2, <3>5, Cancel
        <3>8. c.m * (W * R) <= c.m * (V * P)
            BY <1>1, <3>4, <3>5, ProductOrder
        <3>9. (c.m * V) * P = c.m * (V * P) /\ (c.m * W) * R = c.m * (W * R)
            BY <1>1, <2>7, <3>3
        <3>10. c.m * (V * P) \in Nat /\ c.m * (W * R) \in Nat
            BY <1>1, <3>5
        <3> QED
            BY <2>6, <3>5, <3>6, <3>7, <3>8, <3>9, <3>10
    <2>9. i + k = j + l => Significand(x) <= Significand(y)
        <3> HAVE i + k = j + l
        <3> DEFINE T == PowerOfTwo[k - 1]
                   U == PowerOfTwo[l - 1]
        <3>1. k - 1 \in Nat /\ l - 1 \in Nat /\ i + (k - 1) = j + (l - 1)
            BY <2>2, <2>3, <2>5
        <3>2. T \in Nat \ {0} /\ U \in Nat \ {0}
            BY <3>1, PowerOfTwoFacts
        <3>3. P * T = R * U
            <4>1. PowerOfTwo[i + (k - 1)] = P * T /\ PowerOfTwo[j + (l - 1)] = R * U
                BY <2>5, <3>1, PowerOfSum
            <4> QED
                BY <3>1, <4>1
        <3>4. /\ Significand(x) = RoundTiesToEven(n, c.m * T)
              /\ Significand(y) = RoundTiesToEven(t, c.m * U)
            BY <2>2, <2>3
        <3> HIDE DEF P, R, T, U
        <3>5. n * (c.m * U) <= t * (c.m * T)
            BY <1>1, <1>5, <2>6, <2>7, <3>2, <3>3, CrossProducts
        <3>6. c.m * T \in Nat \ {0} /\ c.m * U \in Nat \ {0}
            BY <1>1, <3>2
        <3> QED
            BY <1>5, <3>4, <3>5, <3>6, RoundingMonotone
    <2>10. d + k <= e + l /\ (d + k = e + l => i + k = j + l)
        <3>1. k \in Int /\ l \in Int
            BY <2>2, <2>3
        <3>2. a.e - base + k <= b.e - base + l
            BY <2>8 DEF i, j
        <3> QED
            BY <1>1, <2>4, <3>1, <3>2 DEF i, j
    <2> HIDE DEF d, e
    <2>11. AtMost(Nearest(x, d), Nearest(y, e))
        BY <1>2, <2>2, <2>3, <2>9, <2>10, PlacedOrder DEF k, l
    <2> QED
        BY <1>3, <2>11
<1> QED
    BY <1>7, <1>8

-----------------------------------------------------------------------------
(***************************************************************************)
(* Truncated and Rounded, over a common denominator.                       *)
(***************************************************************************)
LEMMA AtMostTransitive ==
    ASSUME NEW f \in Float, NEW g \in Float, NEW h \in Float, AtMost(f, g), AtMost(g, h)
    PROVE  AtMost(f, h)
<1>1. /\ f.m \in Nat /\ f.e \in Int /\ g.m \in Nat /\ g.e \in Int
      /\ h.m \in Nat /\ h.e \in Int
    BY FloatParts
<1> QED
    BY <1>1, NoMoreTransitive DEF AtMost

LEMMA AtMostReflexive == \A f \in Float : AtMost(f, f)
<1> TAKE f \in Float
<1>1. f.m \in Nat /\ f.e \in Int
    BY FloatParts
<1>2. f.m <= f.m
    BY <1>1
<1> QED
    BY <1>1, <1>2, NoMoreAtSame DEF AtMost

HalfUp(n, c) == (2 * n + c) \div (2 * c)

LEMMA HalfUpMonotone ==
    ASSUME NEW a \in Nat, NEW b \in Nat, NEW c \in Nat \ {0}, NEW d \in Nat \ {0},
           a * d <= b * c
    PROVE  HalfUp(a, c) <= HalfUp(b, d)
<1>1. a * d \in Nat /\ b * c \in Nat /\ c * d \in Nat
    OBVIOUS
<1>2. /\ (2 * a + c) * (2 * d) = 4 * (a * d) + 2 * (c * d)
      /\ (2 * b + d) * (2 * c) = 4 * (b * c) + 2 * (c * d)
    OBVIOUS
<1>3. (2 * a + c) * (2 * d) <= (2 * b + d) * (2 * c)
    BY <1>1, <1>2
<1>4. 2 * a + c \in Nat /\ 2 * b + d \in Nat /\ 2 * c \in Nat \ {0} /\ 2 * d \in Nat \ {0}
    OBVIOUS
<1> QED
    BY <1>3, <1>4, DivMonotone DEF HalfUp

LEMMA HalfUpIsNat ==
    ASSUME NEW a \in Nat, NEW c \in Nat \ {0}
    PROVE  HalfUp(a, c) \in Nat
<1>1. 2 * a + c \in Nat /\ 2 * c \in Nat \ {0}
    OBVIOUS
<1> QED
    BY <1>1, Euclid DEF HalfUp

\* Of a number made longer by the same factor on both sides.
LEMMA SameFraction ==
    ASSUME NEW a \in Nat, NEW c \in Nat \ {0}, NEW j \in Nat \ {0}
    PROVE  /\ (a * j) \div (c * j) = a \div c
           /\ HalfUp(a * j, c * j) = HalfUp(a, c)
<1>1. a * j \in Nat /\ c * j \in Nat \ {0}
    OBVIOUS
<1>2. (a * j) * c = a * (c * j) /\ (a * j) * c \in Nat
    BY <1>1
<1>3. (a * j) * c <= a * (c * j) /\ a * (c * j) <= (a * j) * c
    BY <1>2
<1>4. (a * j) \div (c * j) <= a \div c /\ a \div c <= (a * j) \div (c * j)
    BY <1>1, <1>3, DivMonotone
<1>5. HalfUp(a * j, c * j) <= HalfUp(a, c) /\ HalfUp(a, c) <= HalfUp(a * j, c * j)
    BY <1>1, <1>3, HalfUpMonotone
<1>6. /\ (a * j) \div (c * j) \in Nat /\ a \div c \in Nat
      /\ HalfUp(a * j, c * j) \in Nat /\ HalfUp(a, c) \in Nat
    BY <1>1, Euclid, HalfUpIsNat
<1> HIDE DEF HalfUp
<1>7. HalfUp(a * j, c * j) = HalfUp(a, c)
    BY <1>5, <1>6
<1>8. (a * j) \div (c * j) = a \div c
    <2> DEFINE x == (a * j) \div (c * j)
               y == a \div c
    <2>1. x \in Nat /\ y \in Nat /\ x <= y /\ y <= x
        BY <1>4, <1>6
    <2> HIDE DEF x, y
    <2>2. x = y
        BY <2>1
    <2> QED
        BY <2>2 DEF x, y
<1> QED
    BY <1>7, <1>8

LEMMA WholeAndNone ==
    ASSUME NEW n \in Nat, NEW c \in Nat \ {0}
    PROVE  /\ (n * c) \div c = n /\ HalfUp(n * c, c) = n
           /\ n < c => n \div c = 0
           /\ 2 * n < c => HalfUp(n, c) = 0
<1>1. n * c \in Nat /\ 2 * c \in Nat \ {0} /\ 2 * (n * c) + c \in Nat /\ 2 * n + c \in Nat
    OBVIOUS
<1>2. (n * c) \div c = n
    <2>1. n * c = n * c + 0 /\ 0 \in 0 .. c - 1
        BY <1>1
    <2> QED
        BY <1>1, <2>1, DivisionIs
<1>3. HalfUp(n * c, c) = n
    <2>1. 2 * (n * c) + c = n * (2 * c) + c /\ c \in 0 .. 2 * c - 1
        BY <1>1
    <2> QED
        BY <1>1, <2>1, DivisionIs DEF HalfUp
<1>4. ASSUME n < c PROVE n \div c = 0
    <2>1. n = 0 * c + n /\ n \in 0 .. c - 1
        BY <1>4
    <2> QED
        BY <2>1, DivisionIs
<1>5. ASSUME 2 * n < c PROVE HalfUp(n, c) = 0
    <2>1. 2 * n + c = 0 * (2 * c) + (2 * n + c) /\ 2 * n + c \in 0 .. 2 * c - 1
        BY <1>5
    <2> QED
        BY <1>1, <2>1, DivisionIs DEF HalfUp
<1> QED
    BY <1>2, <1>3, <1>4, <1>5

\* A float as a fraction of which the denominator is the k-th power of two.
LEMMA FloatAsFraction ==
    ASSUME NEW a \in Float, NEW k \in Nat, a.e + k \in Nat
    PROVE  LET n == a.m * PowerOfTwo[a.e + k]
               c == PowerOfTwo[k]
           IN  /\ n \in Nat /\ c \in Nat \ {0}
               /\ a.e >= 0 => n \div c = a.m * PowerOfTwo[a.e]
                              /\ HalfUp(n, c) = a.m * PowerOfTwo[a.e]
               /\ a.e < 0 => n \div c = a.m \div PowerOfTwo[-a.e]
                             /\ HalfUp(n, c) = HalfUp(a.m, PowerOfTwo[-a.e])
<1> DEFINE n == a.m * PowerOfTwo[a.e + k]
           c == PowerOfTwo[k]
           p == PowerOfTwo[a.e + k]
<1>1. a.m \in Nat /\ a.e \in Int
    BY FloatParts
<1>2. c \in Nat \ {0} /\ p \in Nat \ {0}
    BY PowerOfTwoFacts
<1>3. n \in Nat
    <2> HIDE DEF p
    <2>1. a.m * p \in Nat
        BY <1>1, <1>2
    <2> QED
        BY <2>1 DEF p
<1>4. ASSUME a.e >= 0
      PROVE  n \div c = a.m * PowerOfTwo[a.e] /\ HalfUp(n, c) = a.m * PowerOfTwo[a.e]
    <2> DEFINE v == PowerOfTwo[a.e]
    <2>1. a.e \in Nat
        BY <1>1, <1>4
    <2>2. v \in Nat /\ p = v * c
        BY <2>1, PowerOfTwoFacts, PowerOfSum
    <2>3. n = a.m * p
        OBVIOUS
    <2> HIDE DEF v, n, c, p
    <2>4. a.m * v \in Nat /\ a.m * (v * c) = (a.m * v) * c
        BY <1>1, <1>2, <2>2
    <2>5. n = (a.m * v) * c
        BY <2>2, <2>3, <2>4
    <2>6. n \div c = a.m * v /\ HalfUp(n, c) = a.m * v
        BY <1>2, <2>4, <2>5, WholeAndNone
    <2> QED
        BY <2>6 DEF v
<1>5. ASSUME a.e < 0
      PROVE  n \div c = a.m \div PowerOfTwo[-a.e]
             /\ HalfUp(n, c) = HalfUp(a.m, PowerOfTwo[-a.e])
    <2> DEFINE v == PowerOfTwo[-a.e]
    <2>1. -a.e \in Nat /\ k = -a.e + (a.e + k)
        BY <1>1, <1>5
    <2>2. v \in Nat \ {0} /\ c = v * p
        <3>1. PowerOfTwo[-a.e + (a.e + k)] = v * p
            BY <2>1, PowerOfSum
        <3> QED
            BY <2>1, <3>1, PowerOfTwoFacts
    <2>3. n = a.m * p
        OBVIOUS
    <2> HIDE DEF v, n, c, p
    <2>4. n \div c = a.m \div v /\ HalfUp(n, c) = HalfUp(a.m, v)
        BY <1>1, <1>2, <2>2, <2>3, SameFraction
    <2> QED
        BY <2>4 DEF v
<1> QED
    BY <1>2, <1>3, <1>4, <1>5

\* A float below 2^-1 has no integer part and is rounded to nothing.
LEMMA SmallFloat ==
    ASSUME NEW a \in Float, -a.e > MantissaBits
    PROVE  /\ a.m < PowerOfTwo[-a.e]
           /\ 2 * a.m < PowerOfTwo[-a.e]
<1>1. a.m \in Nat /\ a.e \in Int /\ HiddenBit \in Nat \ {0} /\ MantissaBits \in Nat
    BY FloatParts, MantissaAssumption
<1>2. a.m < 2 * HiddenBit
    <2>1. CASE a = Zero
        BY <1>1, <2>1 DEF Zero
    <2>2. CASE a # Zero
        <3>1. a \in PositiveFloat
            BY <2>2, FloatParts
        <3> QED
            BY <1>1, <3>1 DEF PositiveFloat, Mantissas
    <2> QED
        BY <2>1, <2>2
<1>3. -a.e - 1 \in Nat /\ MantissaBits <= -a.e - 1 /\ -a.e = (-a.e - 1) + 1
    BY <1>1
<1>4. /\ PowerOfTwo[(-a.e - 1) + 1] = 2 * PowerOfTwo[-a.e - 1]
      /\ PowerOfTwo[-a.e - 1] \in Nat
    BY <1>3, PowerOfTwoFacts
<1>5. PowerOfTwo[MantissaBits] <= PowerOfTwo[-a.e - 1] /\ PowerOfTwo[MantissaBits] = 2 * HiddenBit
    BY <1>1, <1>3, PowersGrow, HiddenBitFacts
<1>6. PowerOfTwo[-a.e] = 2 * PowerOfTwo[-a.e - 1]
    BY <1>3, <1>4
<1> QED
    BY <1>1, <1>2, <1>4, <1>5, <1>6

LEMMA TruncatedIs ==
    ASSUME NEW a \in Float, NEW k \in Nat, a.e + k \in Nat
    PROVE  Truncated(a) = (a.m * PowerOfTwo[a.e + k]) \div PowerOfTwo[k]
<1>1. a.m \in Nat /\ a.e \in Int /\ MantissaBits \in Nat
    BY FloatParts, MantissaAssumption
<1>2. CASE a.e >= 0
    BY <1>2, FloatAsFraction DEF Truncated
<1>3. CASE ~(a.e >= 0)
    <2>1. a.e < 0
        BY <1>1, <1>3
    <2>2. (a.m * PowerOfTwo[a.e + k]) \div PowerOfTwo[k] = a.m \div PowerOfTwo[-a.e]
        BY <2>1, FloatAsFraction
    <2>3. -a.e > MantissaBits => a.m \div PowerOfTwo[-a.e] = 0
        <3> HAVE -a.e > MantissaBits
        <3>1. -a.e \in Nat
            BY <1>1, <2>1
        <3>2. PowerOfTwo[-a.e] \in Nat \ {0}
            BY <3>1, PowerOfTwoFacts
        <3>3. a.m < PowerOfTwo[-a.e]
            BY SmallFloat
        <3> QED
            BY <1>1, <3>2, <3>3, WholeAndNone
    <2> QED
        BY <1>3, <2>2, <2>3 DEF Truncated
<1> QED
    BY <1>2, <1>3

\* A number of MantissaBits bits is its own mantissa.
LEMMA NearestToFloat ==
    ASSUME NEW a \in PositiveFloat
    PROVE  Nearest(a.m, a.e) = a
<1> DEFINE L == BitLength[a.m]
<1>1. /\ a.m \in Nat \ {0} /\ a.e \in Int /\ HiddenBit <= a.m /\ a.m < 2 * HiddenBit
      /\ HiddenBit \in Nat \ {0} /\ a = [m |-> a.m, e |-> a.e]
    BY FloatParts DEF PositiveFloat, Mantissas
<1>2. L \in Nat \ {0} /\ PowerOfTwo[L - 1] <= a.m /\ a.m < PowerOfTwo[L]
    BY <1>1, BitLengthFacts
<1>3. MantissaBits \in Nat \ {0} /\ MantissaBits - 1 \in Nat
    BY MantissaAssumption
<1>4. HiddenBit = PowerOfTwo[MantissaBits - 1] /\ 2 * HiddenBit = PowerOfTwo[MantissaBits]
    BY HiddenBitFacts DEF HiddenBit
<1> HIDE DEF L
<1>5. L - 1 \in Nat /\ PowerOfTwo[L - 1] \in Nat /\ PowerOfTwo[L] \in Nat
    BY <1>2, PowerOfTwoFacts
<1>6. L = MantissaBits
    <2>1. ~(L <= MantissaBits - 1)
        <3> SUFFICES ASSUME L <= MantissaBits - 1 PROVE FALSE
            OBVIOUS
        <3>1. PowerOfTwo[L] <= PowerOfTwo[MantissaBits - 1]
            BY <1>2, <1>3, PowersGrow
        <3> QED
            BY <1>1, <1>2, <1>4, <1>5, <3>1
    <2>2. ~(MantissaBits <= L - 1)
        <3> SUFFICES ASSUME MantissaBits <= L - 1 PROVE FALSE
            OBVIOUS
        <3>1. PowerOfTwo[MantissaBits] <= PowerOfTwo[L - 1]
            BY <1>3, <1>5, PowersGrow
        <3> QED
            BY <1>1, <1>2, <1>4, <1>5, <3>1
    <2> QED
        BY <1>2, <1>3, <2>1, <2>2
<1>7. Shift(a.m) = 0
    BY <1>3, <1>6 DEF Shift, L
<1>8. Significand(a.m) = a.m
    <2>1. Numerator(a.m) = a.m * PowerOfTwo[-Shift(a.m)] /\ Divisor(a.m) = 1
        BY <1>7 DEF Numerator, Divisor
    <2>2. PowerOfTwo[-Shift(a.m)] = 1
        <3>1. \A k \in Int : k <= 0 /\ 0 <= k => -k = 0
            OBVIOUS
        <3>2. Shift(a.m) \in Int /\ Shift(a.m) <= 0 /\ 0 <= Shift(a.m)
            BY <1>7
        <3>3. -Shift(a.m) = 0
            BY <3>1, <3>2
        <3> QED
            BY <3>3, PowerOfTwoFacts
    <2>3. Numerator(a.m) = a.m
        BY <1>1, <2>1, <2>2
    <2> QED
        BY <1>1, <2>1, <2>3, RoundedWhole DEF Significand
<1> QED
    BY <1>1, <1>7, <1>8, NearestBySignificand

Alike(f, g) == AtMost(f, g) /\ AtMost(g, f)

LEMMA RoundedIs ==
    ASSUME NEW a \in Float, NEW k \in Nat, a.e + k \in Nat
    PROVE  /\ Rounded(a) \in Float
           /\ Alike(Rounded(a), Nearest(HalfUp(a.m * PowerOfTwo[a.e + k], PowerOfTwo[k]), 0))
<1> DEFINE r == HalfUp(a.m * PowerOfTwo[a.e + k], PowerOfTwo[k])
<1>1. a.m \in Nat /\ a.e \in Int /\ MantissaBits \in Nat
    BY FloatParts, MantissaAssumption
<1>2. r \in Nat
    <2> DEFINE n == a.m * PowerOfTwo[a.e + k]
               c == PowerOfTwo[k]
    <2>1. n \in Nat /\ c \in Nat \ {0}
        BY FloatAsFraction
    <2> HIDE DEF n, c
    <2>2. HalfUp(n, c) \in Nat
        BY <2>1, HalfUpIsNat
    <2> QED
        BY <2>2 DEF n, c
<1>3. Nearest(r, 0) \in Float
    <2> HIDE DEF r
    <2> QED
        BY <1>2, NearestType
<1>4. CASE a.e >= 0
    <2>1. Rounded(a) = a
        BY <1>4 DEF Rounded
    <2>2. r = a.m * PowerOfTwo[a.e]
        BY <1>4, FloatAsFraction
    <2> HIDE DEF r
    <2>3. CASE a = Zero
        <3>1. a.m = 0 /\ PowerOfTwo[a.e] \in Nat
            BY <1>1, <1>4, <2>3, PowerOfTwoFacts DEF Zero
        <3>2. r = 0
            BY <2>2, <3>1
        <3>3. Nearest(r, 0) = Zero
            BY <3>2 DEF Nearest
        <3> QED
            BY <2>1, <2>3, <3>3, AtMostReflexive DEF Alike, r
    <2>4. CASE a # Zero
        <3>1. a \in PositiveFloat
            BY <2>4, FloatParts
        <3>2. Nearest(a.m, a.e) = a
            BY <3>1, NearestToFloat
        <3>3. NoMore(a.m, a.e, r, 0) /\ NoMore(r, 0, a.m, a.e)
            <4> DEFINE p == PowerOfTwo[a.e]
            <4>1. a.e \in Nat /\ a.e - 0 = a.e
                BY <1>1, <1>4
            <4>2. p \in Nat /\ r = a.m * p
                BY <2>2, <4>1, PowerOfTwoFacts
            <4>3. a.m * PowerOfTwo[a.e - 0] = r
                BY <4>1, <4>2
            <4>4. NoMore(a.m, a.e, r, 0)
                BY <1>2, <1>4, <4>3 DEF NoMore
            <4>5. CASE a.e = 0
                <5>1. p = 1 /\ r = a.m
                    BY <1>1, <4>2, <4>5, PowerOfTwoFacts
                <5>2. NoMore(r, 0, a.m, 0)
                    BY <1>1, <1>2, <5>1, NoMoreAtSame
                <5> QED
                    BY <4>4, <4>5, <5>2
            <4>6. CASE a.e # 0
                <5>1. ~(0 >= a.e)
                    BY <4>1, <4>6
                <5> QED
                    BY <1>2, <4>3, <4>4, <5>1 DEF NoMore
            <4> QED
                BY <4>5, <4>6
        <3>4. AtMost(Nearest(a.m, a.e), Nearest(r, 0)) /\ AtMost(Nearest(r, 0), Nearest(a.m, a.e))
            BY <1>1, <1>2, <3>3, NearestMonotone
        <3> QED
            BY <2>1, <3>2, <3>4 DEF Alike, r
    <2> QED
        BY <2>3, <2>4
<1>5. CASE ~(a.e >= 0)
    <2>1. a.e < 0 /\ -a.e \in Nat /\ 1 - a.e = -a.e + 1
        BY <1>1, <1>5
    <2>2. /\ PowerOfTwo[-a.e] \in Nat \ {0}
          /\ PowerOfTwo[1 - a.e] = 2 * PowerOfTwo[-a.e]
        BY <2>1, PowerOfTwoFacts
    <2>3. r = HalfUp(a.m, PowerOfTwo[-a.e])
        BY <2>1, FloatAsFraction
    <2> HIDE DEF r
    <2>4. CASE -a.e > MantissaBits
        <3>1. 2 * a.m < PowerOfTwo[-a.e]
            BY <2>4, SmallFloat
        <3>2. r = 0
            BY <1>1, <2>2, <2>3, <3>1, WholeAndNone
        <3>3. Nearest(r, 0) = Zero /\ Rounded(a) = Zero
            BY <1>5, <2>4, <3>2 DEF Nearest, Rounded
        <3> QED
            BY <1>3, <3>3, AtMostReflexive DEF Alike, r
    <2>5. CASE ~(-a.e > MantissaBits)
        <3>1. r = (2 * a.m + PowerOfTwo[-a.e]) \div PowerOfTwo[1 - a.e]
            BY <2>2, <2>3 DEF HalfUp
        <3>2. Rounded(a) = Nearest(r, 0)
            BY <1>5, <2>5, <3>1 DEF Rounded
        <3> QED
            BY <1>3, <3>2, AtMostReflexive DEF Alike, r
    <2> QED
        BY <2>4, <2>5
<1> QED
    BY <1>4, <1>5

\* Over a common denominator, the smaller float has the smaller numerator.
LEMMA CommonDenominator ==
    ASSUME NEW a \in Float, NEW b \in Float, AtMost(a, b)
    PROVE  \E k \in Nat : /\ a.e + k \in Nat /\ b.e + k \in Nat
                          /\ a.m * PowerOfTwo[a.e + k] <= b.m * PowerOfTwo[b.e + k]
<1>1. a.m \in Nat /\ a.e \in Int /\ b.m \in Nat /\ b.e \in Int
    BY FloatParts
<1>2. PICK base \in Int : base <= 0 /\ base <= a.e /\ base <= b.e
    <2>1. CASE 0 <= a.e /\ 0 <= b.e
        BY <2>1
    <2>2. CASE a.e <= 0 /\ a.e <= b.e
        BY <1>1, <2>2
    <2>3. CASE b.e <= 0 /\ b.e <= a.e
        BY <1>1, <2>3
    <2> QED
        BY <1>1, <2>1, <2>2, <2>3
<1>3. PICK k \in Nat : k = -base
    BY <1>2
<1>4. a.m * PowerOfTwo[a.e - base] <= b.m * PowerOfTwo[b.e - base]
    BY <1>1, <1>2, CommonBase DEF AtMost
<1>5. a.e - base = a.e + k /\ b.e - base = b.e + k /\ a.e + k \in Nat /\ b.e + k \in Nat
    BY <1>1, <1>2, <1>3
<1>6. a.m * PowerOfTwo[a.e + k] <= b.m * PowerOfTwo[b.e + k]
    BY <1>4, <1>5
<1> QED
    BY <1>5, <1>6

LEMMA TruncatedIsNat == \A a \in Float : Truncated(a) \in Nat
<1> TAKE a \in Float
<1>1. AtMost(a, a)
    BY AtMostReflexive
<1>2. PICK k \in Nat : a.e + k \in Nat
    BY <1>1, CommonDenominator
<1> DEFINE n == a.m * PowerOfTwo[a.e + k]
           c == PowerOfTwo[k]
<1>3. n \in Nat /\ c \in Nat \ {0} /\ Truncated(a) = n \div c
    BY <1>2, FloatAsFraction, TruncatedIs
<1> HIDE DEF n, c
<1> QED
    BY <1>3, Euclid

LEMMA TruncatedMonotone ==
    ASSUME NEW a \in Float, NEW b \in Float, AtMost(a, b)
    PROVE  Truncated(a) <= Truncated(b)
<1>1. PICK k \in Nat : /\ a.e + k \in Nat /\ b.e + k \in Nat
                       /\ a.m * PowerOfTwo[a.e + k] <= b.m * PowerOfTwo[b.e + k]
    BY CommonDenominator
<1> DEFINE n == a.m * PowerOfTwo[a.e + k]
           t == b.m * PowerOfTwo[b.e + k]
           c == PowerOfTwo[k]
<1>2. /\ n \in Nat /\ t \in Nat /\ c \in Nat \ {0}
      /\ Truncated(a) = n \div c /\ Truncated(b) = t \div c
    BY <1>1, FloatAsFraction, TruncatedIs
<1>3. n <= t
    BY <1>1
<1> HIDE DEF n, t, c
<1>4. n * c <= t * c
    BY <1>2, <1>3, Cancel
<1> QED
    BY <1>2, <1>4, DivMonotone

LEMMA RoundedType == \A a \in Float : Rounded(a) \in Float
<1> TAKE a \in Float
<1>1. AtMost(a, a)
    BY AtMostReflexive
<1>2. PICK k \in Nat : a.e + k \in Nat
    BY <1>1, CommonDenominator
<1> QED
    BY <1>2, RoundedIs

LEMMA RoundedMonotone ==
    ASSUME NEW a \in Float, NEW b \in Float, AtMost(a, b)
    PROVE  AtMost(Rounded(a), Rounded(b))
<1>1. PICK k \in Nat : /\ a.e + k \in Nat /\ b.e + k \in Nat
                       /\ a.m * PowerOfTwo[a.e + k] <= b.m * PowerOfTwo[b.e + k]
    BY CommonDenominator
<1> DEFINE n == a.m * PowerOfTwo[a.e + k]
           t == b.m * PowerOfTwo[b.e + k]
           c == PowerOfTwo[k]
           x == HalfUp(n, c)
           y == HalfUp(t, c)
<1>2. n \in Nat /\ t \in Nat /\ c \in Nat \ {0}
    BY <1>1, FloatAsFraction
<1>3. n <= t
    BY <1>1
<1>4. /\ Rounded(a) \in Float /\ Rounded(b) \in Float
      /\ Alike(Rounded(a), Nearest(x, 0)) /\ Alike(Rounded(b), Nearest(y, 0))
    BY <1>1, RoundedIs
<1> HIDE DEF n, t, c
<1>5. n * c <= t * c
    BY <1>2, <1>3, Cancel
<1>6. x <= y /\ x \in Nat /\ y \in Nat
    BY <1>2, <1>5, HalfUpMonotone, HalfUpIsNat
<1> HIDE DEF x, y
<1>7. NoMore(x, 0, y, 0)
    BY <1>6, NoMoreAtSame
<1>8. AtMost(Nearest(x, 0), Nearest(y, 0)) /\ Nearest(x, 0) \in Float /\ Nearest(y, 0) \in Float
    BY <1>6, <1>7, NearestMonotone, NearestType
<1>9. AtMost(Rounded(a), Nearest(y, 0))
    BY <1>4, <1>8, AtMostTransitive DEF Alike
<1> QED
    BY <1>4, <1>8, <1>9, AtMostTransitive DEF Alike
-----------------------------------------------------------------------------
(***************************************************************************)
(* The operations of Denomination.                                         *)
(***************************************************************************)
LEMMA FactorFacts ==
    ASSUME decimals \in Decimals
    PROVE  DenominationFactor \in PositiveFloat /\ TrimPrecision \in PositiveFloat
<1>1. decimals \in Nat
    BY DecimalsAssumption
<1>2. PowerOfTen[decimals] \in Nat \ {0}
    BY <1>1, PowerOfTenFacts
<1>3. DenominationFactor \in PositiveFloat
    BY <1>2, NearestType DEF DenominationFactor
<1>4. Nearest(1, 0) \in PositiveFloat
    BY NearestType
<1> DEFINE f == Nearest(1, 0)
           g == DenominationFactor
           x == Quotient(f, g)
           e == f.e - g.e - GuardBits - 1
<1>5. e \in Int
    <2>1. f.e \in Int /\ g.e \in Int
        BY <1>3, <1>4 DEF PositiveFloat
    <2> HIDE DEF f, g
    <2> QED
        BY <2>1, MantissaAssumption DEF GuardBits
<1>6. x \in Nat \ {0}
    <2> HIDE DEF f, g, x
    <2>1. f \in PositiveFloat /\ g \in PositiveFloat
        BY <1>3, <1>4 DEF f, g
    <2>2. IsDividend(f) /\ f.m # 0
        BY <2>1, FloatParts, FloatIsDividend
    <2> QED
        BY <2>1, <2>2, QuotientFacts DEF x
<1>7. TrimPrecision = Nearest(x, e)
    BY DividedByIs DEF TrimPrecision
<1> HIDE DEF x, e
<1> QED
    BY <1>3, <1>5, <1>6, <1>7, NearestType

LEMMA FloatsAreFinite == \A x \in Float : Finite(x)
BY PricesAssumption DEF Finite

LEMMA DividedByType ==
    ASSUME NEW a, IsDividend(a), NEW c \in PositiveFloat
    PROVE  DividedBy(a, c) \in Float
<1> DEFINE n == a.m * PowerOfTwo[GuardBits]
           x == Quotient(a, c)
           e == a.e - c.e - GuardBits - 1
<1>1. /\ a.m \in Nat /\ a.e \in Int /\ c.m \in Nat \ {0} /\ c.e \in Int
      /\ GuardBits \in Nat
    BY FloatParts, MantissaAssumption DEF GuardBits, IsDividend
<1>2. e \in Int
    BY <1>1
<1>3. x \in Nat
    <2> DEFINE G == PowerOfTwo[GuardBits]
    <2>1. G \in Nat /\ x = Sticky(a.m * G, c.m)
        BY <1>1, PowerOfTwoFacts DEF Quotient
    <2> HIDE DEF G, x
    <2>2. a.m * G \in Nat
        BY <1>1, <2>1
    <2> QED
        BY <1>1, <2>1, <2>2, StickyIsNat
<1>4. DividedBy(a, c) = Nearest(x, e)
    BY DividedByIs
<1> HIDE DEF x, e
<1> QED
    BY <1>2, <1>3, <1>4, NearestType

LEMMA TrimFacts ==
    ASSUME decimals \in Decimals, NEW x \in Float
    PROVE  /\ Trim(x) \in Float
           /\ \A y \in Float : AtMost(x, y) => AtMost(Trim(x), Trim(y))
<1> DEFINE t == TrimPrecision
           X == DividedBy(x, t)
<1>1. t \in PositiveFloat /\ t \in Float
    BY FactorFacts, FloatParts
<1>2. Trim(x) = Times(Rounded(X), t)
    BY FloatsAreFinite DEF Trim
<1> HIDE DEF t
<1>3. X \in Float
    BY <1>1, DividedByType, FloatIsDividend
<1>4. Rounded(X) \in Float
    BY <1>3, RoundedType
<1>5. ASSUME NEW y \in Float, AtMost(x, y)
      PROVE  AtMost(Trim(x), Trim(y))
    <2> DEFINE Y == DividedBy(y, t)
    <2>1. Trim(y) = Times(Rounded(Y), t)
        BY FloatsAreFinite DEF Trim, t
    <2>2. Y \in Float /\ AtMost(X, Y)
        BY <1>1, <1>5, DividedByType, DividedByMonotone, FloatIsDividend
    <2> HIDE DEF X, Y
    <2>3. Rounded(Y) \in Float /\ AtMost(Rounded(X), Rounded(Y))
        BY <1>3, <2>2, RoundedType, RoundedMonotone
    <2> QED
        BY <1>1, <1>2, <1>4, <2>1, <2>3, TimesMonotone
<1> HIDE DEF X
<1>6. Trim(x) \in Float
    BY <1>1, <1>2, <1>4, TimesType
<1> QED
    BY <1>5, <1>6

LEMMA ScaledFacts ==
    ASSUME decimals \in Decimals, NEW x \in Float
    PROVE  /\ Scaled(x) \in Float
           /\ \A y \in Float : AtMost(x, y) => AtMost(Scaled(x), Scaled(y))
<1>1. DenominationFactor \in Float
    BY FactorFacts, FloatParts
<1>2. \A y \in Float : Scaled(y) = Times(y, DenominationFactor)
    BY FloatsAreFinite DEF Scaled
<1> QED
    BY <1>1, <1>2, TimesType, TimesMonotone

\* What notify converts when the aggregator answers x.
InUnits(x) == Scaled(Trim(Trim(x)))

LEMMA UnitsInOrder ==
    ASSUME decimals \in Decimals, NEW x \in Float, NEW y \in Float, AtMost(x, y)
    PROVE  /\ InUnits(x) \in Float /\ InUnits(y) \in Float
           /\ Truncated(InUnits(x)) \in Nat /\ Truncated(InUnits(y)) \in Nat
           /\ Truncated(InUnits(x)) <= Truncated(InUnits(y))
<1>1. Trim(x) \in Float /\ Trim(y) \in Float /\ AtMost(Trim(x), Trim(y))
    BY TrimFacts
<1>2. /\ Trim(Trim(x)) \in Float /\ Trim(Trim(y)) \in Float
      /\ AtMost(Trim(Trim(x)), Trim(Trim(y)))
    BY <1>1, TrimFacts
<1>3. InUnits(x) \in Float /\ InUnits(y) \in Float /\ AtMost(InUnits(x), InUnits(y))
    BY <1>2, ScaledFacts DEF InUnits
<1> QED
    BY <1>3, TruncatedIsNat, TruncatedMonotone

LEMMA SignBitFacts ==
    /\ SignBit \in Nat \ {0} /\ PowerOfTwo[Width] = 2 * SignBit
    /\ Unsigned = 0 .. 2 * SignBit - 1
<1>1. Width - 1 \in Nat /\ Width = (Width - 1) + 1
    BY WidthAssumption
<1>2. SignBit \in Nat \ {0} /\ PowerOfTwo[Width] = 2 * SignBit
    BY <1>1, PowerOfTwoFacts DEF SignBit
<1> QED
    BY <1>2 DEF Unsigned

LEMMA MagnitudeType == \A u \in Unsigned : Magnitude(u) \in 0 .. SignBit
BY SignBitFacts DEF Magnitude

\* What the contract is sent is in order, as long as it fits into an int64.
LEMMA ArgumentsInOrder ==
    ASSUME decimals \in Decimals, NEW x \in Float, NEW y \in Float, AtMost(x, y),
           Truncated(InUnits(y)) < SignBit,
           NEW u \in ToUnsigned(InUnits(x)), NEW v \in ToUnsigned(InUnits(y))
    PROVE  Magnitude(u) <= Magnitude(v)
<1> DEFINE m == Truncated(InUnits(x))
           n == Truncated(InUnits(y))
<1>1. m \in Nat /\ n \in Nat /\ m <= n /\ n < SignBit
    BY UnitsInOrder
<1>2. Finite(InUnits(x)) /\ Finite(InUnits(y))
    BY UnitsInOrder, FloatsAreFinite
<1> HIDE DEF m, n
<1>3. m \in Unsigned /\ n \in Unsigned
    BY <1>1, SignBitFacts
<1>4. u = m /\ v = n
    BY <1>2, <1>3 DEF ToUnsigned, m, n
<1> QED
    BY <1>1, <1>4, SignBitFacts DEF Magnitude

LEMMA SuccessorFacts ==
    \A a \in PositiveFloat : Successor(a) \in PositiveFloat /\ AtMost(a, Successor(a))
<1> TAKE a \in PositiveFloat
<1>1. /\ a.m \in Nat \ {0} /\ a.e \in Int /\ a = [m |-> a.m, e |-> a.e]
      /\ HiddenBit \in Nat \ {0} /\ HiddenBit <= a.m /\ a.m <= 2 * HiddenBit - 1
    BY FloatParts DEF PositiveFloat, Mantissas
<1>2. CASE a.m + 1 \in Mantissas
    <2>1. Successor(a) = [m |-> a.m + 1, e |-> a.e]
        BY <1>1, <1>2 DEF Successor
    <2>2. NoMore(a.m, a.e, a.m + 1, a.e)
        BY <1>1, NoMoreAtSame
    <2> QED
        BY <1>1, <1>2, <2>1, <2>2 DEF PositiveFloat, AtMost
<1>3. CASE a.m + 1 \notin Mantissas
    <2>1. Successor(a) = [m |-> HiddenBit, e |-> a.e + 1]
        BY <1>3 DEF Successor
    <2>2. NoMore(a.m, a.e, 2 * HiddenBit, a.e)
        BY <1>1, NoMoreAtSame
    <2>3. NoMore(2 * HiddenBit, a.e, HiddenBit, a.e + 1)
        BY <1>1, NextPlace
    <2>4. NoMore(a.m, a.e, HiddenBit, a.e + 1)
        <3>1. 2 * HiddenBit \in Nat /\ a.e + 1 \in Int
            BY <1>1
        <3> QED
            BY <1>1, <2>2, <2>3, <3>1, NoMoreTransitive
    <2>5. HiddenBit \in Mantissas /\ a.e + 1 \in Int
        BY <1>1 DEF Mantissas
    <2> QED
        BY <2>1, <2>4, <2>5 DEF PositiveFloat, AtMost
<1> QED
    BY <1>2, <1>3

-----------------------------------------------------------------------------
(***************************************************************************)
(* What each stage holds: the values computed from the price so far, and,  *)
(* until the price is sent itself, the argument sent for a price that was  *)
(* not higher.  Without the last part nothing would relate the two         *)
(* arguments that HigherNeverSentLower compares.                           *)
(***************************************************************************)
Climbing == Finite(price) /\ price # LowestPrice

SentBefore ==
    \E prior \in Float :
        /\ AtMost(prior, price)
        /\ \E u \in ToUnsigned(InUnits(prior)) : argument = Magnitude(u)

Values == Float \cup {Inf, NaN}

IInv ==
    /\ stage \in {"answered", "fetched", "notified", "sent"}
    /\ decimals \in Decimals
    /\ price \in PositiveFloat \cup {Inf, NaN}
    /\ fetched \in Values /\ recorded \in Values
    /\ denominated \in Unsigned /\ argument \in 0 .. SignBit
    /\ stage # "answered" => fetched = Trim(price)
    /\ stage \in {"notified", "sent"} =>
          recorded = Trim(fetched) /\ denominated \in ToUnsigned(Scaled(recorded))
    /\ stage = "sent" => argument = Magnitude(denominated)
    /\ stage # "sent" /\ Climbing => SentBefore

LEMMA ValuesType ==
    ASSUME decimals \in Decimals, NEW x \in Values
    PROVE  /\ Trim(x) \in Values
           /\ ToUnsigned(Scaled(x)) \subseteq Unsigned
<1>1. CASE x \in Float
    BY <1>1, TrimFacts, OverflowAssumption DEF Values, ToUnsigned
<1>2. CASE x \in {Inf, NaN}
    BY <1>2, OverflowAssumption DEF Values, ToUnsigned, Finite, Trim, Scaled
<1> QED
    BY <1>1, <1>2 DEF Values

LEMMA InitInv == Init => IInv
<1> SUFFICES ASSUME Init PROVE IInv
    OBVIOUS
<1>1. /\ stage = "answered" /\ decimals \in Decimals /\ price = LowestPrice
      /\ fetched = Zero /\ recorded = Zero /\ denominated = 0 /\ argument = 0
    BY DEF Init
<1>2. price \in PositiveFloat
    BY <1>1, PricesAssumption
<1>3. Zero \in Values
    BY DEF Values, Float
<1>4. 0 \in Unsigned /\ 0 \in 0 .. SignBit
    BY SignBitFacts
<1>5. ~Climbing
    BY <1>1 DEF Climbing
<1> QED
    BY <1>1, <1>2, <1>3, <1>4, <1>5 DEF IInv

LEMMA InvImpliesTypeOK == IInv => TypeOK
BY FloatParts DEF IInv, TypeOK, Values

LEMMA FiniteIsFloat ==
    ASSUME IInv, Finite(price)
    PROVE  price \in PositiveFloat /\ price \in Float
BY FloatParts DEF IInv, Finite

LEMMA GetAllPricesInv == IInv /\ GetAllPrices => IInv'
<1> SUFFICES ASSUME IInv, GetAllPrices PROVE IInv'
    OBVIOUS
<1>1. /\ stage = "answered" /\ stage' = "fetched" /\ fetched' = Trim(price)
      /\ UNCHANGED <<decimals, price, recorded, denominated, argument>>
    BY DEF GetAllPrices
<1>2. Trim(price)' = Trim(price)
    BY <1>1 DEF Trim, TrimPrecision, DenominationFactor
<1>3. price \in Values /\ decimals \in Decimals
    BY FloatParts DEF IInv, Values
<1>4. fetched' \in Values
    BY <1>1, <1>3, ValuesType
<1>5. (Climbing => SentBefore)'
    <2>1. Climbing => SentBefore
        BY <1>1 DEF IInv
    <2> QED
        BY <1>1, <2>1 DEF Climbing, SentBefore, Finite, InUnits, ToUnsigned, Trim, Scaled,
                          TrimPrecision, DenominationFactor
<1> QED
    BY <1>1, <1>2, <1>3, <1>4, <1>5 DEF IInv

LEMMA NotifyInv == IInv /\ Notify => IInv'
<1> SUFFICES ASSUME IInv, Notify PROVE IInv'
    OBVIOUS
<1>1. /\ stage = "fetched" /\ stage' = "notified" /\ recorded' = Trim(fetched)
      /\ denominated' \in ToUnsigned(Scaled(recorded))'
      /\ UNCHANGED <<decimals, price, fetched, argument>>
    BY DEF Notify, ToUnsigned, Scaled, DenominationFactor
<1>2. /\ Trim(price)' = Trim(price) /\ Trim(fetched)' = Trim(fetched)
      /\ ToUnsigned(Scaled(recorded))' = ToUnsigned(Scaled(recorded'))
    BY <1>1 DEF Trim, TrimPrecision, DenominationFactor, ToUnsigned, Scaled
<1>3. fetched \in Values /\ decimals \in Decimals /\ fetched = Trim(price)
    BY <1>1 DEF IInv
<1>4. recorded' \in Values /\ denominated' \in Unsigned
    <2>1. recorded' \in Values
        BY <1>1, <1>3, ValuesType
    <2> QED
        BY <1>1, <1>2, <1>3, <2>1, ValuesType
<1>5. (Climbing => SentBefore)'
    <2>1. Climbing => SentBefore
        BY <1>1 DEF IInv
    <2> QED
        BY <1>1, <2>1 DEF Climbing, SentBefore, Finite, InUnits, ToUnsigned, Trim, Scaled,
                          TrimPrecision, DenominationFactor
<1> QED
    BY <1>1, <1>2, <1>3, <1>4, <1>5 DEF IInv

LEMMA PrepareTxDataInv == IInv /\ PrepareTxData => IInv'
<1> SUFFICES ASSUME IInv, PrepareTxData PROVE IInv'
    OBVIOUS
<1>1. /\ stage = "notified" /\ stage' = "sent" /\ argument' = Magnitude(denominated)
      /\ UNCHANGED <<decimals, price, fetched, recorded, denominated>>
    BY DEF PrepareTxData
<1>2. /\ Trim(price)' = Trim(price) /\ Trim(fetched)' = Trim(fetched)
      /\ ToUnsigned(Scaled(recorded))' = ToUnsigned(Scaled(recorded))
    BY <1>1 DEF Trim, TrimPrecision, DenominationFactor, ToUnsigned, Scaled
<1>3. argument' \in 0 .. SignBit
    BY <1>1, MagnitudeType DEF IInv
<1> QED
    BY <1>1, <1>2, <1>3 DEF IInv

LEMMA NextPriceInv == IInv /\ NextPrice => IInv'
<1> SUFFICES ASSUME IInv, NextPrice PROVE IInv'
    OBVIOUS
<1>1. /\ stage = "sent" /\ stage' = "answered"
      /\ UNCHANGED <<decimals, fetched, recorded, denominated, argument>>
    BY DEF NextPrice
<1>2. \/ price' = LowestPrice
      \/ price' \in {Inf, NaN}
      \/ Finite(price) /\ price' = Successor(price)
    BY DEF NextPrice
<1>3. price' \in PositiveFloat \cup {Inf, NaN}
    BY <1>2, FiniteIsFloat, SuccessorFacts, PricesAssumption
<1>4. ASSUME Climbing' PROVE SentBefore'
    <2>1. Finite(price) /\ price' = Successor(price)
        BY <1>2, <1>4 DEF Climbing, Finite
    <2>2. price \in Float /\ AtMost(price, price')
        BY <2>1, FiniteIsFloat, SuccessorFacts
    <2>3. denominated \in ToUnsigned(InUnits(price)) /\ argument = Magnitude(denominated)
        BY <1>1 DEF IInv, InUnits
    <2>4. \A prior : ToUnsigned(InUnits(prior))' = ToUnsigned(InUnits(prior))
        BY <1>1 DEF InUnits, ToUnsigned, Trim, Scaled, TrimPrecision, DenominationFactor
    <2> QED
        BY <1>1, <2>2, <2>3, <2>4 DEF SentBefore
<1> QED
    BY <1>1, <1>3, <1>4 DEF IInv

LEMMA StutterInv == IInv /\ UNCHANGED vars => IInv'
BY DEF vars, IInv, Climbing, SentBefore, Finite, InUnits, ToUnsigned, Trim, Scaled,
       TrimPrecision, DenominationFactor

LEMMA StepInv == IInv /\ [Next]_vars => IInv'
BY GetAllPricesInv, NotifyInv, PrepareTxDataInv, NextPriceInv, StutterInv DEF Next

LEMMA Invariance == Spec => []IInv
BY InitInv, StepInv, PTL DEF Spec

(***************************************************************************)
(* Whatever is converted, the numbers that leave the oracle are integers   *)
(* of their width, and what is trimmed is a float.                         *)
(***************************************************************************)
THEOREM TypeCorrect == Spec => []TypeOK
BY Invariance, InvImpliesTypeOK, PTL

(***************************************************************************)
(* With float64 and uint64, for every number of decimals, and every price: *)
(* a higher one never arrives at the contract as a lower one, as long as   *)
(* its units fit into an int64.                                            *)
(***************************************************************************)
THEOREM HigherNeverLower == Spec => HigherNeverSentLower
<1>1. ASSUME IInv, PrepareTxData, Finite(price), price # LowestPrice,
             Truncated(Scaled(recorded)) < SignBit
      PROVE  argument' >= argument
    <2>1. stage = "notified" /\ argument' = Magnitude(denominated) /\ decimals \in Decimals
        BY <1>1 DEF PrepareTxData, IInv
    <2>2. price \in Float
        BY <1>1, FiniteIsFloat
    <2>3. Scaled(recorded) = InUnits(price) /\ denominated \in ToUnsigned(InUnits(price))
        BY <1>1, <2>1 DEF IInv, InUnits
    <2>4. PICK prior \in Float : /\ AtMost(prior, price)
                                 /\ \E u \in ToUnsigned(InUnits(prior)) : argument = Magnitude(u)
        BY <1>1, <2>1 DEF IInv, Climbing, SentBefore
    <2>5. PICK u \in ToUnsigned(InUnits(prior)) : argument = Magnitude(u)
        BY <2>4
    <2>6. Magnitude(u) <= Magnitude(denominated)
        BY <1>1, <2>1, <2>2, <2>3, <2>4, ArgumentsInOrder
    <2>7. argument' \in 0 .. SignBit /\ argument \in 0 .. SignBit
        BY <1>1, <2>1, MagnitudeType DEF IInv
    <2> QED
        BY <2>1, <2>5, <2>6, <2>7, SignBitFacts
<1> QED
    BY <1>1, Invariance, PTL DEF HigherNeverSentLower

-----------------------------------------------------------------------------
(***************************************************************************)
(* Trimming twice.  A nearest float is off by at most a part in 2^(bits of *)
(* the mantissa + 1) of the number; so what is trimmed is within a quarter *)
(* of a unit of its number of units, and the next trimming finds this      *)
(* number again.                                                           *)
(***************************************************************************)
LEMMA NoMoreScaled ==
    ASSUME NEW m \in Nat, NEW d \in Int, NEW n \in Nat, NEW e \in Int, NEW k \in Nat \ {0}
    PROVE  NoMore(k * m, d, k * n, e) <=> NoMore(m, d, n, e)
<1>1. PICK base \in Int : base <= d /\ base <= e
    <2>1. CASE d <= e
        BY <2>1
    <2>2. CASE e <= d
        BY <2>2
    <2> QED
        BY <2>1, <2>2
<1> DEFINE x == PowerOfTwo[d - base]
           y == PowerOfTwo[e - base]
<1>2. x \in Nat /\ y \in Nat
    <2>1. d - base \in Nat /\ e - base \in Nat
        BY <1>1
    <2> QED
        BY <2>1, PowerOfTwoFacts
<1>3. NoMore(m, d, n, e) <=> m * x <= n * y
    BY <1>1, CommonBase
<1>4. NoMore(k * m, d, k * n, e) <=> (k * m) * x <= (k * n) * y
    <2>1. k * m \in Nat /\ k * n \in Nat
        OBVIOUS
    <2> QED
        BY <1>1, <2>1, CommonBase
<1> HIDE DEF x, y
<1>5. m * x \in Nat /\ n * y \in Nat /\ (k * m) * x = (m * x) * k /\ (k * n) * y = (n * y) * k
    BY <1>2
<1>6. m * x <= n * y <=> (m * x) * k <= (n * y) * k
    BY <1>5, Cancel
<1> QED
    BY <1>3, <1>4, <1>5, <1>6

LEMMA NoMoreShifted ==
    ASSUME NEW m \in Nat, NEW d \in Int, NEW n \in Nat, NEW e \in Int, NEW c \in Int
    PROVE  NoMore(m, d + c, n, e + c) <=> NoMore(m, d, n, e)
<1>1. /\ d + c >= e + c <=> d >= e
      /\ (d + c) - (e + c) = d - e /\ (e + c) - (d + c) = e - d
    OBVIOUS
<1> QED
    BY <1>1 DEF NoMore

SameNumber(m, d, n, e) == NoMore(m, d, n, e) /\ NoMore(n, e, m, d)

LEMMA SameNumberIf ==
    ASSUME NEW m \in Nat, NEW d \in Int, NEW n \in Nat, NEW e \in Int,
           NEW base \in Int, base <= d, base <= e,
           m * PowerOfTwo[d - base] = n * PowerOfTwo[e - base]
    PROVE  SameNumber(m, d, n, e)
<1> DEFINE x == m * PowerOfTwo[d - base]
           y == n * PowerOfTwo[e - base]
<1>1. d - base \in Nat /\ e - base \in Nat
    OBVIOUS
<1>2. PowerOfTwo[d - base] \in Nat /\ PowerOfTwo[e - base] \in Nat
    BY <1>1, PowerOfTwoFacts
<1>3. x = y /\ x \in Nat
    BY <1>2
<1>4. (NoMore(m, d, n, e) <=> x <= y) /\ (NoMore(n, e, m, d) <=> y <= x)
    BY CommonBase
<1> HIDE DEF x, y
<1> QED
    BY <1>3, <1>4 DEF SameNumber

\* A factor that is a power of two may be moved to the exponent.
LEMMA MovedUp ==
    ASSUME NEW m \in Nat, NEW j \in Nat, NEW e \in Int
    PROVE  SameNumber(m * PowerOfTwo[j], e, m, e + j)
<1> DEFINE p == PowerOfTwo[j]
<1>1. p \in Nat /\ PowerOfTwo[e - e] = 1 /\ PowerOfTwo[e + j - e] = p /\ e <= e + j /\ e + j \in Int
    <2>1. e - e = 0 /\ e + j - e = j
        OBVIOUS
    <2> QED
        BY <2>1, PowerOfTwoFacts
<1>2. PowerOfTwo[(e + j) - e] = p
    BY <1>1
<1> HIDE DEF p
<1>3. m * p \in Nat /\ (m * p) * PowerOfTwo[e - e] = m * PowerOfTwo[(e + j) - e]
    BY <1>1, <1>2
<1>4. SameNumber(m * p, e, m, e + j)
    <2>1. e <= e /\ e <= e + j
        BY <1>1
    <2> QED
        BY <1>1, <1>3, <2>1, SameNumberIf
<1> QED
    BY <1>4 DEF p

\* Rounding is off by at most a half.
LEMMA RoundingError ==
    ASSUME NEW a \in Nat, NEW c \in Nat \ {0}
    PROVE  /\ 2 * (RoundTiesToEven(a, c) * c) <= 2 * a + c
           /\ 2 * a <= 2 * (RoundTiesToEven(a, c) * c) + c
<1> DEFINE q == a \div c
           r == a % c
           s == RoundTiesToEven(a, c)
<1>1. q \in Nat /\ r \in Nat /\ r <= c - 1 /\ a = q * c + r
    <2>1. q \in Nat /\ r \in 0 .. c - 1 /\ a = q * c + r
        BY Euclid
    <2> HIDE DEF q, r
    <2> QED
        BY <2>1
<1>2. \/ s = q + 1 /\ c <= 2 * r
      \/ s = q /\ 2 * r <= c
    <2>1. \/ s = q + 1 /\ (2 * r > c \/ 2 * r = c)
          \/ s = q /\ ~(2 * r > c)
        BY DEF RoundTiesToEven
    <2> HIDE DEF q, r, s
    <2> QED
        BY <1>1, <2>1
<1> HIDE DEF q, r, s
<1>3. q * c \in Nat /\ (q + 1) * c = q * c + c
    BY <1>1
<1>4. CASE s = q + 1 /\ c <= 2 * r
    <2>1. s * c = q * c + c
        BY <1>3, <1>4
    <2> QED
        BY <1>1, <1>3, <1>4, <2>1 DEF s
<1>5. CASE s = q /\ 2 * r <= c
    <2>1. s * c = q * c
        BY <1>5
    <2> QED
        BY <1>1, <1>3, <1>5, <2>1 DEF s
<1> QED
    BY <1>2, <1>4, <1>5

\* A rounded quotient of more than HiddenBit is off by a part in 4 * HiddenBit.
LEMMA SignificandError ==
    ASSUME NEW a \in Nat, NEW c \in Nat \ {0}, HiddenBit * c <= a
    PROVE  LET h == 2 * HiddenBit
               s == RoundTiesToEven(a, c)
           IN  (h - 1) * a <= h * (s * c) /\ h * (s * c) <= (h + 1) * a
<1> DEFINE h == 2 * HiddenBit
           s == RoundTiesToEven(a, c)
<1>1. /\ h \in Nat \ {0} /\ HiddenBit \in Nat \ {0} /\ h = 2 * HiddenBit /\ s \in Nat
    BY HiddenBitFacts, RoundedIsNat
<1>2. 2 * (s * c) <= 2 * a + c /\ 2 * a <= 2 * (s * c) + c
    BY RoundingError
<1> HIDE DEF h, s
<1> DEFINE v == s * c
<1>3. v \in Nat
    BY <1>1
<1> HIDE DEF v
<1>4. 2 * v <= 2 * a + c /\ 2 * a <= 2 * v + c
    BY <1>2 DEF v
<1>5. /\ HiddenBit * (2 * v) <= HiddenBit * (2 * a + c)
      /\ HiddenBit * (2 * a) <= HiddenBit * (2 * v + c)
    <2>1. 2 * v \in Nat /\ 2 * a + c \in Nat /\ 2 * a \in Nat /\ 2 * v + c \in Nat
        BY <1>3
    <2>2. HiddenBit <= HiddenBit
        BY <1>1
    <2> QED
        BY <1>1, <1>4, <2>1, <2>2, ProductOrder
<1>6. /\ HiddenBit * (2 * v) = h * v /\ HiddenBit * (2 * a + c) = h * a + HiddenBit * c
      /\ HiddenBit * (2 * a) = h * a /\ HiddenBit * (2 * v + c) = h * v + HiddenBit * c
    BY <1>1, <1>3
<1>7. (h - 1) * a = h * a - a /\ (h + 1) * a = h * a + a
    BY <1>1
<1>8. h * v \in Nat /\ h * a \in Nat /\ HiddenBit * c \in Nat
    BY <1>1, <1>3
<1>9. (h - 1) * a <= h * v /\ h * v <= (h + 1) * a
    BY <1>5, <1>6, <1>7, <1>8
<1> QED
    BY <1>9 DEF v, h, s

LEMMA NearestError ==
    ASSUME NEW n \in Nat \ {0}, NEW e \in Int
    PROVE  LET f == Nearest(n, e)
               h == 2 * HiddenBit
           IN  /\ NoMore((h - 1) * n, e, h * f.m, f.e)
               /\ NoMore(h * f.m, f.e, (h + 1) * n, e)
<1> DEFINE f == Nearest(n, e)
           h == 2 * HiddenBit
           s == Significand(n)
           a == Numerator(n)
           c == Divisor(n)
<1>1. /\ h \in Nat \ {0} /\ h - 1 \in Nat /\ h + 1 \in Nat
      /\ HiddenBit \in Nat \ {0} /\ h = 2 * HiddenBit
    BY HiddenBitFacts
<1>2. f.m \in Nat /\ f.e \in Int
    <2>1. f \in Float
        BY NearestType
    <2> QED
        BY <2>1, FloatParts
<1>3. /\ Shift(n) \in Int /\ a \in Nat /\ c \in Nat \ {0} /\ s \in Nat
      /\ s = RoundTiesToEven(a, c)
    <2>1. s = RoundTiesToEven(a, c)
        BY DEF Significand
    <2> QED
        BY <2>1, ShiftType, RoundedIsNat
<1>4. PICK E \in Int : E = e + Shift(n)
    BY <1>3
<1>5. PICK base \in Int : base <= e /\ base <= E
    <2>1. CASE e <= E
        BY <2>1
    <2>2. CASE E <= e
        BY <2>2
    <2> QED
        BY <2>1, <2>2
<1> DEFINE x == n * PowerOfTwo[e - base]
           z == PowerOfTwo[E - base]
<1>6. x * c = a * z
    <2>1. x * c = a * PowerOfTwo[e + Shift(n) - base]
        BY <1>3, <1>4, <1>5, ExactSignificand
    <2>2. e + Shift(n) - base = E - base
        BY <1>3, <1>4
    <2> QED
        BY <2>1, <2>2
<1>7. x \in Nat /\ z \in Nat \ {0} /\ PowerOfTwo[e - base] \in Nat
    <2>1. e - base \in Nat /\ E - base \in Nat
        BY <1>5
    <2>2. PowerOfTwo[e - base] \in Nat /\ z \in Nat \ {0}
        BY <2>1, PowerOfTwoFacts
    <2> QED
        BY <2>2
<1>8. SameNumber(f.m, f.e, s, E)
    <2>1. NoMore(f.m, f.e, s, e + Shift(n)) /\ NoMore(s, e + Shift(n), f.m, f.e)
        BY NearestIsSignificand
    <2> QED
        BY <1>4, <2>1 DEF SameNumber
<1>9. HiddenBit * c <= a
    BY SignificandBounds
<1> HIDE DEF f, h, s, a, c
<1>10. (h - 1) * a <= h * (s * c) /\ h * (s * c) <= (h + 1) * a
    BY <1>3, <1>9, SignificandError DEF h
<1> HIDE DEF x, z
<1>11. (h - 1) * x <= (h * s) * z
    <2>1. ((h - 1) * a) * z <= (h * (s * c)) * z
        <3>1. (h - 1) * a \in Nat /\ s * c \in Nat
            BY <1>1, <1>3
        <3>2. h * (s * c) \in Nat
            BY <1>1, <3>1
        <3> QED
            BY <1>7, <1>10, <3>1, <3>2, Cancel
    <2>2. ((h - 1) * a) * z = (h - 1) * (a * z)
        BY <1>1, <1>3, <1>7
    <2>3. (h - 1) * (x * c) = ((h - 1) * x) * c
        BY <1>1, <1>3, <1>7
    <2>4. (h * (s * c)) * z = ((h * s) * z) * c
        BY <1>1, <1>3, <1>7
    <2>5. ((h - 1) * x) * c <= ((h * s) * z) * c
        BY <1>6, <2>1, <2>2, <2>3, <2>4
    <2>6. (h - 1) * x \in Nat /\ h * s \in Nat
        BY <1>1, <1>3, <1>7
    <2>7. (h * s) * z \in Nat
        BY <1>7, <2>6
    <2> QED
        BY <1>3, <2>5, <2>6, <2>7, Cancel
<1>12. (h * s) * z <= (h + 1) * x
    <2>1. (h * (s * c)) * z <= ((h + 1) * a) * z
        <3>1. (h + 1) * a \in Nat /\ s * c \in Nat
            BY <1>1, <1>3
        <3>2. h * (s * c) \in Nat
            BY <1>1, <3>1
        <3> QED
            BY <1>7, <1>10, <3>1, <3>2, Cancel
    <2>2. ((h + 1) * a) * z = (h + 1) * (a * z)
        BY <1>1, <1>3, <1>7
    <2>3. (h + 1) * (x * c) = ((h + 1) * x) * c
        BY <1>1, <1>3, <1>7
    <2>4. (h * (s * c)) * z = ((h * s) * z) * c
        BY <1>1, <1>3, <1>7
    <2>5. ((h * s) * z) * c <= ((h + 1) * x) * c
        BY <1>6, <2>1, <2>2, <2>3, <2>4
    <2>6. (h + 1) * x \in Nat /\ h * s \in Nat
        BY <1>1, <1>3, <1>7
    <2>7. (h * s) * z \in Nat
        BY <1>7, <2>6
    <2> QED
        BY <1>3, <2>5, <2>6, <2>7, Cancel
<1>13. /\ NoMore((h - 1) * n, e, h * s, E) /\ NoMore(h * s, E, (h + 1) * n, e)
       /\ h * s \in Nat /\ h * f.m \in Nat /\ (h - 1) * n \in Nat /\ (h + 1) * n \in Nat
    <2>1. /\ (h - 1) * n \in Nat /\ (h + 1) * n \in Nat /\ h * s \in Nat /\ h * f.m \in Nat
        BY <1>1, <1>2, <1>3
    <2>2. /\ ((h - 1) * n) * PowerOfTwo[e - base] = (h - 1) * x
          /\ ((h + 1) * n) * PowerOfTwo[e - base] = (h + 1) * x
        BY <1>1, <1>7 DEF x
    <2>3. /\ ((h - 1) * n) * PowerOfTwo[e - base] <= (h * s) * PowerOfTwo[E - base]
          /\ (h * s) * PowerOfTwo[E - base] <= ((h + 1) * n) * PowerOfTwo[e - base]
        BY <1>11, <1>12, <2>2 DEF z
    <2> QED
        BY <1>5, <2>1, <2>3, CommonBase
<1>14. NoMore(h * s, E, h * f.m, f.e) /\ NoMore(h * f.m, f.e, h * s, E)
    BY <1>1, <1>2, <1>3, <1>8, NoMoreScaled DEF SameNumber
<1>15. NoMore((h - 1) * n, e, h * f.m, f.e) /\ NoMore(h * f.m, f.e, (h + 1) * n, e)
    <2> DEFINE below == (h - 1) * n
               sig   == h * s
               here  == h * f.m
               above == (h + 1) * n
    <2>1. /\ NoMore(below, e, sig, E) /\ NoMore(sig, E, above, e)
          /\ NoMore(sig, E, here, f.e) /\ NoMore(here, f.e, sig, E)
          /\ below \in Nat /\ sig \in Nat /\ here \in Nat /\ above \in Nat
        BY <1>13, <1>14
    <2> HIDE DEF below, sig, here, above
    <2>2. NoMore(below, e, here, f.e) /\ NoMore(here, f.e, above, e)
        BY <1>2, <2>1, NoMoreTransitive
    <2> QED
        BY <2>2 DEF below, here, above
<1> QED
    BY <1>15 DEF f, h

\* An integer that a mantissa can hold is a float.
LEMMA ExactNearest ==
    ASSUME NEW n \in Nat \ {0}, n < 2 * HiddenBit, NEW e \in Int
    PROVE  SameNumber(Nearest(n, e).m, Nearest(n, e).e, n, e)
<1> DEFINE f == Nearest(n, e)
           L == BitLength[n]
           s == Significand(n)
<1>1. /\ HiddenBit \in Nat \ {0} /\ PowerOfTwo[MantissaBits] = 2 * HiddenBit
      /\ MantissaBits \in Nat \ {0}
    BY HiddenBitFacts, MantissaAssumption
<1>2. L \in Nat \ {0} /\ PowerOfTwo[L - 1] <= n
    BY BitLengthFacts
<1> HIDE DEF L
<1>3. L - 1 \in Nat
    BY <1>2
<1>4. PowerOfTwo[L - 1] \in Nat
    BY <1>3, PowerOfTwoFacts
<1>5. ~(MantissaBits <= L - 1)
    <2> SUFFICES ASSUME MantissaBits <= L - 1 PROVE FALSE
        OBVIOUS
    <2>1. PowerOfTwo[MantissaBits] <= PowerOfTwo[L - 1]
        BY <1>1, <1>3, PowersGrow
    <2> QED
        BY <1>1, <1>2, <1>4, <2>1
<1>6. Shift(n) \in Int /\ Shift(n) <= 0
    BY <1>1, <1>2, <1>5 DEF Shift, L
<1>7. PICK j \in Nat : j = -Shift(n)
    BY <1>6
<1>8. s = n * PowerOfTwo[j] /\ s \in Nat
    <2>1. Numerator(n) = n * PowerOfTwo[j] /\ Divisor(n) = 1
        BY <1>6, <1>7 DEF Numerator, Divisor
    <2>2. Numerator(n) \in Nat
        BY ShiftType
    <2> QED
        BY <2>1, <2>2, RoundedWhole DEF Significand
<1>9. PICK E \in Int : E = e + Shift(n) /\ E + j = e
    BY <1>6, <1>7
<1>10. SameNumber(s, E, n, e)
    <2>1. SameNumber(n * PowerOfTwo[j], E, n, E + j)
        BY <1>7, <1>9, MovedUp
    <2> QED
        BY <1>8, <1>9, <2>1
<1>11. SameNumber(f.m, f.e, s, E)
    <2>1. NoMore(f.m, f.e, s, e + Shift(n)) /\ NoMore(s, e + Shift(n), f.m, f.e)
        BY NearestIsSignificand
    <2> QED
        BY <1>9, <2>1 DEF SameNumber
<1>12. f.m \in Nat /\ f.e \in Int
    <2>1. f \in Float
        BY NearestType
    <2> QED
        BY <2>1, FloatParts
<1> HIDE DEF f, s
<1>13. SameNumber(f.m, f.e, n, e)
    BY <1>8, <1>9, <1>10, <1>11, <1>12, NoMoreTransitive DEF SameNumber
<1> QED
    BY <1>13 DEF f

\* Alike floats are the same float: a mantissa has its first bit.
LEMMA AlikeEqual ==
    ASSUME NEW f \in Float, NEW g \in Float, Alike(f, g)
    PROVE  f = g
<1>1. f.m \in Nat /\ f.e \in Int /\ g.m \in Nat /\ g.e \in Int
    BY FloatParts
<1>2. NoMore(f.m, f.e, g.m, g.e) /\ NoMore(g.m, g.e, f.m, f.e)
    BY DEF Alike, AtMost
<1>3. f.m = 0 <=> g.m = 0
    BY <1>1, <1>2, NothingBelowZero
<1>4. CASE f.m = 0
    BY <1>3, <1>4, FloatParts
<1>5. CASE f.m # 0
    <2>1. f \in PositiveFloat /\ g \in PositiveFloat
        BY <1>3, <1>5, FloatParts DEF Zero
    <2>2. /\ HiddenBit \in Nat \ {0}
          /\ HiddenBit <= f.m /\ f.m < 2 * HiddenBit /\ f = [m |-> f.m, e |-> f.e]
          /\ HiddenBit <= g.m /\ g.m < 2 * HiddenBit /\ g = [m |-> g.m, e |-> g.e]
        BY <2>1, FloatParts DEF PositiveFloat, Mantissas
    <2>3. ASSUME NEW a \in Nat, NEW d \in Int, NEW b \in Nat, NEW e \in Int, d < e,
                 HiddenBit <= b, a < 2 * HiddenBit, NoMore(b, e, a, d)
          PROVE  FALSE
        <3>1. NoMore(2 * HiddenBit, d, HiddenBit, e)
            BY <2>3, NextPlace
        <3>2. NoMore(HiddenBit, e, b, e)
            BY <2>2, <2>3, NoMoreAtSame
        <3>3. 2 * HiddenBit \in Nat
            BY <2>2
        <3>4. NoMore(2 * HiddenBit, d, b, e)
            BY <2>2, <2>3, <3>1, <3>2, <3>3, NoMoreTransitive
        <3>5. NoMore(2 * HiddenBit, d, a, d)
            BY <2>2, <2>3, <3>3, <3>4, NoMoreTransitive
        <3>6. 2 * HiddenBit <= a
            BY <2>3, <3>3, <3>5, NoMoreAtSame
        <3> QED
            BY <2>2, <2>3, <3>6
    <2>4. f.e = g.e
        BY <1>1, <1>2, <2>2, <2>3
    <2>5. f.m <= g.m /\ g.m <= f.m
        BY <1>1, <1>2, <2>4, NoMoreAtSame
    <2> QED
        BY <1>1, <2>2, <2>4, <2>5
<1> QED
    BY <1>4, <1>5

LEMMA AlikeNearest ==
    ASSUME NEW m \in Nat, NEW d \in Int, NEW n \in Nat, NEW e \in Int, SameNumber(m, d, n, e)
    PROVE  Nearest(m, d) = Nearest(n, e)
<1>1. Nearest(m, d) \in Float /\ Nearest(n, e) \in Float
    BY NearestType
<1>2. Alike(Nearest(m, d), Nearest(n, e))
    BY NearestMonotone DEF SameNumber, Alike
<1> QED
    BY <1>1, <1>2, AlikeEqual

\* Dividing n * 2^e * c by c.
LEMMA QuotientExact ==
    ASSUME NEW n \in Nat \ {0}, NEW e \in Int, NEW c \in PositiveFloat, NEW a,
           a.m = n * c.m, a.e = e + c.e
    PROVE  IsDividend(a) /\ DividedBy(a, c) = Nearest(n, e)
<1>1. /\ c.m \in Nat \ {0} /\ c.e \in Int /\ HiddenBit <= c.m /\ HiddenBit \in Nat \ {0}
      /\ GuardBits \in Nat /\ GuardBits + 1 \in Nat
    BY FloatParts, MantissaAssumption DEF GuardBits, PositiveFloat
<1>2. a.m \in Nat /\ a.e \in Int /\ HiddenBit <= a.m
    <2>1. 1 * c.m <= n * c.m
        BY <1>1, Cancel
    <2>2. n * c.m \in Nat
        BY <1>1
    <2> QED
        BY <1>1, <2>1, <2>2
<1>3. IsDividend(a)
    BY <1>2 DEF IsDividend
<1> DEFINE G == PowerOfTwo[GuardBits]
<1>4. G \in Nat /\ PowerOfTwo[GuardBits + 1] = 2 * G
    BY <1>1, PowerOfTwoFacts
<1> HIDE DEF G
<1>5. Quotient(a, c) = n * PowerOfTwo[GuardBits + 1]
    <2>1. n * G \in Nat /\ (n * c.m) * G = (n * G) * c.m
        BY <1>1, <1>4
    <2>2. a.m * G \in Nat /\ a.m * G = (n * G) * c.m + 0 /\ 0 \in 0 .. c.m - 1
        <3>1. (n * G) * c.m \in Nat
            BY <1>1, <2>1
        <3>2. (n * G) * c.m + 0 = (n * G) * c.m /\ 0 \in 0 .. c.m - 1
            BY <1>1, <3>1
        <3> QED
            BY <2>1, <3>1, <3>2
    <2>3. (a.m * G) \div c.m = n * G /\ (a.m * G) % c.m = 0
        BY <1>1, <2>1, <2>2, DivisionIs
    <2>4. Sticky(a.m * G, c.m) = 2 * (n * G) + 0
        BY <2>3 DEF Sticky
    <2>5. 2 * (n * G) + 0 = n * (2 * G)
        BY <1>4, <2>1
    <2> QED
        BY <1>4, <2>4, <2>5 DEF Quotient, G
<1>6. PICK b \in Int : b = a.e - c.e - GuardBits - 1 /\ b + (GuardBits + 1) = e
    BY <1>1, <1>2
<1>7. SameNumber(n * PowerOfTwo[GuardBits + 1], b, n, e)
    BY <1>1, <1>6, MovedUp
<1>8. n * PowerOfTwo[GuardBits + 1] \in Nat
    BY <1>4
<1>9. DividedBy(a, c) = Nearest(n * PowerOfTwo[GuardBits + 1], b)
    BY <1>5, <1>6, DividedByIs
<1> QED
    BY <1>3, <1>7, <1>8, <1>9, AlikeNearest

LEMMA QuotientBounds ==
    ASSUME NEW a \in Float, NEW n \in Nat \ {0}, NEW e \in Int, NEW c \in PositiveFloat
    PROVE  /\ NoMore(a.m, a.e, n * c.m, e + c.e) => AtMost(DividedBy(a, c), Nearest(n, e))
           /\ NoMore(n * c.m, e + c.e, a.m, a.e) => AtMost(Nearest(n, e), DividedBy(a, c))
<1> DEFINE b == [m |-> n * c.m, e |-> e + c.e]
<1>1. b.m = n * c.m /\ b.e = e + c.e
    OBVIOUS
<1> HIDE DEF b
<1>2. IsDividend(b) /\ DividedBy(b, c) = Nearest(n, e)
    BY <1>1, QuotientExact
<1>3. IsDividend(a)
    BY FloatIsDividend
<1>4. AtMost(a, b) => AtMost(DividedBy(a, c), DividedBy(b, c))
    BY <1>2, <1>3, DividedByMonotone
<1>5. AtMost(b, a) => AtMost(DividedBy(b, c), DividedBy(a, c))
    BY <1>2, <1>3, DividedByMonotone
<1> QED
    BY <1>1, <1>2, <1>4, <1>5 DEF AtMost

LEMMA QuotientWithin ==
    ASSUME NEW a \in Float, NEW n \in Nat \ {0}, n < 2 * HiddenBit, NEW e \in Int,
           NEW c \in PositiveFloat
    PROVE  LET y == DividedBy(a, c)
           IN  /\ NoMore(a.m, a.e, n * c.m, e + c.e) => NoMore(y.m, y.e, n, e)
               /\ NoMore(n * c.m, e + c.e, a.m, a.e) => NoMore(n, e, y.m, y.e)
<1> DEFINE y == DividedBy(a, c)
           f == Nearest(n, e)
<1>1. f.m \in Nat /\ f.e \in Int /\ y.m \in Nat /\ y.e \in Int
    <2>1. f \in Float /\ y \in Float
        BY NearestType, DividedByType, FloatIsDividend
    <2> QED
        BY <2>1, FloatParts
<1>2. NoMore(f.m, f.e, n, e) /\ NoMore(n, e, f.m, f.e)
    BY ExactNearest DEF SameNumber
<1>3. /\ NoMore(a.m, a.e, n * c.m, e + c.e) => NoMore(y.m, y.e, f.m, f.e)
      /\ NoMore(n * c.m, e + c.e, a.m, a.e) => NoMore(f.m, f.e, y.m, y.e)
    BY QuotientBounds DEF AtMost
<1> HIDE DEF f, y
<1>4. NoMore(y.m, y.e, f.m, f.e) => NoMore(y.m, y.e, n, e)
    BY <1>1, <1>2, NoMoreTransitive
<1>5. NoMore(f.m, f.e, y.m, y.e) => NoMore(n, e, y.m, y.e)
    BY <1>1, <1>2, NoMoreTransitive
<1> QED
    BY <1>3, <1>4, <1>5 DEF y

\* The exponents of a half and of a quarter.
Half == -1
Quarter == -2

\* The integer a float is rounded to: halves upwards, and r, if the float is
\* within a quarter of it.
LEMMA RoundedNat ==
    ASSUME NEW a \in Float
    PROVE  \E r \in Nat : /\ Rounded(a) = Nearest(r, 0)
                          /\ \A n \in Nat : NoMore(a.m, a.e, 4 * n + 1, Quarter) => r <= n
                          /\ \A n \in Nat \ {0} : NoMore(4 * n - 1, Quarter, a.m, a.e) => n <= r
                          /\ \A n \in Nat : NoMore(2 * n + 1, Half, a.m, a.e) <=> n + 1 <= r
<1>1. a.m \in Nat /\ a.e \in Int
    BY FloatParts
<1>2. PICK j \in Nat : a.e + (j + 2) \in Nat
    <2>1. CASE a.e >= 0
        <3>1. a.e + (0 + 2) \in Nat
            BY <1>1, <2>1
        <3> QED
            BY <3>1
    <2>2. CASE ~(a.e >= 0)
        <3>1. -a.e \in Nat /\ a.e + (-a.e + 2) \in Nat
            BY <1>1, <2>2
        <3> QED
            BY <3>1
    <2> QED
        BY <2>1, <2>2
<1> DEFINE k == j + 2
           v == a.m * PowerOfTwo[a.e + k]
           c == PowerOfTwo[k]
           r == HalfUp(v, c)
           w == PowerOfTwo[j]
<1>3. v \in Nat /\ c \in Nat \ {0} /\ w \in Nat \ {0} /\ k \in Nat /\ a.e + k \in Nat
    BY <1>2, FloatAsFraction, PowerOfTwoFacts
<1>4. c = 4 * w
    <2>1. j + 2 = (j + 1) + 1 /\ j + 1 \in Nat
        OBVIOUS
    <2>2. PowerOfTwo[(j + 1) + 1] = 2 * PowerOfTwo[j + 1] /\ PowerOfTwo[j + 1] = 2 * w
        BY <2>1, PowerOfTwoFacts
    <2>3. c = PowerOfTwo[(j + 1) + 1]
        BY <2>1
    <2> HIDE DEF c, w
    <2> QED
        BY <1>3, <2>2, <2>3
<1>5. Rounded(a) \in Float /\ Alike(Rounded(a), Nearest(r, 0))
    BY <1>3, RoundedIs
<1>6. PICK q \in Int, base \in Int : /\ q = Quarter /\ base = -k /\ base <= a.e /\ base <= q
                                      /\ a.e - base = a.e + k /\ q - base = j
    BY <1>1, <1>3 DEF Quarter
<1>7. base <= a.e /\ base <= q
    BY <1>6
<1>8. \A n \in Nat : /\ NoMore(a.m, a.e, n, Quarter) <=> v <= n * w
                     /\ NoMore(n, Quarter, a.m, a.e) <=> n * w <= v
    <2> TAKE n \in Nat
    <2>1. /\ NoMore(a.m, a.e, n, q) <=> a.m * PowerOfTwo[a.e - base] <= n * PowerOfTwo[q - base]
          /\ NoMore(n, q, a.m, a.e) <=> n * PowerOfTwo[q - base] <= a.m * PowerOfTwo[a.e - base]
        BY <1>1, <1>7, CommonBase
    <2>2. PowerOfTwo[a.e - base] = PowerOfTwo[a.e + k] /\ PowerOfTwo[q - base] = w
        BY <1>6
    <2>3. /\ NoMore(a.m, a.e, n, q) <=> v <= n * w
          /\ NoMore(n, q, a.m, a.e) <=> n * w <= v
        BY <2>1, <2>2
    <2> QED
        BY <1>6, <2>3
<1> HIDE DEF v, c, w, r
<1>9. r \in Nat
    BY <1>3, HalfUpIsNat DEF r
<1>10. \A n \in Nat : HalfUp(4 * n + 1, 4) = n /\ (n # 0 => HalfUp(4 * n - 1, 4) = n)
    <2> TAKE n \in Nat
    <2>1. /\ 2 * (4 * n + 1) + 4 = n * 8 + 6 /\ 2 * (4 * n + 1) + 4 \in Nat
          /\ 2 * 4 = 8 /\ 6 \in 0 .. 8 - 1
        OBVIOUS
    <2>2. (2 * (4 * n + 1) + 4) \div (2 * 4) = n
        BY <2>1, DivisionIs
    <2>3. ASSUME n # 0 PROVE (2 * (4 * n - 1) + 4) \div (2 * 4) = n
        <3>1. /\ 2 * (4 * n - 1) + 4 = n * 8 + 2 /\ 2 * (4 * n - 1) + 4 \in Nat
              /\ 2 * 4 = 8 /\ 2 \in 0 .. 8 - 1
            BY <2>3
        <3> QED
            BY <3>1, DivisionIs
    <2> QED
        BY <2>2, <2>3 DEF HalfUp
<1>11. ASSUME NEW n \in Nat, NoMore(a.m, a.e, 4 * n + 1, Quarter)
       PROVE  r <= n
    <2>1. v <= (4 * n + 1) * w /\ 4 * n + 1 \in Nat
        BY <1>8, <1>11
    <2>2. v * 4 <= (4 * n + 1) * c
        <3>1. (4 * n + 1) * c = ((4 * n + 1) * w) * 4
            BY <1>3, <1>4
        <3>2. (4 * n + 1) * w \in Nat
            BY <1>3
        <3> QED
            BY <1>3, <2>1, <3>1, <3>2
    <2>3. r <= HalfUp(4 * n + 1, 4)
        BY <1>3, <2>1, <2>2, HalfUpMonotone DEF r
    <2> QED
        BY <1>10, <2>3
<1>12. ASSUME NEW n \in Nat \ {0}, NoMore(4 * n - 1, Quarter, a.m, a.e)
       PROVE  n <= r
    <2>1. 4 * n - 1 \in Nat
        OBVIOUS
    <2>2. (4 * n - 1) * w <= v
        BY <1>8, <1>12, <2>1
    <2>3. (4 * n - 1) * c <= v * 4
        <3>1. (4 * n - 1) * c = ((4 * n - 1) * w) * 4
            BY <1>3, <1>4
        <3>2. (4 * n - 1) * w \in Nat
            BY <1>3, <2>1
        <3> QED
            BY <1>3, <2>2, <3>1, <3>2
    <2>4. HalfUp(4 * n - 1, 4) <= r
        BY <1>3, <2>1, <2>3, HalfUpMonotone DEF r
    <2> QED
        BY <1>10, <2>4
<1>13. Rounded(a) = Nearest(r, 0)
    <2>1. Nearest(r, 0) \in Float
        BY <1>9, NearestType
    <2> QED
        BY <1>5, <2>1, AlikeEqual DEF r, v, c
<1>14. ASSUME NEW n \in Nat
       PROVE  NoMore(2 * n + 1, Half, a.m, a.e) <=> n + 1 <= r
    <2>1. 2 * n + 1 \in Nat /\ 4 * n + 2 \in Nat /\ n + 1 \in Nat /\ 2 * c \in Nat \ {0}
        BY <1>3
    <2>2. NoMore(2 * n + 1, Half, a.m, a.e) <=> NoMore(4 * n + 2, Quarter, a.m, a.e)
        <3> DEFINE m == 2 * n + 1
                   q4 == 4 * n + 2
        <3>1. SameNumber(q4, Quarter, m, Half) /\ Half \in Int /\ Quarter \in Int
            <4>1. PowerOfTwo[0 + 1] = 2 * PowerOfTwo[0] /\ PowerOfTwo[0] = 1 /\ 0 + 1 = 1
                BY PowerOfTwoFacts
            <4>2. m * PowerOfTwo[1] = q4 /\ Quarter + 1 = Half /\ Half \in Int /\ Quarter \in Int
                BY <4>1 DEF Quarter, Half
            <4>3. SameNumber(m * PowerOfTwo[1], Quarter, m, Quarter + 1)
                BY <2>1, <4>2, MovedUp
            <4> QED
                BY <4>2, <4>3
        <3>2. m \in Nat /\ q4 \in Nat
            BY <2>1
        <3> HIDE DEF m, q4
        <3>3. NoMore(m, Half, a.m, a.e) <=> NoMore(q4, Quarter, a.m, a.e)
            BY <1>1, <3>1, <3>2, NoMoreTransitive DEF SameNumber
        <3> QED
            BY <3>3 DEF m, q4
    <2>3. NoMore(4 * n + 2, Quarter, a.m, a.e) <=> (4 * n + 2) * w <= v
        BY <1>8, <2>1
    <2>4. (4 * n + 2) * w <= v <=> (n + 1) * (2 * c) <= 2 * v + c
        <3>1. (n + 1) * (2 * c) = 2 * ((4 * n + 2) * w) + c
            BY <1>3, <1>4
        <3>2. (4 * n + 2) * w \in Nat
            BY <1>3, <2>1
        <3> QED
            BY <1>3, <3>1, <3>2
    <2>5. (n + 1) * (2 * c) <= 2 * v + c <=> n + 1 <= r
        <3> DEFINE d == 2 * c
                   b == 2 * v + c
        <3>1. b \in Nat /\ d \in Nat \ {0} /\ r = b \div d
            BY <1>3, <2>1 DEF r, HalfUp
        <3> HIDE DEF b, d
        <3>2. (n + 1) * d <= b <=> n + 1 <= b \div d
            BY <2>1, <3>1, QuotientAtLeast
        <3> QED
            BY <3>1, <3>2 DEF b, d
    <2> QED
        BY <2>2, <2>3, <2>4, <2>5
<1> QED
    BY <1>9, <1>11, <1>12, <1>13, <1>14

\* Times a float that is an integer.
LEMMA IntegerTimes ==
    ASSUME NEW r \in Nat \ {0}, r < 2 * HiddenBit, NEW c \in PositiveFloat
    PROVE  LET x == Times(Nearest(r, 0), c)
               h == 2 * HiddenBit
           IN  /\ x = Nearest(r * c.m, c.e)
               /\ NoMore((h - 1) * (r * c.m), c.e, h * x.m, x.e)
               /\ NoMore(h * x.m, x.e, (h + 1) * (r * c.m), c.e)
<1> DEFINE f == Nearest(r, 0)
           x == Times(f, c)
<1>1. f.m \in Nat /\ f.e \in Int /\ c.m \in Nat \ {0} /\ c.e \in Int
    <2>1. f \in Float
        BY NearestType
    <2> QED
        BY <2>1, FloatParts
<1>2. SameNumber(f.m, f.e, r, 0)
    BY ExactNearest
<1>3. x = Nearest(f.m * c.m, f.e + c.e)
    BY DEF Times
<1> HIDE DEF f, x
<1>4. SameNumber(f.m * c.m, f.e + c.e, r * c.m, 0 + c.e)
    <2>1. r \in Nat /\ 0 \in Int /\ NoMore(f.m, f.e, r, 0) /\ NoMore(r, 0, f.m, f.e)
        BY <1>2 DEF SameNumber
    <2>2. NoMore(f.m * c.m, f.e + c.e, r * c.m, 0 + c.e)
        BY <1>1, <2>1, NoMoreTimes
    <2>3. NoMore(r * c.m, 0 + c.e, f.m * c.m, f.e + c.e)
        BY <1>1, <2>1, NoMoreTimes
    <2> QED
        BY <2>2, <2>3 DEF SameNumber
<1>5. 0 + c.e = c.e
    BY <1>1
<1>6. SameNumber(f.m * c.m, f.e + c.e, r * c.m, c.e)
    BY <1>4, <1>5
<1>7. f.m * c.m \in Nat /\ f.e + c.e \in Int /\ r * c.m \in Nat \ {0}
    BY <1>1
<1>8. x = Nearest(r * c.m, c.e)
    <2> DEFINE p == f.m * c.m
               q == r * c.m
               d == f.e + c.e
    <2>1. p \in Nat /\ q \in Nat /\ d \in Int /\ SameNumber(p, d, q, c.e) /\ x = Nearest(p, d)
        BY <1>3, <1>6, <1>7
    <2> HIDE DEF p, q, d
    <2>2. x = Nearest(q, c.e)
        BY <1>1, <2>1, AlikeNearest
    <2> QED
        BY <2>2 DEF q
<1>9. LET h == 2 * HiddenBit
      IN  /\ NoMore((h - 1) * (r * c.m), c.e, h * x.m, x.e)
          /\ NoMore(h * x.m, x.e, (h + 1) * (r * c.m), c.e)
    <2> DEFINE q == r * c.m
    <2>1. q \in Nat \ {0} /\ x = Nearest(q, c.e)
        BY <1>7, <1>8
    <2> HIDE DEF q
    <2>2. LET h == 2 * HiddenBit
          IN  /\ NoMore((h - 1) * q, c.e, h * x.m, x.e)
              /\ NoMore(h * x.m, x.e, (h + 1) * q, c.e)
        BY <1>1, <2>1, NearestError
    <2> QED
        BY <2>2 DEF q
<1> QED
    BY <1>8, <1>9 DEF x, f

\* Two more bits below.
LEMMA Quarters ==
    ASSUME NEW n \in Nat, NEW e \in Int
    PROVE  SameNumber(4 * n, Quarter + e, n, e) /\ Quarter + e \in Int
<1>1. Quarter + e \in Int /\ (Quarter + e) + 2 = e
    BY DEF Quarter
<1>2. PowerOfTwo[2] = 4
    <2>1. PowerOfTwo[0 + 1] = 2 * PowerOfTwo[0] /\ PowerOfTwo[1 + 1] = 2 * PowerOfTwo[1]
        BY PowerOfTwoFacts
    <2> QED
        BY <2>1, PowerOfTwoFacts
<1>3. SameNumber(n * PowerOfTwo[2], Quarter + e, n, (Quarter + e) + 2)
    BY <1>1, MovedUp
<1>4. n * PowerOfTwo[2] = 4 * n
    BY <1>2
<1> QED
    BY <1>1, <1>3, <1>4

LEMMA Within ==
    ASSUME NEW n \in Nat
    PROVE  NoMore(n, 0, 4 * n + 1, Quarter)
<1> DEFINE a == 4 * n
           b == 4 * n + 1
<1>1. a \in Nat /\ b \in Nat /\ a <= b /\ Quarter \in Int /\ 0 \in Int
    BY DEF Quarter
<1>2. NoMore(n, 0, a, Quarter)
    <2>1. SameNumber(4 * n, Quarter + 0, n, 0) /\ Quarter + 0 = Quarter
        BY Quarters DEF Quarter
    <2> QED
        BY <2>1 DEF SameNumber
<1> HIDE DEF a, b
<1>3. NoMore(a, Quarter, b, Quarter)
    BY <1>1, NoMoreAtSame
<1>4. NoMore(n, 0, b, Quarter)
    BY <1>1, <1>2, <1>3, NoMoreTransitive
<1> QED
    BY <1>4 DEF b

\* k units, trimmed, are k units.
LEMMA TrimAgain ==
    ASSUME NEW t \in PositiveFloat, NEW j \in Nat, HiddenBit = 2 * PowerOfTwo[j],
           NEW r \in Nat, r <= PowerOfTwo[j]
    PROVE  LET x == Times(Nearest(r, 0), t)
           IN  Rounded(DividedBy(x, t)) = Nearest(r, 0)
<1> DEFINE x == Times(Nearest(r, 0), t)
           y == DividedBy(x, t)
           w == PowerOfTwo[j]
           h == 2 * HiddenBit
<1>1. /\ t.m \in Nat \ {0} /\ t.e \in Int /\ w \in Nat \ {0} /\ HiddenBit \in Nat \ {0}
      /\ r <= w /\ HiddenBit = 2 * w
    BY FloatParts, PowerOfTwoFacts
<1>2. h = 4 * w
    BY <1>1
<1>3. x \in Float /\ y \in Float
    <2>1. Nearest(r, 0) \in Float /\ t \in Float
        BY NearestType, FloatParts
    <2>2. x \in Float
        BY <2>1, TimesType
    <2> QED
        BY <2>2, DividedByType, FloatIsDividend
<1>4. x.m \in Nat /\ x.e \in Int /\ y.m \in Nat /\ y.e \in Int
    BY <1>3, FloatParts
<1>5. r # 0 => /\ x = Nearest(r * t.m, t.e)
               /\ NoMore((h - 1) * (r * t.m), t.e, h * x.m, x.e)
               /\ NoMore(h * x.m, x.e, (h + 1) * (r * t.m), t.e)
    <2>1. r < 2 * HiddenBit
        BY <1>1, <1>2
    <2> QED
        BY <2>1, IntegerTimes
<1>6. PICK k \in Nat : /\ Rounded(y) = Nearest(k, 0)
                       /\ \A n \in Nat : NoMore(y.m, y.e, 4 * n + 1, Quarter) => k <= n
                       /\ \A n \in Nat \ {0} : NoMore(4 * n - 1, Quarter, y.m, y.e) => n <= k
    BY <1>3, RoundedNat
<1>7. r = 0 => x = Zero
    <2> HAVE r = 0
    <2>1. Nearest(r, 0) = Zero
        BY DEF Nearest
    <2>2. Zero.m * t.m = 0
        BY <1>1 DEF Zero
    <2> QED
        BY <2>1, <2>2 DEF Times, Nearest
<1> HIDE DEF x, w, h
<1> DEFINE u == r * t.m
<1>9. u \in Nat /\ (r = 0 => u = 0)
    BY <1>1
<1>10. ASSUME r < w PROVE k <= r
    <2>1. NoMore(x.m, x.e, (4 * r + 1) * t.m, Quarter + t.e)
        <3>1. CASE r = 0
            <4>1. x.m = 0 /\ (4 * r + 1) * t.m \in Nat /\ Quarter + t.e \in Int
                BY <1>1, <1>7, <3>1 DEF Zero, Quarter
            <4> QED
                BY <1>4, <4>1, NothingBelowZero
        <3>2. CASE r # 0
            <4> DEFINE v == (4 * r + 1) * t.m
                       a == (h + 1) * u
            <4>1. v \in Nat /\ v = 4 * u + t.m
                BY <1>1
            <4>2. NoMore(h * x.m, x.e, a, t.e)
                BY <1>5, <3>2
            <4> HIDE DEF u, v
            <4>3. h \in Nat \ {0} /\ a \in Nat /\ h * x.m \in Nat /\ h * v \in Nat
                BY <1>1, <1>2, <1>4, <1>9, <4>1
            <4>4. 4 * a <= h * v
                <5>1. 4 * u <= h * t.m
                    <6>1. r * t.m <= w * t.m
                        BY <1>1, Cancel
                    <6>2. h * t.m = 4 * (w * t.m) /\ w * t.m \in Nat
                        BY <1>1, <1>2
                    <6> QED
                        BY <1>9, <6>1, <6>2 DEF u
                <5>2. h * v = 4 * (h * u) + h * t.m /\ 4 * a = 4 * (h * u) + 4 * u
                    BY <1>1, <1>9, <4>1, <4>3
                <5>3. h * u \in Nat /\ h * t.m \in Nat
                    BY <1>1, <1>9, <4>3
                <5> QED
                    BY <1>9, <5>1, <5>2, <5>3
            <4> DEFINE b == h * v
                       g == h * x.m
            <4>5. NoMore(a, t.e, 4 * a, Quarter + t.e) /\ Quarter + t.e \in Int /\ 4 * a \in Nat
                BY <1>1, <4>3, Quarters DEF SameNumber
            <4> HIDE DEF a
            <4>6. NoMore(4 * a, Quarter + t.e, b, Quarter + t.e)
                BY <4>3, <4>4, <4>5, NoMoreAtSame
            <4>7. b \in Nat /\ g \in Nat /\ NoMore(g, x.e, a, t.e)
                BY <4>2, <4>3
            <4> HIDE DEF b, g
            <4>8. NoMore(a, t.e, b, Quarter + t.e)
                BY <1>1, <4>3, <4>5, <4>6, <4>7, NoMoreTransitive
            <4>9. NoMore(g, x.e, b, Quarter + t.e)
                <5>1. a \in Nat /\ t.e \in Int /\ Quarter + t.e \in Int
                    BY <1>1, <4>3, <4>5
                <5> QED
                    BY <1>4, <4>7, <4>8, <5>1, NoMoreTransitive
            <4>10. NoMore(x.m, x.e, v, Quarter + t.e)
                BY <1>4, <4>1, <4>3, <4>5, <4>9, NoMoreScaled DEF b, g
            <4> QED
                BY <4>10 DEF v
        <3> QED
            BY <3>1, <3>2
    <2>2. NoMore(y.m, y.e, 4 * r + 1, Quarter)
        <3>1. 4 * r + 1 \in Nat \ {0} /\ Quarter \in Int /\ 4 * r + 1 < 2 * HiddenBit
            BY <1>1, <1>10 DEF Quarter
        <3> QED
            BY <1>3, <2>1, <3>1, QuotientWithin
    <2> QED
        BY <1>6, <2>2
<1>11. ASSUME r = w PROVE k <= r
    <2> DEFINE f == [m |-> t.m, e |-> t.e + j]
    <2>1. u = t.m * PowerOfTwo[j] /\ SameNumber(t.m * PowerOfTwo[j], t.e, t.m, t.e + j)
        <3>1. u = t.m * w
            BY <1>1, <1>11
        <3> QED
            BY <1>1, <3>1, MovedUp DEF w
    <2>2. f \in PositiveFloat /\ f.m = t.m /\ f.e = t.e + j
        BY <1>1 DEF PositiveFloat
    <2>3. Nearest(f.m, f.e) = f
        BY <2>2, NearestToFloat
    <2>4. Nearest(u, t.e) = Nearest(t.m, t.e + j)
        <3>1. t.e + j \in Int
            BY <1>1
        <3> QED
            BY <1>1, <1>9, <2>1, <3>1, AlikeNearest
    <2>5. x = f
        BY <1>1, <1>5, <1>11, <2>2, <2>3, <2>4
    <2> HIDE DEF f
    <2>6. NoMore(x.m, x.e, w * t.m, 0 + t.e)
        <3>1. w * t.m = u /\ 0 + t.e = t.e
            BY <1>1, <1>11
        <3> QED
            BY <2>1, <2>2, <2>5, <3>1 DEF SameNumber
    <2>7. NoMore(y.m, y.e, w, 0)
        <3>1. w < 2 * HiddenBit
            BY <1>1
        <3> QED
            BY <1>1, <1>3, <2>6, <3>1, QuotientWithin
    <2> DEFINE b == 4 * w + 1
    <2>8. NoMore(w, 0, b, Quarter)
        BY <1>1, Within
    <2>9. b \in Nat /\ Quarter \in Int
        BY <1>1 DEF Quarter
    <2> HIDE DEF b, y
    <2>10. w \in Nat /\ 0 \in Int /\ y.m \in Nat /\ y.e \in Int
        BY <1>1, <1>4
    <2>11. NoMore(y.m, y.e, b, Quarter)
        BY <2>7, <2>8, <2>9, <2>10, NoMoreTransitive
    <2> QED
        BY <1>6, <1>11, <2>10, <2>11 DEF b
<1>12. ASSUME r # 0 PROVE r <= k
    <2> DEFINE v == (4 * r - 1) * t.m
               a == (h - 1) * u
    <2>1. 4 * r - 1 \in Nat \ {0} /\ v \in Nat /\ v = 4 * u - t.m
        <3>1. 4 * r - 1 \in Nat \ {0}
            BY <1>12
        <3>2. v \in Nat
            BY <1>1, <3>1
        <3>3. v = 4 * u - t.m
            BY <1>1
        <3> QED
            BY <3>1, <3>2, <3>3
    <2>2. NoMore(a, t.e, h * x.m, x.e)
        BY <1>5, <1>12
    <2>3. h - 1 \in Nat /\ h \in Nat \ {0}
        BY <1>1, <1>2
    <2> HIDE DEF u, v
    <2>4. a \in Nat /\ h * x.m \in Nat /\ h * v \in Nat
        BY <1>4, <1>9, <2>1, <2>3
    <2>5. h * v <= 4 * a
        <3>1. 4 * u <= h * t.m
            <4>1. r * t.m <= w * t.m
                BY <1>1, Cancel
            <4>2. h * t.m = 4 * (w * t.m) /\ w * t.m \in Nat
                BY <1>1, <1>2
            <4> QED
                BY <1>9, <4>1, <4>2 DEF u
        <3>2. h * v = 4 * (h * u) - h * t.m /\ 4 * a = 4 * (h * u) - 4 * u
            BY <1>1, <1>9, <2>1, <2>3
        <3>3. h * u \in Nat /\ h * t.m \in Nat
            BY <1>1, <1>9, <2>3
        <3> QED
            BY <1>9, <3>1, <3>2, <3>3
    <2> DEFINE b == h * v
               g == h * x.m
    <2>6. NoMore(4 * a, Quarter + t.e, a, t.e) /\ Quarter + t.e \in Int /\ 4 * a \in Nat
        BY <1>1, <2>4, Quarters DEF SameNumber
    <2> HIDE DEF a
    <2>7. NoMore(b, Quarter + t.e, 4 * a, Quarter + t.e)
        BY <2>4, <2>5, <2>6, NoMoreAtSame
    <2>8. b \in Nat /\ g \in Nat /\ NoMore(a, t.e, g, x.e)
        BY <2>2, <2>4
    <2> HIDE DEF b, g
    <2>9. NoMore(b, Quarter + t.e, a, t.e)
        BY <1>1, <2>4, <2>6, <2>7, <2>8, NoMoreTransitive
    <2>10. NoMore(b, Quarter + t.e, g, x.e)
        BY <1>1, <1>4, <2>4, <2>6, <2>8, <2>9, NoMoreTransitive
    <2>11. NoMore(v, Quarter + t.e, x.m, x.e)
        BY <1>4, <2>1, <2>3, <2>6, <2>10, NoMoreScaled DEF b, g
    <2>12. NoMore(4 * r - 1, Quarter, y.m, y.e)
        <3>1. 4 * r - 1 < 2 * HiddenBit /\ Quarter \in Int
            BY <1>1 DEF Quarter
        <3>2. NoMore((4 * r - 1) * t.m, Quarter + t.e, x.m, x.e)
            BY <2>11 DEF v
        <3> QED
            BY <1>3, <2>1, <3>1, <3>2, QuotientWithin
    <2> QED
        BY <1>6, <1>12, <2>12
<1> QED
    <2>1. k = r
        BY <1>1, <1>10, <1>11, <1>12
    <2> QED
        BY <1>6, <2>1 DEF y, x

\* A quotient, up to its place: D / q, rounded, where D and q are the dividend
\* and the divisor, each moved to a place of its own.
LEMMA QuotientPlaces ==
    ASSUME NEW a \in PositiveFloat, NEW c \in PositiveFloat
    PROVE  \E D \in Nat, q \in Nat \ {0}, e \in Int, E \in Int :
              LET f == DividedBy(a, c)
                  s == RoundTiesToEven(D, q)
              IN  /\ HiddenBit * q <= D /\ HiddenBit <= s /\ s <= 2 * HiddenBit
                  /\ SameNumber(f.m, f.e, s, E)
                  /\ SameNumber(D, e, a.m, a.e)
                  /\ SameNumber(q, e, c.m, E + c.e)
<1> DEFINE f == DividedBy(a, c)
           G == PowerOfTwo[GuardBits]
           x == Quotient(a, c)
           k == Shift(x)
           s == Significand(x)
           n == a.m * G
           z == PowerOfTwo[k - 1]
           q == c.m * z
<1>1. /\ a.m \in Nat \ {0} /\ a.e \in Int /\ c.m \in Nat \ {0} /\ c.e \in Int
      /\ IsDividend(a)
    BY FloatParts, FloatIsDividend
<1>2. /\ HiddenBit \in Nat \ {0} /\ MantissaBits - 1 \in Nat
      /\ HiddenBit = PowerOfTwo[MantissaBits - 1] /\ GuardBits \in Nat
    <2>1. HiddenBit \in Nat \ {0} /\ MantissaBits \in Nat \ {0}
        BY HiddenBitFacts, MantissaAssumption
    <2>2. MantissaBits - 1 \in Nat /\ GuardBits \in Nat
        BY <2>1 DEF GuardBits
    <2> QED
        BY <2>1, <2>2 DEF HiddenBit
<1>3. /\ n \in Nat /\ x \in Nat \ {0} /\ k \in Int /\ 3 <= k /\ s = RoundTiesToEven(n, q)
      /\ c.m * PowerOfTwo[k + MantissaBits - 2] <= n
    BY <1>1, QuotientFacts
<1>4. PICK E \in Int : E = a.e - c.e - GuardBits - 1 + k
    BY <1>1, <1>2, <1>3
<1>5. SameNumber(f.m, f.e, s, E) /\ HiddenBit <= s /\ s <= 2 * HiddenBit
    <2> DEFINE b == a.e - c.e - GuardBits - 1
    <2>1. b \in Int /\ E = b + k
        BY <1>1, <1>2, <1>4
    <2>2. f = Nearest(x, b)
        BY DividedByIs
    <2> HIDE DEF b, f, x
    <2>3. /\ NoMore(s, b + k, f.m, f.e) /\ NoMore(f.m, f.e, s, b + k)
          /\ s \in HiddenBit .. 2 * HiddenBit
        BY <1>3, <2>1, <2>2, NearestIsSignificand, SignificandRange
    <2> QED
        BY <1>2, <2>1, <2>3 DEF SameNumber
<1> HIDE DEF f, G, x, k, s
<1>6. k - 1 \in Nat /\ (k - 1) + (MantissaBits - 1) = k + MantissaBits - 2
    BY <1>3, MantissaAssumption
<1>7. z \in Nat \ {0} /\ PowerOfTwo[k + MantissaBits - 2] = z * HiddenBit
    <2>1. PowerOfTwo[(k - 1) + (MantissaBits - 1)] = z * PowerOfTwo[MantissaBits - 1]
        BY <1>2, <1>6, PowerOfSum
    <2> QED
        BY <1>2, <1>6, <2>1, PowerOfTwoFacts
<1>8. PICK e \in Int : e = a.e - GuardBits /\ e + GuardBits = a.e /\ e + (k - 1) = E + c.e
    BY <1>1, <1>2, <1>3, <1>4
<1>9. SameNumber(n, e, a.m, a.e)
    <2>1. SameNumber(a.m * PowerOfTwo[GuardBits], e, a.m, e + GuardBits)
        BY <1>1, <1>2, <1>8, MovedUp
    <2> QED
        BY <1>8, <2>1 DEF G
<1>10. SameNumber(q, e, c.m, E + c.e)
    <2>1. SameNumber(c.m * PowerOfTwo[k - 1], e, c.m, e + (k - 1))
        BY <1>1, <1>6, <1>8, MovedUp
    <2> QED
        BY <1>8, <2>1
<1> HIDE DEF n, z
<1>11. q \in Nat \ {0} /\ HiddenBit * q = c.m * (z * HiddenBit)
    BY <1>1, <1>2, <1>7
<1> HIDE DEF q
<1>12. HiddenBit * q <= n
    BY <1>3, <1>7, <1>11
<1> QED
    BY <1>3, <1>4, <1>5, <1>8, <1>9, <1>10, <1>11, <1>12 DEF f

\* A quotient is off by at most a part in 2 * HiddenBit.
LEMMA QuotientError ==
    ASSUME NEW a \in PositiveFloat, NEW c \in PositiveFloat
    PROVE  LET f == DividedBy(a, c)
               h == 2 * HiddenBit
           IN  /\ NoMore((h - 1) * a.m, a.e, h * (f.m * c.m), f.e + c.e)
               /\ NoMore(h * (f.m * c.m), f.e + c.e, (h + 1) * a.m, a.e)
<1> DEFINE f == DividedBy(a, c)
           h == 2 * HiddenBit
<1>1. a.m \in Nat /\ a.e \in Int /\ c.m \in Nat /\ c.e \in Int
    BY FloatParts
<1>2. HiddenBit \in Nat \ {0} /\ h \in Nat \ {0} /\ h - 1 \in Nat \ {0} /\ h + 1 \in Nat \ {0}
    BY HiddenBitFacts
<1>3. f.m \in Nat /\ f.e \in Int
    <2>1. f \in Float
        BY FloatParts, FloatIsDividend, DividedByType
    <2> QED
        BY <2>1, FloatParts
<1>4. PICK D \in Nat, q \in Nat \ {0}, e \in Int, E \in Int :
              LET s == RoundTiesToEven(D, q)
              IN  /\ HiddenBit * q <= D /\ HiddenBit <= s /\ s <= 2 * HiddenBit
                  /\ SameNumber(f.m, f.e, s, E)
                  /\ SameNumber(D, e, a.m, a.e)
                  /\ SameNumber(q, e, c.m, E + c.e)
    BY QuotientPlaces
<1> DEFINE s == RoundTiesToEven(D, q)
<1>5. (h - 1) * D <= h * (s * q) /\ h * (s * q) <= (h + 1) * D /\ s \in Nat
    BY <1>4, SignificandError, RoundedIsNat
<1>6. PICK u \in Int, v \in Int : u = E + c.e /\ v = f.e + c.e
    BY <1>1, <1>3
<1> HIDE DEF f, h, s
<1> DEFINE B == s * c.m
           C == f.m * c.m
           S == s * q
<1>7. SameNumber(B, u, C, v)
    <2>1. NoMore(s, E, f.m, f.e) /\ NoMore(f.m, f.e, s, E)
        BY <1>4 DEF SameNumber, s
    <2>2. NoMore(s * c.m, E + c.e, f.m * c.m, f.e + c.e)
        BY <1>1, <1>3, <1>5, <2>1, NoMoreTimes
    <2>3. NoMore(f.m * c.m, f.e + c.e, s * c.m, E + c.e)
        BY <1>1, <1>3, <1>5, <2>1, NoMoreTimes
    <2> QED
        BY <1>6, <2>2, <2>3 DEF SameNumber
<1>8. SameNumber(S, e, B, u)
    <2>1. NoMore(q, e, c.m, u) /\ NoMore(c.m, u, q, e)
        BY <1>4, <1>6 DEF SameNumber
    <2>2. CASE s = 0
        <3>1. S = 0 /\ B = 0
            BY <1>1, <2>2
        <3>2. NoMore(0, e, 0, u) /\ NoMore(0, u, 0, e)
            BY <1>6, NothingBelowZero
        <3> QED
            BY <3>1, <3>2 DEF SameNumber
    <2>3. CASE s # 0
        <3>1. s \in Nat \ {0}
            BY <1>5, <2>3
        <3>2. NoMore(s * q, e, s * c.m, u) /\ NoMore(s * c.m, u, s * q, e)
            BY <1>1, <1>6, <2>1, <3>1, NoMoreScaled
        <3> QED
            BY <3>2 DEF SameNumber
    <2> QED
        BY <2>2, <2>3
<1>9. S \in Nat /\ B \in Nat /\ C \in Nat
    BY <1>1, <1>3, <1>5
<1> HIDE DEF S, B, C
<1>10. SameNumber(S, e, C, v)
    BY <1>6, <1>7, <1>8, <1>9, NoMoreTransitive DEF SameNumber
<1> DEFINE K == h * S
           L == (h - 1) * D
           M == (h + 1) * D
           N == h * C
           P == (h - 1) * a.m
           Q == (h + 1) * a.m
<1>11. /\ K \in Nat /\ L \in Nat /\ M \in Nat /\ N \in Nat /\ P \in Nat /\ Q \in Nat
       /\ L <= K /\ K <= M
    BY <1>1, <1>2, <1>5, <1>9 DEF S
<1>12. SameNumber(K, e, N, v)
    BY <1>2, <1>6, <1>9, <1>10, NoMoreScaled DEF SameNumber
<1>13. SameNumber(L, e, P, a.e)
    <2> DEFINE k == h - 1
    <2>1. k \in Nat \ {0}
        BY <1>2
    <2> HIDE DEF k
    <2>2. SameNumber(k * D, e, k * a.m, a.e)
        BY <1>1, <1>4, <2>1, NoMoreScaled DEF SameNumber
    <2> QED
        BY <2>2 DEF k
<1>14. SameNumber(M, e, Q, a.e)
    <2> DEFINE k == h + 1
    <2>1. k \in Nat \ {0}
        BY <1>2
    <2> HIDE DEF k
    <2>2. SameNumber(k * D, e, k * a.m, a.e)
        BY <1>1, <1>4, <2>1, NoMoreScaled DEF SameNumber
    <2> QED
        BY <2>2 DEF k
<1> HIDE DEF K, L, M, N, P, Q
<1>15. NoMore(L, e, K, e) /\ NoMore(K, e, M, e)
    BY <1>11, NoMoreAtSame
<1>16. NoMore(P, a.e, K, e) /\ NoMore(K, e, Q, a.e)
    BY <1>1, <1>11, <1>13, <1>14, <1>15, NoMoreTransitive DEF SameNumber
<1>17. NoMore(P, a.e, N, v) /\ NoMore(N, v, Q, a.e)
    <2>1. NoMore(K, e, N, v) /\ NoMore(N, v, K, e) /\ a.e \in Int
        BY <1>1, <1>12 DEF SameNumber
    <2>2. K \in Nat /\ N \in Nat /\ P \in Nat /\ Q \in Nat
        BY <1>11
    <2>3. NoMore(P, a.e, N, v)
        BY <1>16, <2>1, <2>2, NoMoreTransitive
    <2>4. NoMore(N, v, Q, a.e)
        BY <1>16, <2>1, <2>2, NoMoreTransitive
    <2> QED
        BY <2>3, <2>4
<1> QED
    BY <1>6, <1>17 DEF P, Q, N, C, f, h

\* The precision times the factor is not far from 1, and the factor not much
\* more than 10^decimals.
LEMMA FactorErrors ==
    ASSUME decimals \in Decimals
    PROVE  LET t == TrimPrecision
               F == DenominationFactor
               T == PowerOfTen[decimals]
               h == 2 * HiddenBit
           IN  /\ NoMore(h - 1, 0, h * (t.m * F.m), t.e + F.e)
               /\ NoMore(h * (t.m * F.m), t.e + F.e, h + 1, 0)
               /\ NoMore(h * F.m, F.e, (h + 1) * T, 0)
<1> DEFINE t == TrimPrecision
           F == DenominationFactor
           T == PowerOfTen[decimals]
           h == 2 * HiddenBit
           one == Nearest(1, 0)
<1>1. /\ HiddenBit \in Nat \ {0} /\ h = 2 * HiddenBit /\ h \in Nat
      /\ h - 1 \in Nat \ {0} /\ h + 1 \in Nat \ {0}
    BY HiddenBitFacts
<1>2. T \in Nat \ {0}
    BY DecimalsAssumption, PowerOfTenFacts
<1>3. F \in PositiveFloat /\ t \in PositiveFloat /\ one \in PositiveFloat
    BY FactorFacts, NearestType
<1>4. NoMore(h * F.m, F.e, (h + 1) * T, 0)
    <2>1. F = Nearest(T, 0)
        BY DEF DenominationFactor
    <2> HIDE DEF F, T
    <2> QED
        BY <1>2, <2>1, NearestError
<1>5. /\ F.m \in Nat /\ F.e \in Int /\ t.m \in Nat /\ t.e \in Int
      /\ one.m \in Nat /\ one.e \in Int /\ 1 \in Nat /\ 0 \in Int
    BY <1>3, FloatParts
<1>6. NoMore(1, 0, one.m, one.e) /\ NoMore(one.m, one.e, 1, 0)
    <2>1. 1 < 2 * HiddenBit
        BY <1>1
    <2> QED
        BY <2>1, ExactNearest DEF SameNumber
<1>7. t = DividedBy(one, F)
    BY DEF TrimPrecision
<1> HIDE DEF t, F, one
<1>8. /\ NoMore((h - 1) * one.m, one.e, h * (t.m * F.m), t.e + F.e)
      /\ NoMore(h * (t.m * F.m), t.e + F.e, (h + 1) * one.m, one.e)
    BY <1>3, <1>7, QuotientError
<1>9. PICK d \in Int : d = t.e + F.e
    BY <1>5
<1> DEFINE b == h * (t.m * F.m)
<1>10. b \in Nat
    <2>1. t.m * F.m \in Nat
        BY <1>5
    <2> QED
        BY <1>1, <2>1
<1>11. NoMore((h - 1) * one.m, one.e, b, d) /\ NoMore(b, d, (h + 1) * one.m, one.e)
    BY <1>8, <1>9
<1> HIDE DEF b
<1>12. ASSUME NEW k \in Nat \ {0}
       PROVE  /\ k * one.m \in Nat
              /\ NoMore(k, 0, k * one.m, one.e) /\ NoMore(k * one.m, one.e, k, 0)
    <2>1. k * 1 = k /\ k * one.m \in Nat
        BY <1>5
    <2>2. NoMore(k * 1, 0, k * one.m, one.e) /\ NoMore(k * one.m, one.e, k * 1, 0)
        BY <1>5, <1>6, NoMoreScaled
    <2> QED
        BY <2>1, <2>2
<1>13. NoMore(h - 1, 0, b, d)
    <2> DEFINE k == h - 1
               a == k * one.m
    <2>1. k \in Nat /\ a \in Nat /\ NoMore(k, 0, a, one.e) /\ NoMore(a, one.e, b, d)
        BY <1>1, <1>11, <1>12
    <2> HIDE DEF k, a
    <2>2. NoMore(k, 0, b, d)
        BY <1>5, <1>10, <2>1, NoMoreTransitive
    <2> QED
        BY <2>2 DEF k
<1>14. NoMore(b, d, h + 1, 0)
    <2> DEFINE k == h + 1
               a == k * one.m
    <2>1. k \in Nat /\ a \in Nat /\ NoMore(a, one.e, k, 0) /\ NoMore(b, d, a, one.e)
        BY <1>1, <1>11, <1>12
    <2> HIDE DEF k, a
    <2>2. NoMore(b, d, k, 0)
        BY <1>5, <1>10, <2>1, NoMoreTransitive
    <2> QED
        BY <2>2 DEF k
<1> QED
    BY <1>4, <1>9, <1>13, <1>14 DEF b, t, F

\* p * 10^decimals less than a half of HiddenBit: p is, by the precision, no
\* more than this half.
LEMMA BelowHalf ==
    ASSUME decimals \in Decimals, NEW p \in PositiveFloat,
           NoMore((2 * p.m) * PowerOfTen[decimals], p.e, HiddenBit - 1, 0)
    PROVE  NoMore(2 * p.m, p.e, HiddenBit * TrimPrecision.m, TrimPrecision.e)
<1> DEFINE t == TrimPrecision
           F == DenominationFactor
           T == PowerOfTen[decimals]
           H == HiddenBit
           h == 2 * HiddenBit
           P == 2 * p.m
<1>1. H \in Nat \ {0} /\ h = 2 * H /\ h - 1 \in Nat /\ h \in Nat \ {0} /\ H - 1 \in Nat /\ h + 1 \in Nat \ {0}
    BY HiddenBitFacts
<1>2. T \in Nat \ {0}
    BY DecimalsAssumption, PowerOfTenFacts
<1>3. /\ F.m \in Nat \ {0} /\ F.e \in Int /\ t.m \in Nat /\ t.e \in Int
      /\ P \in Nat /\ p.e \in Int /\ 0 \in Int
    BY FactorFacts, FloatParts
<1>4. /\ NoMore(h - 1, 0, h * (t.m * F.m), t.e + F.e)
      /\ NoMore(h * F.m, F.e, (h + 1) * T, 0)
    BY FactorErrors
<1>5. NoMore(P * T, p.e, H - 1, 0)
    OBVIOUS
<1> HIDE DEF t, F, T, H, h, P
<1> DEFINE a == (h * F.m) * P
           b == ((h + 1) * T) * P
           c == (h + 1) * (H - 1)
           d == H * (h - 1)
           f == (h * F.m) * (H * t.m)
<1>6. /\ h * F.m \in Nat \ {0} /\ (h + 1) * T \in Nat /\ H * t.m \in Nat /\ P * T \in Nat
      /\ h * (t.m * F.m) \in Nat
    <2>1. t.m * F.m \in Nat
        BY <1>3
    <2> QED
        BY <1>1, <1>2, <1>3, <2>1
<1>7. a \in Nat /\ b \in Nat /\ c \in Nat /\ d \in Nat /\ f \in Nat
    BY <1>1, <1>3, <1>6
<1>8. PICK u \in Int, v \in Int : u = F.e + p.e /\ v = t.e + F.e
    BY <1>3
<1>9. NoMore(a, u, b, p.e)
    <2>1. NoMore((h * F.m) * P, F.e + p.e, ((h + 1) * T) * P, 0 + p.e)
        <3> DEFINE l == h * F.m
                   m == (h + 1) * T
        <3>1. l \in Nat /\ m \in Nat /\ NoMore(l, F.e, m, 0)
            BY <1>4, <1>6
        <3> HIDE DEF l, m
        <3>2. NoMore(l * P, F.e + p.e, m * P, 0 + p.e)
            BY <1>3, <3>1, NoMoreTimes
        <3> QED
            BY <3>2 DEF l, m
    <2>2. 0 + p.e = p.e
        BY <1>3
    <2> QED
        BY <1>8, <2>1, <2>2
<1>10. NoMore(b, p.e, c, 0)
    <2> DEFINE g == h + 1
               l == P * T
               m == H - 1
    <2>1. g \in Nat \ {0} /\ l \in Nat /\ m \in Nat /\ NoMore(l, p.e, m, 0)
        BY <1>1, <1>5, <1>6
    <2>2. b = g * l
        BY <1>1, <1>2, <1>3
    <2>3. c = g * m
        OBVIOUS
    <2> HIDE DEF g, l, m, b, c
    <2>4. NoMore(g * l, p.e, g * m, 0)
        BY <1>3, <2>1, NoMoreScaled
    <2> QED
        BY <2>2, <2>3, <2>4
<1>11. c <= d
    <2>1. c = h * H - h + H - 1 /\ d = H * h - H
        BY <1>1
    <2>2. h * H = H * h /\ h * H \in Nat
        BY <1>1
    <2> QED
        BY <1>1, <2>1, <2>2
<1>12. NoMore(d, 0, f, v)
    <2> DEFINE l == h - 1
               m == h * (t.m * F.m)
    <2>1. l \in Nat /\ m \in Nat /\ NoMore(l, 0, m, v)
        BY <1>1, <1>4, <1>6, <1>8
    <2>2. f = H * m
        BY <1>1, <1>3
    <2>3. d = H * l
        OBVIOUS
    <2> HIDE DEF l, m, d, f
    <2>4. NoMore(H * l, 0, H * m, v)
        BY <1>1, <2>1, NoMoreScaled
    <2> QED
        BY <2>2, <2>3, <2>4
<1> DEFINE l == h * F.m
           m == H * t.m
<1>13. l \in Nat \ {0} /\ m \in Nat /\ a = l * P /\ f = l * m
    BY <1>6
<1> HIDE DEF a, b, c, d, f, l, m
<1>14. NoMore(c, 0, d, 0)
    BY <1>7, <1>11, NoMoreAtSame
<1>15. NoMore(a, u, c, 0)
    BY <1>3, <1>7, <1>9, <1>10, NoMoreTransitive
<1>16. NoMore(a, u, d, 0)
    BY <1>7, <1>14, <1>15, NoMoreTransitive
<1>17. NoMore(a, u, f, v)
    BY <1>7, <1>12, <1>16, NoMoreTransitive
<1>18. NoMore(P, u, m, v)
    BY <1>3, <1>13, <1>17, NoMoreScaled
<1>19. NoMore(P, p.e, m, t.e)
    <2>1. u = p.e + F.e /\ v = t.e + F.e
        BY <1>3, <1>8
    <2> QED
        BY <1>3, <1>13, <1>18, <2>1, NoMoreShifted
<1> QED
    BY <1>19 DEF P, m, H, t

\* Units that can be counted are less than a half of HiddenBit.
LEMMA CountableBound ==
    ASSUME decimals \in Decimals, NEW p \in PositiveFloat, Countable(p)
    PROVE  /\ MantissaBits - 2 \in Nat /\ HiddenBit = 2 * PowerOfTwo[MantissaBits - 2]
           /\ NoMore((2 * p.m) * PowerOfTen[decimals], p.e, HiddenBit - 1, 0)
<1> DEFINE n == (2 * p.m) * PowerOfTen[decimals]
           j == MantissaBits - 2
           w == PowerOfTwo[MantissaBits - 2]
<1>1. p.m \in Nat \ {0} /\ p.e \in Int /\ HiddenBit \in Nat \ {0}
    BY FloatParts
<1>2. n \in Nat
    <2> DEFINE T == PowerOfTen[decimals]
    <2>1. T \in Nat
        BY DecimalsAssumption, PowerOfTenFacts
    <2> HIDE DEF T
    <2>2. (2 * p.m) * T \in Nat
        BY <1>1, <2>1
    <2> QED
        BY <2>2 DEF T
<1>3. /\ p.e >= 0 => Units(p) = (n * PowerOfTwo[p.e]) \div 2
      /\ ~(p.e >= 0) => Units(p) = (n + PowerOfTwo[-p.e]) \div PowerOfTwo[1 - p.e]
    BY DEF Units
<1>4. Units(p) < HiddenBit \div 2
    BY DEF Countable
<1> HIDE DEF n
<1>5. ASSUME p.e >= 0
      PROVE  0 < HiddenBit \div 2 /\ NoMore(n, p.e, HiddenBit - 1, 0)
    <2> DEFINE c == PowerOfTwo[p.e]
               m == n * c
               q == m \div 2
    <2>1. p.e \in Nat
        BY <1>1, <1>5
    <2>2. c \in Nat
        BY <2>1, PowerOfTwoFacts
    <2>3. m \in Nat
        BY <1>2, <2>2
    <2>4. q < HiddenBit \div 2
        BY <1>3, <1>4, <1>5
    <2> HIDE DEF m
    <2>5. m < HiddenBit /\ q \in Nat /\ 0 < HiddenBit \div 2
        BY <1>1, <2>3, <2>4
    <2>6. p.e - 0 = p.e /\ HiddenBit - 1 \in Nat /\ m <= HiddenBit - 1
        BY <1>1, <2>3, <2>5
    <2>7. NoMore(n, p.e, HiddenBit - 1, 0)
        BY <1>5, <2>6 DEF NoMore, m
    <2> QED
        BY <2>5, <2>7
<1>6. ASSUME ~(p.e >= 0)
      PROVE  0 < HiddenBit \div 2 /\ NoMore(n, p.e, HiddenBit - 1, 0)
    <2> DEFINE c == PowerOfTwo[-p.e]
               m == n + c
               q == m \div (2 * c)
    <2>1. -p.e \in Nat /\ (-p.e) + 1 = 1 - p.e
        BY <1>1, <1>6
    <2>2. c \in Nat \ {0} /\ PowerOfTwo[1 - p.e] = 2 * c
        <3>1. PowerOfTwo[(-p.e) + 1] = 2 * PowerOfTwo[-p.e] /\ c \in Nat \ {0}
            BY <2>1, PowerOfTwoFacts
        <3> QED
            BY <2>1, <3>1
    <2> HIDE DEF c
    <2>3. m \in Nat /\ 2 * c \in Nat \ {0}
        BY <1>2, <2>2
    <2>4. q < HiddenBit \div 2
        BY <1>3, <1>4, <1>6, <2>2 DEF c
    <2> HIDE DEF m
    <2>5. q \in Nat /\ m < (q + 1) * (2 * c)
        <3> DEFINE d == 2 * c
        <3>1. d \in Nat \ {0} /\ q = m \div d
            BY <2>3
        <3> HIDE DEF q, d
        <3>2. (m \div d) \in Nat /\ m % d \in 0 .. d - 1 /\ m = (m \div d) * d + (m % d)
            BY <2>3, <3>1, Euclid
        <3>3. (q + 1) * d = q * d + d
            BY <3>1, <3>2
        <3> QED
            BY <3>1, <3>2, <3>3 DEF d
    <2> HIDE DEF q
    <2>6. 2 * (q + 1) <= HiddenBit /\ 0 < HiddenBit \div 2
        BY <1>1, <2>4, <2>5
    <2>7. n <= (HiddenBit - 1) * c
        <3>1. (2 * (q + 1)) * c <= HiddenBit * c
            <4>1. 2 * (q + 1) \in Nat
                BY <2>5
            <4> QED
                BY <1>1, <2>2, <2>6, <4>1, Cancel
        <3>2. (2 * (q + 1)) * c = (q + 1) * (2 * c)
            BY <2>2, <2>5
        <3>3. m < HiddenBit * c
            <4>1. (q + 1) * (2 * c) \in Nat /\ HiddenBit * c \in Nat
                BY <1>1, <2>2, <2>3, <2>5
            <4> QED
                BY <2>3, <2>5, <3>1, <3>2, <4>1
        <3>4. (HiddenBit - 1) * c = HiddenBit * c - c /\ HiddenBit * c \in Nat
            BY <1>1, <2>2
        <3> QED
            BY <1>2, <2>2, <3>3, <3>4 DEF m
    <2>8. NoMore(n, p.e, HiddenBit - 1, 0)
        <3>1. 0 - p.e = -p.e
            BY <1>1
        <3> QED
            BY <1>6, <2>7, <3>1 DEF NoMore, c
    <2> QED
        BY <2>6, <2>8
<1>7. 0 < HiddenBit \div 2 /\ NoMore(n, p.e, HiddenBit - 1, 0)
    BY <1>1, <1>5, <1>6
<1>8. j \in Nat /\ HiddenBit = 2 * w
    <2>1. HiddenBit # 1
        BY <1>7
    <2>2. MantissaBits # 1
        <3>1. PowerOfTwo[0] = 1
            BY PowerOfTwoFacts
        <3> QED
            BY <2>1, <3>1 DEF HiddenBit
    <2>3. j \in Nat /\ j + 1 = MantissaBits - 1
        BY <2>2, MantissaAssumption
    <2>4. PowerOfTwo[j + 1] = 2 * PowerOfTwo[j]
        BY <2>3, PowerOfTwoFacts
    <2> QED
        BY <2>3, <2>4 DEF HiddenBit
<1> QED
    BY <1>7, <1>8 DEF n

\* r is what y is rounded to.
RoundsTo(y, r) == \A n \in Nat : NoMore(2 * n + 1, Half, y.m, y.e) <=> n + 1 <= r

\* Such a price, trimmed, is a number of units, and trimmed for good.
LEMMA TrimTwice ==
    ASSUME decimals \in Decimals, NEW p \in PositiveFloat, Countable(p)
    PROVE  \E r \in Nat : /\ r <= PowerOfTwo[MantissaBits - 2]
                          /\ RoundsTo(DividedBy(p, TrimPrecision), r)
                          /\ Trim(p) = Times(Nearest(r, 0), TrimPrecision)
                          /\ Trim(Trim(p)) = Trim(p)
<1> DEFINE t == TrimPrecision
           y == DividedBy(p, t)
           j == MantissaBits - 2
           w == PowerOfTwo[j]
           b == 4 * w + 1
<1>1. t \in PositiveFloat /\ t \in Float /\ p \in Float
    BY FactorFacts, FloatParts
<1>2. j \in Nat /\ HiddenBit = 2 * w /\ HiddenBit \in Nat
    BY CountableBound, FloatParts
<1>3. w \in Nat \ {0}
    BY <1>2, PowerOfTwoFacts
<1>4. /\ p.m \in Nat /\ p.e \in Int /\ t.m \in Nat /\ t.e \in Int
      /\ 0 \in Int /\ 2 \in Nat \ {0} /\ 0 + t.e = t.e
    BY <1>1, FloatParts
<1>5. NoMore(2 * p.m, p.e, HiddenBit * t.m, t.e)
    BY CountableBound, BelowHalf
<1>6. y \in Float
    BY <1>1, DividedByType, FloatIsDividend
<1>7. y.m \in Nat /\ y.e \in Int
    BY <1>6, FloatParts
<1> HIDE DEF t, w, j
<1>8. NoMore(p.m, p.e, w * t.m, 0 + t.e)
    <2> DEFINE m == w * t.m
    <2>1. m \in Nat /\ HiddenBit * t.m = 2 * m
        BY <1>2, <1>3, <1>4
    <2> HIDE DEF m
    <2>2. NoMore(2 * p.m, p.e, 2 * m, t.e)
        BY <1>5, <2>1
    <2>3. NoMore(p.m, p.e, m, t.e)
        BY <1>4, <2>1, <2>2, NoMoreScaled
    <2> QED
        BY <1>4, <2>3 DEF m
<1>9. NoMore(y.m, y.e, w, 0)
    <2>1. w < 2 * HiddenBit
        BY <1>2, <1>3
    <2> QED
        BY <1>1, <1>3, <1>4, <1>8, <2>1, QuotientWithin
<1>10. PICK r \in Nat : /\ Rounded(y) = Nearest(r, 0)
                        /\ \A n \in Nat : NoMore(y.m, y.e, 4 * n + 1, Quarter) => r <= n
                        /\ RoundsTo(y, r)
    BY <1>6, RoundedNat DEF RoundsTo
<1>11. r <= w
    <2>1. NoMore(w, 0, b, Quarter)
        BY <1>3, Within
    <2>2. b \in Nat /\ Quarter \in Int
        BY <1>3 DEF Quarter
    <2> HIDE DEF b, y
    <2>3. NoMore(y.m, y.e, b, Quarter)
        BY <1>3, <1>4, <1>7, <1>9, <2>1, <2>2, NoMoreTransitive
    <2> QED
        BY <1>3, <1>10, <2>3 DEF b
<1> DEFINE x == Times(Nearest(r, 0), t)
<1>12. Rounded(DividedBy(x, t)) = Nearest(r, 0)
    BY <1>1, <1>2, <1>11, TrimAgain DEF w
<1>13. x \in Float
    BY <1>1, NearestType, TimesType
<1>14. Trim(p) = x
    BY <1>1, <1>10, FloatsAreFinite DEF Trim, t
<1>15. Trim(x) = Times(Rounded(DividedBy(x, t)), t)
    BY <1>13, FloatsAreFinite DEF Trim, t
<1> QED
    BY <1>10, <1>11, <1>12, <1>14, <1>15 DEF w, j, t

(***************************************************************************)
(* With float64, for every number of decimals and every price of up to     *)
(* 2^51 units: notify trims a price that getAllPrices has trimmed, and     *)
(* this changes nothing, so what it records is the price it decided on.    *)
(***************************************************************************)
THEOREM RecordsWhatItDecidedOn == Spec => []RecordedAsDecided
<1>1. IInv => RecordedAsDecided
    <2> SUFFICES ASSUME IInv, stage = "notified", Countable(price) PROVE recorded = fetched
        BY DEF RecordedAsDecided
    <2>1. decimals \in Decimals /\ recorded = Trim(fetched) /\ fetched = Trim(price)
        BY DEF IInv
    <2>2. price \in PositiveFloat
        BY FiniteIsFloat DEF Countable
    <2> QED
        BY <2>1, <2>2, TrimTwice
<1> QED
    BY <1>1, Invariance, PTL

-----------------------------------------------------------------------------
(***************************************************************************)
(* Sent within one unit.  Let a price of v units be rounded to r, and be   *)
(* sent as a.  Each of the two errors, v to r and r to a, is less than one *)
(* unit, but both could have the same direction.  A price that is rounded  *)
(* down too far, r < v - 1/2, shows that the precision is more than the    *)
(* factor's reciprocal, and by how much: its quotient was half a place off *)
(* at least.  With such a precision, r units are not cut off: that, too,   *)
(* takes half a place, which the product does not lose.                    *)
(***************************************************************************)

\* A place of the grid 2^i that a float of this binade is below is above the
\* middle to the float before.
LEMMA Midpoint ==
    ASSUME NEW R \in Nat, HiddenBit < R, R < 2 * HiddenBit, NEW i \in Int,
           NEW s \in Nat, HiddenBit <= s, s <= 2 * HiddenBit, NEW E \in Int,
           ~NoMore(2 * R, i, s, E)
    PROVE  NoMore(2 * s + 1, E - 1, 2 * R - 1, i)
<1>1. HiddenBit \in Nat \ {0}
    BY HiddenBitFacts
<1>2. CASE E <= i
    <2> DEFINE j == i - E
               p == PowerOfTwo[j]
    <2>1. j \in Nat /\ i - (E - 1) = j + 1 /\ ~(E - 1 >= i)
        BY <1>2
    <2>2. p \in Nat \ {0} /\ PowerOfTwo[j + 1] = 2 * p
        BY <2>1, PowerOfTwoFacts
    <2> HIDE DEF j, p
    <2>3. (2 * R - 1) * 2 <= (2 * R - 1) * (2 * p)
        <3>1. 2 <= 2 * p /\ 2 * R - 1 \in Nat /\ 2 * R - 1 <= 2 * R - 1
            BY <1>1, <2>2
        <3> QED
            BY <2>2, <3>1, ProductOrder
    <2>4. (2 * R - 1) * (2 * p) \in Nat /\ 2 * s + 1 <= (2 * R - 1) * 2
        BY <1>1, <2>2
    <2>5. 2 * s + 1 <= (2 * R - 1) * (2 * p)
        BY <1>1, <2>3, <2>4
    <2> QED
        BY <2>1, <2>2, <2>5 DEF NoMore
<1>3. CASE E = i + 1
    <2>1. PowerOfTwo[0 + 1] = 2 * PowerOfTwo[0] /\ PowerOfTwo[0] = 1 /\ 0 + 1 = 1
        BY PowerOfTwoFacts
    <2>2. E - i = 1 /\ ~(i >= E) /\ E - 1 = i
        BY <1>3
    <2>3. ~(2 * R <= s * 2)
        BY <2>1, <2>2 DEF NoMore
    <2>4. 2 * s + 1 <= 2 * R - 1 /\ 2 * s + 1 \in Nat /\ 2 * R - 1 \in Nat
        BY <1>1, <2>3
    <2> QED
        BY <2>2, <2>4, NoMoreAtSame
<1>4. ~(i + 2 <= E)
    <2> SUFFICES ASSUME i + 2 <= E PROVE FALSE
        OBVIOUS
    <2> DEFINE j == E - i - 2
               p == PowerOfTwo[j]
    <2>1. j \in Nat /\ E - i = (j + 1) + 1 /\ j + 1 \in Nat /\ ~(i >= E)
        OBVIOUS
    <2>2. p \in Nat \ {0} /\ PowerOfTwo[(j + 1) + 1] = 4 * p
        <3>1. /\ PowerOfTwo[(j + 1) + 1] = 2 * PowerOfTwo[j + 1]
              /\ PowerOfTwo[j + 1] = 2 * p /\ p \in Nat \ {0}
            BY <2>1, PowerOfTwoFacts
        <3> QED
            BY <3>1
    <2> HIDE DEF j, p
    <2>3. s * 4 <= s * (4 * p)
        <3>1. 4 <= 4 * p /\ s <= s
            BY <2>2
        <3> QED
            BY <2>2, <3>1, ProductOrder
    <2>4. s * (4 * p) \in Nat /\ 2 * R <= s * 4
        BY <1>1, <2>2
    <2>5. 2 * R <= s * (4 * p)
        BY <2>3, <2>4
    <2> QED
        BY <2>1, <2>2, <2>5 DEF NoMore
<1> QED
    BY <1>2, <1>3, <1>4

\* Half of it.
LEMMA Halved ==
    ASSUME NEW m \in Nat, NEW d \in Int, NEW n \in Nat, NEW e \in Int
    PROVE  NoMore(2 * m, d, n, e) <=> NoMore(m, d, n, e - 1)
<1>1. e - 1 \in Int /\ (e - 1) + 1 = e
    OBVIOUS
<1>2. SameNumber(n * PowerOfTwo[1], e - 1, n, (e - 1) + 1)
    BY <1>1, MovedUp
<1>3. n * PowerOfTwo[1] = 2 * n
    <2>1. PowerOfTwo[0 + 1] = 2 * PowerOfTwo[0] /\ PowerOfTwo[0] = 1 /\ 0 + 1 = 1
        BY PowerOfTwoFacts
    <2> QED
        BY <2>1
<1> DEFINE k == 2 * m
           l == 2 * n
           c == e - 1
<1>4. /\ k \in Nat /\ l \in Nat /\ c \in Int /\ 2 \in Nat \ {0}
      /\ NoMore(n, e, l, c) /\ NoMore(l, c, n, e)
    BY <1>1, <1>2, <1>3 DEF SameNumber
<1> HIDE DEF k, l, c
<1>5. NoMore(k, d, n, e) <=> NoMore(k, d, l, c)
    BY <1>4, NoMoreTransitive
<1>6. NoMore(2 * m, d, 2 * n, c) <=> NoMore(m, d, n, c)
    BY <1>4, NoMoreScaled
<1> QED
    BY <1>5, <1>6 DEF k, l, c

LEMMA NotNoMore ==
    ASSUME NEW m \in Nat, NEW d \in Int, NEW n \in Nat, NEW e \in Int, ~NoMore(m, d, n, e)
    PROVE  NoMore(n, e, m, d)
<1>1. PICK base \in Int : base <= d /\ base <= e
    <2>1. CASE d <= e
        BY <2>1
    <2>2. CASE e <= d
        BY <2>2
    <2> QED
        BY <2>1, <2>2
<1> DEFINE x == m * PowerOfTwo[d - base]
           y == n * PowerOfTwo[e - base]
<1>2. x \in Nat /\ y \in Nat
    <2>1. d - base \in Nat /\ e - base \in Nat
        BY <1>1
    <2>2. PowerOfTwo[d - base] \in Nat /\ PowerOfTwo[e - base] \in Nat
        BY <2>1, PowerOfTwoFacts
    <2> QED
        BY <2>2
<1>3. (NoMore(m, d, n, e) <=> x <= y) /\ (NoMore(n, e, m, d) <=> y <= x)
    BY <1>1, CommonBase
<1> HIDE DEF x, y
<1> QED
    BY <1>2, <1>3

LEMMA NearestMidpoint ==
    ASSUME NEW n \in Nat, NEW e \in Int, NEW R \in Nat, HiddenBit < R, R < 2 * HiddenBit,
           NEW i \in Int, ~NoMore(2 * R, i, Nearest(n, e).m, Nearest(n, e).e)
    PROVE  NoMore(n, e, 2 * R - 1, i)
<1> DEFINE f == Nearest(n, e)
           s == Significand(n)
           a == Numerator(n)
           c == Divisor(n)
           g == 2 * R - 1
<1>1. HiddenBit \in Nat \ {0} /\ g \in Nat /\ 2 * R \in Nat
    BY HiddenBitFacts
<1>2. CASE n = 0
    BY <1>1, <1>2, NothingBelowZero
<1>3. CASE n # 0
    <2>1. f.m \in Nat /\ f.e \in Int
        <3>1. f \in Float
            BY NearestType
        <3> QED
            BY <3>1, FloatParts
    <2>2. /\ Shift(n) \in Int /\ a \in Nat /\ c \in Nat \ {0}
          /\ s \in Nat /\ HiddenBit <= s /\ s <= 2 * HiddenBit
          /\ s = RoundTiesToEven(a, c)
        <3>1. s = RoundTiesToEven(a, c) /\ s \in HiddenBit .. 2 * HiddenBit
            BY <1>3, SignificandRange DEF Significand
        <3> HIDE DEF s
        <3>2. Shift(n) \in Int /\ a \in Nat /\ c \in Nat \ {0}
            BY <1>3, ShiftType
        <3> QED
            BY <1>1, <3>1, <3>2
    <2>3. PICK E \in Int : E = e + Shift(n)
        BY <2>2
    <2>4. NoMore(s, E, f.m, f.e)
        BY <1>3, <2>3, NearestIsSignificand
    <2>5. PICK base \in Int : base <= e /\ base <= E - 1
        <3>1. CASE e <= E - 1
            BY <3>1
        <3>2. CASE E - 1 <= e
            BY <3>2
        <3> QED
            BY <3>1, <3>2
    <2> DEFINE x == n * PowerOfTwo[e - base]
               z == PowerOfTwo[(E - 1) - base]
               y == PowerOfTwo[E - base]
    <2>6. base <= E /\ E - 1 \in Int /\ (E - 1) - base \in Nat /\ E - base = ((E - 1) - base) + 1
          /\ e - base \in Nat
        BY <2>5
    <2>7. x * c = a * y
        <3>1. x * c = a * PowerOfTwo[e + Shift(n) - base]
            BY <1>3, <2>2, <2>3, <2>5, <2>6, ExactSignificand
        <3>2. e + Shift(n) - base = E - base
            BY <2>2, <2>3
        <3> QED
            BY <3>1, <3>2
    <2>8. y = 2 * z /\ z \in Nat \ {0} /\ x \in Nat
        <3>1. PowerOfTwo[e - base] \in Nat /\ z \in Nat \ {0} /\ y = 2 * z
            BY <2>6, PowerOfTwoFacts
        <3> QED
            BY <3>1
    <2>9. 2 * a <= 2 * (s * c) + c
        BY <2>2, RoundingError
    <2> HIDE DEF f, s, a, c, g
    <2>10. x <= (2 * s + 1) * z
        <3> HIDE DEF x, y, z
        <3>1. (2 * a) * z <= (2 * (s * c) + c) * z
            <4>1. 2 * a \in Nat /\ 2 * (s * c) + c \in Nat
                BY <2>2
            <4> QED
                BY <2>8, <2>9, <4>1, Cancel
        <3>2. (2 * a) * z = x * c
            BY <2>2, <2>7, <2>8
        <3>3. (2 * (s * c) + c) * z = ((2 * s + 1) * z) * c
            BY <2>2, <2>8
        <3>4. (2 * s + 1) * z \in Nat
            BY <2>2, <2>8
        <3> QED
            BY <2>2, <2>8, <3>1, <3>2, <3>3, <3>4, Cancel
    <2> DEFINE b == 2 * s + 1
               d == E - 1
    <2>11. b \in Nat /\ d \in Int
        BY <2>2
    <2>12. NoMore(n, e, b, d)
        <3>1. x <= b * z
            BY <2>10
        <3>2. base <= d
            BY <2>5
        <3> HIDE DEF b
        <3>3. n * PowerOfTwo[e - base] <= b * PowerOfTwo[d - base]
            BY <3>1
        <3> HIDE DEF d
        <3> QED
            BY <2>5, <2>11, <3>2, <3>3, CommonBase
    <2>13. ~NoMore(2 * R, i, s, E)
        <3> SUFFICES ASSUME NoMore(2 * R, i, s, E) PROVE FALSE
            OBVIOUS
        <3>1. NoMore(2 * R, i, f.m, f.e)
            BY <1>1, <2>1, <2>2, <2>4, NoMoreTransitive
        <3> QED
            BY <3>1 DEF f
    <2>14. NoMore(b, d, g, i)
        BY <2>2, <2>13, Midpoint DEF g
    <2> HIDE DEF b, d
    <2>15. NoMore(n, e, g, i)
        BY <1>1, <2>11, <2>12, <2>14, NoMoreTransitive
    <2> QED
        BY <2>15 DEF g
<1> QED
    BY <1>2, <1>3

LEMMA QuotientMidpoint ==
    ASSUME NEW a \in PositiveFloat, NEW c \in PositiveFloat, NEW R \in Nat, HiddenBit < R,
           R < 2 * HiddenBit, NEW i \in Int,
           ~NoMore(2 * R, i, DividedBy(a, c).m, DividedBy(a, c).e)
    PROVE  NoMore(a.m, a.e, (2 * R - 1) * c.m, i + c.e)
<1> DEFINE f == DividedBy(a, c)
<1>1. a.m \in Nat /\ a.e \in Int /\ c.m \in Nat \ {0} /\ c.e \in Int /\ HiddenBit \in Nat \ {0}
    BY FloatParts
<1>2. f.m \in Nat /\ f.e \in Int
    <2>1. f \in Float
        BY FloatParts, FloatIsDividend, DividedByType
    <2> QED
        BY <2>1, FloatParts
<1>3. PICK D \in Nat, q \in Nat \ {0}, e \in Int, E \in Int :
              LET s == RoundTiesToEven(D, q)
              IN  /\ HiddenBit * q <= D /\ HiddenBit <= s /\ s <= 2 * HiddenBit
                  /\ SameNumber(f.m, f.e, s, E)
                  /\ SameNumber(D, e, a.m, a.e)
                  /\ SameNumber(q, e, c.m, E + c.e)
    BY QuotientPlaces
<1> DEFINE s == RoundTiesToEven(D, q)
           b == 2 * s + 1
           g == 2 * R - 1
<1>4. s \in Nat /\ 2 * D <= 2 * (s * q) + q
    BY RoundedIsNat, RoundingError
<1>5. HiddenBit <= s /\ s <= 2 * HiddenBit /\ NoMore(s, E, f.m, f.e)
    BY <1>3 DEF SameNumber
<1>6. PICK u \in Int, v \in Int, d \in Int : /\ u = E + c.e /\ v = i + c.e /\ d = E - 1
                                             /\ u - 1 = d + c.e
    BY <1>1
<1>7. b \in Nat \ {0} /\ g \in Nat /\ 2 * R \in Nat
    BY <1>1, <1>4
<1> HIDE DEF f, s
<1>8. NoMore(b, d, g, i)
    <2>1. ~NoMore(2 * R, i, s, E)
        <3> SUFFICES ASSUME NoMore(2 * R, i, s, E) PROVE FALSE
            OBVIOUS
        <3>1. NoMore(2 * R, i, f.m, f.e)
            BY <1>2, <1>4, <1>5, <1>7, NoMoreTransitive
        <3> QED
            BY <3>1 DEF f
    <2>2. NoMore(2 * s + 1, E - 1, 2 * R - 1, i)
        BY <1>4, <1>5, <2>1, Midpoint
    <2> QED
        BY <1>6, <2>2
<1>9. 2 * D <= b * q
    <2>1. b * q = 2 * (s * q) + q
        BY <1>4
    <2> QED
        BY <1>4, <2>1
<1> HIDE DEF b, g
<1> DEFINE K == 2 * D
           L == b * q
           M == b * c.m
           N == g * c.m
<1>10. K \in Nat /\ L \in Nat /\ M \in Nat /\ N \in Nat /\ 2 * a.m \in Nat /\ 2 \in Nat \ {0}
    BY <1>1, <1>7
<1>11. NoMore(L, e, M, u)
    <2>1. NoMore(q, e, c.m, u)
        BY <1>3, <1>6 DEF SameNumber
    <2> QED
        BY <1>1, <1>6, <1>7, <2>1, NoMoreScaled
<1>12. NoMore(M, d + c.e, N, v)
    <2>1. NoMore(b * c.m, d + c.e, g * c.m, i + c.e)
        BY <1>1, <1>7, <1>8, NoMoreTimes
    <2> QED
        BY <1>6, <2>1
<1>13. NoMore(2 * a.m, a.e, K, e)
    <2>1. NoMore(a.m, a.e, D, e)
        BY <1>3 DEF SameNumber
    <2> QED
        BY <1>1, <1>10, <2>1, NoMoreScaled
<1> HIDE DEF K, L, M, N
<1>14. NoMore(K, e, L, e)
    BY <1>9, <1>10, NoMoreAtSame DEF K, L
<1>15. NoMore(2 * a.m, a.e, L, e)
    BY <1>1, <1>10, <1>13, <1>14, NoMoreTransitive
<1>16. NoMore(2 * a.m, a.e, M, u)
    BY <1>1, <1>10, <1>11, <1>15, NoMoreTransitive
<1>17. NoMore(a.m, a.e, M, d + c.e)
    <2>1. NoMore(a.m, a.e, M, u - 1)
        BY <1>1, <1>10, <1>16, Halved
    <2> QED
        BY <1>6, <2>1
<1>18. d + c.e \in Int
    BY <1>1
<1>19. NoMore(a.m, a.e, N, v)
    BY <1>1, <1>10, <1>12, <1>17, <1>18, NoMoreTransitive
<1> QED
    BY <1>6, <1>19 DEF N, g

LEMMA TruncatedAtLeast ==
    ASSUME NEW a \in Float, NEW n \in Nat
    PROVE  NoMore(n, 0, a.m, a.e) <=> n <= Truncated(a)
<1>1. a.m \in Nat /\ a.e \in Int /\ 0 \in Int
    BY FloatParts
<1>2. PICK k \in Nat : a.e + k \in Nat
    <2>1. AtMost(a, a)
        BY AtMostReflexive
    <2> QED
        BY <2>1, CommonDenominator
<1> DEFINE v == a.m * PowerOfTwo[a.e + k]
           c == PowerOfTwo[k]
<1>3. v \in Nat /\ c \in Nat \ {0} /\ Truncated(a) = v \div c
    BY <1>2, FloatAsFraction, TruncatedIs
<1>4. PICK base \in Int : base <= 0 /\ base <= a.e /\ 0 - base = k /\ a.e - base = a.e + k
    <2>1. -k \in Int /\ -k <= 0 /\ -k <= a.e /\ 0 - (-k) = k /\ a.e - (-k) = a.e + k
        BY <1>1, <1>2
    <2> QED
        BY <2>1
<1>5. NoMore(n, 0, a.m, a.e) <=> n * PowerOfTwo[0 - base] <= a.m * PowerOfTwo[a.e - base]
    BY <1>1, <1>4, CommonBase
<1>6. NoMore(n, 0, a.m, a.e) <=> n * c <= v
    BY <1>4, <1>5
<1> HIDE DEF v, c
<1>7. n * c <= v <=> n <= v \div c
    BY <1>3, QuotientAtLeast
<1> QED
    BY <1>3, <1>6, <1>7

\* 10^decimals is a float: in float64, for the 1 to 18 decimals of a pair.
FactorsExact ==
    \A d \in Decimals :
        \E m \in Nat, j \in Nat : m < 2 * HiddenBit /\ PowerOfTen[d] = m * PowerOfTwo[j]

LEMMA ExactFactor ==
    ASSUME FactorsExact, decimals \in Decimals
    PROVE  SameNumber(DenominationFactor.m, DenominationFactor.e, PowerOfTen[decimals], 0)
<1> DEFINE F == DenominationFactor
           T == PowerOfTen[decimals]
<1>1. T \in Nat \ {0} /\ F = Nearest(T, 0)
    BY DecimalsAssumption, PowerOfTenFacts DEF DenominationFactor
<1>2. F.m \in Nat /\ F.e \in Int /\ 0 \in Int
    BY FactorFacts, FloatParts
<1>3. PICK m \in Nat, j \in Nat : m < 2 * HiddenBit /\ T = m * PowerOfTwo[j]
    BY DEF FactorsExact
<1>4. m # 0 /\ j \in Int /\ 0 + j = j
    <2>1. PowerOfTwo[j] \in Nat
        BY PowerOfTwoFacts
    <2> HIDE DEF T
    <2> QED
        BY <1>1, <1>3, <2>1
<1>5. SameNumber(T, 0, m, j)
    <2>1. SameNumber(m * PowerOfTwo[j], 0, m, 0 + j)
        BY <1>2, MovedUp
    <2> QED
        BY <1>3, <1>4, <2>1
<1> HIDE DEF F, T
<1>6. F = Nearest(m, j)
    BY <1>1, <1>2, <1>4, <1>5, AlikeNearest
<1>7. SameNumber(F.m, F.e, m, j)
    <2>1. m \in Nat \ {0}
        BY <1>4
    <2> QED
        BY <1>3, <1>4, <1>6, <2>1, ExactNearest
<1>8. SameNumber(F.m, F.e, T, 0)
    <2>1. T \in Nat /\ NoMore(T, 0, m, j) /\ NoMore(m, j, T, 0)
        BY <1>1, <1>5 DEF SameNumber
    <2>2. NoMore(F.m, F.e, m, j) /\ NoMore(m, j, F.m, F.e)
        BY <1>7 DEF SameNumber
    <2>3. NoMore(F.m, F.e, T, 0)
        BY <1>2, <1>4, <2>1, <2>2, NoMoreTransitive
    <2>4. NoMore(T, 0, F.m, F.e)
        BY <1>2, <1>4, <2>1, <2>2, NoMoreTransitive
    <2> QED
        BY <2>3, <2>4 DEF SameNumber
<1> QED
    BY <1>8 DEF F, T

\* Comparing with a number of precisions is comparing with this number of units.
LEMMA InPrecisions ==
    ASSUME FactorsExact, decimals \in Decimals,
           NEW m \in Nat, NEW d \in Int, NEW k \in Nat, NEW e \in Int
    PROVE  LET t == TrimPrecision
               F == DenominationFactor
           IN  NoMore(m, d, k * t.m, e + t.e)
               <=> NoMore(m * PowerOfTen[decimals], d, k * (t.m * F.m), e + (t.e + F.e))
<1> DEFINE t == TrimPrecision
           F == DenominationFactor
           T == PowerOfTen[decimals]
           X == k * t.m
           Y == k * (t.m * F.m)
<1>1. T \in Nat
    BY DecimalsAssumption, PowerOfTenFacts
<1>2. F.m \in Nat \ {0} /\ F.e \in Int /\ t.m \in Nat /\ t.e \in Int /\ 0 \in Int
    BY FactorFacts, FloatParts
<1>3. NoMore(F.m, F.e, T, 0) /\ NoMore(T, 0, F.m, F.e)
    BY ExactFactor DEF SameNumber
<1> HIDE DEF t, F, T
<1>4. PICK u \in Int, v \in Int, w \in Int : /\ u = e + t.e /\ v = e + (t.e + F.e) /\ v = u + F.e
                                             /\ w = F.e + d /\ w = d + F.e
    BY <1>2
<1>5. X \in Nat /\ Y = F.m * X /\ m * F.m = F.m * m /\ m * T = T * m
    BY <1>1, <1>2
<1>6. 0 + d = d
    OBVIOUS
<1>7. SameNumber(F.m * m, w, T * m, d)
    <2>1. NoMore(F.m * m, F.e + d, T * m, 0 + d)
        BY <1>1, <1>2, <1>3, NoMoreTimes
    <2>2. NoMore(T * m, 0 + d, F.m * m, F.e + d)
        BY <1>1, <1>2, <1>3, NoMoreTimes
    <2> QED
        BY <1>4, <1>6, <2>1, <2>2 DEF SameNumber
<1> DEFINE a == F.m * m
           b == m * T
<1>8. a \in Nat /\ b \in Nat /\ Y \in Nat /\ SameNumber(a, w, b, d)
    BY <1>1, <1>2, <1>5, <1>7
<1> HIDE DEF X, Y
<1>9. NoMore(m, d, X, u) <=> NoMore(a, w, Y, v)
    <2>1. NoMore(m, d, X, u) <=> NoMore(m, d + F.e, X, u + F.e)
        BY <1>2, <1>5, NoMoreShifted
    <2>2. NoMore(m, w, X, v) <=> NoMore(F.m * m, w, F.m * X, v)
        BY <1>2, <1>5, NoMoreScaled
    <2> QED
        BY <1>4, <1>5, <2>1, <2>2
<1> HIDE DEF a, b
<1>10. NoMore(a, w, Y, v) <=> NoMore(b, d, Y, v)
    BY <1>8, NoMoreTransitive DEF SameNumber
<1> QED
    BY <1>4, <1>9, <1>10 DEF X, Y, b, t, F, T

\* The units of a price, twice: U - 1/2 is no more than the price, U + 1/2 is.
LEMMA UnitsAre ==
    ASSUME decimals \in Decimals, NEW p \in PositiveFloat
    PROVE  LET U == Units(p)
               n == 2 * (p.m * PowerOfTen[decimals])
           IN  /\ U \in Nat
               /\ U # 0 => NoMore(2 * U - 1, 0, n, p.e)
               /\ ~NoMore(2 * U + 1, 0, n, p.e)
<1> DEFINE T == PowerOfTen[decimals]
           s == p.m * T
           n == 2 * s
           U == Units(p)
<1>1. p.m \in Nat \ {0} /\ p.e \in Int /\ T \in Nat \ {0}
    BY DecimalsAssumption, PowerOfTenFacts, FloatParts
<1> HIDE DEF T
<1>2. s \in Nat /\ (2 * p.m) * T = n
    BY <1>1
<1>3. /\ p.e >= 0 => U = (n * PowerOfTwo[p.e]) \div 2
      /\ ~(p.e >= 0) => U = (n + PowerOfTwo[-p.e]) \div PowerOfTwo[1 - p.e]
    BY <1>2 DEF Units, T
<1> HIDE DEF s, U
<1>4. CASE p.e >= 0
    <2> DEFINE c == PowerOfTwo[p.e]
               m == s * c
    <2>1. p.e \in Nat /\ p.e - 0 = p.e
        BY <1>1, <1>4
    <2>2. c \in Nat \ {0}
        BY <2>1, PowerOfTwoFacts
    <2>3. m \in Nat /\ n * c = m * 2
        BY <1>2, <2>2
    <2>4. U = m
        <3>1. (m * 2) \div 2 = m
            BY <2>3, WholeAndNone
        <3> QED
            BY <1>3, <1>4, <2>3, <3>1
    <2>5. \A k \in Nat : NoMore(k, 0, n, p.e) <=> k <= n * c
        <3>1. p.e = 0 => c = 1
            BY PowerOfTwoFacts
        <3> TAKE k \in Nat
        <3>2. CASE p.e = 0
            <4>1. c = 1 /\ n * c = n
                BY <1>2, <3>1, <3>2
            <4>2. 0 >= p.e /\ 0 - p.e = 0 /\ PowerOfTwo[0] = 1 /\ k * 1 = k
                BY <3>2, PowerOfTwoFacts
            <4> QED
                BY <4>1, <4>2 DEF NoMore
        <3>3. CASE p.e # 0
            <4>1. ~(0 >= p.e)
                BY <2>1, <3>3
            <4> QED
                BY <2>1, <4>1 DEF NoMore
        <3> QED
            BY <3>2, <3>3
    <2> HIDE DEF c, m
    <2>6. /\ U \in Nat /\ 2 * U + 1 \in Nat
          /\ U # 0 => 2 * U - 1 \in Nat /\ 2 * U - 1 <= n * c
          /\ ~(2 * U + 1 <= n * c)
        BY <2>3, <2>4
    <2> QED
        BY <2>5, <2>6 DEF n, s, T, U
<1>5. CASE ~(p.e >= 0)
    <2> DEFINE c == PowerOfTwo[-p.e]
               m == n + c
    <2>1. -p.e \in Nat /\ (-p.e) + 1 = 1 - p.e /\ 0 - p.e = -p.e
        BY <1>1, <1>5
    <2>2. c \in Nat \ {0} /\ PowerOfTwo[1 - p.e] = 2 * c
        <3>1. PowerOfTwo[(-p.e) + 1] = 2 * PowerOfTwo[-p.e] /\ c \in Nat \ {0}
            BY <2>1, PowerOfTwoFacts
        <3> QED
            BY <2>1, <3>1
    <2>3. U = m \div PowerOfTwo[1 - p.e]
        BY <1>3, <1>5
    <2>4. \A k \in Nat : NoMore(k, 0, n, p.e) <=> k * c <= n
        <3>1. 0 >= p.e
            BY <1>1, <1>5
        <3> QED
            BY <2>1, <3>1 DEF NoMore
    <2> HIDE DEF c
    <2> DEFINE d == 2 * c
    <2>5. d \in Nat \ {0} /\ m \in Nat /\ U = m \div d
        BY <1>2, <2>2, <2>3
    <2> HIDE DEF m, d
    <2>6. U \in Nat
        BY <2>5, Euclid
    <2>7. U * d <= m /\ ~((U + 1) * d <= m)
        <3>1. U <= U /\ U + 1 \in Nat /\ ~(U + 1 <= U)
            BY <2>6
        <3>2. U * d <= m <=> U <= m \div d
            BY <2>5, <2>6, QuotientAtLeast
        <3>3. (U + 1) * d <= m <=> U + 1 <= m \div d
            BY <2>5, <3>1, QuotientAtLeast
        <3> QED
            BY <2>5, <3>1, <3>2, <3>3
    <2>8. /\ U * d = (2 * U) * c /\ (U + 1) * d = (2 * U) * c + 2 * c
          /\ (2 * U - 1) * c = (2 * U) * c - c /\ (2 * U + 1) * c = (2 * U) * c + c
          /\ (2 * U) * c \in Nat
        BY <2>2, <2>6 DEF d
    <2>9. (2 * U - 1) * c <= n /\ ~((2 * U + 1) * c <= n)
        BY <1>2, <2>2, <2>7, <2>8 DEF m
    <2>10. 2 * U + 1 \in Nat /\ (U # 0 => 2 * U - 1 \in Nat)
        BY <2>6
    <2> QED
        BY <2>4, <2>6, <2>9, <2>10 DEF n, s, T, U
<1> QED
    BY <1>1, <1>4, <1>5

\* What a price is rounded to is no more than a unit from its units.
LEMMA UnitsRounded ==
    ASSUME FactorsExact, decimals \in Decimals, NEW p \in PositiveFloat, Countable(p),
           NEW r \in Nat, r <= PowerOfTwo[MantissaBits - 2],
           RoundsTo(DividedBy(p, TrimPrecision), r)
    PROVE  r <= Units(p) + 1 /\ Units(p) <= r + 1
<1> DEFINE t == TrimPrecision
           F == DenominationFactor
           T == PowerOfTen[decimals]
           w == PowerOfTwo[MantissaBits - 2]
           h == 2 * HiddenBit
           y == DividedBy(p, t)
           U == Units(p)
           s == p.m * T
           n == 2 * s
           M == t.m * F.m
           q == t.e + F.e
<1>1. /\ MantissaBits - 2 \in Nat /\ HiddenBit = 2 * w
    BY CountableBound
<1>2. w \in Nat \ {0} /\ HiddenBit = 2 * w /\ h = 4 * w /\ h \in Nat \ {0} /\ r <= w
    BY <1>1, PowerOfTwoFacts
<1>3. /\ p.m \in Nat /\ p.e \in Int /\ p \in Float /\ t \in PositiveFloat
      /\ t.m \in Nat /\ t.e \in Int /\ F.m \in Nat /\ F.e \in Int /\ T \in Nat
    BY FactorFacts, FloatParts, DecimalsAssumption, PowerOfTenFacts
<1>4. y.m \in Nat /\ y.e \in Int
    <2>1. y \in Float
        BY <1>3, DividedByType, FloatIsDividend
    <2> QED
        BY <2>1, FloatParts
<1>5. U \in Nat /\ (U # 0 => NoMore(2 * U - 1, 0, n, p.e)) /\ ~NoMore(2 * U + 1, 0, n, p.e)
    BY UnitsAre
<1>6. NoMore(h - 1, 0, h * M, q) /\ NoMore(h * M, q, h + 1, 0)
    BY FactorErrors
<1>7. \A k \in Nat : NoMore(2 * k + 1, Half, y.m, y.e) <=> k + 1 <= r
    BY DEF RoundsTo
<1>8. ASSUME NEW k \in Nat, NEW e \in Int
      PROVE  NoMore(p.m, p.e, k * t.m, e + t.e) <=> NoMore(s, p.e, k * M, e + q)
    BY <1>3, <1>8, InPrecisions
<1>9. ASSUME NEW k \in Nat \ {0}, k < 2 * HiddenBit, NEW e \in Int
      PROVE  /\ NoMore(p.m, p.e, k * t.m, e + t.e) => NoMore(y.m, y.e, k, e)
             /\ NoMore(k * t.m, e + t.e, p.m, p.e) => NoMore(k, e, y.m, y.e)
    BY <1>3, <1>9, QuotientWithin
<1> HIDE DEF t, F, T, w, h, y, U
<1>10. /\ M \in Nat /\ q \in Int /\ s \in Nat /\ n \in Nat /\ h * M \in Nat
       /\ 0 \in Int /\ Half \in Int /\ Quarter \in Int
    BY <1>2, <1>3 DEF Half, Quarter
<1> HIDE DEF M, q, s
<1>11. ASSUME r + 2 <= U PROVE FALSE
    <2> DEFINE k == 2 * r + 1
               X == k * M
               l == 2 * U - 1
    <2>1. k \in Nat \ {0} /\ k < 2 * HiddenBit /\ ~(r + 1 <= r)
        BY <1>2
    <2>2. l \in Nat /\ NoMore(l, 0, n, p.e) /\ k + 2 <= l
        BY <1>5, <1>11
    <2> HIDE DEF l
    <2>3. ~NoMore(k, Half, y.m, y.e)
        BY <1>7, <2>1
    <2> HIDE DEF k
    <2>4. X \in Nat /\ k * t.m \in Nat /\ Half + t.e \in Int /\ Half + q = q - 1 /\ q - 1 \in Int
        BY <1>3, <1>10, <2>1 DEF Half
    <2>5. ~NoMore(k * t.m, Half + t.e, p.m, p.e)
        BY <1>9, <1>10, <2>1, <2>3
    <2>6. NoMore(p.m, p.e, k * t.m, Half + t.e)
        BY <1>3, <2>4, <2>5, NotNoMore
    <2>7. NoMore(s, p.e, X, q - 1)
        BY <1>8, <1>10, <2>1, <2>4, <2>6
    <2> HIDE DEF X
    <2>8. NoMore(n, p.e, X, q)
        BY <1>3, <1>10, <2>4, <2>7, Halved
    <2> HIDE DEF n
    <2>9. NoMore(l, 0, X, q)
        BY <1>3, <1>10, <2>2, <2>4, <2>8, NoMoreTransitive
    <2> DEFINE a == h * l
               b == h * X
               c == h + 1
               d == k * c
               g == h * M
    <2>10. a \in Nat /\ b \in Nat /\ c \in Nat /\ d \in Nat /\ g \in Nat /\ b = k * g
        BY <1>2, <1>10, <2>1, <2>2, <2>4 DEF X
    <2>11. NoMore(a, 0, b, q)
        BY <1>2, <1>10, <2>2, <2>4, <2>9, NoMoreScaled
    <2> HIDE DEF a, b
    <2>12. NoMore(b, q, d, 0)
        <3>1. NoMore(g, q, c, 0)
            BY <1>6
        <3> HIDE DEF c, g
        <3>2. NoMore(k * g, q, k * c, 0)
            BY <1>10, <2>1, <2>10, <3>1, NoMoreScaled
        <3> QED
            BY <2>10, <3>2
    <2> HIDE DEF c, d, g
    <2>13. NoMore(a, 0, d, 0)
        BY <1>10, <2>10, <2>11, <2>12, NoMoreTransitive
    <2>14. a <= d
        BY <1>10, <2>10, <2>13, NoMoreAtSame
    <2>15. d = h * k + k
        BY <1>2, <2>1 DEF d, c
    <2>16. h * (k + 2) <= a /\ h * (k + 2) = h * k + 2 * h /\ h * k \in Nat
        <3>1. h * (k + 2) <= h * l
            <4>1. k + 2 \in Nat /\ h <= h
                BY <1>2, <2>1
            <4> QED
                BY <1>2, <2>2, <4>1, ProductOrder
        <3> QED
            BY <1>2, <2>1, <3>1 DEF a
    <2>17. 2 * h <= k
        BY <1>2, <2>1, <2>10, <2>14, <2>15, <2>16
    <2> QED
        BY <1>2, <2>17 DEF k
<1>12. ASSUME U + 2 <= r PROVE FALSE
    <2> DEFINE k == 4 * r - 3
               X == k * M
               l == 2 * U + 1
               m == 2 * r - 1
    <2>1. k \in Nat \ {0} /\ k < 2 * HiddenBit /\ l \in Nat /\ 2 * l <= k - 3 /\ m \in Nat
        BY <1>2, <1>5, <1>12
    <2>2. ~NoMore(l, 0, n, p.e)
        BY <1>5
    <2>3. NoMore(m, Half, y.m, y.e)
        <3>1. r - 1 \in Nat /\ 2 * (r - 1) + 1 = m /\ (r - 1) + 1 <= r
            BY <1>5, <1>12
        <3> QED
            BY <1>7, <3>1
    <2>4. k = 2 * m - 1
        OBVIOUS
    <2> HIDE DEF l, n
    <2>5. NoMore(n, p.e, l, 0)
        BY <1>3, <1>10, <2>1, <2>2, NotNoMore
    <2>6. k <= h
        BY <1>2
    <2> HIDE DEF k, m
    <2>7. X \in Nat /\ q - 1 \in Int /\ (q - 1) - 1 \in Int /\ Quarter + q = (q - 1) - 1
        BY <1>10, <2>1 DEF Quarter
    <2> DEFINE g == 2 * h
               a == g * n
               b == g * l
               c == h - 1
               d == k * c
               f == k * (h * M)
    <2>8. /\ g \in Nat \ {0} /\ a \in Nat /\ b \in Nat /\ c \in Nat /\ d \in Nat /\ f \in Nat
          /\ f = h * X /\ a = h * (2 * n) /\ 2 * n \in Nat
        <3>1. g \in Nat \ {0} /\ c \in Nat /\ 2 * n \in Nat /\ h * M \in Nat
            BY <1>2, <1>10
        <3>2. a \in Nat /\ b \in Nat /\ d \in Nat /\ f \in Nat
            BY <1>10, <2>1, <3>1
        <3>3. f = h * X
            BY <1>2, <1>10, <2>1
        <3>4. a = h * (2 * n)
            BY <1>2, <1>10
        <3> QED
            BY <3>1, <3>2, <3>3, <3>4
    <2>9. NoMore(a, p.e, b, 0)
        <3> HIDE DEF g
        <3> QED
            BY <1>3, <1>10, <2>1, <2>5, <2>8, NoMoreScaled
    <2>10. NoMore(d, 0, f, q)
        <3> DEFINE z == h * M
        <3>1. NoMore(c, 0, z, q) /\ z \in Nat
            BY <1>6, <1>10
        <3> HIDE DEF c, z
        <3>2. NoMore(k * c, 0, k * z, q)
            BY <1>10, <2>1, <2>8, <3>1, NoMoreScaled
        <3> QED
            BY <3>2 DEF z
    <2>11. b <= d
        <3>1. b = h * (2 * l) /\ d = h * k - k /\ h * (k - 3) = h * k - 3 * h
            BY <1>2, <2>1
        <3>2. h * (2 * l) <= h * (k - 3)
            <4>1. h <= h /\ 2 * l \in Nat /\ k - 3 \in Nat
                BY <1>2, <2>1
            <4> QED
                BY <1>2, <2>1, <4>1, ProductOrder
        <3>3. h * k \in Nat /\ h * (2 * l) \in Nat
            BY <1>2, <2>1
        <3> QED
            BY <1>2, <2>1, <2>6, <3>1, <3>2, <3>3
    <2> HIDE DEF a, b, c, d, f, g, X
    <2>12. NoMore(b, 0, d, 0)
        BY <1>10, <2>8, <2>11, NoMoreAtSame
    <2>13. NoMore(a, p.e, d, 0)
        BY <1>3, <1>10, <2>8, <2>9, <2>12, NoMoreTransitive
    <2>14. NoMore(a, p.e, f, q)
        BY <1>3, <1>10, <2>8, <2>10, <2>13, NoMoreTransitive
    <2>15. NoMore(2 * n, p.e, X, q)
        BY <1>2, <1>3, <1>10, <2>7, <2>8, <2>14, NoMoreScaled
    <2>16. NoMore(n, p.e, X, q - 1)
        BY <1>3, <1>10, <2>7, <2>15, Halved
    <2>17. NoMore(s, p.e, X, (q - 1) - 1)
        BY <1>3, <1>10, <2>7, <2>16, Halved DEF n
    <2>18. NoMore(p.m, p.e, k * t.m, Quarter + t.e)
        BY <1>8, <1>10, <2>1, <2>7, <2>17 DEF X
    <2>19. NoMore(y.m, y.e, k, Quarter)
        BY <1>9, <1>10, <2>1, <2>18
    <2>20. NoMore(m, Half, k, Quarter)
        BY <1>4, <1>10, <2>1, <2>3, <2>19, NoMoreTransitive
    <2>21. PowerOfTwo[1] = 2 /\ Half - Quarter = 1 /\ Half >= Quarter
        <3>1. PowerOfTwo[0 + 1] = 2 * PowerOfTwo[0] /\ PowerOfTwo[0] = 1 /\ 0 + 1 = 1
            BY PowerOfTwoFacts
        <3> QED
            BY <3>1 DEF Half, Quarter
    <2>22. m * 2 <= k
        BY <2>20, <2>21 DEF NoMore
    <2> QED
        BY <2>1, <2>4, <2>22
<1>13. r <= U + 1 /\ U <= r + 1
    <2> HIDE DEF n
    <2> QED
        BY <1>5, <1>11, <1>12
<1> QED
    BY <1>13 DEF U

LEMMA InHalves ==
    ASSUME NEW l \in Nat, NEW s \in Nat, NEW e \in Int
    PROVE  /\ NoMore(l, 0, 2 * s, e) <=> NoMore(l, Half, s, e)
           /\ NoMore(2 * s, e, l, 0) <=> NoMore(s, e, l, Half)
<1>1. SameNumber(s * PowerOfTwo[1], e, s, e + 1)
    BY MovedUp
<1>2. s * PowerOfTwo[1] = 2 * s
    <2>1. PowerOfTwo[0 + 1] = 2 * PowerOfTwo[0] /\ PowerOfTwo[0] = 1 /\ 0 + 1 = 1
        BY PowerOfTwoFacts
    <2> QED
        BY <2>1
<1> DEFINE d == 2 * s
           u == e + 1
<1>3. /\ d \in Nat /\ u \in Int /\ 0 \in Int /\ Half \in Int /\ -1 \in Int
      /\ u + (-1) = e /\ 0 + (-1) = Half
    BY DEF Half
<1>4. NoMore(d, e, s, u) /\ NoMore(s, u, d, e)
    BY <1>1, <1>2 DEF SameNumber
<1>5. NoMore(l, 0 + (-1), s, u + (-1)) <=> NoMore(l, 0, s, u)
    BY <1>3, NoMoreShifted
<1>6. NoMore(s, u + (-1), l, 0 + (-1)) <=> NoMore(s, u, l, 0)
    BY <1>3, NoMoreShifted
<1> HIDE DEF d, u
<1>7. NoMore(l, 0, d, e) <=> NoMore(l, 0, s, u)
    BY <1>3, <1>4, NoMoreTransitive
<1>8. NoMore(d, e, l, 0) <=> NoMore(s, u, l, 0)
    BY <1>3, <1>4, NoMoreTransitive
<1> QED
    BY <1>3, <1>5, <1>6, <1>7, <1>8 DEF d

\* A float that a number is no less, or no more than, is no less, or no more
\* than the number rounded.
LEMMA NearestKeeps ==
    ASSUME NEW l \in Nat \ {0}, l < 2 * HiddenBit, NEW d \in Int, NEW n \in Nat, NEW e \in Int
    PROVE  LET f == Nearest(n, e)
           IN  /\ NoMore(l, d, n, e) => NoMore(l, d, f.m, f.e)
               /\ NoMore(n, e, l, d) => NoMore(f.m, f.e, l, d)
<1> DEFINE f == Nearest(n, e)
           g == Nearest(l, d)
<1>1. f \in Float /\ g \in Float
    BY NearestType
<1>2. f.m \in Nat /\ f.e \in Int /\ g.m \in Nat /\ g.e \in Int
    BY <1>1, FloatParts
<1>3. NoMore(l, d, g.m, g.e) /\ NoMore(g.m, g.e, l, d)
    BY ExactNearest DEF SameNumber
<1>4. NoMore(l, d, n, e) => NoMore(g.m, g.e, f.m, f.e)
    BY NearestMonotone DEF AtMost
<1>5. NoMore(n, e, l, d) => NoMore(f.m, f.e, g.m, g.e)
    BY NearestMonotone DEF AtMost
<1> HIDE DEF f, g
<1>6. NoMore(l, d, n, e) => NoMore(l, d, f.m, f.e)
    BY <1>2, <1>3, <1>4, NoMoreTransitive
<1>7. NoMore(n, e, l, d) => NoMore(f.m, f.e, l, d)
    BY <1>2, <1>3, <1>5, NoMoreTransitive
<1> QED
    BY <1>6, <1>7 DEF f

\* A power of two times a float is a float.
LEMMA PowerTimes ==
    ASSUME NEW t \in PositiveFloat, NEW k \in Nat, PowerOfTwo[k] < 2 * HiddenBit
    PROVE  LET x == Times(Nearest(PowerOfTwo[k], 0), t)
           IN  SameNumber(x.m, x.e, PowerOfTwo[k] * t.m, t.e)
<1> DEFINE r == PowerOfTwo[k]
           x == Times(Nearest(r, 0), t)
           u == t.e + k
           v == r * t.m
<1>1. r \in Nat \ {0} /\ t.m \in Nat \ {0} /\ t.e \in Int /\ t.m < 2 * HiddenBit
    BY PowerOfTwoFacts, FloatParts DEF PositiveFloat, Mantissas
<1>2. u \in Int /\ v \in Nat /\ t.m * r = v
    BY <1>1
<1>3. x = Nearest(v, t.e)
    BY <1>1, IntegerTimes
<1>4. SameNumber(v, t.e, t.m, u)
    <2>1. SameNumber(t.m * PowerOfTwo[k], t.e, t.m, t.e + k)
        BY <1>1, MovedUp
    <2> QED
        BY <1>2, <2>1
<1> HIDE DEF r, u, v
<1>5. x = Nearest(t.m, u)
    BY <1>1, <1>2, <1>3, <1>4, AlikeNearest
<1>6. x.m \in Nat /\ x.e \in Int
    <2>1. x \in Float
        BY <1>1, <1>2, <1>3, NearestType
    <2> QED
        BY <2>1, FloatParts
<1>7. SameNumber(x.m, x.e, t.m, u)
    BY <1>1, <1>2, <1>5, ExactNearest
<1> HIDE DEF x
<1>8. SameNumber(x.m, x.e, v, t.e)
    <2>1. NoMore(x.m, x.e, t.m, u) /\ NoMore(t.m, u, x.m, x.e)
        BY <1>7 DEF SameNumber
    <2>2. NoMore(v, t.e, t.m, u) /\ NoMore(t.m, u, v, t.e)
        BY <1>4 DEF SameNumber
    <2>3. t.m \in Nat /\ t.e \in Int /\ u \in Int /\ v \in Nat
        BY <1>1, <1>2
    <2>4. NoMore(x.m, x.e, v, t.e)
        BY <1>6, <2>1, <2>2, <2>3, NoMoreTransitive
    <2>5. NoMore(v, t.e, x.m, x.e)
        BY <1>6, <2>1, <2>2, <2>3, NoMoreTransitive
    <2> QED
        BY <2>4, <2>5 DEF SameNumber
<1> QED
    BY <1>8 DEF x, v, r

\* r, and the half above it, on the grid of the floats between r and 2 * r.
LEMMA Grid ==
    ASSUME MantissaBits - 2 \in Nat, HiddenBit = 2 * PowerOfTwo[MantissaBits - 2],
           NEW r \in Nat \ {0}, r <= PowerOfTwo[MantissaBits - 2]
    PROVE  \E k, j \in Nat : /\ PowerOfTwo[k] <= r /\ r < 2 * PowerOfTwo[k]
                             /\ HiddenBit = 2 * (PowerOfTwo[k] * PowerOfTwo[j])
<1> DEFINE w == MantissaBits - 2
           k == BitLength[r] - 1
<1>1. /\ k \in Nat /\ w \in Nat /\ PowerOfTwo[k] <= r /\ r < PowerOfTwo[k + 1]
      /\ PowerOfTwo[k + 1] = 2 * PowerOfTwo[k] /\ PowerOfTwo[k] \in Nat
    <2>1. BitLength[r] \in Nat \ {0} /\ PowerOfTwo[k] <= r /\ r < PowerOfTwo[BitLength[r]]
        BY BitLengthFacts
    <2>2. k \in Nat /\ k + 1 = BitLength[r]
        BY <2>1
    <2> HIDE DEF k
    <2> QED
        BY <2>1, <2>2, PowerOfTwoFacts
<1> HIDE DEF k
<1>2. k <= w
    <2> SUFFICES ASSUME w + 1 <= k PROVE FALSE
        BY <1>1
    <2>1. /\ PowerOfTwo[w + 1] = 2 * PowerOfTwo[w] /\ PowerOfTwo[w] \in Nat \ {0}
          /\ w + 1 \in Nat
        BY <1>1, PowerOfTwoFacts
    <2> HIDE DEF w
    <2>2. PowerOfTwo[w + 1] <= PowerOfTwo[k]
        BY <1>1, <2>1, PowersGrow
    <2> QED
        BY <1>1, <2>1, <2>2 DEF w
<1>3. PICK j \in Nat : w = k + j
    <2>1. w - k \in Nat /\ w = k + (w - k)
        BY <1>1, <1>2
    <2> QED
        BY <2>1
<1>4. PowerOfTwo[w] = PowerOfTwo[k] * PowerOfTwo[j]
    <2>1. PowerOfTwo[k + j] = PowerOfTwo[k] * PowerOfTwo[j]
        BY <1>1, PowerOfSum
    <2> QED
        BY <1>3, <2>1
<1> QED
    BY <1>1, <1>4

LEMMA GridPlaces ==
    ASSUME NEW j \in Nat, NEW r \in Nat
    PROVE  LET c == PowerOfTwo[j]
               i == -(j + 2)
           IN  /\ SameNumber(4 * (r * c), i, r, 0)
               /\ SameNumber(2 * ((2 * r + 1) * c), i, 2 * r + 1, Half)
<1> DEFINE c == PowerOfTwo[j]
           i == -(j + 2)
           k == 2 * r + 1
<1>1. /\ c \in Nat /\ PowerOfTwo[j + 1] = 2 * c
      /\ PowerOfTwo[(j + 1) + 1] = 2 * PowerOfTwo[j + 1] /\ (j + 1) + 1 = j + 2
    BY PowerOfTwoFacts
<1>2. i \in Int /\ i + (j + 2) = 0 /\ i + (j + 1) = Half /\ k \in Nat /\ j + 1 \in Nat /\ j + 2 \in Nat
    BY DEF Half
<1> HIDE DEF c, i, k
<1>3. SameNumber(r * PowerOfTwo[j + 2], i, r, i + (j + 2))
    BY <1>2, MovedUp
<1>4. SameNumber(k * PowerOfTwo[j + 1], i, k, i + (j + 1))
    BY <1>2, MovedUp
<1>5. r * PowerOfTwo[j + 2] = 4 * (r * c) /\ k * PowerOfTwo[j + 1] = 2 * (k * c)
    BY <1>1, <1>2
<1> QED
    BY <1>2, <1>3, <1>4, <1>5 DEF k, c, i

\* A price that is rounded to one unit less than it has: the precision is so
\* much more than the factor's reciprocal.
LEMMA RoundedDown ==
    ASSUME FactorsExact, decimals \in Decimals, NEW p \in PositiveFloat,
           NEW r \in Nat, RoundsTo(DividedBy(p, TrimPrecision), r), Units(p) = r + 1,
           NEW j \in Nat, NEW R \in Nat, R = (2 * r + 1) * PowerOfTwo[j],
           HiddenBit < R, R < 2 * HiddenBit
    PROVE  LET t == TrimPrecision
               F == DenominationFactor
           IN  NoMore(2 * R, 0, (2 * R - 1) * (t.m * F.m), t.e + F.e)
<1> DEFINE t == TrimPrecision
           F == DenominationFactor
           T == PowerOfTen[decimals]
           y == DividedBy(p, t)
           s == p.m * T
           M == t.m * F.m
           q == t.e + F.e
           i == -(j + 2)
           l == 2 * r + 1
           A == 2 * R
           X == (A - 1) * M
<1>1. /\ p.m \in Nat /\ p.e \in Int /\ p \in Float /\ t \in PositiveFloat
      /\ t.m \in Nat /\ t.e \in Int /\ F.m \in Nat /\ F.e \in Int /\ T \in Nat
    BY FactorFacts, FloatParts, DecimalsAssumption, PowerOfTenFacts
<1>2. y.m \in Nat /\ y.e \in Int
    <2>1. y \in Float
        BY <1>1, DividedByType, FloatIsDividend
    <2> QED
        BY <2>1, FloatParts
<1>3. NoMore(2 * (r + 1) - 1, 0, 2 * s, p.e)
    <2>1. r + 1 # 0
        OBVIOUS
    <2> QED
        BY <2>1, UnitsAre
<1>4. /\ l \in Nat /\ A - 1 \in Nat /\ A \in Nat /\ i \in Int /\ Half \in Int
      /\ 2 * (r + 1) - 1 = l /\ ~(r + 1 <= r)
    BY FloatParts DEF Half
<1>5. ~NoMore(l, Half, y.m, y.e)
    BY <1>4 DEF RoundsTo
<1>6. NoMore(A, i, l, Half) /\ NoMore(l, Half, A, i)
    BY GridPlaces DEF SameNumber
<1>7. NoMore(A - 1, i, A - 1, i)
    BY <1>4, NoMoreAtSame
<1>8. NoMore(p.m, p.e, (A - 1) * t.m, i + t.e) => NoMore(s, p.e, X, i + q)
    BY <1>1, <1>4, InPrecisions
<1>9. ~NoMore(A, i, y.m, y.e) => NoMore(p.m, p.e, (A - 1) * t.m, i + t.e)
    BY <1>1, <1>4, QuotientMidpoint
<1> HIDE DEF t, F, T, i, l
<1>10. s \in Nat /\ M \in Nat /\ q \in Int /\ X \in Nat
    BY <1>1, <1>4
<1> HIDE DEF y, s, M, q, X, A
<1>11. ~NoMore(A, i, y.m, y.e)
    <2> SUFFICES ASSUME NoMore(A, i, y.m, y.e) PROVE FALSE
        OBVIOUS
    <2>1. NoMore(l, Half, y.m, y.e)
        BY <1>2, <1>4, <1>6, NoMoreTransitive
    <2> QED
        BY <1>5, <2>1
<1>12. NoMore(s, p.e, X, i + q)
    BY <1>8, <1>9, <1>11
<1>13. NoMore(l, Half, s, p.e)
    BY <1>1, <1>3, <1>4, <1>10, InHalves
<1>14. NoMore(A, i, s, p.e)
    BY <1>1, <1>4, <1>6, <1>10, <1>13, NoMoreTransitive
<1>15. PICK u \in Int : u = i + q /\ u = q + i
    BY <1>4, <1>10
<1>16. NoMore(A, i, X, u)
    <2>1. NoMore(s, p.e, X, u)
        BY <1>12, <1>15
    <2> QED
        BY <1>1, <1>4, <1>10, <1>14, <2>1, NoMoreTransitive
<1>17. NoMore(A, 0, X, q)
    <2>1. 0 \in Int /\ 0 + i = i
        BY <1>4
    <2>2. NoMore(A, 0 + i, X, q + i) <=> NoMore(A, 0, X, q)
        BY <1>4, <1>10, <2>1, NoMoreShifted
    <2> QED
        BY <1>15, <1>16, <2>1, <2>2
<1> QED
    BY <1>17 DEF A, X, M, q, t, F

\* What r units are sent as, by exact arithmetic before the last rounding.
InUnitsExact(r) ==
    LET x == Times(Nearest(r, 0), TrimPrecision)
        F == DenominationFactor
    IN  [m |-> x.m * F.m, e |-> x.e + F.e]

LEMMA SentFacts ==
    ASSUME decimals \in Decimals, NEW r \in Nat \ {0}, r < 2 * HiddenBit
    PROVE  LET t == TrimPrecision
               F == DenominationFactor
               h == 2 * HiddenBit
               Z == InUnitsExact(r)
           IN  /\ Z.m \in Nat /\ Z.e \in Int
               /\ NoMore(((h - 1) * r) * (t.m * F.m), t.e + F.e, h * Z.m, Z.e)
               /\ NoMore(h * Z.m, Z.e, ((h + 1) * r) * (t.m * F.m), t.e + F.e)
               /\ \A k \in Nat :
                     r = PowerOfTwo[k] => SameNumber(r * (t.m * F.m), t.e + F.e, Z.m, Z.e)
<1> DEFINE t == TrimPrecision
           F == DenominationFactor
           h == 2 * HiddenBit
           x == Times(Nearest(r, 0), t)
           Z == InUnitsExact(r)
<1>1. /\ t \in PositiveFloat /\ t.m \in Nat /\ t.e \in Int /\ F.m \in Nat /\ F.e \in Int
      /\ h \in Nat \ {0}
    BY FactorFacts, FloatParts
<1>2. x.m \in Nat /\ x.e \in Int
    <2>1. x \in Float
        BY <1>1, NearestType, FloatParts, TimesType
    <2> QED
        BY <2>1, FloatParts
<1>3. Z.m = x.m * F.m /\ Z.e = x.e + F.e
    BY DEF InUnitsExact
<1>4. /\ NoMore((h - 1) * (r * t.m), t.e, h * x.m, x.e)
      /\ NoMore(h * x.m, x.e, (h + 1) * (r * t.m), t.e)
    BY <1>1, IntegerTimes
<1>5. ASSUME NEW k \in Nat, r = PowerOfTwo[k]
      PROVE  SameNumber(x.m, x.e, r * t.m, t.e)
    BY <1>1, <1>5, PowerTimes
<1> HIDE DEF x, t, F, h, Z
<1> DEFINE a == r * t.m
           b == h * x.m
           c == (h - 1) * a
           d == (h + 1) * a
<1>6. /\ a \in Nat /\ b \in Nat /\ c \in Nat /\ d \in Nat
      /\ Z.m \in Nat /\ Z.e \in Int
    BY <1>1, <1>2, <1>3
<1>7. NoMore(c * F.m, t.e + F.e, b * F.m, x.e + F.e)
    <2> HIDE DEF b, c
    <2>1. NoMore(c, t.e, b, x.e)
        BY <1>4 DEF b, c, a
    <2> QED
        BY <1>1, <1>2, <1>6, <2>1, NoMoreTimes
<1>8. NoMore(b * F.m, x.e + F.e, d * F.m, t.e + F.e)
    <2> HIDE DEF b, d
    <2>1. NoMore(b, x.e, d, t.e)
        BY <1>4 DEF b, d, a
    <2> QED
        BY <1>1, <1>2, <1>6, <2>1, NoMoreTimes
<1>9. /\ c * F.m = ((h - 1) * r) * (t.m * F.m) /\ d * F.m = ((h + 1) * r) * (t.m * F.m)
      /\ b * F.m = h * (x.m * F.m)
    BY <1>1, <1>2
<1>10. ASSUME NEW k \in Nat, r = PowerOfTwo[k]
       PROVE  SameNumber(r * (t.m * F.m), t.e + F.e, Z.m, Z.e)
    <2>1. NoMore(x.m, x.e, a, t.e) /\ NoMore(a, t.e, x.m, x.e)
        BY <1>5, <1>10 DEF SameNumber
    <2> HIDE DEF a
    <2>2. NoMore(x.m * F.m, x.e + F.e, a * F.m, t.e + F.e)
        BY <1>1, <1>2, <1>6, <2>1, NoMoreTimes
    <2>3. NoMore(a * F.m, t.e + F.e, x.m * F.m, x.e + F.e)
        BY <1>1, <1>2, <1>6, <2>1, NoMoreTimes
    <2>4. a * F.m = r * (t.m * F.m)
        BY <1>1 DEF a
    <2> QED
        BY <1>3, <2>2, <2>3, <2>4 DEF SameNumber
<1> HIDE DEF a, b, c, d
<1> QED
    BY <1>3, <1>6, <1>7, <1>8, <1>9, <1>10 DEF Z, h, t, F

\* They are not less than r - 1, and not more than r + 1/2.
LEMMA SentBounds ==
    ASSUME decimals \in Decimals, NEW w \in Nat, 2 * HiddenBit = 4 * w,
           NEW r \in Nat \ {0}, r < w \/ (r = w /\ \E k \in Nat : r = PowerOfTwo[k])
    PROVE  LET Z == InUnitsExact(r)
           IN  NoMore(r - 1, 0, Z.m, Z.e) /\ NoMore(2 * Z.m, Z.e, 2 * r + 1, 0)
<1> DEFINE h == 2 * HiddenBit
           M == TrimPrecision.m * DenominationFactor.m
           q == TrimPrecision.e + DenominationFactor.e
           Z == InUnitsExact(r)
           g == h * M
           c == (h - 1) * r
           d == (h + 1) * r
           f == h * Z.m
           o == h * f
           n == r - 1
           l == 2 * r + 1
<1>1. /\ h \in Nat \ {0} /\ HiddenBit \in Nat \ {0} /\ r < 2 * HiddenBit
    BY FloatParts
<1>2. M \in Nat /\ q \in Int
    <2>1. TrimPrecision \in Float /\ DenominationFactor \in Float
        BY FactorFacts, FloatParts
    <2>2. /\ TrimPrecision.m \in Nat /\ TrimPrecision.e \in Int
          /\ DenominationFactor.m \in Nat /\ DenominationFactor.e \in Int
        BY <2>1, FloatParts
    <2> QED
        BY <2>2
<1>3. /\ Z.m \in Nat /\ Z.e \in Int
      /\ NoMore(c * M, q, f, Z.e) /\ NoMore(f, Z.e, d * M, q)
      /\ \A k \in Nat : r = PowerOfTwo[k] => SameNumber(r * M, q, Z.m, Z.e)
    BY <1>1, SentFacts
<1>4. NoMore(h - 1, 0, g, q) /\ NoMore(g, q, h + 1, 0)
    BY FactorErrors
<1>5. 4 * r = h \/ 4 * r + 4 <= h
    BY <1>1
<1>6. 4 * r <= h /\ (4 * r < h \/ \E k \in Nat : r = PowerOfTwo[k])
    OBVIOUS
<1> HIDE DEF h, M, q, Z
<1>7. /\ g \in Nat /\ c \in Nat /\ d \in Nat /\ f \in Nat /\ o \in Nat /\ n \in Nat /\ l \in Nat
      /\ h - 1 \in Nat /\ h + 1 \in Nat /\ h * h \in Nat \ {0} /\ r * (h * h) \in Nat /\ r * h \in Nat
      /\ 2 * Z.m \in Nat /\ 0 \in Int /\ 2 \in Nat \ {0}
    <2>1. h - 1 \in Nat /\ h + 1 \in Nat
        BY <1>1
    <2>2. g \in Nat /\ c \in Nat /\ d \in Nat /\ f \in Nat
        BY <1>1, <1>2, <1>3, <2>1
    <2>3. h * h \in Nat /\ r * h \in Nat
        BY <1>1
    <2>4. h * h # 0
        BY <1>1
    <2>5. o \in Nat /\ r * (h * h) \in Nat
        BY <1>1, <2>2, <2>3
    <2> QED
        BY <1>3, <2>1, <2>2, <2>3, <2>4, <2>5
<1> DEFINE s == c * (h - 1)
           u == h * (c * M)
           v == d * (h + 1)
           x == h * (d * M)
           y == h * h
           a == n * y
           b == l * y
<1>8. /\ s \in Nat /\ u \in Nat /\ v \in Nat /\ x \in Nat /\ y \in Nat \ {0} /\ a \in Nat /\ b \in Nat
      /\ u = c * g /\ x = d * g /\ o = y * Z.m
    <2>1. c * M \in Nat /\ d * M \in Nat
        BY <1>2, <1>7
    <2> HIDE DEF c, d
    <2>2. s \in Nat /\ u \in Nat /\ v \in Nat /\ x \in Nat /\ a \in Nat /\ b \in Nat
        BY <1>1, <1>7, <2>1
    <2>3. u = c * g /\ x = d * g /\ o = y * Z.m
        BY <1>1, <1>2, <1>3, <1>7
    <2> QED
        BY <1>7, <2>2, <2>3
<1>9. NoMore(n, 0, Z.m, Z.e)
    <2>1. (2 * r) * h <= h * h /\ (2 * r) * h = 2 * (r * h)
        <3>1. 2 * r <= h /\ h <= h /\ 2 * r \in Nat
            BY <1>1, <1>6
        <3> QED
            BY <1>1, <3>1, ProductOrder
    <2>2. a = r * (h * h) - h * h /\ s = r * (h * h) - 2 * (r * h) + r
        BY <1>1
    <2>3. a <= s
        BY <1>7, <2>1, <2>2
    <2> HIDE DEF a, s, u, o, f, c, g, n, y
    <2>4. NoMore(s, 0, u, q)
        <3>1. h - 1 \in Nat /\ c # 0
            BY <1>1, <1>7, <1>6 DEF c
        <3>2. NoMore(c * (h - 1), 0, c * g, q)
            BY <1>2, <1>4, <1>7, <3>1, NoMoreScaled
        <3> QED
            BY <1>8, <3>2 DEF s
    <2>5. NoMore(u, q, o, Z.e)
        <3>1. c * M \in Nat
            BY <1>2, <1>7
        <3> QED
            BY <1>1, <1>2, <1>3, <1>7, <3>1, NoMoreScaled DEF u, o
    <2>6. NoMore(a, 0, s, 0)
        BY <1>7, <1>8, <2>3, NoMoreAtSame
    <2>7. NoMore(a, 0, u, q)
        BY <1>2, <1>7, <1>8, <2>4, <2>6, NoMoreTransitive
    <2>8. NoMore(a, 0, o, Z.e)
        BY <1>2, <1>3, <1>7, <1>8, <2>5, <2>7, NoMoreTransitive
    <2>9. a = y * n
        BY <1>7, <1>8 DEF a
    <2>10. NoMore(y * n, 0, y * Z.m, Z.e)
        BY <1>8, <2>8, <2>9
    <2> QED
        BY <1>3, <1>7, <1>8, <2>10, NoMoreScaled
<1>10. CASE 4 * r < h
    <2>1. (4 * r + 4) * h <= h * h /\ (4 * r + 4) * h = 4 * (r * h) + 4 * h
        <3>1. 4 * r + 4 <= h /\ h <= h /\ 4 * r + 4 \in Nat
            BY <1>1, <1>5, <1>10
        <3> QED
            BY <1>1, <3>1, ProductOrder
    <2>2. b = 2 * (r * (h * h)) + h * h /\ v = r * (h * h) + 2 * (r * h) + r
        BY <1>1
    <2>3. 2 * v <= b
        BY <1>1, <1>7, <1>10, <2>1, <2>2
    <2> HIDE DEF b, v, x, o, f, d, g, l, y
    <2>4. NoMore(x, q, v, 0)
        <3>1. h + 1 \in Nat /\ d # 0
            BY <1>1, <1>7 DEF d
        <3>2. NoMore(d * g, q, d * (h + 1), 0)
            BY <1>2, <1>4, <1>7, <3>1, NoMoreScaled
        <3> QED
            BY <1>8, <3>2 DEF v
    <2>5. NoMore(o, Z.e, x, q)
        <3>1. d * M \in Nat
            BY <1>2, <1>7
        <3> QED
            BY <1>1, <1>2, <1>3, <1>7, <3>1, NoMoreScaled DEF x, o
    <2>6. NoMore(o, Z.e, v, 0)
        BY <1>2, <1>3, <1>7, <1>8, <2>4, <2>5, NoMoreTransitive
    <2>7. NoMore(2 * o, Z.e, 2 * v, 0) /\ 2 * o \in Nat /\ 2 * v \in Nat
        <3>1. o \in Nat /\ v \in Nat /\ Z.e \in Int /\ 0 \in Int /\ 2 \in Nat \ {0}
            BY <1>3, <1>7, <1>8
        <3>2. NoMore(2 * o, Z.e, 2 * v, 0)
            BY <2>6, <3>1, NoMoreScaled
        <3> QED
            BY <3>1, <3>2
    <2> DEFINE i == 2 * o
               j == 2 * v
    <2> HIDE DEF i, j
    <2>8. NoMore(j, 0, b, 0) /\ i \in Nat /\ j \in Nat
        BY <1>7, <1>8, <2>3, <2>7, NoMoreAtSame DEF i, j
    <2>9. NoMore(i, Z.e, j, 0)
        BY <2>7 DEF i, j
    <2>10. NoMore(i, Z.e, b, 0)
        BY <1>3, <1>7, <1>8, <2>8, <2>9, NoMoreTransitive
    <2>11. i = y * (2 * Z.m) /\ b = y * l
        BY <1>3, <1>7, <1>8 DEF i, b
    <2>12. NoMore(y * (2 * Z.m), Z.e, y * l, 0)
        BY <2>10, <2>11
    <2>13. NoMore(2 * Z.m, Z.e, l, 0)
        BY <1>3, <1>7, <1>8, <2>12, NoMoreScaled
    <2> QED
        BY <1>9, <2>13 DEF n, l, Z
<1>11. CASE \E k \in Nat : r = PowerOfTwo[k]
    <2>1. NoMore(Z.m, Z.e, r * M, q) /\ r * M \in Nat
        BY <1>2, <1>3, <1>11 DEF SameNumber
    <2>2. h * (r * M) = r * g
        BY <1>1, <1>2
    <2>3. 2 * (r * (h + 1)) <= h * l /\ r * (h + 1) \in Nat /\ h * l \in Nat
        <3>1. r * (h + 1) = r * h + r /\ h * l = 2 * (r * h) + h
            BY <1>1
        <3> QED
            BY <1>1, <1>6, <1>7, <3>1
    <2> DEFINE i == r * M
               j == r * g
               k == r * (h + 1)
    <2>4. NoMore(j, q, k, 0) /\ j \in Nat /\ i \in Nat /\ k \in Nat
        <3> HIDE DEF g
        <3>1. h + 1 \in Nat /\ g \in Nat /\ 0 \in Int
            BY <1>7
        <3>2. NoMore(r * g, q, r * (h + 1), 0)
            BY <1>2, <1>4, <3>1, NoMoreScaled
        <3>3. r * g \in Nat
            BY <3>1
        <3> QED
            BY <2>1, <2>3, <3>2, <3>3
    <2>5. NoMore(f, Z.e, j, q)
        <3> HIDE DEF j, i
        <3>1. NoMore(Z.m, Z.e, i, q)
            BY <2>1 DEF i
        <3>2. NoMore(h * Z.m, Z.e, h * i, q)
            BY <1>1, <1>2, <1>3, <2>4, <3>1, NoMoreScaled
        <3> QED
            BY <2>2, <3>2 DEF i, j
    <2> HIDE DEF i, j, k
    <2>6. NoMore(f, Z.e, k, 0)
        BY <1>2, <1>3, <1>7, <2>4, <2>5, NoMoreTransitive
    <2> DEFINE e == 2 * f
               t == 2 * k
               z == h * l
    <2>7. NoMore(e, Z.e, t, 0) /\ e \in Nat /\ t \in Nat
        <3> HIDE DEF f
        <3>1. f \in Nat /\ k \in Nat /\ Z.e \in Int /\ 0 \in Int /\ 2 \in Nat \ {0}
            BY <1>3, <1>7, <2>4
        <3>2. NoMore(2 * f, Z.e, 2 * k, 0)
            BY <2>6, <3>1, NoMoreScaled
        <3> QED
            BY <3>1, <3>2
    <2>8. t <= z /\ z \in Nat
        BY <2>3 DEF k
    <2>9. e = h * (2 * Z.m)
        BY <1>1, <1>3
    <2> HIDE DEF e, t, z
    <2>10. NoMore(t, 0, z, 0)
        BY <1>7, <2>7, <2>8, NoMoreAtSame
    <2>11. NoMore(e, Z.e, z, 0)
        BY <1>3, <1>7, <2>7, <2>8, <2>10, NoMoreTransitive
    <2> HIDE DEF l
    <2>12. NoMore(h * (2 * Z.m), Z.e, h * l, 0)
        BY <2>9, <2>11 DEF z
    <2>13. NoMore(2 * Z.m, Z.e, l, 0)
        BY <1>1, <1>3, <1>7, <2>12, NoMoreScaled
    <2> QED
        BY <1>9, <2>13 DEF n, l, Z
<1> QED
    BY <1>6, <1>10, <1>11

\* r units are sent as r, or as r - 1.
LEMMA SentAlmost ==
    ASSUME decimals \in Decimals, NEW w \in Nat, 2 * HiddenBit = 4 * w,
           NEW r \in Nat \ {0}, r < w \/ (r = w /\ \E k \in Nat : r = PowerOfTwo[k])
    PROVE  LET Z == InUnitsExact(r)
               a == Truncated(Nearest(Z.m, Z.e))
           IN  a \in Nat /\ r - 1 <= a /\ a <= r
<1> DEFINE Z == InUnitsExact(r)
           f == Nearest(Z.m, Z.e)
           a == Truncated(f)
           l == 2 * r + 1
           n == r - 1
<1>1. /\ r < 2 * HiddenBit /\ l \in Nat \ {0} /\ l < 2 * HiddenBit /\ n \in Nat /\ n < 2 * HiddenBit
      /\ 0 \in Int /\ Half \in Int /\ r + 1 \in Nat
    BY DEF Half
<1>2. /\ Z.m \in Nat /\ Z.e \in Int /\ f \in Float /\ f.m \in Nat /\ f.e \in Int /\ a \in Nat
    <2>1. Z.m \in Nat /\ Z.e \in Int
        BY <1>1, SentFacts
    <2>2. f \in Float
        BY <2>1, NearestType
    <2> QED
        BY <2>1, <2>2, FloatParts, TruncatedIsNat
<1>3. NoMore(n, 0, Z.m, Z.e) /\ NoMore(2 * Z.m, Z.e, l, 0)
    BY SentBounds
<1> HIDE DEF Z, l, n
<1>4. NoMore(n, 0, f.m, f.e)
    <2>1. CASE n = 0
        BY <1>1, <1>2, <2>1, NothingBelowZero
    <2>2. CASE n # 0
        <3>1. n \in Nat \ {0}
            BY <1>1, <2>2
        <3> QED
            BY <1>1, <1>2, <1>3, <3>1, NearestKeeps
    <2> QED
        BY <2>1, <2>2
<1>5. NoMore(f.m, f.e, l, Half)
    <2>1. NoMore(Z.m, Z.e, l, Half)
        BY <1>1, <1>2, <1>3, InHalves
    <2> QED
        BY <1>1, <1>2, <2>1, NearestKeeps
<1> HIDE DEF f
<1>6. n <= a
    BY <1>1, <1>2, <1>4, TruncatedAtLeast
<1>7. ~(r + 1 <= a)
    <2> SUFFICES ASSUME r + 1 <= a PROVE FALSE
        OBVIOUS
    <2>1. NoMore(r + 1, 0, f.m, f.e)
        BY <1>1, <1>2, TruncatedAtLeast
    <2>2. NoMore(r + 1, 0, l, Half)
        BY <1>1, <1>2, <1>5, <2>1, NoMoreTransitive
    <2>3. 0 >= Half /\ 0 - Half = 0 + 1 /\ PowerOfTwo[0 + 1] = 2
        <3>1. PowerOfTwo[0 + 1] = 2 * PowerOfTwo[0] /\ PowerOfTwo[0] = 1
            BY PowerOfTwoFacts
        <3> QED
            BY <3>1 DEF Half
    <2>4. (r + 1) * 2 <= l
        BY <2>2, <2>3 DEF NoMore
    <2> QED
        BY <2>4 DEF l
<1>8. n <= a /\ a <= r
    <2> HIDE DEF a
    <2> QED
        BY <1>2, <1>6, <1>7
<1> QED
    BY <1>2, <1>8 DEF a, f, Z, n

\* If (1 - 1/h) * A * B were no more than (A - 1) * (B - 1) ...
LEMMA TooFarApart ==
    ASSUME NEW h \in Nat, NEW A \in Nat, NEW B \in Nat,
           h <= A, A <= 2 * h - 2, h <= B, B <= 2 * h - 2,
           (h - 1) * (A * B) <= h * ((A - 1) * (B - 1))
    PROVE  FALSE
<1> DEFINE u == A - h
           v == B - h
           P == A * B
<1>1. u \in Nat /\ v \in Nat /\ u <= h - 2 /\ v <= h /\ h - 2 \in Nat /\ A = h + u /\ B = h + v
    OBVIOUS
<1>2. u * v <= (h - 2) * h
    BY <1>1, ProductOrder
<1>3. (h - 1) * P = h * P - P /\ h * ((A - 1) * (B - 1)) = h * P - h * A - h * B + h
    OBVIOUS
<1>4. h * P \in Nat /\ P \in Nat /\ h * A \in Nat /\ h * B \in Nat
    OBVIOUS
<1>5. h * A + h * B <= P + h
    <2> HIDE DEF P
    <2> QED
        BY <1>3, <1>4 DEF P
<1> HIDE DEF u, v
<1>6. h * A = h * h + h * u /\ h * B = h * h + h * v /\ P = h * h + h * u + h * v + u * v
    BY <1>1
<1>7. (h - 2) * h = h * h - 2 * h
    BY <1>1
<1>8. h * h \in Nat /\ h * u \in Nat /\ h * v \in Nat /\ u * v \in Nat /\ h >= 2
    BY <1>1
<1> HIDE DEF P
<1> QED
    BY <1>2, <1>5, <1>6, <1>7, <1>8

\* A price that is rounded to one unit less than it has is not cut off by
\* another one.
LEMMA NotCutOffToo ==
    ASSUME FactorsExact, decimals \in Decimals, NEW p \in PositiveFloat,
           MantissaBits - 2 \in Nat, HiddenBit = 2 * PowerOfTwo[MantissaBits - 2],
           NEW r \in Nat \ {0}, r <= PowerOfTwo[MantissaBits - 2],
           RoundsTo(DividedBy(p, TrimPrecision), r), Units(p) = r + 1
    PROVE  LET Z == InUnitsExact(r)
           IN  r <= Truncated(Nearest(Z.m, Z.e))
<1> DEFINE h == 2 * HiddenBit
           t == TrimPrecision
           F == DenominationFactor
           M == t.m * F.m
           q == t.e + F.e
           Z == InUnitsExact(r)
           f == Nearest(Z.m, Z.e)
<1>1. HiddenBit \in Nat \ {0} /\ h \in Nat \ {0} /\ r < 2 * HiddenBit /\ 0 \in Int
    BY FloatParts, PowerOfTwoFacts
<1>2. M \in Nat /\ q \in Int
    <2>1. t.m \in Nat /\ t.e \in Int /\ F.m \in Nat /\ F.e \in Int
        BY FactorFacts, FloatParts
    <2> QED
        BY <2>1
<1>3. /\ Z.m \in Nat /\ Z.e \in Int
      /\ NoMore(((h - 1) * r) * M, q, h * Z.m, Z.e)
      /\ \A k \in Nat : r = PowerOfTwo[k] => SameNumber(r * M, q, Z.m, Z.e)
    BY <1>1, SentFacts
<1>4. f \in Float /\ f.m \in Nat /\ f.e \in Int
    BY <1>3, NearestType, FloatParts
<1>5. PICK k \in Nat, j \in Nat : /\ PowerOfTwo[k] <= r /\ r < 2 * PowerOfTwo[k]
                                  /\ HiddenBit = 2 * (PowerOfTwo[k] * PowerOfTwo[j])
    BY Grid
<1> DEFINE K == PowerOfTwo[k]
           c == PowerOfTwo[j]
           R == (2 * r + 1) * c
           Q == 2 * (r * c)
           A == 2 * R
           B == 2 * Q
           i == -(j + 2)
<1>6. K \in Nat \ {0} /\ c \in Nat \ {0} /\ i \in Int /\ K <= r /\ r < 2 * K /\ HiddenBit = 2 * (K * c)
    BY <1>5, PowerOfTwoFacts
<1> HIDE DEF K, c
<1>7. /\ r * c \in Nat /\ R \in Nat /\ Q \in Nat /\ K * c \in Nat /\ R = 2 * (r * c) + c
      /\ K * c <= r * c /\ r * c + c <= 2 * (K * c)
    <2>1. r * c \in Nat /\ K * c \in Nat /\ R \in Nat /\ R = 2 * (r * c) + c
        BY <1>6
    <2>2. K * c <= r * c
        BY <1>6, Cancel
    <2>3. (r + 1) * c <= (2 * K) * c
        <3>1. r + 1 \in Nat /\ 2 * K \in Nat /\ r + 1 <= 2 * K
            BY <1>6
        <3> QED
            BY <1>6, <3>1, Cancel
    <2>4. (r + 1) * c = r * c + c /\ (2 * K) * c = 2 * (K * c)
        BY <1>6
    <2> QED
        BY <2>1, <2>2, <2>3, <2>4
<1>8. HiddenBit < R /\ R < 2 * HiddenBit
    BY <1>6, <1>7
<1>9. NoMore(A, 0, (A - 1) * M, q)
    <2>1. R = (2 * r + 1) * PowerOfTwo[j]
        BY DEF c
    <2> HIDE DEF R
    <2> QED
        BY <1>7, <1>8, <2>1, RoundedDown
<1>10. SameNumber(B, i, r, 0)
    <2>1. SameNumber(4 * (r * c), i, r, 0)
        BY GridPlaces DEF c
    <2>2. B = 4 * (r * c)
        BY <1>7
    <2> QED
        BY <2>1, <2>2
<1>11. SUFFICES ASSUME ~NoMore(r, 0, f.m, f.e) PROVE FALSE
    BY <1>4, TruncatedAtLeast
<1>12. A \in Nat \ {0} /\ A - 1 \in Nat \ {0} /\ B \in Nat
    BY <1>1, <1>7, <1>8
<1>13. CASE r = K
    <2>1. NoMore(r * M, q, Z.m, Z.e) /\ r * M \in Nat
        BY <1>2, <1>3, <1>13 DEF SameNumber, K
    <2> HIDE DEF M, q, Z, A
    <2>2. NoMore(1, 0, M, q)
        <3> SUFFICES ASSUME ~NoMore(1, 0, M, q) PROVE FALSE
            OBVIOUS
        <3> DEFINE g == A - 1
                   x == g * M
                   y == g * 1
        <3>1. 1 \in Nat /\ g \in Nat \ {0} /\ x \in Nat /\ y \in Nat /\ y = g
            BY <1>2, <1>12
        <3>2. NoMore(M, q, 1, 0)
            BY <1>1, <1>2, <3>1, NotNoMore
        <3> HIDE DEF g
        <3>3. NoMore(x, q, y, 0)
            BY <1>1, <1>2, <3>1, <3>2, NoMoreScaled
        <3>4. NoMore(A, 0, x, q)
            BY <1>9 DEF g
        <3> HIDE DEF x, y
        <3>5. NoMore(A, 0, y, 0)
            BY <1>1, <1>2, <1>12, <3>1, <3>3, <3>4, NoMoreTransitive
        <3>6. A <= y
            BY <1>1, <1>12, <3>1, <3>5, NoMoreAtSame
        <3> QED
            BY <1>12, <3>1, <3>6 DEF g
    <2>3. NoMore(r * 1, 0, r * M, q) /\ r * 1 = r
        <3>1. 1 \in Nat /\ r * 1 = r
            OBVIOUS
        <3>2. NoMore(r * 1, 0, r * M, q)
            BY <1>1, <1>2, <2>2, <3>1, NoMoreScaled
        <3> QED
            BY <3>1, <3>2
    <2> DEFINE n == r * M
    <2>4. NoMore(r, 0, n, q) /\ NoMore(n, q, Z.m, Z.e) /\ n \in Nat
        BY <2>1, <2>3
    <2> HIDE DEF n
    <2>5. NoMore(r, 0, Z.m, Z.e)
        BY <1>1, <1>2, <1>3, <2>4, NoMoreTransitive
    <2> QED
        BY <1>1, <1>3, <1>11, <2>5, NearestKeeps
<1>14. CASE K < r
    <2>1. HiddenBit < Q /\ Q < 2 * HiddenBit
        <3>1. (K + 1) * c <= r * c
            <4>1. K + 1 \in Nat /\ K + 1 <= r
                BY <1>6, <1>14
            <4> QED
                BY <1>6, <4>1, Cancel
        <3>2. (K + 1) * c = K * c + c
            BY <1>6
        <3> QED
            BY <1>6, <1>7, <3>1, <3>2
    <2>2. NoMore(Z.m, Z.e, B - 1, i) /\ B - 1 \in Nat
        <3> HIDE DEF Q, f, i, A
        <3>1. ~NoMore(B, i, f.m, f.e)
            <4> HIDE DEF B
            <4> SUFFICES ASSUME NoMore(B, i, f.m, f.e) PROVE FALSE
                OBVIOUS
            <4>1. NoMore(r, 0, B, i)
                BY <1>10 DEF SameNumber
            <4>2. NoMore(r, 0, f.m, f.e)
                BY <1>1, <1>4, <1>6, <1>12, <4>1, NoMoreTransitive
            <4> QED
                BY <1>11, <4>2
        <3>2. NoMore(Z.m, Z.e, B - 1, i)
            <4> HIDE DEF Z
            <4> QED
                BY <1>3, <1>6, <1>7, <2>1, <3>1, NearestMidpoint DEF f
        <3> QED
            BY <1>1, <1>7, <2>1, <3>2
    <2>3. h <= A /\ A <= 2 * h - 2 /\ h <= B /\ B <= 2 * h - 2
        <3> HIDE DEF R, Q
        <3> QED
            BY <1>1, <1>7, <1>8, <2>1
    <2> HIDE DEF A, B, M, q, Z, i, f, R, Q
    <2> DEFINE o == (h - 1) * r
               s == (h - 1) * A
               g == A - 1
               u == g * h
               b == B - 1
               x == o * A
               y == o * (g * M)
               n == g * (h * Z.m)
               v == u * b
               z == s * B
    <2>4. h - 1 \in Nat \ {0} /\ g \in Nat \ {0} /\ b \in Nat /\ g * M \in Nat /\ h * Z.m \in Nat
        BY <1>1, <1>2, <1>3, <1>12, <2>2
    <2> HIDE DEF g, b
    <2>5. o \in Nat \ {0} /\ s \in Nat \ {0} /\ u \in Nat \ {0} /\ o * M \in Nat /\ (h - 1) * (A * B) = z
        <3> HIDE DEF h
        <3>1. o \in Nat /\ s \in Nat /\ u \in Nat
            BY <1>1, <1>12, <2>4
        <3>2. o # 0 /\ s # 0 /\ u # 0
            BY <1>1, <1>12, <2>4
        <3>3. (h - 1) * (A * B) = z
            BY <1>1, <1>12
        <3> HIDE DEF o
        <3> QED
            BY <1>2, <3>1, <3>2, <3>3
    <2>6. NoMore(x, 0, y, q)
        <3>1. NoMore(A, 0, g * M, q)
            BY <1>9 DEF g
        <3> HIDE DEF o
        <3> QED
            BY <1>1, <1>2, <1>12, <2>4, <2>5, <3>1, NoMoreScaled
    <2>7. NoMore(y, q, n, Z.e)
        <3> HIDE DEF h
        <3>1. y = g * (o * M)
            <4> HIDE DEF o
            <4> QED
                BY <1>2, <2>4, <2>5
        <3>2. NoMore(o * M, q, h * Z.m, Z.e)
            BY <1>3 DEF h
        <3> HIDE DEF o
        <3>3. NoMore(g * (o * M), q, g * (h * Z.m), Z.e)
            BY <1>2, <1>3, <2>4, <2>5, <3>2, NoMoreScaled
        <3> QED
            BY <3>1, <3>3
    <2>8. NoMore(n, Z.e, v, i)
        <3> HIDE DEF h
        <3>1. n = u * Z.m
            BY <1>1, <1>3, <2>4
        <3>2. NoMore(Z.m, Z.e, b, i)
            BY <2>2 DEF b
        <3> HIDE DEF u
        <3>3. NoMore(u * Z.m, Z.e, u * b, i)
            BY <1>3, <1>6, <2>4, <2>5, <3>2, NoMoreScaled DEF i
        <3> QED
            BY <3>1, <3>3
    <2>9. NoMore(z, i, x, 0)
        <3> HIDE DEF h
        <3>1. NoMore(B, i, r, 0)
            BY <1>10 DEF SameNumber
        <3>2. x = s * r
            BY <1>1, <1>12
        <3> HIDE DEF s
        <3>3. NoMore(s * B, i, s * r, 0)
            BY <1>1, <1>6, <1>12, <2>5, <3>1, NoMoreScaled DEF i
        <3> QED
            BY <3>2, <3>3
    <2>10. x \in Nat /\ y \in Nat /\ n \in Nat /\ v \in Nat /\ z \in Nat /\ i \in Int
        <3> HIDE DEF o, u, s, h
        <3> QED
            BY <1>1, <1>2, <1>3, <1>6, <1>12, <2>4, <2>5 DEF i
    <2>11. v = h * (g * b)
        <3> HIDE DEF h
        <3> QED
            BY <1>1, <2>4
    <2> HIDE DEF h, x, y, n, v, z, u, o, s
    <2>12. NoMore(x, 0, n, Z.e)
        BY <1>1, <1>2, <1>3, <2>6, <2>7, <2>10, NoMoreTransitive
    <2>13. NoMore(x, 0, v, i)
        BY <1>1, <1>3, <2>8, <2>10, <2>12, NoMoreTransitive
    <2>14. NoMore(z, i, v, i)
        BY <1>1, <2>9, <2>10, <2>13, NoMoreTransitive
    <2>15. z <= v
        BY <2>10, <2>14, NoMoreAtSame
    <2>16. (h - 1) * (A * B) <= h * ((A - 1) * (B - 1))
        BY <2>5, <2>11, <2>15 DEF g, b
    <2> QED
        BY <1>1, <1>12, <2>3, <2>16, TooFarApart
<1> QED
    BY <1>6, <1>13, <1>14

(***************************************************************************)
(* With float64 and 64-bit integers: a price of up to 2^51 units of any    *)
(* pair that newPair accepts (of 1 to 18 decimals, whose factor is a float *)
(* because 5^18 < 2^53) is rounded by trim, multiplied by the factor and   *)
(* cut off, and the contract is sent its units or a neighbour of them.     *)
(***************************************************************************)
THEOREM SentToWithinOneUnit ==
    FactorsExact /\ MantissaBits < Width => (Spec => []SentWithinOneUnit)
<1> SUFFICES ASSUME FactorsExact, MantissaBits < Width PROVE Spec => []SentWithinOneUnit
    OBVIOUS
<1>1. IInv => SentWithinOneUnit
    <2> SUFFICES ASSUME IInv, stage = "sent", Countable(price)
                 PROVE  argument - Units(price) \in -1 .. 1
        BY DEF SentWithinOneUnit
    <2> DEFINE t == TrimPrecision
               F == DenominationFactor
               w == PowerOfTwo[MantissaBits - 2]
               U == Units(price)
               a == Truncated(Scaled(recorded))
    <2>1. /\ decimals \in Decimals /\ recorded = Trim(fetched) /\ fetched = Trim(price)
          /\ denominated \in ToUnsigned(Scaled(recorded)) /\ argument = Magnitude(denominated)
        BY DEF IInv
    <2>2. price \in PositiveFloat
        BY FiniteIsFloat DEF Countable
    <2>3. PICK r \in Nat : /\ r <= w /\ RoundsTo(DividedBy(price, t), r)
                           /\ recorded = Times(Nearest(r, 0), t)
        BY <2>1, <2>2, TrimTwice
    <2>4. /\ MantissaBits - 2 \in Nat /\ HiddenBit = 2 * w /\ w \in Nat \ {0}
          /\ 2 * HiddenBit = 4 * w
        <3>1. MantissaBits - 2 \in Nat /\ HiddenBit = 2 * w
            BY <2>1, <2>2, CountableBound
        <3> QED
            BY <3>1, PowerOfTwoFacts
    <2>5. U \in Nat /\ r <= U + 1 /\ U <= r + 1
        <3>1. U \in Nat
            BY <2>1, <2>2, UnitsAre
        <3> QED
            BY <2>1, <2>2, <2>3, <3>1, UnitsRounded
    <2>6. recorded \in Float /\ F \in Float
        BY <2>1, <2>3, NearestType, FactorFacts, FloatParts, TimesType
    <2>7. Scaled(recorded) \in Float
        BY <2>1, <2>6, ScaledFacts
    <2>8. Scaled(recorded) = Nearest(InUnitsExact(r).m, InUnitsExact(r).e)
        BY <2>3, <2>6, FloatsAreFinite DEF Scaled, Times, InUnitsExact
    <2>9. a \in Nat /\ (r # 0 => r - 1 <= a /\ (U = r + 1 => r <= a)) /\ a <= r
        <3>1. CASE r = 0
            <4>1. Nearest(r, 0) = Zero
                BY <3>1 DEF Nearest
            <4>2. \A f \in Float : Times(Zero, f) = Zero
                <5> TAKE f \in Float
                <5>1. 0 * f.m = 0
                    BY FloatParts
                <5> QED
                    BY <5>1 DEF Times, Nearest, Zero
            <4>3. recorded = Zero
                BY <2>1, <2>3, <4>1, <4>2, FactorFacts, FloatParts
            <4>4. Scaled(recorded) = Zero
                BY <2>6, <4>2, <4>3, FloatsAreFinite DEF Scaled
            <4>5. Truncated(Zero) = 0
                BY PowerOfTwoFacts DEF Truncated, Zero
            <4> QED
                BY <3>1, <4>4, <4>5
        <3>2. CASE r # 0
            <4>1. r < w \/ (r = w /\ \E k \in Nat : r = PowerOfTwo[k])
                BY <2>3, <2>4
            <4>2. a \in Nat /\ r - 1 <= a /\ a <= r
                BY <2>1, <2>4, <2>8, <3>2, <4>1, SentAlmost
            <4>3. U = r + 1 => r <= a
                BY <2>1, <2>2, <2>3, <2>4, <2>8, <3>2, NotCutOffToo
            <4> QED
                BY <4>2, <4>3
        <3> QED
            BY <3>1, <3>2
    <2>10. a < SignBit /\ a \in Unsigned
        <3>1. MantissaBits - 2 <= Width - 1 /\ Width - 1 \in Nat /\ w < 2 * w
            BY <2>4, MantissaAssumption, WidthAssumption
        <3>2. 2 * w <= SignBit
            <4>1. MantissaBits - 1 \in Nat /\ MantissaBits - 1 <= Width - 1
                BY MantissaAssumption, WidthAssumption
            <4>2. PowerOfTwo[MantissaBits - 1] <= PowerOfTwo[Width - 1]
                BY <3>1, <4>1, PowersGrow
            <4> QED
                BY <2>4, <4>2 DEF SignBit, HiddenBit
        <3>3. SignBit \in Nat \ {0} /\ PowerOfTwo[Width] = 2 * SignBit
            BY SignBitFacts
        <3> HIDE DEF a, w
        <3> QED
            BY <2>3, <2>4, <2>9, <3>1, <3>2, <3>3 DEF Unsigned
    <2>11. argument = a
        <3>1. denominated = a
            BY <2>1, <2>7, <2>10, FloatsAreFinite DEF ToUnsigned
        <3> QED
            BY <2>1, <2>10, <3>1 DEF Magnitude
    <2>12. a - U \in -1 .. 1
        <3> HIDE DEF a, U
        <3> QED
            BY <2>5, <2>9
    <2> QED
        BY <2>11, <2>12
<1> QED
    BY <1>1, Invariance, PTL
=============================================================================
