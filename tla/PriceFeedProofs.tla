-------------------------- MODULE PriceFeedProofs --------------------------
(***************************************************************************)
(* Theorems about PriceFeed, for every set of pairs, thresholds,           *)
(* precisions and quotes.                                                  *)
(***************************************************************************)
EXTENDS PriceFeed, PriceLemmas, TLAPS

(***************************************************************************)
(* Every value stays in its range: what is remembered and what reaches the *)
(* contract are prices, whichever quotes come, whatever is dropped, and    *)
(* however late a batch is delivered.                                      *)
(***************************************************************************)
THEOREM TypeCorrect == Spec => []TypeOK
<1>1. Init => TypeOK
    <2>1. 0 \in Price
        BY DEF Price
    <2> QED
        BY <2>1 DEF Init, TypeOK
<1>2. TypeOK /\ [Next]_vars => TypeOK'
    <2> SUFFICES ASSUME TypeOK, [Next]_vars
                 PROVE  TypeOK'
        OBVIOUS
    <2> USE DEF TypeOK
    <2>1. CASE Observe
        <3>1. Quotes \cup {0} \subseteq Price
            BY FeedAssumption DEF Price
        <3> QED
            BY <2>1, <3>1 DEF Observe
    <2>2. CASE Decide
        <3>1. \A i \in Index : Trim(quotes[i], Precision[i]) \in Price
            BY FeedAssumption, TrimIsPrice
        <3>2. recorded' \in [Index -> Price]
            BY <2>2, <3>1 DEF Decide
        <3>3. pending' \subseteq Index
            BY <2>2 DEF Decide
        <3> QED
            BY <2>2, <3>2, <3>3 DEF Decide
    <2>3. CASE HandOver
        <3>1. PICK place \in Places :
                 inFlight' = {b \in inFlight : b.place # place}
                    \cup {[place |-> place, prices |-> [i \in pending |-> recorded[i]]]}
            BY <2>3 DEF HandOver
        <3>2. [i \in pending |-> recorded[i]] \in [pending -> Price]
            OBVIOUS
        <3>3. ASSUME NEW b \in inFlight'
              PROVE  /\ b.place \in Places
                     /\ DOMAIN b.prices \subseteq Index
                     /\ b.prices \in [DOMAIN b.prices -> Price]
            BY <3>1, <3>2
        <3> QED
            BY <2>3, <3>3 DEF HandOver
    <2>4. CASE Drop
        BY <2>4 DEF Drop
    <2>8. CASE Lose
        BY <2>8 DEF Lose
    <2>9. ASSUME NEW b \in inFlight, Deliver(b)
          PROVE  TypeOK'
        <3>1. submitted' \in [Index -> Price]
            BY <2>9 DEF Deliver
        <3>2. inFlight' \subseteq inFlight
            BY <2>9 DEF Deliver
        <3> QED
            BY <2>9, <3>1, <3>2 DEF Deliver
    <2>5. CASE Timer
        BY <2>5 DEF Timer
    <2>6. CASE Restart
        <3>1. 0 \in Price
            BY DEF Price
        <3> QED
            BY <2>6, <3>1 DEF Restart
    <2>7. CASE UNCHANGED vars
        BY <2>7 DEF vars
    <2> QED
        BY <2>1, <2>2, <2>3, <2>4, <2>5, <2>6, <2>7, <2>8, <2>9 DEF Next
<1>3. Safety => []TypeOK
    BY <1>1, <1>2, PTL DEF Safety
<1> QED
    BY <1>3, PTL DEF Spec
=============================================================================
