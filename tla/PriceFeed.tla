----------------------------- MODULE PriceFeed -----------------------------
(***************************************************************************)
(* What the price notifier promises, without rounds, loops and clocks.     *)
(* The feed remembers a price for each pair.  One decision, made on a      *)
(* whole set of quotes, renews the memory of the pairs whose quote moved   *)
(* enough, or of all pairs when the auto-send is due, and leaves them      *)
(* pending; the pending prices are then dropped together, or put in flight *)
(* together.  What is in flight reaches the contract at any later time, in *)
(* any order, once or never.  A restart forgets the memory, neither the    *)
(* contract nor what is in flight to it.                                   *)
(***************************************************************************)
EXTENDS Prices

CONSTANTS
    Index,        \* the pairs
    Percent,      \* the threshold of each pair
    Precision,    \* the trim precision of each pair
    Quotes,       \* the quotes a round may come with
    Places        \* bound: one batch in flight for each

ASSUME FeedAssumption ==
    /\ Percent \in [Index -> Nat]
    /\ Precision \in [Index -> Nat \ {0}]
    /\ Quotes \subseteq Price

VARIABLES
    quotes,       \* the quotes on the table
    recorded,     \* the price remembered for each pair
    pending,      \* the pairs whose recorded price is to be sent
    due,          \* the auto-send interval has passed
    inFlight,     \* the batches of prices the contract may still receive
    submitted     \* the price the contract holds for each pair

vars == <<quotes, recorded, pending, due, inFlight, submitted>>

Init ==
    /\ quotes = [i \in Index |-> 0]
    /\ recorded = [i \in Index |-> 0]
    /\ pending = {}
    /\ due = FALSE
    /\ inFlight = {}
    /\ submitted = [i \in Index |-> 0]

Observe ==
    /\ quotes' \in [Index -> Quotes \cup {0}]
    /\ UNCHANGED <<recorded, pending, due, inFlight, submitted>>

\* Faulty variant: the auto-send is forgotten.
DecideByChangeOnly ==
    /\ pending = {}
    /\ pending' = {i \in Index : ShouldNotify(recorded[i], quotes[i], Percent[i])}
    /\ recorded' = [i \in Index |-> IF i \in pending'
                                    THEN Trim(quotes[i], Precision[i])
                                    ELSE recorded[i]]
    /\ due' = FALSE
    /\ UNCHANGED <<quotes, inFlight, submitted>>

Decide ==
    /\ pending = {}
    /\ pending' = {i \in Index : due \/ ShouldNotify(recorded[i], quotes[i], Percent[i])}
    /\ recorded' = [i \in Index |-> IF i \in pending'
                                    THEN Trim(quotes[i], Precision[i])
                                    ELSE recorded[i]]
    /\ due' = FALSE
    /\ UNCHANGED <<quotes, inFlight, submitted>>

\* A batch that takes the place of another stands for the loss of the other.
HandOver ==
    /\ pending # {}
    /\ \E place \in Places :
          inFlight' = {b \in inFlight : b.place # place}
                        \cup {[place |-> place, prices |-> [i \in pending |-> recorded[i]]]}
    /\ pending' = {}
    /\ UNCHANGED <<quotes, recorded, due, submitted>>

Drop ==
    /\ pending # {}
    /\ pending' = {}
    /\ UNCHANGED <<quotes, recorded, due, inFlight, submitted>>

Deliver(b) ==
    /\ submitted' = [i \in Index |-> IF i \in DOMAIN b.prices THEN b.prices[i]
                                                              ELSE submitted[i]]
    /\ inFlight' \in SUBSET (inFlight \ {b})
    /\ UNCHANGED <<quotes, recorded, pending, due>>

Lose ==
    /\ inFlight' \in SUBSET inFlight
    /\ UNCHANGED <<quotes, recorded, pending, due, submitted>>

Timer ==
    /\ due' = TRUE
    /\ UNCHANGED <<quotes, recorded, pending, inFlight, submitted>>

\* Faulty variant: the memory is not allocated again.
RestartUnallocated ==
    /\ recorded' = << >>
    /\ pending' = {} /\ due' = FALSE
    /\ quotes' = [i \in Index |-> 0]
    /\ UNCHANGED <<inFlight, submitted>>

Restart ==
    /\ recorded' = [i \in Index |-> 0]
    /\ pending' = {}
    /\ due' = FALSE
    /\ quotes' = [i \in Index |-> 0]
    /\ UNCHANGED <<inFlight, submitted>>

Next ==
    \/ Observe \/ Decide \/ HandOver \/ Drop \/ Timer \/ Restart
    \/ Lose \/ \E b \in inFlight : Deliver(b)

Safety == Init /\ [][Next]_vars

(***************************************************************************)
(* Rounds go on, the interval passes, a pair that is to be sent again and  *)
(* again is handed over at some time, and a batch that carries the price   *)
(* remembered for a pair again and again reaches the contract at some      *)
(* time.                                                                   *)
(***************************************************************************)
DeliverRecorded(i) ==
    \E b \in inFlight :
        /\ i \in DOMAIN b.prices /\ b.prices[i] = recorded[i]
        /\ Deliver(b)

Spec ==
    /\ Safety
    /\ WF_vars(Decide)
    /\ WF_vars(Timer)
    /\ \A i \in Index : SF_vars(i \in pending /\ HandOver)
    /\ \A i \in Index : SF_vars(DeliverRecorded(i))

TypeOK ==
    /\ quotes \in [Index -> Price]
    /\ recorded \in [Index -> Price]
    /\ pending \subseteq Index
    /\ due \in BOOLEAN
    /\ \A b \in inFlight :
          /\ b.place \in Places
          /\ DOMAIN b.prices \subseteq Index
          /\ b.prices \in [DOMAIN b.prices -> Price]
    /\ submitted \in [Index -> Price]

(***************************************************************************)
(* Whatever was dropped or lost, whatever older batch comes late, however  *)
(* often the process was started again, and although a dropped price       *)
(* counts as notified, the contract holds the remembered price of every    *)
(* pair again and again.                                                   *)
(***************************************************************************)
ContractCatchesUp ==
    \A i \in Index : []<>(submitted[i] = recorded[i])
=============================================================================
