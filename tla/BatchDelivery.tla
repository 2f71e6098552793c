--------------------------- MODULE BatchDelivery ---------------------------
(***************************************************************************)
(* What the contract notifee and its nonce handler promise to the caller.  *)
(* Calls are numbered, and each belongs to the run of the process that     *)
(* made it.  A batch that was called for may be in flight, whatever the    *)
(* call returned; what is in flight is delivered at most once, and after a *)
(* batch of a run no earlier batch of the same run is delivered any more.  *)
(* Nothing is promised about the order between two runs.                   *)
(***************************************************************************)
EXTENDS Integers, Sequences

VARIABLES
    calls,      \* the run that made each call
    run,        \* the current run
    inFlight,   \* the batches that may still be delivered
    delivered   \* the batches delivered, in order

vars == <<calls, run, inFlight, delivered>>

Init ==
    /\ calls = << >> /\ run = 1
    /\ inFlight = {} /\ delivered = << >>

Call ==
    /\ calls' = Append(calls, run)
    /\ inFlight' \in {inFlight, inFlight \cup {Len(calls) + 1}}
    /\ UNCHANGED <<run, delivered>>

StillDeliverableAfter(b) ==
    {c \in inFlight : c # b /\ (calls[c] = calls[b] => c > b)}

Deliver(b) ==
    /\ delivered' = Append(delivered, b)
    /\ inFlight' \subseteq StillDeliverableAfter(b)
    /\ UNCHANGED <<calls, run>>

Lose ==
    /\ inFlight' \subseteq inFlight
    /\ UNCHANGED <<calls, run, delivered>>

StartAgain ==
    /\ run' = run + 1
    /\ inFlight' \subseteq inFlight
    /\ UNCHANGED <<calls, delivered>>

Next == Call \/ Lose \/ StartAgain \/ \E b \in inFlight : Deliver(b)

Spec == Init /\ [][Next]_vars
=============================================================================
