----------------------------- MODULE KCNotifee -----------------------------
(***************************************************************************)
(* aggregator/notifees/kcNotifee.go: PriceChanged turns a batch of prices  *)
(* into a transaction, step by step, and hands it to the nonce handler.    *)
(* A batch is known by the number of the call; its encoding is in module   *)
(* Denomination.  The raw data of a transaction are its batch and its      *)
(* nonce; a hash, and a signature of it, is the raw data it was taken of.  *)
(*                                                                         *)
(* External, and modelled as far as the code relies on it: the nonce       *)
(* handler (cmd/oracle/main.go:132), which never gives a nonce twice and   *)
(* sends what it was given again and again until the chain is past its     *)
(* nonce; the proxy, whose node may lag behind (main.go:121); the chain,   *)
(* which executes a signed transaction at the nonce of the account, and    *)
(* may drop one that waits.                                                *)
(***************************************************************************)
EXTENDS Integers, Sequences, FiniteSets

CONSTANTS
    MayFail,    \* the calls PriceChanged makes that may return an error
    MaxCalls,   \* bound: calls of PriceChanged
    MaxRuns     \* bound: starts of the process

ASSUME BoundsAssumption == MaxCalls \in Nat /\ MaxRuns \in Nat \ {0}
ASSUME FailuresAssumption == MayFail \subseteq {"data", "config", "nonce", "hash", "sign", "send"}

VARIABLES
    pc,             \* the call PriceChanged makes next
    tx,             \* the transaction it builds: raw data, hash, signature
    result,         \* what the last call returned
    nextNonce,      \* nonce handler: the nonce after the last one given, or Unknown
    kept,           \* nonce handler: the transactions it sends again
    mempool,        \* chain: the transactions that wait
    accountNonce,   \* chain: how many transactions were executed
    executed,       \* chain: the batches executed, in order
    calls,          \* history: the run of the process that made each call
    run,            \* history: how often the process was started
    reported,       \* history: the raw data of the calls that returned nil
    usedUp          \* history: the nonces of this run that were never sent

process == <<pc, tx, result>>
handler == <<nextNonce, kept>>
chain   == <<mempool, accountNonce, executed>>
history == <<calls, run, reported, usedUp>>
vars == <<process, handler, chain, history>>

Unknown  == -1
Unsigned == [batch |-> 0, nonce |-> Unknown]
NoTx     == [raw |-> Unsigned, hash |-> Unsigned, signature |-> Unsigned]

Init ==
    /\ pc = "idle" /\ tx = NoTx /\ result = "none"
    /\ nextNonce = Unknown /\ kept = {}
    /\ mempool = {} /\ accountNonce = 0 /\ executed = << >>
    /\ calls = << >> /\ run = 1 /\ reported = {} /\ usedUp = {}

(***************************************************************************)
(* PriceChanged.  A call that fails ends it.                               *)
(***************************************************************************)
Called == /\ pc = "idle" /\ Len(calls) < MaxCalls
          /\ calls' = Append(calls, run)

\* prepareTxData: the builder refuses an empty name.
PrepareTxData ==
    /\ Called
    /\ pc' = "config" /\ result' = "none"
    /\ tx' = [NoTx EXCEPT !.raw.batch = Len(calls) + 1]
    /\ UNCHANGED <<handler, chain, run, reported, usedUp>>

PrepareTxDataFails ==
    /\ "data" \in MayFail /\ Called
    /\ result' = "error"
    /\ UNCHANGED <<pc, tx, handler, chain, run, reported, usedUp>>

At(call, next) == pc = call /\ pc' = next /\ UNCHANGED result

Fails(call) ==
    /\ call \in MayFail /\ pc = call
    /\ pc' = "idle" /\ result' = "error" /\ tx' = NoTx
    /\ usedUp' = IF tx.raw.nonce = Unknown THEN usedUp ELSE usedUp \cup {tx.raw.nonce}
    /\ UNCHANGED <<handler, chain, calls, run, reported>>

\* GetNetworkConfig, and the sender's address.
GetNetworkConfig ==
    /\ At("config", "nonce")
    /\ UNCHANGED <<tx, handler, chain, history>>

\* Faulty variant: the network configuration is fetched after the nonce.
GetNetworkConfigFailsLate ==
    /\ "config" \in MayFail /\ pc = "hash"
    /\ pc' = "idle" /\ result' = "error" /\ tx' = NoTx
    /\ UNCHANGED <<handler, chain, history>>

GetNetworkConfigFails == Fails("config")

(***************************************************************************)
(* ApplyNonceAndGasPrice.  The handler asks for the nonce of the account,  *)
(* and gets one that may be outdated.                                      *)
(***************************************************************************)
\* Faulty variant: a new nonce handler for every call.
ApplyAccountNonce ==
    /\ At("nonce", "hash")
    /\ \E seen \in 0 .. accountNonce :
          /\ tx' = [tx EXCEPT !.raw.nonce = seen]
          /\ nextNonce' = seen + 1
    /\ UNCHANGED <<kept, chain, history>>

ApplyNonce ==
    /\ At("nonce", "hash")
    /\ \E seen \in 0 .. accountNonce :
          LET nonce == IF nextNonce > seen THEN nextNonce ELSE seen
          IN  /\ tx' = [tx EXCEPT !.raw.nonce = nonce]
              /\ nextNonce' = nonce + 1
    /\ UNCHANGED <<kept, chain, history>>

ApplyNonceFails == Fails("nonce")

\* Faulty variant: the hash is taken of the transaction without its nonce.
CalculateHashBeforeNonce ==
    /\ At("hash", "sign")
    /\ tx' = [tx EXCEPT !.hash = [tx.raw EXCEPT !.nonce = 0]]
    /\ UNCHANGED <<handler, chain, history>>

CalculateHash ==
    /\ At("hash", "sign")
    /\ tx' = [tx EXCEPT !.hash = tx.raw]
    /\ UNCHANGED <<handler, chain, history>>

CalculateHashFails == Fails("hash")

Sign ==
    /\ At("sign", "send")
    /\ tx' = [tx EXCEPT !.signature = tx.hash]
    /\ UNCHANGED <<handler, chain, history>>

SignFails == Fails("sign")

(***************************************************************************)
(* SendTransaction.  The handler keeps the transaction, then broadcasts    *)
(* it: the broadcast succeeds, or fails, or only its answer is lost.       *)
(***************************************************************************)
SendTransaction ==
    /\ pc = "send"
    /\ kept' = kept \cup {tx} /\ mempool' = mempool \cup {tx}
    /\ pc' = "idle" /\ result' = "nil" /\ tx' = NoTx
    /\ reported' = reported \cup {tx.raw}
    /\ UNCHANGED <<nextNonce, accountNonce, executed, calls, run, usedUp>>

\* Faulty variant: the batch is sent once more, under a nonce of its own.
SendTransactionFailsRetried ==
    /\ "send" \in MayFail /\ pc = "send"
    /\ kept' = kept \cup {tx}
    /\ mempool' \in {mempool, mempool \cup {tx}}
    /\ pc' = "nonce"
    /\ UNCHANGED <<tx, result, nextNonce, accountNonce, executed, history>>

SendTransactionFails ==
    /\ "send" \in MayFail /\ pc = "send"
    /\ kept' = kept \cup {tx}
    /\ mempool' \in {mempool, mempool \cup {tx}}
    /\ pc' = "idle" /\ result' = "error" /\ tx' = NoTx
    /\ UNCHANGED <<nextNonce, accountNonce, executed, history>>

(***************************************************************************)
(* The nonce handler, every IntervalToResend.                              *)
(***************************************************************************)
Outstanding == {t \in kept : t.raw.nonce >= accountNonce}

ResendTransactions ==
    /\ kept' = Outstanding
    /\ mempool' = mempool \cup Outstanding
    /\ UNCHANGED <<process, nextNonce, accountNonce, executed, history>>

(***************************************************************************)
(* The chain.  A transaction whose nonce is past can never be executed.    *)
(***************************************************************************)
Executable(t) == t.raw.nonce = accountNonce /\ t.signature = t.raw

Execute ==
    /\ \E t \in mempool :
          /\ Executable(t)
          /\ executed' = Append(executed, t.raw.batch)
    /\ accountNonce' = accountNonce + 1
    /\ mempool' = {t \in mempool : t.raw.nonce > accountNonce}
    /\ UNCHANGED <<process, handler, history>>

MempoolDrops ==
    /\ \E t \in mempool : mempool' = mempool \ {t}
    /\ UNCHANGED <<process, handler, accountNonce, executed, history>>

(***************************************************************************)
(* A kill, and a new start: the process and the handler lose everything.   *)
(***************************************************************************)
Restart ==
    /\ run < MaxRuns
    /\ run' = run + 1 /\ usedUp' = {}
    /\ pc' = "idle" /\ tx' = NoTx /\ result' = "none"
    /\ nextNonce' = Unknown /\ kept' = {}
    /\ UNCHANGED <<chain, calls, reported>>

Step ==
    \/ PrepareTxData \/ PrepareTxDataFails
    \/ GetNetworkConfig \/ GetNetworkConfigFails
    \/ ApplyNonce \/ ApplyNonceFails
    \/ CalculateHash \/ CalculateHashFails
    \/ Sign \/ SignFails
    \/ SendTransaction \/ SendTransactionFails

Environment == ResendTransactions \/ Execute \/ MempoolDrops

Next == Step \/ Environment \/ Restart

Spec == Init /\ [][Next]_vars

(***************************************************************************)
(* The process takes its steps, the handler sends again every interval,    *)
(* and what waits on the chain again and again is executed at some time.   *)
(***************************************************************************)
FairSpec == Spec /\ WF_vars(Step) /\ WF_vars(ResendTransactions) /\ SF_vars(Execute)
-----------------------------------------------------------------------------
RawData == [batch : 1 .. Len(calls), nonce : Nat]
SignedTx == {t \in [raw : RawData, hash : RawData, signature : RawData] :
                t.hash = t.raw /\ t.signature = t.raw}

TypeOK ==
    /\ pc \in {"idle", "config", "nonce", "hash", "sign", "send"}
    /\ pc = "idle" <=> tx = NoTx
    /\ pc # "idle" => tx.raw.batch = Len(calls)
    /\ pc = "send" => tx \in SignedTx
    /\ result \in {"none", "nil", "error"}
    /\ nextNonce \in Nat \cup {Unknown}
    /\ kept \subseteq SignedTx /\ mempool \subseteq SignedTx
    /\ accountNonce = Len(executed)
    /\ executed \in Seq(1 .. Len(calls))
    /\ run \in Nat \ {0}
    /\ calls \in Seq(1 .. run)
    /\ reported \subseteq RawData
    /\ usedUp \subseteq Nat

(***************************************************************************)
(* However often transactions are sent again, lost or delayed, and         *)
(* whatever PriceChanged returned: the batches of one run of the process   *)
(* are executed in the order of the calls, none of them twice.             *)
(***************************************************************************)
ExecutedInCallOrder ==
    \A i, j \in DOMAIN executed :
        i < j /\ calls[executed[i]] = calls[executed[j]] => executed[i] < executed[j]

(***************************************************************************)
(* A batch for which PriceChanged returned nil misses its nonce only to a  *)
(* batch of another run of the process: the calls of one run never take    *)
(* each other's place.                                                     *)
(***************************************************************************)
LostOnlyToAnotherRun ==
    \A r \in reported :
        r.nonce < accountNonce =>
            \/ executed[r.nonce + 1] = r.batch
            \/ calls[executed[r.nonce + 1]] # calls[r.batch]

(***************************************************************************)
(* What PriceChanged reported as sent does not wait for ever: the chain    *)
(* gets past its nonce, unless the process is started again, or an earlier *)
(* nonce was used up because the hash or the signature of its transaction  *)
(* failed.  No other failure holds up the calls after it.                  *)
(***************************************************************************)
QueueMoves ==
    \A n \in 0 .. MaxCalls, k \in 1 .. MaxRuns :
        run = k /\ (\E r \in reported : r.nonce = n /\ calls[r.batch] = k)
            ~> \/ accountNonce > n
               \/ run # k
               \/ \E skipped \in usedUp : skipped < n

(***************************************************************************)
(* The notifee implements the delivery of batches: in flight are the batch *)
(* PriceChanged is at work on, and every transaction that is kept or waits *)
(* and whose nonce is not past.                                            *)
(***************************************************************************)
Waiting == {t \in kept \cup mempool : t.raw.nonce >= accountNonce}
Current == IF pc = "idle" THEN {} ELSE {tx.raw.batch}
InFlight == {t.raw.batch : t \in Waiting} \cup Current

Delivery == INSTANCE BatchDelivery WITH inFlight <- InFlight, delivered <- executed

ImplementsBatchDelivery == Delivery!Spec
=============================================================================
