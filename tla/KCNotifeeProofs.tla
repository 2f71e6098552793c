--------------------------- MODULE KCNotifeeProofs ---------------------------
(***************************************************************************)
(* Proofs about the contract notifee.  The invariant is about the raw data *)
(* that were given a nonce and may still matter: of the transaction being  *)
(* built, of those kept, waiting, reported, and of those executed, whose   *)
(* nonces are their places.                                                *)
(***************************************************************************)
EXTENDS KCNotifee, TLAPS

Sent ==
    reported \cup {t.raw : t \in kept \cup mempool}
             \cup {[batch |-> executed[i], nonce |-> i - 1] : i \in DOMAIN executed}

Given == Sent \cup (IF tx.raw.nonce = Unknown THEN {} ELSE {tx.raw})

\* Two raw data of one run: the later batch has the higher nonce.
InOrder(r, s) ==
    calls[r.batch] = calls[s.batch] =>
        (r.batch < s.batch => r.nonce < s.nonce) /\ (r.batch = s.batch => r.nonce = s.nonce)

TxInv ==
    /\ pc \in {"idle", "config", "nonce", "hash", "sign", "send"}
    /\ tx \in [raw  : [batch : Nat, nonce : Nat \cup {Unknown}],
               hash : [batch : Nat, nonce : Nat \cup {Unknown}],
               signature : [batch : Nat, nonce : Nat \cup {Unknown}]]
    /\ pc = "idle" <=> tx = NoTx
    /\ pc \in {"idle", "config", "nonce"} => tx.raw.nonce = Unknown
    /\ pc \in {"hash", "sign", "send"} => tx.raw.nonce \in Nat
    /\ pc \in {"sign", "send"} => tx.hash = tx.raw
    /\ pc = "send" => tx.signature = tx.raw
    /\ pc # "idle" => tx.raw.batch = Len(calls) /\ Len(calls) > 0 /\ calls[Len(calls)] = run

DataInv ==
    /\ result \in {"none", "nil", "error"}
    /\ nextNonce \in Nat \cup {Unknown}
    /\ kept \subseteq SignedTx /\ mempool \subseteq SignedTx
    /\ accountNonce = Len(executed)
    /\ executed \in Seq(1 .. Len(calls))
    /\ run \in Nat \ {0}
    /\ calls \in Seq(1 .. run)
    /\ reported \subseteq RawData
    /\ usedUp \subseteq Nat

NonceInv ==
    /\ \A r, s \in Given : InOrder(r, s)
    /\ \A r \in Given : calls[r.batch] = run => r.nonce < nextNonce
    /\ pc # "idle" => \A r \in Sent : r.batch # Len(calls)

IInv == TxInv /\ DataInv /\ NonceInv

LEMMA InitInv == Init => IInv
<1> SUFFICES ASSUME Init PROVE IInv
  OBVIOUS
<1>1. TxInv
  BY DEF Init, TxInv, NoTx, Unsigned, Unknown
<1>2. DataInv
  BY DEF Init, DataInv
<1>3. NonceInv
  BY DEF Init, NonceInv, Given, Sent, NoTx, Unsigned
<1>4. QED
  BY <1>1, <1>2, <1>3 DEF IInv

(***************************************************************************)
(* What was given a nonce has a batch that was called for.                 *)
(***************************************************************************)
LEMMA GivenType == ASSUME TxInv, DataInv PROVE Given \subseteq RawData
<1>1. Sent \subseteq RawData
  BY DEF DataInv, Sent, SignedTx, RawData
<1>2. tx.raw.nonce # Unknown => tx.raw \in RawData
  BY DEF TxInv, RawData, DataInv
<1>3. QED
  BY <1>1, <1>2 DEF Given

(***************************************************************************)
(* A step that gives no nonce and makes no call keeps the order.           *)
(***************************************************************************)
LEMMA NonceInvKept ==
    ASSUME IInv, Given' \subseteq Given,
           calls' = calls, run' = run, nextNonce' = nextNonce,
           pc' # "idle" => pc # "idle" /\ Sent' \subseteq Sent
    PROVE  NonceInv'
BY DEF IInv, NonceInv, InOrder

(***************************************************************************)
(* A new call: it belongs to this run, and nothing was given to it yet.    *)
(***************************************************************************)
LEMMA CallKeepsOrder ==
    ASSUME IInv, Called, Given' \subseteq Sent, Sent' \subseteq Sent,
           run' = run, nextNonce' = nextNonce
    PROVE  NonceInv' /\ calls' \in Seq(1 .. run) /\ Len(calls') = Len(calls) + 1
           /\ calls'[Len(calls')] = run
           /\ \A b \in 1 .. Len(calls) : calls'[b] = calls[b]
<1>1. /\ calls' \in Seq(1 .. run) /\ Len(calls') = Len(calls) + 1
      /\ calls'[Len(calls')] = run
      /\ \A b \in 1 .. Len(calls) : calls'[b] = calls[b]
  BY DEF IInv, DataInv, Called
<1>2. \A r \in Given' : r \in Given /\ r.batch \in 1 .. Len(calls)
  BY GivenType DEF IInv, RawData, Given
<1>3. \A r \in Sent' : r.batch # Len(calls')
  BY <1>1, GivenType DEF IInv, RawData, Given, DataInv
<1>4. NonceInv'
  BY <1>1, <1>2, <1>3 DEF IInv, NonceInv, InOrder
<1>5. QED
  BY <1>1, <1>4

LEMMA CallKeepsData ==
    ASSUME DataInv, calls' \in Seq(1 .. run), Len(calls') = Len(calls) + 1,
           run' = run, result' \in {"none", "nil", "error"},
           UNCHANGED <<handler, chain, reported, usedUp>>
    PROVE  DataInv'
BY DEF DataInv, handler, chain, SignedTx, RawData

LEMMA PrepareStep == ASSUME IInv, PrepareTxData PROVE IInv'
<1>1. Called /\ run' = run /\ UNCHANGED <<handler, chain, reported, usedUp>>
  BY DEF PrepareTxData
<1>2. /\ tx' = [raw |-> [batch |-> Len(calls) + 1, nonce |-> Unknown],
                hash |-> Unsigned, signature |-> Unsigned]
      /\ pc' = "config" /\ result' = "none"
  BY DEF PrepareTxData, NoTx, Unsigned
<1>3. Sent' = Sent
  BY <1>1 DEF Sent, handler, chain
<1>4. Given' \subseteq Sent
  BY <1>2, <1>3 DEF Given
<1>5. NonceInv' /\ calls' \in Seq(1 .. run) /\ Len(calls') = Len(calls) + 1
      /\ calls'[Len(calls')] = run
  BY <1>1, <1>3, <1>4, CallKeepsOrder DEF handler
<1>6. TxInv'
  BY <1>1, <1>2, <1>5 DEF TxInv, NoTx, Unsigned, Unknown, IInv, DataInv
<1>7. DataInv'
  BY <1>1, <1>2, <1>5, CallKeepsData DEF IInv
<1>8. QED
  BY <1>5, <1>6, <1>7 DEF IInv

LEMMA PrepareFailsStep == ASSUME IInv, PrepareTxDataFails PROVE IInv'
<1>1. /\ Called /\ run' = run /\ UNCHANGED <<handler, chain, reported, usedUp, pc, tx>>
      /\ result' = "error"
  BY DEF PrepareTxDataFails
<1>2. pc = "idle" /\ tx = NoTx
  BY <1>1 DEF Called, IInv, TxInv
<1>3. Sent' = Sent /\ Given' \subseteq Sent
  BY <1>1, <1>2 DEF Sent, Given, handler, chain, NoTx, Unsigned
<1>5. NonceInv' /\ calls' \in Seq(1 .. run) /\ Len(calls') = Len(calls) + 1
  BY <1>1, <1>3, CallKeepsOrder DEF handler
<1>6. TxInv'
  BY <1>1, <1>2 DEF TxInv, IInv
<1>7. DataInv'
  BY <1>1, <1>5, CallKeepsData DEF IInv
<1>8. QED
  BY <1>5, <1>6, <1>7 DEF IInv

(***************************************************************************)
(* The steps that prepare and sign, and the failures.                      *)
(***************************************************************************)
LEMMA FailsStep == ASSUME IInv, NEW call, Fails(call) PROVE IInv'
<1>1. /\ pc' = "idle" /\ result' = "error" /\ tx' = NoTx
      /\ usedUp' \in {usedUp, usedUp \cup {tx.raw.nonce}}
      /\ tx.raw.nonce = Unknown => usedUp' = usedUp
      /\ UNCHANGED <<handler, chain, calls, run, reported>>
  BY DEF Fails
<1>2. Sent' = Sent /\ Given' \subseteq Given
  BY <1>1 DEF Sent, Given, handler, chain, NoTx, Unsigned
<1>3. NonceInv'
  BY <1>1, <1>2, NonceInvKept DEF handler
<1>4. TxInv'
  BY <1>1 DEF TxInv, NoTx, Unsigned, Unknown
<1>5. usedUp' \subseteq Nat
  BY <1>1 DEF IInv, TxInv, DataInv
<1>6. DataInv'
  BY <1>1, <1>5 DEF IInv, DataInv, handler, chain, SignedTx, RawData
<1>7. QED
  BY <1>3, <1>4, <1>6 DEF IInv

LEMMA BuildStep ==
    ASSUME IInv, GetNetworkConfig \/ CalculateHash \/ Sign
    PROVE  IInv'
<1>1. UNCHANGED <<result, handler, chain, history>>
  BY DEF GetNetworkConfig, CalculateHash, Sign, At
<1>2. TxInv' /\ tx'.raw = tx.raw /\ pc # "idle"
  BY DEF IInv, TxInv, GetNetworkConfig, CalculateHash, Sign, At, history, NoTx, Unsigned, Unknown
<1>3. Sent' = Sent /\ Given' = Given
  BY <1>1, <1>2 DEF Sent, Given, handler, chain, history
<1>4. NonceInv'
  BY <1>1, <1>2, <1>3, NonceInvKept DEF handler, history
<1>5. DataInv'
  BY <1>1 DEF IInv, DataInv, handler, chain, history, SignedTx, RawData
<1>6. QED
  BY <1>2, <1>4, <1>5 DEF IInv

(***************************************************************************)
(* A new nonce is at least nextNonce, hence higher than any of this run.   *)
(***************************************************************************)
LEMMA ApplyNonceStep == ASSUME IInv, ApplyNonce PROVE IInv'
<1>1. /\ pc = "nonce" /\ pc' = "hash"
      /\ UNCHANGED <<result, kept, chain, history>>
  BY DEF ApplyNonce, At
<1>2. PICK seen \in 0 .. accountNonce :
        LET nonce == IF nextNonce > seen THEN nextNonce ELSE seen
        IN  /\ tx' = [tx EXCEPT !.raw.nonce = nonce]
            /\ nextNonce' = nonce + 1
  BY DEF ApplyNonce
<1> DEFINE nonce == IF nextNonce > seen THEN nextNonce ELSE seen
           new == [batch |-> Len(calls), nonce |-> nonce]
<1>3. accountNonce \in Nat /\ nonce \in Nat /\ nonce >= nextNonce
  BY DEF IInv, DataInv, Unknown
<1> HIDE DEF nonce
<1>4. tx' = [tx EXCEPT !.raw.nonce = nonce] /\ nextNonce' = nonce + 1
  BY <1>2 DEF nonce
<1>5. tx'.raw = new
  BY <1>1, <1>4 DEF IInv, TxInv
<1>6. TxInv'
  BY <1>1, <1>3, <1>4 DEF IInv, TxInv, history, NoTx, Unsigned, Unknown
<1>7. DataInv'
  BY <1>1, <1>3, <1>4 DEF IInv, DataInv, chain, history, SignedTx, RawData
<1>8. Sent' = Sent /\ Given = Sent
  BY <1>1 DEF Sent, Given, chain, history, IInv, TxInv
<1>9. Given' = Sent \cup {new}
  BY <1>3, <1>5, <1>8 DEF Given, Unknown
<1>10. \A r \in Sent : /\ r \in Given /\ r.batch \in 1 .. Len(calls) /\ r.nonce \in Nat
                       /\ r.batch < Len(calls)
                       /\ calls[r.batch] = run => r.nonce < nonce
  BY <1>1, <1>3, <1>8, GivenType DEF IInv, NonceInv, RawData, DataInv, Unknown
<1>11. calls' = calls /\ run' = run /\ calls[Len(calls)] = run /\ Len(calls) \in Nat
  BY <1>1 DEF history, IInv, TxInv, DataInv
<1>12. \A r, s \in Given' : InOrder(r, s)'
  BY <1>3, <1>9, <1>10, <1>11 DEF InOrder, IInv, NonceInv
<1>13. \A r \in Given' : calls'[r.batch] = run' => r.nonce < nextNonce'
  BY <1>3, <1>4, <1>9, <1>10, <1>11
<1>14. NonceInv'
  BY <1>8, <1>10, <1>11, <1>12, <1>13 DEF NonceInv
<1>15. QED
  BY <1>6, <1>7, <1>14 DEF IInv

(***************************************************************************)
(* Sending, sending again, dropping and a new start move or lose raw data  *)
(* that were given before.                                                 *)
(***************************************************************************)
LEMMA SendStep == ASSUME IInv, SendTransaction \/ SendTransactionFails PROVE IInv'
<1>1. /\ pc = "send" /\ pc' = "idle" /\ tx' = NoTx /\ result' \in {"nil", "error"}
      /\ kept' = kept \cup {tx} /\ mempool' \in {mempool, mempool \cup {tx}}
      /\ reported' \in {reported, reported \cup {tx.raw}}
      /\ UNCHANGED <<nextNonce, accountNonce, executed, calls, run, usedUp>>
  BY DEF SendTransaction, SendTransactionFails, history
<1>2. tx \in SignedTx /\ tx.raw \in RawData /\ tx.raw \in Given
  <2>1. tx.raw \in RawData /\ tx.raw.nonce # Unknown
    BY <1>1 DEF IInv, TxInv, DataInv, RawData, Unknown
  <2>2. QED
    BY <1>1, <2>1 DEF IInv, TxInv, SignedTx, Given
<1>3. TxInv'
  BY <1>1 DEF TxInv, NoTx, Unsigned, Unknown
<1>4. DataInv'
  BY <1>1, <1>2 DEF IInv, DataInv, SignedTx, RawData
<1>5. Sent' \subseteq Sent \cup {tx.raw}
  BY <1>1 DEF Sent
<1>6. Given' \subseteq Given
  BY <1>1, <1>2, <1>5 DEF Given, NoTx, Unsigned
<1>7. NonceInv'
  BY <1>1, <1>6, NonceInvKept
<1>8. QED
  BY <1>3, <1>4, <1>7 DEF IInv

LEMMA MoveStep == ASSUME IInv, ResendTransactions \/ MempoolDrops PROVE IInv'
<1>1. /\ kept' \subseteq kept \cup mempool /\ mempool' \subseteq kept \cup mempool
      /\ UNCHANGED <<process, nextNonce, accountNonce, executed, history>>
  BY DEF ResendTransactions, MempoolDrops, Outstanding, handler
<1>2. TxInv'
  BY <1>1 DEF IInv, TxInv, process, history
<1>3. DataInv'
  BY <1>1 DEF IInv, DataInv, process, history, SignedTx, RawData
<1>4. Sent' \subseteq Sent /\ Given' \subseteq Given
  BY <1>1 DEF Sent, Given, process, history
<1>5. NonceInv'
  BY <1>1, <1>4, NonceInvKept DEF process, history
<1>6. QED
  BY <1>2, <1>3, <1>5 DEF IInv

LEMMA ExecuteStep == ASSUME IInv, Execute PROVE IInv'
<1>1. PICK t \in mempool : Executable(t) /\ executed' = Append(executed, t.raw.batch)
  BY DEF Execute
<1>2. /\ accountNonce' = accountNonce + 1 /\ mempool' \subseteq mempool
      /\ UNCHANGED <<process, handler, history>>
  BY DEF Execute
<1>3. /\ t.raw \in RawData /\ t.raw \in Sent
      /\ t.raw = [batch |-> t.raw.batch, nonce |-> Len(executed)]
  BY <1>1 DEF IInv, DataInv, SignedTx, RawData, Executable, Sent
<1>4. TxInv'
  BY <1>2 DEF IInv, TxInv, process, history
<1>5. DataInv'
  BY <1>1, <1>2, <1>3 DEF IInv, DataInv, process, handler, history, SignedTx, RawData
<1>6. Sent' \subseteq Sent
  <2>1. ASSUME NEW i \in DOMAIN executed'
        PROVE  [batch |-> executed'[i], nonce |-> i - 1] \in Sent
    <3>1. CASE i \in DOMAIN executed
      BY <1>1, <3>1 DEF Sent, IInv, DataInv
    <3>2. CASE i = Len(executed) + 1
      BY <1>1, <1>3, <3>2 DEF IInv, DataInv
    <3>3. QED
      BY <1>1, <3>1, <3>2 DEF IInv, DataInv
  <2>2. QED
    BY <1>2, <2>1 DEF Sent, handler, history
<1>7. Given' \subseteq Given
  BY <1>2, <1>6 DEF Given, process
<1>8. NonceInv'
  BY <1>2, <1>6, <1>7, NonceInvKept DEF process, handler, history
<1>9. QED
  BY <1>4, <1>5, <1>8 DEF IInv

LEMMA RestartStep == ASSUME IInv, Restart PROVE IInv'
<1>1. /\ run' = run + 1 /\ usedUp' = {} /\ pc' = "idle" /\ tx' = NoTx /\ result' = "none"
      /\ nextNonce' = Unknown /\ kept' = {}
      /\ UNCHANGED <<chain, calls, reported>>
  BY DEF Restart
<1>2. TxInv'
  BY <1>1 DEF TxInv, NoTx, Unsigned, Unknown
<1>3. DataInv'
  BY <1>1 DEF IInv, DataInv, chain, SignedTx, RawData
<1>4. Given' \subseteq Given
  BY <1>1 DEF Given, Sent, chain, NoTx, Unsigned
<1>5. ASSUME NEW r \in Given' PROVE calls'[r.batch] # run'
  <2>1. r.batch \in 1 .. Len(calls)
    BY <1>4, GivenType DEF IInv, RawData
  <2>2. calls[r.batch] \in 1 .. run /\ run \in Nat
    BY <2>1 DEF IInv, DataInv
  <2>3. calls' = calls /\ run' = run + 1
    BY <1>1
  <2>4. QED
    BY <2>2, <2>3
<1>6. NonceInv'
  BY <1>1, <1>4, <1>5 DEF IInv, NonceInv, InOrder
<1>7. QED
  BY <1>2, <1>3, <1>6 DEF IInv

LEMMA NextInv == ASSUME IInv, [Next]_vars PROVE IInv'
<1>1. CASE PrepareTxData
  BY <1>1, PrepareStep
<1>2. CASE PrepareTxDataFails
  BY <1>2, PrepareFailsStep
<1>3. CASE \/ GetNetworkConfigFails \/ ApplyNonceFails
           \/ CalculateHashFails \/ SignFails
  BY <1>3, FailsStep DEF GetNetworkConfigFails, ApplyNonceFails, CalculateHashFails, SignFails
<1>4. CASE GetNetworkConfig \/ CalculateHash \/ Sign
  BY <1>4, BuildStep
<1>5. CASE ApplyNonce
  BY <1>5, ApplyNonceStep
<1>6. CASE SendTransaction \/ SendTransactionFails
  BY <1>6, SendStep
<1>7. CASE ResendTransactions \/ MempoolDrops
  BY <1>7, MoveStep
<1>8. CASE Execute
  BY <1>8, ExecuteStep
<1>9. CASE Restart
  BY <1>9, RestartStep
<1>10. CASE UNCHANGED vars
  BY <1>10 DEF vars, process, handler, chain, history, IInv, TxInv, DataInv, NonceInv,
               InOrder, Given, Sent, SignedTx, RawData
<1>11. QED
  BY <1>1, <1>2, <1>3, <1>4, <1>5, <1>6, <1>7, <1>8, <1>9, <1>10
     DEF Next, Step, Environment

LEMMA Invariance == Spec => []IInv
<1>1. Init => IInv
  BY InitInv
<1>2. IInv /\ [Next]_vars => IInv'
  BY NextInv
<1>3. QED
  BY <1>1, <1>2, PTL DEF Spec

(***************************************************************************)
(* What is built, sent, kept, waiting, executed and reported keeps its     *)
(* shape: only whole, signed transactions ever leave the process.          *)
(***************************************************************************)
THEOREM TypeCorrect == Spec => []TypeOK
<1>1. IInv => TypeOK
  <2> SUFFICES ASSUME IInv PROVE TypeOK
    OBVIOUS
  <2>1. pc = "send" => tx \in SignedTx
    BY DEF IInv, TxInv, DataInv, SignedTx, RawData
  <2>2. QED
    BY <2>1 DEF IInv, TxInv, DataInv, TypeOK
<1>2. QED
  BY <1>1, Invariance, PTL

(***************************************************************************)
(* Each batch that was executed was given its place as its nonce.          *)
(***************************************************************************)
LEMMA ExecutedGiven ==
    ASSUME NEW i \in DOMAIN executed
    PROVE  [batch |-> executed[i], nonce |-> i - 1] \in Given
BY DEF Given, Sent

(***************************************************************************)
(* The batches of one run are executed in the order of the calls, none of  *)
(* them twice, for every number of calls, runs and failures.               *)
(***************************************************************************)
THEOREM ExecutedInOrder == Spec => []ExecutedInCallOrder
<1>1. IInv => ExecutedInCallOrder
  <2> SUFFICES ASSUME IInv, NEW i \in DOMAIN executed, NEW j \in DOMAIN executed,
                      i < j, calls[executed[i]] = calls[executed[j]]
               PROVE  executed[i] < executed[j]
    BY DEF ExecutedInCallOrder
  <2> DEFINE r == [batch |-> executed[i], nonce |-> i - 1]
             s == [batch |-> executed[j], nonce |-> j - 1]
  <2>1. r \in Given /\ s \in Given
    BY ExecutedGiven
  <2>2. InOrder(s, r)
    BY <2>1 DEF IInv, NonceInv
  <2>3. executed[i] \in Nat /\ executed[j] \in Nat /\ i \in Nat /\ j \in Nat
    BY DEF IInv, DataInv
  <2>4. QED
    BY <2>2, <2>3 DEF InOrder
<1>2. QED
  BY <1>1, Invariance, PTL

(***************************************************************************)
(* Calls of one run never take each other's place on the chain.            *)
(***************************************************************************)
THEOREM PlaceLostOnlyToAnotherRun == Spec => []LostOnlyToAnotherRun
<1>1. IInv => LostOnlyToAnotherRun
  <2> SUFFICES ASSUME IInv, NEW r \in reported, r.nonce < accountNonce,
                      calls[executed[r.nonce + 1]] = calls[r.batch]
               PROVE  executed[r.nonce + 1] = r.batch
    BY DEF LostOnlyToAnotherRun
  <2>1. r \in Given /\ r \in RawData
    BY DEF Given, Sent, IInv, DataInv
  <2>2. r.nonce + 1 \in DOMAIN executed /\ r.nonce \in Nat /\ r.batch \in Nat
    <3>1. r.nonce \in Nat /\ r.batch \in Nat
      BY <2>1 DEF RawData
    <3>2. accountNonce = Len(executed) /\ executed \in Seq(1 .. Len(calls))
      BY DEF IInv, DataInv
    <3>3. r.nonce + 1 \in 1 .. Len(executed)
      BY <3>1, <3>2
    <3>4. QED
      BY <3>1, <3>2, <3>3
  <2> DEFINE s == [batch |-> executed[r.nonce + 1], nonce |-> r.nonce]
  <2>3. s \in Given
    BY <2>2, ExecutedGiven
  <2>4. InOrder(r, s) /\ InOrder(s, r)
    BY <2>1, <2>3 DEF IInv, NonceInv
  <2>5. executed[r.nonce + 1] \in Nat
    BY <2>2 DEF IInv, DataInv
  <2>6. QED
    BY <2>2, <2>4, <2>5 DEF InOrder
<1>2. QED
  BY <1>1, Invariance, PTL

(***************************************************************************)
(* Refinement: every step of the notifee, of its nonce handler and of the  *)
(* chain is a step of BatchDelivery, or leaves its variables unchanged.    *)
(***************************************************************************)
LEMMA CallRefines ==
    ASSUME IInv, PrepareTxData \/ PrepareTxDataFails PROVE Delivery!Call
<1>1. /\ pc = "idle" /\ calls' = Append(calls, run)
      /\ UNCHANGED <<kept, mempool, accountNonce, executed, run>>
  BY DEF PrepareTxData, PrepareTxDataFails, Called, handler, chain
<1>2. Waiting' = Waiting
  BY <1>1 DEF Waiting
<1>3. Current = {} /\ (Current' = {Len(calls) + 1} \/ Current' = {})
  BY <1>1 DEF Current, PrepareTxData, PrepareTxDataFails, NoTx, Unsigned
<1>4. InFlight' \in {InFlight, InFlight \cup {Len(calls) + 1}}
  BY <1>2, <1>3 DEF InFlight
<1>5. QED
  BY <1>1, <1>4 DEF Delivery!Call, InFlight, Waiting, Current

\* A step of the process or the handler that makes no call.
LEMMA LoseRefines ==
    ASSUME IInv,
           kept' \cup mempool' \subseteq kept \cup mempool \cup (IF pc = "idle" THEN {} ELSE {tx}),
           pc' = "idle" \/ (pc # "idle" /\ tx'.raw.batch = tx.raw.batch),
           UNCHANGED <<accountNonce, executed, calls>>
    PROVE  InFlight' \subseteq InFlight
BY DEF InFlight, Waiting, Current

LEMMA DeliverRefines ==
    ASSUME IInv, NEW t \in mempool, Executable(t),
           executed' = Append(executed, t.raw.batch), accountNonce' = accountNonce + 1,
           mempool' \subseteq mempool, UNCHANGED <<process, handler, history>>
    PROVE  /\ t.raw.batch \in InFlight
           /\ InFlight' \subseteq
                 {c \in InFlight : c # t.raw.batch /\ (calls[c] = calls[t.raw.batch] => c > t.raw.batch)}
<1>1. /\ t.raw \in Given /\ t.raw \in Sent /\ t.raw.nonce = accountNonce
      /\ t.raw.batch \in 1 .. Len(calls) /\ accountNonce \in Nat
  BY DEF Given, Sent, Executable, IInv, DataInv, SignedTx, RawData
<1>2. t \in Waiting
  BY <1>1 DEF Waiting
<1>3. ASSUME NEW u \in Waiting'
      PROVE  /\ u.raw.batch \in InFlight /\ u.raw.batch # t.raw.batch
             /\ calls[u.raw.batch] = calls[t.raw.batch] => u.raw.batch > t.raw.batch
  <2>1. /\ u \in kept \cup mempool /\ u.raw.nonce >= accountNonce + 1
        /\ u.raw \in Given /\ u.raw.nonce \in Nat /\ u.raw.batch \in 1 .. Len(calls)
    BY DEF Waiting, handler, Given, Sent, IInv, DataInv, SignedTx, RawData
  <2>2. u \in Waiting
    BY <1>1, <2>1 DEF Waiting
  <2>3. InOrder(u.raw, t.raw)
    BY <1>1, <2>1 DEF IInv, NonceInv
  <2>4. QED
    BY <1>1, <2>1, <2>2, <2>3 DEF InOrder, InFlight
<1>4. ASSUME pc # "idle"
      PROVE  /\ tx.raw.batch # t.raw.batch /\ tx.raw.batch > t.raw.batch
             /\ tx.raw.batch \in InFlight
  BY <1>1, <1>4 DEF IInv, TxInv, NonceInv, InFlight, Current, DataInv
<1>5. Current' = Current
  BY DEF Current, process
<1>6. QED
  BY <1>2, <1>3, <1>4, <1>5 DEF InFlight, Current

LEMMA ExecuteRefines ==
    ASSUME IInv, Execute PROVE \E b \in InFlight : Delivery!Deliver(b)
<1>1. PICK t \in mempool : Executable(t) /\ executed' = Append(executed, t.raw.batch)
  BY DEF Execute
<1>2. /\ accountNonce' = accountNonce + 1 /\ mempool' \subseteq mempool
      /\ UNCHANGED <<process, handler, history>>
  BY DEF Execute
<1>3. /\ t.raw.batch \in InFlight
      /\ InFlight' \subseteq
            {c \in InFlight : c # t.raw.batch /\ (calls[c] = calls[t.raw.batch] => c > t.raw.batch)}
  BY <1>1, <1>2, DeliverRefines
<1>4. Delivery!Deliver(t.raw.batch)
  BY <1>1, <1>2, <1>3 DEF Delivery!Deliver, Delivery!StillDeliverableAfter,
     InFlight, Waiting, Current, history
<1>5. QED
  BY <1>3, <1>4

LEMMA NextRefines == ASSUME IInv, [Next]_vars PROVE [Delivery!Next]_(Delivery!vars)
<1>1. CASE PrepareTxData \/ PrepareTxDataFails
  BY <1>1, CallRefines DEF Delivery!Next
<1>2. CASE Execute
  BY <1>2, ExecuteRefines DEF Delivery!Next, InFlight, Waiting, Current
<1>3. CASE Restart
  <2>1. InFlight' \subseteq InFlight
    BY <1>3, LoseRefines DEF Restart, chain
  <2>2. Delivery!StartAgain
    BY <1>3, <2>1 DEF Delivery!StartAgain, Restart, chain, InFlight, Waiting, Current
  <2>3. QED
    BY <2>2 DEF Delivery!Next
<1>4. CASE \/ GetNetworkConfig \/ GetNetworkConfigFails \/ ApplyNonce \/ ApplyNonceFails
           \/ CalculateHash \/ CalculateHashFails \/ Sign \/ SignFails
           \/ SendTransaction \/ SendTransactionFails \/ ResendTransactions \/ MempoolDrops
  <2>1. UNCHANGED <<accountNonce, executed, calls, run>>
    BY <1>4 DEF GetNetworkConfig, GetNetworkConfigFails, ApplyNonce, ApplyNonceFails,
       CalculateHash, CalculateHashFails, Sign, SignFails, Fails, SendTransaction,
       SendTransactionFails, ResendTransactions, MempoolDrops, chain, history
  <2>2. kept' \cup mempool' \subseteq kept \cup mempool \cup (IF pc = "idle" THEN {} ELSE {tx})
    BY <1>4 DEF GetNetworkConfig, GetNetworkConfigFails, ApplyNonce, ApplyNonceFails,
       CalculateHash, CalculateHashFails, Sign, SignFails, Fails, SendTransaction,
       SendTransactionFails, ResendTransactions, MempoolDrops, Outstanding, handler, chain
  <2>3. pc' = "idle" \/ (pc # "idle" /\ tx'.raw.batch = tx.raw.batch)
    BY <1>4 DEF IInv, TxInv, GetNetworkConfig, GetNetworkConfigFails, ApplyNonce, ApplyNonceFails,
       CalculateHash, CalculateHashFails, Sign, SignFails, Fails, At, SendTransaction,
       SendTransactionFails, ResendTransactions, MempoolDrops, process
  <2>4. InFlight' \subseteq InFlight
    BY <2>1, <2>2, <2>3, LoseRefines
  <2>5. Delivery!Lose
    BY <2>1, <2>4 DEF Delivery!Lose, InFlight, Waiting, Current
  <2>6. QED
    BY <2>5 DEF Delivery!Next
<1>5. CASE UNCHANGED vars
  BY <1>5 DEF vars, process, handler, chain, history, Delivery!vars, InFlight, Waiting, Current
<1>6. QED
  BY <1>1, <1>2, <1>3, <1>4, <1>5 DEF Next, Step, Environment

(***************************************************************************)
(* The notifee implements BatchDelivery, whatever fails, is lost, dropped, *)
(* sent again or killed: at most once, and in the order of the calls of a  *)
(* run.                                                                    *)
(***************************************************************************)
THEOREM RefinesBatchDelivery == Spec => ImplementsBatchDelivery
<1>1. Init => Delivery!Init
  BY DEF Init, Delivery!Init, InFlight, Waiting, Current
<1>2. IInv /\ [Next]_vars => [Delivery!Next]_(Delivery!vars)
  BY NextRefines
<1>3. QED
  BY <1>1, <1>2, Invariance, PTL DEF Spec, ImplementsBatchDelivery, Delivery!Spec
=============================================================================
