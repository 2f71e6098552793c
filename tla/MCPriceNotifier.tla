-------------------------- MODULE MCPriceNotifier --------------------------
(***************************************************************************)
(* Instances of PriceNotifier for TLC.                                     *)
(***************************************************************************)
EXTENDS PriceNotifier

\* A gas price quoted in a token that is listed twice, and whose price can be
\* trimmed to zero.
GasPairs ==
    << [base |-> "ETH",  quote |-> "USD", percent |-> 25, precision |-> 1],
       [base |-> "KLV",  quote |-> "USD", percent |-> 25, precision |-> 1],
       [base |-> "KLV",  quote |-> "USD", percent |-> 25, precision |-> 10],
       [base |-> "GWEI", quote |-> "KLV", percent |-> 25, precision |-> 1] >>
GasFetchResults == {3, 40}
GasGasResults   == {0, 5}

\* Two pairs, of which the second is notified every time.
PlainPairs ==
    << [base |-> "ETH", quote |-> "USD", percent |-> 25, precision |-> 10],
       [base |-> "KLV", quote |-> "USD", percent |-> 0,  precision |-> 1] >>
PlainFetchResults == {50}

\* One pair, whose price does not change.
UnsentPairs ==
    << [base |-> "KLV", quote |-> "USD", percent |-> 25, precision |-> 10] >>
=============================================================================
