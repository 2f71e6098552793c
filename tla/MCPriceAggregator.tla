------------------------- MODULE MCPriceAggregator -------------------------
(***************************************************************************)
(* Instances of PriceAggregator for TLC.                                   *)
(***************************************************************************)
EXTENDS PriceAggregator

\* Two close prices, an outlier, and not-a-number.
MixedAnswers == {40, 44, Inf, NaN}
FewAnswers   == {40, NaN}
=============================================================================
