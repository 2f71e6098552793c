---------------------------- MODULE MCPriceFeed ----------------------------
(***************************************************************************)
(* An instance of PriceFeed for TLC: one pair with a threshold and one     *)
(* that is notified every time; a quote that is infinite stays remembered  *)
(* until the auto-send.                                                    *)
(***************************************************************************)
EXTENDS PriceFeed

FeedIndex     == {1, 2}
FeedPercent   == <<25, 0>>
FeedPrecision == <<10, 1>>
FeedQuotes    == {Inf}
FeedPlaces    == {1, 2}
=============================================================================
