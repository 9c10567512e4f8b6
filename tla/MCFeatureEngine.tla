--------------------------- MODULE MCFeatureEngine ---------------------------
(* Constants of the FeatureEngine runs. *)
EXTENDS FeatureEngine

TwoSymbols == {"btc", "eth"}

Closed(s, b) == [symbol |-> s, closed |-> TRUE, bar |-> b]
Open(s) == [symbol |-> s, closed |-> FALSE, bar |-> 0]

(* Candles of a symbol in the order of their open times, as CandlePipeline *)
(* publishes them; the last one may come again.                            *)
ThreeFeeds ==
    {<<Closed("btc", 1), Closed("btc", 2), Closed("btc", 3), Closed("btc", 4)>>,
     <<Closed("btc", 1), Closed("btc", 1), Closed("btc", 2)>>,
     <<Closed("eth", 1), Open("btc"), Closed("btc", 1)>>}
=============================================================================
