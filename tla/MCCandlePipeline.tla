--------------------------- MODULE MCCandlePipeline ---------------------------
(* Constants of the CandlePipeline run. *)
EXTENDS CandlePipeline

TwoWorkers == {"w1", "w2"}
ThreeCandles == {"btc-1", "btc-2", "eth-1"}
OwnerOf == ("btc-1" :> "w1") @@ ("btc-2" :> "w1") @@ ("eth-1" :> "w2")
=============================================================================
