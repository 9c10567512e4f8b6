--------------------------- MODULE MCOrderGateway ---------------------------
(***************************************************************************)
(* Constants of the OrderGateway run: a market order that fills in two     *)
(* steps and an exit of the smallest size.                                 *)
(***************************************************************************)
EXTENDS OrderGateway

OneSymbol == {"acc1-BTCUSDT"}

Market(side, qty) ==
    [symbol |-> "acc1-BTCUSDT", side |-> side, type |-> "MARKET", qty |-> qty,
     price |-> 0, reduceOnly |-> FALSE, stop |-> 3, tp |-> 7, exitKind |-> "NONE"]

GatewayDetails ==
    [o1 |-> Market("BUY", 5),
     o2 |-> [Market("SELL", 1) EXCEPT !.reduceOnly = TRUE, !.exitKind = "STOP_LOSS"]]

OrderIds == {"o1", "o2"}
NoSubmissions == {}
=============================================================================
