-------------------------- MODULE MCExecutionRouter --------------------------
(***************************************************************************)
(* Constants of the ExecutionRouter runs.                                  *)
(***************************************************************************)
EXTENDS ExecutionRouter

OneSymbol == {"acc1-BTCUSDT"}

Order(side, type, qty, price) ==
    [symbol |-> "acc1-BTCUSDT", side |-> side, type |-> type, qty |-> qty,
     price |-> price, reduceOnly |-> FALSE, stop |-> 0, tp |-> 0, exitKind |-> "NONE"]

(* A two-fill market buy, and a reduce-only sell of the smallest size that *)
(* exits at its take-profit level.                                         *)
PaperDetails ==
    [o1 |-> Order("BUY", "MARKET", 5, 0),
     o2 |-> [Order("SELL", "LIMIT", 1, 9) EXCEPT !.reduceOnly = TRUE, !.stop = 3, !.tp = 7]]

(* A market order for the exchange and a limit order it is not sent.       *)
RealDetails ==
    [o1 |-> Order("BUY", "MARKET", 5, 0), o2 |-> Order("SELL", "LIMIT", 1, 9)]

OrderIds == {"o1", "o2"}

PaperSubmissions == {[o |-> "o1", action |-> "CREATE"], [o |-> "o1", action |-> "CANCEL"],
                     [o |-> "o2", action |-> "CREATE"]}
RealSubmissions == PaperSubmissions \cup {[o |-> NoId, action |-> "CREATE"]}
=============================================================================
