----------------------------- MODULE MCRiskGuard -----------------------------
(* Constants of the RiskGuard runs. *)
EXTENDS RiskGuard

OrderIds == {"o1", "o2"}
OneAccount == {"acc1"}
OneSymbol == {"BTCUSDT"}

(* A limit order within the static limit of its symbol but over the one    *)
(* the table may set, and a market order, whose notional is 0 for want of  *)
(* a price.                                                                *)
TwoOrders ==
    [o1 |-> [account |-> "acc1", symbol |-> "BTCUSDT", notional |-> 3],
     o2 |-> [account |-> "acc1", symbol |-> "BTCUSDT", notional |-> 0]]

BtcLimit == [BTCUSDT |-> 4]
LimitValues == {NoLimit, 2}
=============================================================================
