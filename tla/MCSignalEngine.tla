--------------------------- MODULE MCSignalEngine ----------------------------
(* Constants of the SignalEngine run. *)
EXTENDS SignalEngine

TwoSymbols == {"btc", "eth"}
Allowed == {"TREND_UP", "RANGE"}
Calm == -150

(* A tick of btc with macd_hist m and ema_spread from the fast average e,  *)
(* and the other fields as the producer leaves them before they are ready. *)
T(price, m, e) ==
    [symbol |-> "btc", decodes |-> TRUE, regime |-> 1, vwap |-> price, atr |-> 1,
     macd_hist |-> m, ema_fast |-> e, ema_slow |-> 2,
     rsi |-> NaN, oi_change_pct |-> NaN, adx |-> NaN, vol_zscore |-> NaN]
Of(s, t) == [t EXCEPT !.symbol = s]

SomeFeeds ==
    LET steady == <<T(2, 1, 3), T(4, 3, 2), T(2, -1, 1), T(4, 2, 4), T(1, -2, 3), T(2, 1, 0)>>
        gap == [steady EXCEPT ![2].macd_hist = NaN, ![1].vol_zscore = 1, ![1].atr = NaN,
                              ![3].atr = 6, ![4].regime = 7, ![5].atr = 9, ![6].rsi = 60]
        broken == [SubSeq(steady, 1, 5) EXCEPT ![1].ema_slow = 0, ![2] = Of("eth", @),
                       ![3].decodes = FALSE, ![4].atr = 12, ![5].vwap = 4]
    IN  {gap, broken}
=============================================================================
