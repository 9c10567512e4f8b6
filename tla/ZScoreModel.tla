----------------------------- MODULE ZScoreModel -----------------------------
(***************************************************************************)
(* signal_engine/src/zscore_model.rs: from the histories of some factors   *)
(* and of the returns, one signal. Nothing here has state.                 *)
(*                                                                         *)
(* A real number is an integer. Correlations, z-scores, the signal and the *)
(* thresholds they are compared with are in hundredths, weights in tenths; *)
(* a factor or a return may have any unit, since only ratios of it are     *)
(* used. A root is rounded down, a quotient towards zero. NaN stands for   *)
(* every value that is not finite. main.rs never disables a factor, gives  *)
(* no direction_hint and no fixed mean or deviation of the return.         *)
(***************************************************************************)
EXTENDS Integers, Sequences, SequencesExt, FiniteSets

CONSTANTS
    MinHistory, RollingWindow,
    MinAbsCorrelation, RankDecay, Winsorize,  \* in hundredths
    AllowedRegimes,
    VolMinZ, VolMaxZ,                         \* in hundredths
    NaN

ASSUME ModelAssumption ==
    /\ {MinHistory, RollingWindow, MinAbsCorrelation, RankDecay, Winsorize} \subseteq Nat
    /\ {VolMinZ, VolMaxZ} \subseteq Int
    /\ NaN \notin Int

------------------------------------------------------------------------------
(* Arithmetic.                                                             *)

Abs(x) == IF x < 0 THEN -x ELSE x
Sign(x) == IF x > 0 THEN 1 ELSE IF x < 0 THEN -1 ELSE 0
Larger(x, y) == IF x < y THEN y ELSE x
Smaller(x, y) == IF x < y THEN x ELSE y

Quotient(a, b) == Sign(a) * (Abs(a) \div b)

(* The root of q, but at most cap. *)
Root(q, cap) ==
    IF q >= cap * cap THEN cap
    ELSE CHOOSE k \in 0 .. cap : k * k <= q /\ q < (k + 1) * (k + 1)

Total(s) == FoldLeft(LAMBDA acc, x : acc + x, 0, s)
Products(s, t) == [i \in 1 .. Len(s) |-> s[i] * t[i]]

(* tail: the last n entries. *)
Recent(s, n) == SubSeq(s, Larger(1, Len(s) - n + 1), Len(s))

(* The entries of s that are in K. *)
Kept(s, K) == FoldLeft(LAMBDA acc, x : IF x \in K THEN Append(acc, x) ELSE acc, <<>>, s)

Sanitize(s) == Kept(s, Int)

(* sanitize_aligned_pair: both from the end, and only where both are finite. *)
FinitePairs(s, t, n) ==
    Kept([i \in 1 .. n |-> <<s[Len(s) - n + i], t[Len(t) - n + i]>>], Int \X Int)

Unzip(pairs) == <<[i \in DOMAIN pairs |-> pairs[i][1]], [i \in DOMAIN pairs |-> pairs[i][2]]>>

SanitizePair(s, t) == Unzip(FinitePairs(s, t, Smaller(Len(s), Len(t))))

(* n * n times the covariance of s and t. *)
Covariance(s, t) == Len(s) * Total(Products(s, t)) - Total(s) * Total(t)
Variance(s) == Covariance(s, s)

Mean(s) == IF s = <<>> THEN 0 ELSE Quotient(100 * Total(s), Len(s))

MaxStd == 2000  \* bound: the largest deviation, in hundredths
Std(s) == IF s = <<>> THEN 0 ELSE Root(10000 * Variance(s), MaxStd) \div Len(s)

(* calculate_zscore against the mean and deviation of s, clamped: 0 when   *)
(* the values do not vary.                                                 *)
RatioOfRoots(a, v, bound) == IF v = 0 THEN 0 ELSE Sign(a) * Root((10000 * a * a) \div v, bound)

ZScore(x, s, bound) == RatioOfRoots(Len(s) * x - Total(s), Variance(s), bound)

Uncorrelated(s, t) == \/ Len(s) < 2
                      \/ Variance(s) = 0
                      \/ Variance(t) = 0

(* pearson_correlation and, of it, detect_factor_correlation_sign. *)
Correlation(s, t) ==
    IF Uncorrelated(s, t) THEN 0
    ELSE RatioOfRoots(Covariance(s, t), Variance(s) * Variance(t), 100)

(* Fault model: the direction of a factor is taken for granted. *)
DetectSignAlwaysUp(s, t) == IF Uncorrelated(s, t) THEN 0 ELSE 1

DetectSign(s, t) == IF Uncorrelated(s, t) THEN 0 ELSE Sign(Covariance(s, t))

------------------------------------------------------------------------------
(* The gates: the reason they suppress the signal, or "".                  *)

RegimeGate(enabled, regime) ==
    IF ~enabled THEN ""
    ELSE IF AllowedRegimes = {} THEN "regime_filter_empty_allowed_set"
    ELSE IF regime \notin AllowedRegimes THEN "regime_not_allowed"
    ELSE ""

GateOn(history, vol) ==
    IF Len(history) < 2 THEN "vol_filter_insufficient_history"
    ELSE IF ZScore(vol, history, 10000) \in VolMinZ .. VolMaxZ THEN ""
    ELSE "vol_z_out_of_range"

(* Fault model: the tick is compared with those before it only. *)
VolGateOfOthers(enabled, volatilities, current) ==
    IF ~enabled THEN ""
    ELSE GateOn(SubSeq(volatilities, 1, Len(volatilities) - 1), current)

(* Without a volatility of this tick the last one that was kept stands in. *)
VolGate(enabled, volatilities, current) ==
    IF ~enabled THEN ""
    ELSE GateOn(Sanitize(volatilities),
                IF current # NaN \/ volatilities = <<>> THEN current
                ELSE volatilities[Len(volatilities)])

------------------------------------------------------------------------------
(* prepare_factor: correlation of the factor with the returns and z-score  *)
(* of its current value, or the reason it is rejected.                     *)
Rejected(row, why) == [row EXCEPT !.reject = why]

Window == Larger(RollingWindow, 2)

Overlap(series, returns) == Smaller(Smaller(Len(series), Len(returns)), Window)

Correlated(f, row, series) ==
    IF Abs(row.correlation) < MinAbsCorrelation THEN Rejected(row, "low_predictive_correlation")
    ELSE IF f.current = NaN THEN Rejected(row, "missing_current_factor_value")
    ELSE [row EXCEPT !.zscore = ZScore(f.current, Recent(series, Window), Winsorize)]

Aligned(f, row, series, pair) ==
    IF Len(pair[1]) < 2 THEN Rejected(row, "insufficient_finite_overlap")
    ELSE Correlated(f, [row EXCEPT !.correlation = Correlation(pair[1], pair[2]),
                                   !.sign = DetectSign(pair[1], pair[2])], series)

Prepared(f, row, series, returns) ==
    IF Len(series) < MinHistory THEN Rejected(row, "insufficient_factor_history")
    ELSE IF Len(returns) < MinHistory THEN Rejected(row, "insufficient_return_history")
    ELSE IF Overlap(series, returns) < 2 THEN Rejected(row, "insufficient_overlap")
    ELSE Aligned(f, row, series, SanitizePair(Recent(series, Overlap(series, returns)),
                                              Recent(returns, Overlap(series, returns))))

PrepareFactor(index, f) ==
    Prepared(f, [index |-> index, name |-> f.name, weight |-> f.weight, reject |-> "",
                 correlation |-> 0, sign |-> 0, zscore |-> 0],
             Sanitize(f.series), Sanitize(f.returns))

(* rank_decay to the power i, in hundredths. *)
Decay(i) == FoldLeft(LAMBDA acc, j : (acc * RankDecay) \div 100, 100, [j \in 1 .. i |-> j])

(* The weight of the row ranked r-th by |correlation|, in thousandths. *)
RawWeight(mode, manual, corr, r) ==
    CASE mode = "equal" -> 1000
      [] mode = "manual" -> manual * 100
      [] mode = "correlation" -> manual * corr
      [] mode = "ranked" -> (manual * corr * Decay(r - 1)) \div 100

(* Rows of equal correlation keep their order. *)
Outranks(p, q) == \/ Abs(p.correlation) > Abs(q.correlation)
                  \/ Abs(p.correlation) = Abs(q.correlation) /\ p.index < q.index

Ranked(prepared) ==
    LET valid == {p \in Range(prepared) : p.reject = ""}
    IN  [r \in 1 .. Cardinality(valid) |->
            CHOOSE p \in valid : Cardinality({q \in valid : Outranks(q, p)}) = r - 1]

NoFactors ==
    [signal |-> 0, predicted |-> 0, suppressed |-> TRUE, reasons |-> {"no_factors"},
     used |-> 0, total |-> 0, contributions |-> <<>>]

(* The returns the prediction is scaled by: those of the first in rank. *)
Reference(factors, ranked) ==
    IF ranked = <<>> THEN <<>>
    ELSE Recent(Sanitize(factors[ranked[1].index].returns), Larger(MinHistory, RollingWindow))

Result(prepared, ranked, reasons, reference, signal, contribution) ==
    [signal |-> signal,
     predicted |-> Mean(reference) + Quotient(Std(reference) * signal, 100),
     suppressed |-> reasons # {},
     reasons |-> reasons,
     used |-> Len(ranked),
     total |-> Len(prepared),
     contributions |->
         [i \in DOMAIN prepared |->
             [row |-> prepared[i],
              ranked |-> {<<r, contribution[r]>> : r \in {q \in DOMAIN ranked : ranked[q].index = i}}]]]

(* The mean of the contributions, weighted; a gate or a model without a    *)
(* factor or a weight silences it. The contribution of a row is kept with  *)
(* its raw weight, before the division by the total.                       *)
Signal(prepared, ranked, reasons, reference, raw, contribution) ==
    IF Total(raw) = 0
    THEN Result(prepared, ranked,
                reasons \union {IF ranked = <<>> THEN "no_valid_factors_after_filters"
                                ELSE "all_factor_weights_zero"},
                reference, 0, Products(raw, contribution))
    ELSE Result(prepared, ranked, reasons, reference,
                IF reasons = {} THEN Quotient(Total(Products(raw, contribution)), Total(raw)) ELSE 0,
                Products(raw, contribution))

Combine(prepared, ranked, reasons, reference, mode) ==
    Signal(prepared, ranked, reasons, reference,
           [r \in DOMAIN ranked |->
               RawWeight(mode, Larger(ranked[r].weight, 0), Abs(ranked[r].correlation), r)],
           [r \in DOMAIN ranked |-> ranked[r].sign * ranked[r].zscore])

Judge(factors, prepared, ranked, reasons, mode) ==
    Combine(prepared, ranked, reasons, Reference(factors, ranked), mode)

Rank(factors, prepared, reasons, mode) ==
    Judge(factors, prepared, Ranked(prepared), reasons, mode)

(* build_zscore_signal. The gates give a reason or "". *)
BuildZscoreSignal(factors, mode, regimeGate, volGate) ==
    IF factors = <<>> THEN NoFactors
    ELSE Rank(factors, [i \in DOMAIN factors |-> PrepareFactor(i, factors[i])],
              {regimeGate, volGate} \ {""}, mode)

==============================================================================
