---------------------------- MODULE SignalEngine -----------------------------
(***************************************************************************)
(* services/strategy_engine/signal_engine: one process reads feature ticks *)
(* from TOPIC_FEATURE_STATE, keeps histories of the factors and of the     *)
(* returns of every symbol in memory, and on each tick has module          *)
(* ZScoreModel make a signal of them, which is stored in PostgreSQL, noted *)
(* in strat_logs and published. Whoever produces the ticks is outside the  *)
(* repository. A tick is known by its offset, counted from 1.              *)
(*                                                                         *)
(* The consumer commits by itself, every few seconds, whatever it has      *)
(* handed over, and without a committed offset begins at the end of the    *)
(* topic. The heartbeat task, which writes a row every 30 s, is left out.  *)
(***************************************************************************)
EXTENDS ZScoreModel, FiniteSets

CONSTANTS
    Symbols,
    SignalThreshold,  \* in hundredths
    HistoryCapacity,
    WeightModes,      \* values of ZSCORE_WEIGHT_MODE
    RegimeFilters, VolFilters,  \* values of the two switches, subsets of BOOLEAN
    Feeds,            \* bound: what the feature topic may come to hold
    MaxFaults,        \* bound: failed writes and publishes
    MaxCrashes        \* bound: crashes of the process

(* The names of extract_factor_snapshot in the order of a BTreeMap, and    *)
(* their default weights in tenths.                                        *)
FactorNames == <<"adx_centered", "ema_spread", "macd_hist", "oi_change_pct",
                 "rsi_centered", "vol_zscore">>
Factors == {FactorNames[i] : i \in DOMAIN FactorNames}

DefaultWeight ==
    [ema_spread |-> 12, macd_hist |-> 11, rsi_centered |-> 10, adx_centered |-> 9,
     oi_change_pct |-> 8, vol_zscore |-> 7]

Real == Int \union {NaN}

Ticks ==
    [symbol : Symbols, decodes : BOOLEAN, regime : Int,
     vwap : Real, atr : Real, ema_fast : Real, ema_slow : Real, macd_hist : Real, rsi : Real,
     oi_change_pct : Real, adx : Real, vol_zscore : Real]

ASSUME EngineAssumption ==
    /\ {SignalThreshold, HistoryCapacity, MaxFaults, MaxCrashes} \subseteq Nat
    /\ RegimeFilters \union VolFilters \subseteq BOOLEAN
    /\ WeightModes \subseteq {"equal", "manual", "correlation", "ranked"}
    /\ Feeds \subseteq Seq(Ticks)

VARIABLES
    cfg,        \* weight_mode, regime_filter_enabled, vol_filter_enabled
    feed, end,  \* the feature topic: its records, and how many are written yet
    committed,  \* the group's offset: records behind it, or NoOffset
    faults, crashes,
    step,       \* of the process: down, recv, persist, log, publish
    pos,        \* records handed over by the consumer
    states,     \* SymbolState of each symbol
    signal,     \* signal_result and record of the tick being handled
    sig_zscore_signals, strat_logs,  \* the tables: signals by (crashes, offset)
    topic_out,
    seen        \* history: the ticks this incarnation took in, by symbol

tables == <<sig_zscore_signals, strat_logs, topic_out>>
vars == <<cfg, feed, end, committed, faults, crashes, step, pos, states, signal, tables, seen>>

NoOffset == -1
NoSignal == [offset |-> 0]

------------------------------------------------------------------------------
(* One tick.                                                               *)

RegimeLabel(regime) ==
    LET labels == <<"TREND_UP", "TREND_DOWN", "RANGE", "VOL_COMPRESSION", "VOL_EXPANSION",
                    "PANIC", "ILLIQUID", "HIGH_SPREAD_NO_TRADE">>
    IN  IF regime \in DOMAIN labels THEN labels[regime] ELSE "UNKNOWN"

(* current_volatility, in quarters: the range of the bar over its price    *)
(* or, for want of it, a quantity of another kind.                         *)
CurrentVolatility(t) ==
    IF t.atr # NaN THEN (4 * Abs(t.atr)) \div Abs(t.vwap)
    ELSE IF t.vol_zscore # NaN THEN 4 * Abs(t.vol_zscore)
    ELSE NaN

(* extract_factor_snapshot: the factors the tick has, each in a unit of    *)
(* its own.                                                                *)
FactorSnapshot(t) ==
    LET has(f) ==
            CASE f = "ema_spread" -> t.ema_slow \notin {0, NaN} /\ t.ema_fast # NaN
              [] f = "rsi_centered" -> t.rsi # NaN
              [] f = "adx_centered" -> t.adx # NaN
              [] OTHER -> t[f] # NaN
    IN  [f \in {g \in Factors : has(g)} |->
            CASE f = "ema_spread" -> Quotient(4 * (t.ema_fast - t.ema_slow), Abs(t.ema_slow))
              [] f = "rsi_centered" -> t.rsi - 50
              [] f = "adx_centered" -> t.adx - 25
              [] OTHER -> t[f]]

Usable(t) == /\ t.decodes
             /\ t.vwap \notin {0, NaN}
             /\ DOMAIN FactorSnapshot(t) # {}

(* The return from price p to price q, in quarters. *)
Return(p, q) == Sign(p) * Quotient(4 * (q - p), Abs(p))

(* Fault model: the entries are counted before the new one is in. *)
PushCappedLate(s, x) == Append(Recent(s, HistoryCapacity), x)

PushCapped(s, x) == Recent(Append(s, x), HistoryCapacity)

NewState == [last_vwap |-> NaN, pending |-> <<>>, returns |-> <<>>, volatilities |-> <<>>,
             histories |-> <<>>]

(* The histories h with the factors of one tick added. *)
PushAll(h, factors) ==
    [f \in DOMAIN h \union DOMAIN factors |->
        IF f \notin DOMAIN factors THEN h[f]
        ELSE PushCapped(IF f \in DOMAIN h THEN h[f] ELSE <<>>, factors[f])]

PushVolatility(s, vol) == IF vol = NaN THEN s ELSE PushCapped(s, vol)

(* Fault model: the return is paired with the factors it came with, which  *)
(* know its outcome.                                                       *)
TakeInLookAhead(st, t) ==
    [last_vwap |-> t.vwap,
     pending |-> FactorSnapshot(t),
     volatilities |-> PushVolatility(st.volatilities, CurrentVolatility(t)),
     returns |-> IF st.last_vwap = NaN THEN <<>>
                 ELSE PushCapped(st.returns, Return(st.last_vwap, t.vwap)),
     histories |-> IF st.last_vwap = NaN THEN <<>>
                   ELSE PushAll(st.histories, FactorSnapshot(t))]

(* A symbol's state after the tick t: the factors of the tick before are   *)
(* paired with the return they were followed by.                           *)
TakeIn(st, t) ==
    [last_vwap |-> t.vwap,
     pending |-> FactorSnapshot(t),
     volatilities |-> PushVolatility(st.volatilities, CurrentVolatility(t)),
     returns |-> IF st.last_vwap = NaN THEN <<>>
                 ELSE PushCapped(st.returns, Return(st.last_vwap, t.vwap)),
     histories |-> IF st.last_vwap = NaN THEN <<>>
                   ELSE PushAll(st.histories, st.pending)]

(* build_factor_inputs. *)
Enough(histories, now) ==
    Kept(FactorNames,
         {f \in DOMAIN histories \intersect DOMAIN now : Len(histories[f]) >= MinHistory})

Inputs(names, st) ==
    [i \in DOMAIN names |->
        [name |-> names[i], weight |-> DefaultWeight[names[i]], current |-> st.pending[names[i]],
         series |-> st.histories[names[i]], returns |-> st.returns]]

FactorInputs(st) ==
    IF Len(st.returns) < MinHistory THEN <<>>
    ELSE Inputs(Enough(st.histories, st.pending), st)

(* The model's answer to tick t, in the memory st. *)
Answer(inputs, st, t) ==
    BuildZscoreSignal(inputs, cfg.weight_mode,
                      RegimeGate(cfg.regime_filter, RegimeLabel(t.regime)),
                      VolGate(cfg.vol_filter, st.volatilities, CurrentVolatility(t)))

(* build_signal_record. *)
SignalRecord(o, r) ==
    [offset |-> o, epoch |-> crashes, result |-> r,
     side |-> IF r.suppressed \/ Abs(r.signal) < SignalThreshold THEN 0 ELSE Sign(r.signal),
     confidence |-> Smaller(Abs(r.signal), 100)]

------------------------------------------------------------------------------
Init ==
    /\ cfg \in [weight_mode : WeightModes, regime_filter : RegimeFilters, vol_filter : VolFilters]
    /\ feed \in Feeds
    /\ end = 0
    /\ committed = NoOffset
    /\ faults = 0 /\ crashes = 0
    /\ step = "down"
    /\ pos = 0
    /\ states = [s \in Symbols |-> NewState]
    /\ signal = NoSignal
    /\ sig_zscore_signals = {} /\ strat_logs = {} /\ topic_out = <<>>
    /\ seen = [s \in Symbols |-> <<>>]

(* The producer of the ticks writes the next one. *)
Produce ==
    /\ end < Len(feed)
    /\ end' = end + 1
    /\ UNCHANGED <<cfg, feed, committed, faults, crashes, step, pos, states, signal, tables, seen>>

(* main starts, its memory empty: auto.offset.reset is latest. *)
Start ==
    /\ step = "down"
    /\ step' = "recv"
    /\ pos' = IF committed = NoOffset THEN end ELSE committed
    /\ UNCHANGED <<cfg, feed, end, committed, faults, crashes, states, signal, tables, seen>>

(* A record that does not decode, has no price or not one factor. *)
Skip ==
    /\ step = "recv"
    /\ pos < end
    /\ ~Usable(feed[pos + 1])
    /\ pos' = pos + 1
    /\ UNCHANGED <<cfg, feed, end, committed, faults, crashes, step, states, signal, tables, seen>>

(* A tick: the histories grow and, if some factor has enough of them, a    *)
(* signal is computed. Nothing is awaited on the way.                      *)
Compute(inputs, st, t) ==
    IF inputs = <<>>
    THEN step' = "recv" /\ signal' = NoSignal
    ELSE step' = "persist" /\ signal' = SignalRecord(pos + 1, Answer(inputs, st, t))

Observe(st, t) ==
    /\ states' = [states EXCEPT ![t.symbol] = st]
    /\ Compute(FactorInputs(st), st, t)

Receive ==
    /\ step = "recv"
    /\ pos < end
    /\ Usable(feed[pos + 1])
    /\ Observe(TakeIn(states[feed[pos + 1].symbol], feed[pos + 1]), feed[pos + 1])
    /\ seen' = [seen EXCEPT ![feed[pos + 1].symbol] = Append(@, pos + 1)]
    /\ pos' = pos + 1
    /\ UNCHANGED <<cfg, feed, end, committed, faults, crashes, tables>>

(* Each of the next three may fail, and the tick goes on all the same.     *)
Fails == faults < MaxFaults /\ faults' = faults + 1

(* persist_zscore_signal: the signal and its contributions, in one         *)
(* transaction.                                                            *)
Persist ==
    /\ step = "persist"
    /\ step' = "log"
    /\ \/ /\ sig_zscore_signals' = sig_zscore_signals \union {signal}
          /\ UNCHANGED faults
       \/ Fails /\ UNCHANGED sig_zscore_signals
    /\ UNCHANGED <<cfg, feed, end, committed, crashes, pos, states, signal, strat_logs, topic_out, seen>>

WriteStratLog ==
    /\ step = "log"
    /\ step' = "publish"
    /\ \/ /\ strat_logs' = strat_logs \union {signal}
          /\ UNCHANGED faults
       \/ Fails /\ UNCHANGED strat_logs
    /\ UNCHANGED <<cfg, feed, end, committed, crashes, pos, states, signal, sig_zscore_signals,
                   topic_out, seen>>

Publish ==
    /\ step = "publish"
    /\ step' = "recv"
    /\ \/ /\ topic_out' = Append(topic_out, signal)
          /\ UNCHANGED faults
       \/ Fails /\ UNCHANGED topic_out
    /\ signal' = NoSignal
    /\ UNCHANGED <<cfg, feed, end, committed, crashes, pos, states, sig_zscore_signals, strat_logs, seen>>

(* enable.auto.commit: a record handed over counts as consumed, also while *)
(* it is being handled.                                                    *)
AutoCommit ==
    /\ step # "down"
    /\ committed # pos
    /\ committed' = pos
    /\ UNCHANGED <<cfg, feed, end, faults, crashes, step, pos, states, signal, tables, seen>>

(* The process dies; what it held in memory is gone with it. *)
Crash ==
    /\ step # "down"
    /\ crashes < MaxCrashes
    /\ crashes' = crashes + 1
    /\ step' = "down"
    /\ states' = [s \in Symbols |-> NewState]
    /\ signal' = NoSignal
    /\ seen' = [s \in Symbols |-> <<>>]
    /\ UNCHANGED <<cfg, feed, end, committed, faults, pos, tables>>

Engine == Start \/ Skip \/ Receive \/ Persist \/ WriteStratLog \/ Publish

Next == Engine \/ Produce \/ AutoCommit \/ Crash

Spec == Init /\ [][Next]_vars

(* The process is restarted and runs; its writes and publishes end, well   *)
(* or not, by their timeouts.                                              *)
FairSpec == Spec /\ WF_vars(Engine)

------------------------------------------------------------------------------
(* Properties.                                                             *)

(* Shapes, and the bound of every history: push_capped keeps the histories *)
(* within ZSCORE_HISTORY_CAPACITY, and no factor has more of them than     *)
(* there are returns.                                                      *)
TypeOK ==
    /\ end \in 0 .. Len(feed) /\ pos \in 0 .. end /\ committed \in {NoOffset} \union 0 .. end
    /\ faults \in 0 .. MaxFaults /\ crashes \in 0 .. MaxCrashes
    /\ step \in {"down", "recv", "persist", "log", "publish"}
    /\ step \in {"down", "recv"} <=> signal = NoSignal
    /\ \A s \in Symbols :
          /\ states[s].returns \in Seq(Int) /\ states[s].volatilities \in Seq(Int)
          /\ Len(states[s].returns) <= HistoryCapacity
          /\ Len(states[s].volatilities) <= HistoryCapacity
          /\ \A f \in DOMAIN states[s].histories :
                Len(states[s].histories[f]) <= Len(states[s].returns)

Handling == step = "persist"
Tick == feed[pos]
Memory == states[Tick.symbol]

(* What the ticks of this incarnation say, read off the topic and never    *)
(* capped: the pairs of a factor's value and the return that followed it.  *)
Taken == [i \in DOMAIN seen[Tick.symbol] |-> feed[seen[Tick.symbol][i]]]

Pairs(f, ticks) ==
    LET all == [i \in 1 .. Len(ticks) - 1 |->
                  [factors |-> FactorSnapshot(ticks[i]),
                   return |-> Return(ticks[i].vwap, ticks[i + 1].vwap)]]
    IN  Kept(all, {p \in Range(all) : f \in DOMAIN p.factors})

TrueInput(f, pairs) ==
    [name |-> f, weight |-> DefaultWeight[f], current |-> FactorSnapshot(Tick)[f],
     series |-> [i \in DOMAIN pairs |-> pairs[i].factors[f]],
     returns |-> [i \in DOMAIN pairs |-> pairs[i].return]]

TrueInputs(names, ticks) ==
    [i \in DOMAIN names |-> TrueInput(names[i], Pairs(names[i], ticks))]

Remembered(ticks) ==
    [volatilities |-> Recent(Sanitize([i \in DOMAIN ticks |-> CurrentVolatility(ticks[i])]),
                             HistoryCapacity)]

(* Also for a min_history of 0 a factor without a pair does not count: it  *)
(* has no history yet.                                                     *)
ModelOf(ticks) ==
    Answer(TrueInputs(Kept(FactorNames, {f \in DOMAIN FactorSnapshot(Tick) :
                                            Len(Pairs(f, ticks)) >= Larger(MinHistory, 1)}), ticks),
           Remembered(ticks), Tick)

(* The last ticks before this one, as many as the window looks at, had it. *)
NoRecentGap(f, ticks) ==
    LET n == Smaller(Len(Pairs(f, ticks)), Window)
    IN  \A i \in Len(ticks) - n .. Len(ticks) - 1 : f \in DOMAIN FactorSnapshot(ticks[i])

(* A signal is the model's answer to the pairs of a tick's factors and the *)
(* return that followed it, of its own symbol and since the last start:    *)
(* histories that fill up, a capacity that cuts them and another symbol's  *)
(* ticks in between change nothing (main.rs:179-230). It takes that no     *)
(* factor was missing in the window: the two histories are joined by their *)
(* ends only, and a factor that was away stays paired with the wrong       *)
(* returns until the window has passed the gap.                            *)
SignalOfTruePairs ==
    /\ Handling
    /\ HistoryCapacity >= Larger(MinHistory, Window)
    /\ \A f \in DOMAIN FactorSnapshot(Tick) : NoRecentGap(f, Taken)
    => [signal.result EXCEPT !.predicted = 0] = [ModelOf(Taken) EXCEPT !.predicted = 0]

(* The sign of a factor comes from the data alone (zscore_model.rs:185,    *)
(* 267): had every return been the opposite, the signal would be the       *)
(* opposite; were a factor measured upside down, the signal would be the   *)
(* same.                                                                   *)
Minus(s) == [i \in DOMAIN s |-> -s[i]]

(* What the model says if the factors in F are upside down and, if told    *)
(* to, the returns are.                                                    *)
Mirrored(F, opposite) ==
    Answer([i \in DOMAIN FactorInputs(Memory) |->
               LET x == FactorInputs(Memory)[i]
                   y == IF opposite THEN [x EXCEPT !.returns = Minus(@)] ELSE x
               IN  IF x.name \in F THEN [y EXCEPT !.series = Minus(@), !.current = -@] ELSE y],
           Memory, Tick)

MirrorImage ==
    Handling => /\ Mirrored({}, TRUE).signal = -signal.result.signal
                /\ \A f \in DOMAIN Memory.histories :
                      Mirrored({f}, FALSE).signal = signal.result.signal

(* The volatility gate measures a tick against a history that holds the    *)
(* tick itself (main.rs:181), so with n entries no z-score exceeds the     *)
(* root of n - 1: the gate can reject only when that reaches its limits,   *)
(* eight entries for the default 2.5.                                      *)
GateNeedsHistory ==
    LET n == Len(Memory.volatilities)
        limit == Smaller(Abs(VolMinZ), Abs(VolMaxZ))
    IN  /\ Handling
        /\ CurrentVolatility(Tick) # NaN
        /\ "vol_z_out_of_range" \in signal.result.reasons
        => 10000 * (n - 1) >= limit * limit

=============================================================================
