---------------------------- MODULE FeatureEngine ----------------------------
(***************************************************************************)
(* services/feature_engine: one process reads TOPIC_CANDLES_1M record by   *)
(* record, feeds each closed candle to the indicators of its symbol and    *)
(* publishes the feature vector; the row for ClickHouse is written by a    *)
(* task of its own. The indicators live in memory only.                    *)
(*                                                                         *)
(* An indicator is its counters, which decide when it is ready, and in     *)
(* place of its floating-point value the offsets of the candles it was fed.*)
(* A record is known by its offset, counted from 1. The consumer loop is   *)
(* module MqConsumer's; here it has one member, no dead-letter topic, and  *)
(* commits that are received at once or never.                             *)
(***************************************************************************)
EXTENDS Integers, Sequences, FiniteSets

CONSTANTS
    Symbols,
    EmaFast, EmaSlow, RsiPeriod, SignalPeriod,  \* the periods of Config
    BarsPerDay,
    Throttles,      \* values of FEATURE_THROTTLE_MS, 0 is off
    MaxRetries,     \* retry.max_retries
    Feeds,          \* bound: what the candle topic may come to hold
    MaxClock,       \* bound: the clock
    MaxFaults,      \* bound: failed publishes, lost acknowledgements, commits
                    \* and rows, rewinds
    MaxCrashes      \* bound: incarnations of the process, less one

ASSUME EngineAssumption ==
    /\ {EmaFast, EmaSlow, SignalPeriod, BarsPerDay} \subseteq Nat \ {0}
    /\ RsiPeriod \in Nat /\ RsiPeriod >= 2
    /\ {MaxRetries, MaxClock, MaxFaults, MaxCrashes} \subseteq Nat
    /\ Throttles \subseteq Nat
    /\ Feeds \subseteq Seq([symbol : Symbols, closed : BOOLEAN, bar : Nat])

VARIABLES
    throttle_ms,
    log,        \* the candle topic
    committed,  \* the group's offset: records behind it, or NoOffset
    clock,
    faults, epoch,
    step,       \* of the process: down, idle, handle, publish, commit
    start,      \* records behind the first one of this incarnation
    pos,        \* records polled
    attempt,    \* retries of the current record
    registry,   \* Registry.map
    throttle_map,
    fv,         \* the vector being published
    topic,      \* topic_features: md.features.live
    writing,    \* vectors whose ClickHouse task runs
    rows,       \* vectors in feature_state
    outcomes    \* history: what the handler made of each record

consumerVars == <<start, pos, attempt>>
stateVars    == <<registry, throttle_map, fv>>
outVars      == <<topic, writing, rows, outcomes>>
vars == <<throttle_ms, log, committed, clock, faults, epoch, step, consumerVars, stateVars, outVars>>

NoOffset == -1
Never    == -1
NoVector == [offset |-> 0]

Day(bar) == bar \div BarsPerDay

------------------------------------------------------------------------------
(* Indicators.                                                             *)

(* SymbolState::new. macd.fast is never asked whether it is ready.         *)
NewState ==
    [ema_fast |-> 0, ema_slow |-> 0, seeded |-> FALSE, deltas |-> 0,
     macd_slow |-> 0, signal |-> 0, day |-> 0, session |-> <<>>, fed |-> <<>>]

(* RsiState::update. Fault model: the first close counts as a delta. *)
RsiUpdateUnseeded(s) == [s EXCEPT !.seeded = TRUE, !.deltas = @ + 1]

RsiUpdate(s) == IF s.seeded THEN [s EXCEPT !.deltas = @ + 1] ELSE [s EXCEPT !.seeded = TRUE]

RsiReturns(s) == s.seeded /\ s.deltas + 1 >= RsiPeriod

(* MacdState::update asks the slow EMA whether it is ready before feeding  *)
(* it: the signal EMA sees the bar after.                                  *)
MacdUpdate(s) ==
    [s EXCEPT !.macd_slow = @ + 1,
              !.signal = IF s.macd_slow >= EmaSlow THEN @ + 1 ELSE @]

(* ... and it returns values only if the signal EMA was ready before it.   *)
MacdReturns(s) == s.macd_slow >= EmaSlow /\ s.signal >= SignalPeriod

(* Fault model: the new day is noted, the sums are not reset. *)
VwapUpdateNoReset(s, bar, o) == [s EXCEPT !.day = Day(bar), !.session = Append(@, o)]

VwapUpdate(s, bar, o) ==
    [s EXCEPT !.day = Day(bar),
              !.session = IF Day(bar) # s.day THEN <<o>> ELSE Append(@, o)]

(* The state after SymbolState::update with record o. *)
Update(s, o) ==
    LET e == [s EXCEPT !.ema_fast = @ + 1, !.ema_slow = @ + 1, !.fed = Append(@, o)]
    IN  VwapUpdate(MacdUpdate(RsiUpdate(e)), log[o].bar, o)

(* The quality mask of the state s. *)
Ready(s, b) ==
    \/ b = "EMA_FAST" /\ s.ema_fast >= EmaFast
    \/ b = "EMA_SLOW" /\ s.ema_slow >= EmaSlow
    \/ b = "RSI" /\ s.deltas >= RsiPeriod
    \/ b = "MACD" /\ s.macd_slow >= EmaSlow /\ s.signal >= SignalPeriod
    \/ b = "VWAP" /\ s.session # <<>>

Bits == {"EMA_FAST", "EMA_SLOW", "RSI", "MACD", "VWAP"}
Quality(s) == {b \in Bits : Ready(s, b)}

(* The vector for record o: rsi and macd tell whether the field was        *)
(* computed or holds its default, 50 or 0.                                 *)
Vector(o) ==
    LET old == registry[log[o].symbol]
        new == Update(old, o)
    IN  [offset |-> o, epoch |-> epoch, quality |-> Quality(new),
         rsi |-> RsiReturns(old), macd |-> MacdReturns(old),
         session |-> new.session, fed |-> new.fed]

------------------------------------------------------------------------------
Init ==
    /\ throttle_ms \in Throttles
    /\ log = <<>> /\ committed = NoOffset /\ clock = 0 /\ faults = 0 /\ epoch = 0
    /\ step = "idle" /\ start = 0 /\ pos = 0 /\ attempt = 0
    /\ registry = [s \in Symbols |-> NewState]
    /\ throttle_map = [s \in Symbols |-> Never]
    /\ fv = NoVector
    /\ topic = <<>> /\ writing = {} /\ rows = {} /\ outcomes = {}

Fault == faults < MaxFaults /\ faults' = faults + 1

(* Another record on the topic. A record that is malformed or not closed   *)
(* has closed = FALSE.                                                     *)
Produce ==
    /\ \E f \in Feeds :
        /\ Len(log) < Len(f) /\ SubSeq(f, 1, Len(log)) = log
        /\ log' = Append(log, f[Len(log) + 1])
    /\ UNCHANGED <<throttle_ms, committed, clock, faults, epoch, step, consumerVars, stateVars, outVars>>

(* The clock is read with the throttle on only. *)
Tick ==
    /\ throttle_ms > 0 /\ clock < MaxClock
    /\ clock' = clock + 1
    /\ UNCHANGED <<throttle_ms, log, committed, faults, epoch, step, consumerVars, stateVars, outVars>>

------------------------------------------------------------------------------
(* The consumer and handle_message.                                        *)

(* Fault model: the newest record, stale ones are passed over. *)
PollNewest ==
    /\ step = "idle" /\ pos < Len(log)
    /\ pos' = Len(log) /\ attempt' = 0 /\ step' = "handle"
    /\ UNCHANGED <<throttle_ms, log, committed, clock, faults, epoch, start, stateVars, outVars>>

Poll ==
    /\ step = "idle" /\ pos < Len(log)
    /\ pos' = pos + 1 /\ attempt' = 0 /\ step' = "handle"
    /\ UNCHANGED <<throttle_ms, log, committed, clock, faults, epoch, start, stateVars, outVars>>

Record == log[pos]

Outcome(kind) == outcomes' = outcomes \cup {[offset |-> pos, epoch |-> epoch, kind |-> kind]}

(* A record that does not parse, or whose candle is not closed. *)
SkipRecord ==
    /\ step = "handle" /\ ~Record.closed
    /\ step' = "commit"
    /\ Outcome("ignored")
    /\ UNCHANGED <<throttle_ms, log, committed, clock, faults, epoch, consumerVars, stateVars, topic, writing, rows>>

(* The check against throttle_map. *)
TooSoon ==
    /\ throttle_ms > 0
    /\ throttle_map[Record.symbol] # Never
    /\ clock - throttle_map[Record.symbol] < throttle_ms

SkipThrottled ==
    /\ step = "handle" /\ Record.closed /\ TooSoon
    /\ step' = "commit"
    /\ Outcome("throttled")
    /\ UNCHANGED <<throttle_ms, log, committed, clock, faults, epoch, consumerVars, stateVars, topic, writing, rows>>

(* The indicators take the candle in, before and whatever becomes of the   *)
(* publish.                                                                *)
UpdateIndicators ==
    /\ step = "handle" /\ Record.closed /\ ~TooSoon
    /\ registry' = [registry EXCEPT ![Record.symbol] = Update(@, pos)]
    /\ fv' = Vector(pos)
    /\ step' = "publish"
    /\ UNCHANGED <<throttle_ms, log, committed, clock, faults, epoch, consumerVars, throttle_map, outVars>>

(* What Kafka holds of a vector: the time, and whether it told the producer. *)
Publication(acked) == [vector |-> fv, at |-> clock, acked |-> acked]

Remember ==
    throttle_map' =
        IF throttle_ms > 0 THEN [throttle_map EXCEPT ![Record.symbol] = clock] ELSE throttle_map

(* Kafka acknowledges: the task for ClickHouse is spawned, the time of the *)
(* publish remembered.                                                     *)
PublishOk ==
    /\ step = "publish"
    /\ topic' = Append(topic, Publication(TRUE))
    /\ writing' = writing \cup {fv}
    /\ Remember
    /\ Outcome("published")
    /\ step' = "commit"
    /\ UNCHANGED <<throttle_ms, log, committed, clock, faults, epoch, consumerVars, registry, fv, rows>>

(* Kafka has the vector and its acknowledgement is lost: inside the same   *)
(* send, librdkafka sends it again. The producer is not idempotent.        *)
Resend ==
    /\ step = "publish"
    /\ Fault
    /\ topic' = Append(topic, Publication(FALSE))
    /\ UNCHANGED <<throttle_ms, log, committed, clock, epoch, step, consumerVars, stateVars,
                   writing, rows, outcomes>>

(* Fault model: the row is written first. *)
PublishFailedWritten ==
    /\ step = "publish"
    /\ Fault
    /\ writing' = writing \cup {fv}
    /\ step' = IF attempt < MaxRetries THEN "handle" ELSE "commit"
    /\ attempt' = IF attempt < MaxRetries THEN attempt + 1 ELSE attempt
    /\ IF attempt < MaxRetries THEN UNCHANGED outcomes ELSE Outcome("failed")
    /\ UNCHANGED <<throttle_ms, log, committed, clock, epoch, start, pos, stateVars, topic, rows>>

(* send returns an error; Kafka may have the vector all the same. The      *)
(* handler runs again from its start, or gives the record up.              *)
PublishFailed ==
    /\ step = "publish"
    /\ Fault
    /\ topic' \in {topic, Append(topic, Publication(FALSE))}
    /\ \/ /\ attempt < MaxRetries
          /\ attempt' = attempt + 1
          /\ step' = "handle"
          /\ UNCHANGED outcomes
       \/ /\ attempt = MaxRetries
          /\ step' = "commit"
          /\ Outcome("failed")
          /\ UNCHANGED attempt
    /\ UNCHANGED <<throttle_ms, log, committed, clock, epoch, start, pos, stateVars, writing, rows>>

(* Fault model: the offset of the record after. *)
CommitNext ==
    /\ step = "commit"
    /\ committed' = pos + 1 /\ step' = "idle"
    /\ UNCHANGED <<throttle_ms, log, clock, faults, epoch, consumerVars, stateVars, outVars>>

CommitOffset ==
    /\ step = "commit"
    /\ committed' = pos /\ step' = "idle"
    /\ UNCHANGED <<throttle_ms, log, clock, faults, epoch, consumerVars, stateVars, outVars>>

(* The commit is enqueued, and lost. *)
CommitLost ==
    /\ step = "commit"
    /\ Fault
    /\ step' = "idle"
    /\ UNCHANGED <<throttle_ms, log, committed, clock, epoch, consumerVars, stateVars, outVars>>

(* The spawned task: one insert, whose failure is logged. *)
InsertRow(v) ==
    /\ v \in writing
    /\ writing' = writing \ {v}
    /\ rows' = rows \cup {v}
    /\ UNCHANGED <<throttle_ms, log, committed, clock, faults, epoch, step, consumerVars, stateVars, topic, outcomes>>

InsertFails(v) ==
    /\ v \in writing
    /\ Fault
    /\ writing' = writing \ {v}
    /\ UNCHANGED <<throttle_ms, log, committed, clock, epoch, step, consumerVars, stateVars, topic, rows, outcomes>>

------------------------------------------------------------------------------
(* The group and the process.                                              *)

(* Fault model: each start is a new group. *)
FirstFetchNewGroup == Len(log)

(* Where a fetch begins: auto.offset.reset = latest. *)
FirstFetch == IF committed = NoOffset THEN Len(log) ELSE committed

(* The session has timed out and the process joins again: it is handed     *)
(* once more what was not committed, and keeps its indicators.             *)
Rejoin ==
    /\ step = "idle"
    /\ Fault
    /\ pos' = FirstFetch
    /\ start' = IF FirstFetch > pos THEN FirstFetch ELSE start
    /\ UNCHANGED <<throttle_ms, log, committed, clock, epoch, step, attempt, stateVars, outVars>>

Crash ==
    /\ step # "down" /\ epoch < MaxCrashes
    /\ step' = "down"
    /\ writing' = {}
    /\ UNCHANGED <<throttle_ms, log, committed, clock, faults, epoch, consumerVars, stateVars, topic, rows, outcomes>>

Restart ==
    /\ step = "down"
    /\ epoch' = epoch + 1
    /\ step' = "idle" /\ pos' = FirstFetch /\ start' = FirstFetch /\ attempt' = 0
    /\ registry' = [s \in Symbols |-> NewState]
    /\ throttle_map' = [s \in Symbols |-> Never]
    /\ fv' = NoVector
    /\ UNCHANGED <<throttle_ms, log, committed, clock, faults, outVars>>

Handle  == SkipRecord \/ SkipThrottled \/ UpdateIndicators \/ PublishOk \/ Resend \/ PublishFailed
Run     == Poll \/ Handle \/ CommitOffset \/ CommitLost
Tasks   == \E v \in writing : InsertRow(v) \/ InsertFails(v)
Process == Rejoin \/ Crash \/ Restart

Next == Produce \/ Tick \/ Run \/ Tasks \/ Process

Spec == Init /\ [][Next]_vars

(* The handler returns, the loop goes on, and a process that has ended is  *)
(* started again.                                                          *)
FairSpec == Spec /\ WF_vars(Run) /\ WF_vars(Restart)

------------------------------------------------------------------------------
(* Properties.                                                             *)

IndicatorStates ==
    [ema_fast : Nat, ema_slow : Nat, seeded : BOOLEAN, deltas : Nat, macd_slow : Nat,
     signal : Nat, day : Nat, session : Seq(1..Len(log)), fed : Seq(1..Len(log))]

(* Every variable holds a value of its kind: no offset beyond the log, no  *)
(* time beyond the clock.                                                  *)
TypeOK ==
    /\ throttle_ms \in Throttles
    /\ committed \in {NoOffset} \cup 0..Len(log)
    /\ step \in {"down", "idle", "handle", "publish", "commit"}
    /\ start \in 0..Len(log) /\ pos \in 0..Len(log) /\ attempt \in 0..MaxRetries
    /\ registry \in [Symbols -> IndicatorStates]
    /\ throttle_map \in [Symbols -> {Never} \cup 0..clock]
    /\ \A p \in {topic[i] : i \in 1..Len(topic)} : p.vector.offset \in 1..Len(log)
    /\ rows \cap writing = {}

Fed(s) == {registry[s].fed[i] : i \in 1..Len(registry[s].fed)}
Made(kind) == {x.offset : x \in {y \in outcomes : y.kind = kind /\ y.epoch = epoch}}

(* A process misses no closed candle between the first record it was       *)
(* handed and the current one: the indicators of the symbol have seen each *)
(* one that handle_message did not throttle.                               *)
NoGap ==
    \A o \in (start + 1)..pos :
        log[o].closed /\ ~(o = pos /\ step \in {"handle", "down"})
            => o \in Fed(log[o].symbol) \cup Made("throttled")

(* The mask and the fields of a vector that was computed from n bars.      *)
ExactFor(v, n) ==
    /\ "EMA_FAST" \in v.quality <=> n >= EmaFast
    /\ "EMA_SLOW" \in v.quality <=> n >= EmaSlow
    /\ "RSI" \in v.quality <=> n > RsiPeriod
    /\ v.rsi <=> n > RsiPeriod
    /\ "MACD" \in v.quality <=> n >= EmaSlow + SignalPeriod
    /\ v.macd <=> n > EmaSlow + SignalPeriod

(* The bit of an indicator in the quality mask of a published vector is    *)
(* set once the indicator has had the bars it needs, and then the field    *)
(* was computed: except the MACD's, whose bit comes one bar early, on a    *)
(* vector that carries zeros.                                              *)
QualityIsExact == \A i \in 1..Len(topic) : ExactFor(topic[i].vector, Len(topic[i].vector.fed))

InOrder(f) == \A i, j \in 1..Len(f) : i < j => log[f[i]].bar <= log[f[j]].bar

(* The VWAP of a vector is that of the whole day of its candle, every bar  *)
(* of it that was taken in and no other, if the consumer has not been sent *)
(* back to an earlier bar meanwhile: the session is the end of what the    *)
(* symbol was fed, from the first bar of the day on.                       *)
VwapOfTheDay ==
    \A i \in 1..Len(topic) :
        LET v == topic[i].vector
            n == Len(v.fed)
            k == Len(v.session)
        IN  InOrder(v.fed) =>
                /\ k \in 1..n
                /\ \A j \in 1..k : v.session[j] = v.fed[n - k + j]
                /\ \A j \in 1..n :
                       Day(log[v.fed[j]].bar) = Day(log[v.offset].bar) <=> j > n - k

(* A second vector for a record takes a fault or a crash - a failed call,  *)
(* a rewind, an acknowledgement lost inside a send that then succeeds -,   *)
(* each at most one: retry, commit and replay multiply nothing. ClickHouse *)
(* has no vector that Kafka has not acknowledged.                          *)
VectorsAreCharged ==
    /\ Len(topic) <= Cardinality({topic[i].vector.offset : i \in 1..Len(topic)}) + faults + epoch
    /\ \A v \in rows \cup writing : \E i \in 1..Len(topic) : topic[i].vector = v /\ topic[i].acked

(* Published, throttled, ignored, or given up after the last retry. *)
Answered(o) == \E x \in outcomes : x.offset = o

LongestFeed == CHOOSE n \in {Len(f) : f \in Feeds} : \A f \in Feeds : Len(f) <= n

(* With an offset committed, every record behind it is dealt with in the   *)
(* end, through lost commits, rewinds and restarts.                        *)
EveryRecordAnswered ==
    \A o \in 1..LongestFeed :
        (committed # NoOffset /\ committed < o /\ o <= Len(log)) ~> Answered(o)

(* "bit is set when the corresponding indicator is warmed up": a vector    *)
(* that has the MACD's bit carries its values.                             *)
MacdBitMeansValues ==
    \A i \in 1..Len(topic) : "MACD" \in topic[i].vector.quality => topic[i].vector.macd
=============================================================================
