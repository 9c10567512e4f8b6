# Verification of the trading system: TLA+ models, model checking, proofs

This directory models the parts of the repository that move orders, candles and
offsets: the code whose correctness depends on the order of steps of several
actors and on what fails between them. Paths below are relative to the root of
the repository.

## 1. The system

    exchange --ws--> marketdata_ingestor --TOPIC_CANDLES_1M--> feature_engine
                        |  \--> ClickHouse                         |
                        v                                 md.features.live
                     md.raw.*                                      v
                                                            (outside readers)
    TOPIC_FEATURE_STATE --> signal_engine --> Postgres, signals topic
    protobuf vectors --> ai_predictor --> predictions

    api_gateway --TOPIC_ORDERS--> risk_guard --TOPIC_ORDERS_APPROVED-->
    strategy_engine ---------------------------TOPIC_ORDERS_APPROVED-->
        execution_router (exchange, Postgres) and paper_trader --TOPIC_FILLS-->
        order_executor (Postgres), web_dashboard

Every service is one process around one loop; services share nothing but Kafka
topics, Postgres, Redis and ClickHouse. A service consumes at least once: either
librdkafka commits on a timer whatever it has handed over (risk_guard,
execution_router, paper_trader, order_executor, signal_engine), or `hft_mq`
commits a record after its handler (feature_engine, and a placeholder in
api_gateway whose handler does nothing). The producers of TOPIC_FEATURE_STATE and
of the vectors ai_predictor decodes are outside the repository. docker compose
restarts whatever exits (`restart: unless-stopped`).

| component | state it keeps | operations | what makes it hard |
|---|---|---|---|
| execution_router | dedup cache (memory), tables orders, order_events, trades, positions, exit tags | consume, dedup, simulate or place, persist in one transaction, publish | redelivery after a crash or rebalance, unknown outcomes of Postgres, Kafka and the exchange, expiry and sweep of the cache |
| risk_guard | none of its own; kill switches in Redis, limits in Postgres | four gates in order, forward or reject | switches and limits that change between two awaits, gates that fail open, offsets committed undecided |
| hft_mq consumer | position, retry counter, commits under way | poll, retry, dead-letter, commit | revocation under a running handler, late commits, a dead-letter topic that fails |
| candle pipeline | dedupe cache per worker, bounded channel, batch, readiness flag | read, dedupe, send, batch, insert, publish | two stores written one after the other, back-pressure, tasks that end one by one |
| raw market data workers | sequence counters, heartbeat statistics, back-off | subscribe, normalize, publish | counters shared by workers, swap of statistics |
| feature_engine | indicators per symbol and throttle times (memory), feature_state in ClickHouse | throttle, update, publish, retry | state updated before a publish that may be retried; memory lost while offsets are kept; indicators that are ready at different bars |
| signal_engine | last price, factor, return and volatility histories per symbol (memory); signals and log in Postgres | update histories, compute, store, log, publish | histories that grow independently and are joined by their ends; memory lost while offsets are kept; sums, ranks and gates nobody recomputes |
| paper_trader | none | fill every approved order | no dedup; runs beside execution_router |
| order_executor | tables of Postgres | persist each fill report in one transaction | at-least-once into several tables, of which only one knows a repeated fill |
| strategy_engine | none; decision log in Postgres | publish an order, then log the decision | an error between the two, and after it another start |
| api_gateway | none of its own; caller of all of the above | place, exit, cancel, cancel all, kill switches | reads a row, then sends a command about it |
| hft_redis, hft_exchange | rate counters, token bucket | increment with expiry, acquire | window boundaries, refill |
| mc_snapshot, ai_predictor, web_dashboard, hft_common, Python libraries | little or none | emit, convert, display | configuration and numerics, no protocol |

`PROJECT.json` lists every component with its status, and under `hazards` what is
hard to test in it, each at its line with the properties about it.

## 2. Modules

| module | models | role |
|---|---|---|
| `ExecutionRouter` | `services/execution_router/src` | the router's loop, cache, writer and publisher |
| `OrderLedger` | what the OMS promises of an order | abstract specification of the router's tables |
| `MCExecutionRouter` | | the instance: orders, exchange, bounds |
| `ExecutionRouterProofs` | | inductive invariant and theorems of the router; the order of its reports, the rows they leave, the sums of its tables; the router implements `OrderLedger`; the same of gateway and router together |
| `TradeSums` | | lemmas on sums over finite sets of trades |
| `RiskGuard`, `MCRiskGuard` | `services/execution_router/risk_guard/src`, `KillSwitch` of `hft_redis` | the guard, its operators, its tables |
| `RiskGuardProofs` | | inductive invariant and theorems of the guard |
| `MqConsumer` | `libs/rust/hft_mq/src/{consumer,commit,dlq}.rs` | a consumer group on one partition |
| `AtLeastOnce` | what a consumer group promises | abstract specification of `MqConsumer` |
| `MqConsumerProofs` | | inductive invariant, theorems and refinement of the consumer |
| `CandlePipeline`, `MCCandlePipeline` | `services/marketdata_ingestor/src/candle.rs` | workers, channel, sink, readiness |
| `CandlePipelineProofs` | | inductive invariant and theorems of the pipeline |
| `FeatureEngine`, `MCFeatureEngine` | `services/feature_engine/src` | the handler, the indicators' counters, publish and retry |
| `FeatureEngineProofs` | | what the quality mask and the VWAP mean, for all periods; missed candles and repeated vectors |
| `ZScoreModel` | `services/strategy_engine/signal_engine/src/zscore_model.rs` | the pure computation of a signal |
| `SignalEngine`, `MCSignalEngine` | `services/strategy_engine/signal_engine/src/main.rs` | the process around it |
| `SignalEngineProofs` | | lemmas on sums, deviations, correlations, ranks and capped histories; inductive invariant and theorems of the process |
| `OrderGateway`, `MCOrderGateway` | `services/api_gateway/src/{routes/orders.rs,mq.rs}` | the gateway, composed with `ExecutionRouter` |
| `FillPath` | `strategy_engine`, `paper_trader`, `order_executor`, the writes of `libs/rust/hft_store` | both consumers of approved orders, and what is written of their fills |
| `FillPathProofs` | | inductive invariant and theorems of the path |

Conventions. A step is what the code does between two awaits; a call to another
process is a step whose failure is an action of its own, and a failed write may or
may not have taken effect. Memory is lost by `Crash`, tables and topics are not.
Kafka is an append-only sequence with an offset handed over and a committed offset.
A send that returns Ok may leave two copies of its message: of all the producers
here only those of `hft_mq` set `enable.idempotence`, and the one feature_engine
uses sets it to false, so that librdkafka sends a message again when an
acknowledgement is lost. Where the messages of a topic are the subject this is an
action, `Resend` (`ExecutionRouter`, `CandlePipeline`, `FeatureEngine`), paid for as
a fault. `RiskGuard` counts the decisions of the loop and not the messages they
leave; `FillPath` has repeated reports from the router (`RouterForgets`), and what
its properties say of repeats does not ask where they come from; a command that
reaches the router twice is to `OrderGateway` what one handed over again is; and
`SignalEngine` and `MqConsumer` have no property about their topics' copies. What
acks=1 may lose when a broker fails is the broker's state and not modelled.
Variables named as bounds (`faults`, `epoch`, `moves`, ...) exist to keep TLC's
instances finite, and some properties count against them: a loss has to be paid for
by a fault. Definitions marked `Fault model` are no part of the specification: each
is a form a definition could take after a plausible mistake, and the property it
breaks is listed in `PROJECT.json` under `mutants`.

### ExecutionRouter

`handled` lists the calls of `handle_order`; its length plays the clock `now_ns()`,
so that a trade's key (fill id, event time) is `<<order, seq>>` with the number of
the handling. `Accept` is `seen_recently_or_insert` with the sweep of
`cleanup_if_needed`; `FirstReports` chooses what `handle_order` answers, by mode,
exchange and action; `PersistReport` is the whole transaction of `persist_execution`
(order upsert, event and training label, trade, position, exit tag); `PublishReport`
sends the same report to `TOPIC_FILLS`. An error of either ends the call (`GiveUp`)
and leaves the id in the cache. A call of the exchange may also never be answered
(`PlaceUnanswered`), and a send may leave two copies of a report (`Resend`).
Quantities are in units of 0.0001, the smallest partial fill. Prices appear only in
`detect_exit_trigger`. Commissions, tags and texts are left out.

### RiskGuard

`stage` is the next await of the current call: limits, global switch, account
switch, notional, leverage, forward or report. `armed`, `inForce` and `unread`
are history variables: the switches that have been on since the order was
received, the limits in force at some time since then, and what could not be
read. They state what a decision spread over several awaits can still promise.

### MqConsumer

Several members share one partition through the broker: `Assign`, `Revoke`,
commits that are under way (`pending`) and may arrive after the partition has
moved. `Handle`, `Retry`, `Exhausted`, `DlqPublish`, `DlqFailed`, `CommitOffset`
follow `run` and `run_with_retry`. `commit_offset` enqueues an asynchronous
commit; its answer is not awaited, so the broker may also refuse it unseen.

### CandlePipeline

One action per arm of the loops: `AcceptCandle` inserts the key into the FIFO
cache and goes to `send`, `Send` waits for a slot of the channel, `Recv` and
`FlushTick` are the branches of the sink's `select!`, `InsertBatch` and
`SendCandle` the two halves of `flush_batch`; `Resend` is what librdkafka does inside
the latter's send when an acknowledgement is lost. A failure of either half ends the
sink and closes the channel; a worker ends (`Bail`) at its next candle; the
process ends (`Exit`) when no task is left. `accepted` records every candle a
worker took for new; an item of the channel or of a store is an index into it,
which lets properties tell two acceptances of one candle apart.

### FeatureEngine

The consumer is `MqConsumer` with one member and no dead-letter topic, as the
service configures it: `auto.offset.reset = latest`, one retry, an exhausted record
committed past. `UpdateIndicators` is the part of `handle_message` before the
publish is awaited; `PublishOk` and `PublishFailed` are what may come of it, after
any copies that `Resend` leaves, and a failed publish runs the whole handler again,
indicators included. `Rejoin` hands the process once more what was not committed
while its indicators stay; `Restart` loses them. An indicator is its counters
(`EmaState.count`, `RsiState.deltas`, ...) and, for its value, `fed`: the offsets of
the candles it was computed from, in order, which is all that the properties need to
know of a floating-point value. `session` is the same for the sums of the VWAP.

### ZScoreModel and SignalEngine

The model is translated function by function, in fixed-point numbers: hundredths
for correlations, z-scores, signals and thresholds, tenths for weights; a factor
or a return may have any unit, because only ratios of it are used. `NaN` stands
for every value that is not finite. Roots and quotients are rounded towards zero,
which is symmetric in the sign, as floating point is; nothing is said about
rounding errors of the code. `Receive` is everything from the decoded tick to the
computed signal, where nothing is awaited; `Persist`, `WriteStratLog` and
`Publish` are the three awaits that may each fail without stopping the tick. The
offset is committed on a timer, so a tick may be lost with the process, and the
histories always are; without a committed offset the group begins at the end of
the topic. `seen` is a history variable: the ticks this incarnation has taken in.

### OrderGateway

It EXTENDS `ExecutionRouter`: the gateway reads the very table `orders` that the
router writes, and its commands reach the router's `log` through `Forward`,
which stands for risk_guard's yes, or are dropped by `Refuse`. A rejection by
risk_guard appears on TOPIC_FILLS, which neither side reads, and is left out. A
request reads its row or rows in one step (`FetchOrder`, `FetchAll`) and sends
its cancels one by one in later ones (`SendCancel`), in between which the router
goes on; `Disconnect` is the client that goes away and with it the rest of the
request. `producer` and `readable` are chosen once: whether KAFKA_BROKERS is set,
and whether `orders.exchange_order_id` has the type `OrderRow` decodes. With the
migrations of `db/postgres` it has not; then every row the router has written
makes the query fail, and no cancel is ever sent. Both settings are checked.

### FillPath

`PublishOrder` and `WriteDecision` are the two halves of a turn of
strategy_engine, and an error of either ends the process. `PublishFill` is
paper_trader, which publishes one FILLED report for whatever command it takes.
`RouterPublishes` is less than `ExecutionRouter`: it may publish the reports of a
command, and `RouterForgets` lets it do so again after a crash.
So every behaviour of the two consumers on TOPIC_FILLS is among those checked.
`Transaction` is `persist_report` of order_executor: upsert of the order, event,
trade, position. `fits` is chosen once: TRUE is a database made for the
statements of `hft_store`, FALSE the one of `db/postgres`, whose tables lack
columns and keys the statements name, so that each transaction rolls back
(`PersistRejected`).

## 3. Runs

| run | instance | shows |
|---|---|---|
| `router_paper` | PAPER, two orders (one filled in two parts, one in one), create and cancel of the same id, 2 records, 1 crash, 1 fault, TTL 0 and 1 tick, sweep from 2 entries | `HandledOncePerWindow`: one order is executed twice only across a restart or TTL. `NoGapInFills`: no report overtakes another. `TablesMatchTrades`: position and filled quantity are the sums of the trades. `FinalStaysFinal`: a final row is changed only by such a second handling |
| `router_real` | REAL on BINANCE, a market and a limit order, undecodable records, an answer of the exchange that is lost or never comes | `PlacedOncePerWindow`, and every record is committed in the end, unless the loop waits for the exchange for ever |
| `router_ledger` | no crash, clock within TTL, 3 records, 2 faults | the tables implement `OrderLedger` |
| `router_duplicate_fills` | as `router_paper` | violation: a fill is stored twice |
| `risk_guard` | two orders, one account, one symbol, 2 changes of switches or limits, 2 faults, 1 crash or rebalance | `KillSwitchHolds`, `LimitHolds`: the decision was justified at some moment of its making; `DecisionsAreCharged`: a lost or repeated decision has its cause; every order is decided in the end |
| `mq_consumer` | two members, 2 records, 1 retry, a halting dead-letter topic, the partition taken twice, 1 fault | `NothingLost`, `EveryRecordSettled`, and the group implements `AtLeastOnce` |
| `candle_pipeline` | two workers, three candles, 1 repeat, cache of 1, channel of 1, batch of 2, 1 fault, 2 incarnations | `AcceptedOncePerWindow`, `AcceptedIsKept`, `PublishedInOrder`; `StoredFirst`: the table leads the topic by at most one batch for each incarnation, it holds no acceptance twice, and each copy on the topic takes a fault; every accepted candle is published in the end |
| `feature_engine` | three feeds of three or four records of two symbols (a day change, a repeated candle, one that is not closed), throttle off and on, periods 1 and 2, 1 retry, 2 faults, 2 incarnations | `NoGap`: only the throttle keeps a candle from the indicators; `QualityIsExact`, `VwapOfTheDay`: what a vector claims is what it was computed from; `VectorsAreCharged`: a second vector costs a fault, and a row has its vector; every record behind a committed offset is answered in the end |
| `feature_quality` | the same without faults | violation: a vector has the MACD bit and no MACD |
| `signal_engine` | two feeds of five and six ticks (a missing factor, an undecodable tick, another symbol, a zero average, a volatility spike, a forbidden regime), equal and ranked weights, histories of 4, window of 3, 1 failed write, 1 crash | `SignalOfTruePairs`: a signal is the model of the true pairs of factor and following return, unless a factor was missing in the window; `MirrorImage`: it is odd in the returns and does not know a factor's sign; `GateNeedsHistory`: when the volatility gate can reject at all |
| `order_gateway` | two orders, one request at a time, `cancel_all` with a page of one order, 3 records, one crash of the router, one failed send, with and without a producer, with a readable and an unreadable table | `CancelFollowsCreate`: a cancel is executed only after its create and outside its dedup window; `FilledLostToStaleCancel`: a filled order becomes canceled only by a request that had read it open |
| `fill_path` | an order of 5 units, 2 commands, 3 reports, 1 start of strategy_engine, 1 failed call or crash, both kinds of database, EMIT_ONCE and the decision log on and off | `PositionMatchesTrades`: as long as no fill is stored twice; `OrdersAreLogged`: an order without its decision is the last of a run that failed; every order becomes a trade in the end, but for one for each failure |

Why the bounds are enough. Each hazard needs few actors: a second handling needs
one duplicate or one redelivery, one crash or one tick past TTL; an overtaking
report needs an order with two fills and one fault between them; a stale
decision needs one change between two reads; a bad commit needs two members and
two records, one of them still unsettled; an eviction needs a cache of one and
two candles; back-pressure needs a channel of one and two workers. Capacities and
thresholds that are thousands in the code are 1 or 2, so that their limits are
reached. The MACD with periods 2 and 1 has its bit at the third bar and values
at the fourth, the length of the longest feed. The feeds of signal_engine are longer
than its histories, so that the cap cuts them, and its window shorter than both.
A stale cancel needs one row read, one fill and one restart of the router; a fill
stored twice one report and one crash. A copy on a topic needs one lost
acknowledgement, and with two faults in `feature_engine` it meets a retry, a rewind
or another copy. A lost trade needs one failure, and a second order shows that it
costs no other. `fill_path` excuses an order for which no
room is left on TOPIC_FILLS (`MaxFills`): with two commands and three records the
router may publish one report besides paper_trader's two. The properties that are
proved hold for every value of the constants.

Deadlock is not checked: every instance stops once its bounds are used up.

Fairness. `FairSpec` of the router and the guard asks for weak fairness of the
loop and of `Restart` (docker compose). Each loop awaits one record at a time. That
a send returns is the code's own doing: every producer sets `message.timeout.ms`.
That a query of Postgres or a command of Redis returns, with an answer or an error,
is an assumption: a pool of connections limits the wait for one of them
(`acquire_timeout`), and nothing limits the query. Of the exchange it is not
assumed. `place_order` uses a client without a time limit (rest.rs:26) and
`handle_order` awaits it as it is (main.rs:177), so `PlaceUnanswered` is a fault
after which the loop takes no step: it stays in `stage = "unanswered"` until the
process is killed. `EveryRecordCommitted` therefore says that every record is
committed in the end or the loop waits for ever. A kill is no remedy for the order
it hung on, which the cache has already remembered and whose offset the timer has
committed or will, if it fires first. The router adds strong fairness of
`AutoCommit`: the timer of librdkafka fires again and again, although rebalances
and crashes may disable it in between. The consumer asks for a handler that
returns, a broker that assigns a free partition and receives what is sent to it.
The candle pipeline asks for tasks that are polled and calls that return - of the
sends by their timeout, of the inserts by assumption; nothing
is asked of the exchange, neither connections nor candles. The feature engine
asks for a handler that returns (the producer has a delivery timeout) and for
`Restart`; nothing is asked of the ClickHouse tasks, whose end nobody awaits.
`fill_path` asks the two consumers to take what there is and docker compose to
restart them, and asks nothing of strategy_engine or the router.

## 4. Theorems

All proofs are checked by TLAPS. They hold for all constants that satisfy the
named assumptions (`OrdersAssumption`, `RouterAssumption`, `MqAssumption`
and the like), without any bound on records, crashes or faults.

`ExecutionRouterProofs`. The inductive invariant `IInv` adds to `TypeOK`: every
handling lies before now and in an epoch no later than the current one
(`ClockInv`); an entry of the cache is the last handling of its order in this
incarnation, and an order handled in this incarnation within TTL has an entry
(`CacheInv`), which is why the sweep may drop only what has expired; each row,
event, trade and placement comes from a handling of its order (`OriginInv`); the
report about to be published is the event just written (`PublishInv`). `CacheInv`
is what makes `HandledOncePerWindow` inductive: the property speaks of pairs of
handlings, the code only of the cache. From it follow `HandledOnce`,
`FillsOnce`, `PlacedOnce`, `PersistBeforePublish` and `TypeCorrect`.

For the order of reports, `RInv` adds to `IInv` how far a call has come. The
reports a call has left are numbered in a row and only the last may be final
(`Numbered`); the one before the next is on the topic, and in the table once the
next is about to be written (`ProgressInv`). That is what each append needs for
`NoGaps`. A call with a report to write has not finished its row (`UnfinishedInv`),
and just after writing the row says what the report says (`WrittenInv`); so a
final row was written by an earlier call of the same order, which is apart
(`FinalRows`).

The refinement of `OrderLedger` holds as long as the router has not crashed
and has not run for longer than TTL (`Young`), which the theorem assumes of the
whole behaviour: `Spec /\ []Young => IsOrderLedger`. Then an accepted order has no
row yet (`AcceptedIsNew`, from `CacheInv` and the origin of rows), every report has
the shape of an answer or of a fill (`ShapesInv`) and takes the row on from where it
stands (`RowOfCallInv`); a transaction, also one whose answer was lost, is one step
of the ledger and every other step leaves the tables alone.

`TablesAreSums` needs to know, when a fill is added to the position, that its trade
is new, and when `filled_qty` is overwritten, that the trades of this handling so
far add up to what stood there. `BooksOfCall` says so: a trade stored by the
current handling precedes the next report, and a report after the first finds its
own handling in the row and continues its cumulative quantity. With the shape of
reports (`ShapesInv`) and finitely many trades, that makes `TablesMatchTrades`
inductive (`BInv`).

`TradeSums`. The two properties on sums use `MapThenSumSet`, a fold over a set in an
order that `CHOOSE` picks. The lemmas show that adding a trade to a finite set adds
its quantity, whatever the order. A schema of induction cannot be instantiated
here; the lemmas take a counterexample of least cardinality instead, which exists
because < is well-founded on Nat.

Gateway and router together, also in `ExecutionRouterProofs`. `GInv` carries `IInv`
through the composition and says where things on their way come from: a row from a
handling of its order and a CREATE (`RowInv`), a cancel a request has yet to send or
has sent from such a row, read while open (`RequestInv`), a CANCEL on either topic
from a cancel that was sent (`RecordInv`), and one the router handled from such a
cancel and an earlier CREATE (`CancelInv`). `CancelsFollow` and `FilledLostOnlySo`
then need only `HandledOncePerWindow` and that no other command reports CANCELED
(`ReportInv`).

`MqConsumerProofs`. The invariant says that the committed offset, every commit
under way and every member's position have only records behind them that are
saved: handled, or on the dead-letter topic if there is one that halts the
consumer, or else given up for good. Stating it of commits under way is needed
because a commit may arrive after the partition has moved and move the committed
offset back. From it follow `TypeCorrect`, `NoRecordLost` and `Implements`: the
group refines `AtLeastOnce`, step by step.

`FeatureEngineProofs`. Each counter is a function of the number of bars the
symbol was fed (`Counted`): the signal EMA, for one, has seen as many as came
after the slow EMA was ready. A vector is built from the state before and after
one update, hence its mask and its fields follow from that number (`VectorOk`).
The invariant carries this for every symbol, for the vector being published and
for every vector on the topic; `MaskIsExact` reads it off. The thresholds are the
periods of the configuration, which TLC can only sample. `KnownInv` says of what a
symbol was fed that its session is the end of it and, as long as the bars came in
order, the bars of the last day and no others; a vector carries a copy
(`VwapIsOfTheDay`). `NoCandleMissed` is inductive with types and places: a step that
moves to the next record leaves the current one in the indicators, or throttled, or
not closed. That a vector to be written was never written before (part of
`TypeCorrect`) follows from the number of bars in it: in one incarnation a symbol's
bars only grow (`FreshInv`). `ChargeInv` counts the vectors against the records the
round has done with and, because a rewind returns to the committed offset, against
the records behind that one as well; an offset still to be committed, or a process
still to be started, allows for one more (`VectorsCharged`). A lost acknowledgement
adds its vector and its fault in one step.

`RiskGuardProofs`. The two properties speak of the moment before the order is
forwarded; the invariant says what each stage of the call has established on the
way there. `ArmedInv`: a switch that has been on since the order was received is
on now. `GateInv`: behind the gate of a switch, the switch was off when it was
read, so it is not among those that were on all the time, unless Redis failed on
it. `LimitInv`: the limit the call carries was in force at some time since the
order was received, or the table could not be read, and behind the notional gate
the order is within it. `ReasonInv`: a rejection
under way has the reason of the gate that made it. From it follow `TypeCorrect`,
`SwitchesHold` and `LimitsHold`. `DecisionsCharged` needs `ChargeInv`: the committed
offset is not ahead of what was handed over; the records that were handed over, and
that nobody has decided or is deciding, are no more than the failed sends and the
crashes; a record is decided or in hand no more often than it was handed over, once
and again for each rewind.

`CandlePipelineProofs`. `AcceptedOncePerWindow` speaks of the whole history of a
worker, the code only of its FIFO cache, so the invariant ties the two: the cache
is the end of the history (`Tracks`), and while it is not full it holds every
acceptance of this incarnation (`Remembers`). A candle that is not in the cache
was then accepted in another incarnation or more than a full cache ago. For the
order, topic, rest of the batch, channel and the worker's hand are shown to
follow each other (`OrderInv`), where the topic may have copies side by side and only
the candle being sent may be on it already; and everything on its way to be one of the
worker's acceptances, the one in its hand being the last (`WayInv`). `BatchInv`
says of a batch being sent that it is in the table and its sent part on the topic,
which makes `AcceptedIsKept` survive the end of a batch. From it follow
`TypeCorrect`, `AcceptedOnce`, `NothingLeaks`, `InOrder` and, with one more
induction, `TableBeforeTopic`. For `RowsThenMessages`, the whole of `StoredFirst`,
everything on its way belongs to the incarnation that runs (`FreshInv`); channel and
batch, until it is inserted, are apart from the table (`RowsInv`); and what an
incarnation has in the table and not on the topic is the unsent part of the batch
under way, or what was left of it when its sink ended (`UnsentInv`). The copies on the
topic are at most the faults, and one fewer while the candle being sent is on it
already, since the send that then succeeds adds the next without a fault
(`ChargeInv`). The one assumption beyond the ranges of the constants is that the
workers are finitely many.

`FillPathProofs`. `IInv` has three parts: what is on the topics and in the tables
(`FlowInv`), that no consumer is ahead of its topic and one that works has a record
(`PlaceInv`), and the loop of strategy_engine (`StrategyInv`). `EveryOrderLogged` adds
`LogInv`: an order waits for its row while it is logged, and for ever if the run it
belongs to failed, and the first turn of a start under EMIT_ONCE has its order still
to emit. `PositionIsTheSum` adds `TradesInv`: while no fill is stored twice the table
of trades has one row for each fill stored, and the position is their sum. The
property excuses a repeated fill, and the run `fill_path` shows why it must: the
position moves with every report, the table only with a new fill.

`SignalEngineProofs`. Sums and selections are folds; `FoldedUp` turns a fold into a
function of the number of entries folded, of which facts are proved from one number
to the next (`UpTo`). `IInv` says of every symbol's memory that it holds integers,
keeps to the capacity, and has no factor longer than the returns; `TypeCorrect`
follows. `GateTakesHistory` rests on an inequality (`LastDeviation`): of n numbers
the square of the last one's distance from their mean is at most n - 1 variances.
With `LastZScore`, which carries it through the rounding of quotient and
root, and the order in which a tick enters its own history and is then measured
against it (`TakeInOk`), no rejection comes before the history is long enough. The
theorem takes limits on both sides of 0, as the defaults are: with others the gate
also rejects a history that does not vary, at a z-score of 0.

`NoDirectionAssumed` proves `MirrorImage`. Every series carries a factor of 1 or -1
(`Units`) through the model: covariance and z-score turn with it, variance and
absolute correlation do not (`CovarianceOfTimes`, `ZScoreOfTimes`), so that one
turned input gives the turned row or the same rejection (`FactorTurned`). Rows are
ordered by absolute correlation and index, each rank is that of exactly one row
(`RankedRows`), and a turned table is ranked alike (`SameRanks`); so the weights are
the same, and every contribution turns with the returns alone (`RowsTurned`,
`WeighedTurned`). It needs quotients and roots that round both signs alike, as the
model's do. `Answered` ties the signal in hand to the memory it was made of.

`SignalsAreOfTruePairs` proves `SignalOfTruePairs`, which compares the signal with
one made of the whole past. Its invariant is a theorem of its own,
`MemoryIsOfTicks`: each history is the end, as long as the capacity, of what the
ticks since the last start say (`Recalls`). One more tick keeps it so
(`TakeInRemembers`): pushing onto the end of a sequence and cutting gives the end of
the longer sequence (`PushCappedRecent`), and a factor that is missing adds to the
returns and not to its own history (`PairsStep`), which is why the invariant says of
a factor only what the pairs that have it say. The model looks at the last entries
of both series, as many as the shorter one has and the window allows; if none of
those ticks lacked the factor, the returns that follow it and all the returns end
alike (`KeptEnd`, `ReturnsWithoutGap`). Hence every row, rank and contribution is
the same (`TrueRow`, `SameAnswers`). Only the predicted return may differ, which is
scaled by more returns than the window holds, and the property leaves it out. The
proof also found that a min_history of 0 has to be told apart: a factor without a
pair has no history in the code, and does not count.

Only model-checked is liveness under fairness, which is out of the prover's reach:
`EveryRecordCommitted`, `EveryOrderDecided`, `EveryRecordSettled`,
`EveryCandlePublished`, `EveryRecordAnswered` and `EveryOrderTraded`. Every
invariant and every other action property that a passing run checks is also a
theorem.

## 5. Where code and documents disagree

`PROJECT.json` lists them under `findings`. Two have a run of their own: duplicate
fills after a restart, and the MACD bit on a vector of zeros. The others are read
off the code while it was translated. Those a reader should know first:

- a cancel bears the id of its order and is dropped by the router's dedup cache
  for an hour, while the gateway answers ok (`CancelFollowsCreate` states it);
- strategy_engine publishes to TOPIC_ORDERS_APPROVED, past risk_guard;
- `paper_trader` and `execution_router` both answer every approved order;
- `orders.exchange_order_id` is TEXT and `OrderRow` decodes an integer: listing,
  reading and cancelling an order the router has written fails;
- `order_executor` and the candle insert name columns their tables do not have;
- the guard forwards when Redis cannot be asked, and may decide an order twice;
- no producer of orders or reports is idempotent, which docs/topics.md asks for;
- feature_engine reads its topic from another variable than the one compose sets,
  so no service sees its vectors;
- the leverage gate compares the limit with itself; `cancel_all` misses partially
  filled orders; `DlqConfig.enabled` is never read;
- a factor missing from one tick of signal_engine is paired with the wrong returns
  until the window has passed the gap, and its volatility history mixes two
  quantities.

## 6. Not modelled

- Raw market data workers: their tasks share three atomic counters, each moved by
  one operation, and nothing in the repository reads their topics.
- mc_snapshot: polls a public service every minute and keeps nothing.
- ai_predictor and the Python libraries: a model in floating point whose answers
  do not depend on each other. The unbounded hand-over to its queue is listed as a
  hazard without a property.
- Read routes of the gateway, the dashboard, configuration, logging and protobuf
  keep no state that several steps could get wrong.
- `RateLimiter` of hft_redis has no caller. The token bucket of hft_exchange has
  one caller, the router's loop, which takes one token at a time out of a bucket that
  holds more than one: `acquire` is a short wait, and nothing can go wrong there.
- Heartbeat rows, back-off times, prices (but for the exit triggers), commissions
  and texts.
- Rounding: `ZScoreModel` and `FeatureEngine` say what is computed from what, not
  how far a floating-point result is from the exact one.

What could follow, in this order: the rejections of risk_guard on TOPIC_FILLS beside
the reports of both consumers; the token bucket with several callers, should a service
get a second one.
