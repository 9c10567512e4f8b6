--------------------------- MODULE ExecutionRouter ---------------------------
(***************************************************************************)
(* services/execution_router: the process that consumes approved order     *)
(* commands, drops the duplicates it remembers, executes each command in   *)
(* PAPER or REAL mode, writes every execution report to Postgres in one    *)
(* transaction and then publishes it to TOPIC_FILLS.                       *)
(*                                                                         *)
(* Kafka hands a record over at least once while the process lives, and    *)
(* commits the offset of a record it has handed over, processed or not     *)
(* (enable.auto.commit); the dedup cache lives in memory only.             *)
(*                                                                         *)
(* Quantities are integers in units of 0.0001, the smallest partial fill.  *)
(* The position of a handling in handled stands for every now_ns() read    *)
(* while it runs: a later handling has a later event time.                 *)
(***************************************************************************)
EXTENDS Integers, Sequences, FiniteSetsExt

CONSTANTS
    Orders,             \* client order ids
    Symbols,            \* account and symbol pairs: the key of a position
    Details,            \* the fields of each order's CREATE command
    NoId,               \* stands for a record that does not decode, or has an empty id
    Mode,               \* EXECUTION_MODE: "PAPER" or "REAL"
    Exchange,           \* EXCHANGE: "BINANCE", "OKX" or another name
    HasClient,          \* REAL BINANCE with an API key and a secret
    TTL,                \* time a dedup entry is trusted for (3600 s in the code)
    CleanupThreshold,   \* entries from which the cache is swept (10 000 in the code)
    Submissions,        \* bound: the commands upstream submits
    MaxLog,             \* bound: records on the topic
    MaxTime,            \* bound: the clock
    MaxCrashes,         \* bound: crashes of the process
    MaxFaults           \* bound: calls to Postgres, Kafka or the exchange that
                        \* fail, or whose answer is lost

OrderDetails ==
    [symbol: Symbols, side: {"BUY", "SELL"}, type: {"MARKET", "LIMIT"},
     qty: Nat, price: Nat, reduceOnly: BOOLEAN, stop: Nat, tp: Nat,
     exitKind: {"NONE", "STOP_LOSS", "TAKE_PROFIT"}]

ASSUME OrdersAssumption ==
    /\ Details \in [Orders -> OrderDetails]
    /\ NoId \notin Orders

Commands == [o: Orders, action: {"CREATE", "CANCEL"}]
                \cup {[o |-> NoId, action |-> "CREATE"]}

ASSUME RouterAssumption ==
    /\ Submissions \subseteq Commands
    /\ Mode \in {"PAPER", "REAL"}
    /\ HasClient \in BOOLEAN
    /\ TTL \in Nat
    /\ CleanupThreshold \in Nat
    /\ MaxLog \in Nat /\ MaxTime \in Nat /\ MaxCrashes \in Nat
    /\ MaxFaults \in Nat

VARIABLES
    log,        \* TOPIC_ORDERS_APPROVED: every record ever produced
    offset,     \* records handed to the router, the offset librdkafka stores
    committed,  \* the group's committed offset
    up,         \* the process runs
    epoch,      \* incarnations of the process so far, less one
    faults,     \* calls that have failed, or lost an answer, so far
    now,        \* the clock Instant::now() reads
    dedup,      \* DedupCache.entries: when the id was inserted
    handled,    \* every call of handle_order, in order
    stage,      \* where the current call is: idle, exchange, unanswered, persist,
                \* publish
    todo,       \* the reports the current call has yet to finish
    orders,     \* table orders
    events,     \* tables order_events and order_training_events, one row each
    trades,     \* table trades
    positions,  \* table positions
    exitTags,   \* table order_exit_tag_snapshots
    placed,     \* handlings whose order the exchange holds
    topic       \* TOPIC_FILLS

queueVars == <<log, offset, committed>>
procVars  == <<up, epoch, now, dedup>>
callVars  == <<handled, stage, todo>>
dbVars    == <<orders, events, trades, positions, exitTags>>
vars == <<queueVars, procVars, callVars, dbVars, placed, topic, faults>>

------------------------------------------------------------------------------
(* Commands, reports and rows.                                             *)

Statuses == {"NEW", "PARTIALLY_FILLED", "FILLED", "CANCELED", "REJECTED"}
Triggers == {"NONE", "STOP_LOSS", "TAKE_PROFIT"}

Reports == [o: Orders, n: Nat, seq: Nat, status: Statuses, last: Nat, cum: Nat]

NotCached == -1
NoRow == [status |-> "NONE", filled |-> 0, at |-> 0]
Rows == [status: Statuses, filled: Nat, at: Nat] \cup {NoRow}

Split(q) == LET p == (4 * q) \div 10 IN IF p > 1 THEN p ELSE 1

Report(o, n, seq, status, last, cum) ==
    [o |-> o, n |-> n, seq |-> seq, status |-> status, last |-> last, cum |-> cum]

Reject(o, n) == Report(o, n, 0, "REJECTED", 0, 0)
Cancel(o, n) == Report(o, n, 0, "CANCELED", 0, 0)
Ack(o, n)    == Report(o, n, 0, "NEW", 0, 0)

(* What the simulation answers to a CREATE: an acknowledgement, then one   *)
(* fill or two.                                                            *)
BuildReports(o, n) ==
    LET q == Details[o].qty
        p == Split(q)
    IN  IF q = 0 THEN <<Reject(o, n)>>
        ELSE IF p < q
        THEN <<Ack(o, n), Report(o, n, 1, "PARTIALLY_FILLED", p, p),
               Report(o, n, 2, "FILLED", q - p, q)>>
        ELSE <<Ack(o, n), Report(o, n, 1, "FILLED", q, q)>>

IsFill(r) == r.status \in {"PARTIALLY_FILLED", "FILLED"} /\ r.last > 0

------------------------------------------------------------------------------
(* DedupCache.                                                             *)

(* Fault model: the sweep drops live entries with the expired ones.        *)
SweepAll ==
    IF Cardinality({o \in Orders : dedup[o] # NotCached}) < CleanupThreshold
    THEN dedup ELSE [o \in Orders |-> NotCached]

(* cleanup_if_needed: expired entries go, once the cache is large.         *)
Cleaned ==
    IF Cardinality({o \in Orders : dedup[o] # NotCached}) < CleanupThreshold
    THEN dedup
    ELSE [o \in Orders |-> IF now - dedup[o] <= TTL THEN dedup[o] ELSE NotCached]

SeenRecently(o) == Cleaned[o] # NotCached /\ now - Cleaned[o] <= TTL

------------------------------------------------------------------------------
(* DbWriter.                                                               *)

(* detect_exit_trigger: an explicit exit kind wins; otherwise the fill     *)
(* price of a reduce-only order is compared with its levels. Only a CREATE *)
(* carries decision metadata, and a report that is no fill has price 0.    *)
FillPrice(o) == IF Details[o].price > 0 THEN Details[o].price ELSE 62000

PriceTrigger(d, px) ==
    LET reached(level) == IF d.side = "SELL" THEN px >= level ELSE px <= level
        passed(level)  == IF d.side = "SELL" THEN px <= level ELSE px >= level
    IN  IF reached(d.tp) THEN "TAKE_PROFIT"
        ELSE IF passed(d.stop) THEN "STOP_LOSS" ELSE "NONE"

ExitTrigger(action, r) ==
    LET d == Details[r.o] IN
    IF action = "CANCEL" THEN "NONE"
    ELSE IF d.exitKind # "NONE" THEN d.exitKind
    ELSE IF ~d.reduceOnly \/ d.tp = 0 \/ d.stop = 0 THEN "NONE"
    ELSE PriceTrigger(d, IF IsFill(r) THEN FillPrice(r.o) ELSE 0)

(* outcome_from_exit: the training label of the report. *)
Outcome(trigger) ==
    CASE trigger = "TAKE_PROFIT" -> "WIN"
      [] trigger = "STOP_LOSS"   -> "LOSS"
      [] OTHER                   -> "UNKNOWN"

Event(r, trigger) == [report |-> r, label |-> Outcome(trigger)]

Trade(r) == [fill |-> <<r.o, r.seq>>, time |-> r.n, qty |-> r.last]

UpsertOrder(r) ==
    orders' = [orders EXCEPT ![r.o] = [status |-> r.status, filled |-> r.cum, at |-> r.n]]

(* Fault model: the conflict is on fill_id alone.                          *)
InsertFillById(r) ==
    trades' = IF \E t \in trades : t.fill = <<r.o, r.seq>>
              THEN trades ELSE trades \cup {Trade(r)}

(* ON CONFLICT (fill_id, trade_time) DO NOTHING *)
InsertFill(r) ==
    trades' = IF \E t \in trades : t.fill = <<r.o, r.seq>> /\ t.time = r.n
              THEN trades ELSE trades \cup {Trade(r)}

SignedQty(r) == IF Details[r.o].side = "BUY" THEN r.last ELSE -r.last

(* Fault model: the position moves by the cumulative quantity.             *)
UpdatePositionByTotal(r) ==
    positions' = [positions EXCEPT ![Details[r.o].symbol] =
                      @ + (IF Details[r.o].side = "BUY" THEN r.cum ELSE -r.cum)]

UpdatePosition(r) ==
    positions' = [positions EXCEPT ![Details[r.o].symbol] = @ + SignedQty(r)]

(* persist_execution, once its transaction commits. *)
Write(action, r) ==
    LET trigger == ExitTrigger(action, r) IN
    /\ UpsertOrder(r)
    /\ events' = Append(events, Event(r, trigger))
    /\ IF IsFill(r)
       THEN /\ InsertFill(r)
            /\ UpdatePosition(r)
            /\ exitTags' = IF trigger = "NONE" THEN exitTags
                           ELSE Append(exitTags, [o |-> r.o, at |-> r.n, trigger |-> trigger])
       ELSE UNCHANGED <<trades, positions, exitTags>>

------------------------------------------------------------------------------
(* The consumer loop and handle_order.                                     *)

Init ==
    /\ log = <<>> /\ offset = 0 /\ committed = 0
    /\ up = TRUE /\ epoch = 0 /\ now = 0
    /\ dedup = [o \in Orders |-> NotCached]
    /\ handled = <<>> /\ stage = "idle" /\ todo = <<>>
    /\ orders = [o \in Orders |-> NoRow]
    /\ events = <<>> /\ trades = {} /\ exitTags = <<>>
    /\ positions = [s \in Symbols |-> 0]
    /\ placed = {} /\ topic = <<>> /\ faults = 0

(* Upstream: risk_guard forwards a command, perhaps not for the first time. *)
Submit(c) ==
    /\ Len(log) < MaxLog
    /\ log' = Append(log, c)
    /\ UNCHANGED <<offset, committed, procVars, callVars, dbVars, placed, topic, faults>>

Tick ==
    /\ now < MaxTime
    /\ now' = now + 1
    /\ UNCHANGED <<queueVars, up, epoch, dedup, callVars, dbVars, placed, topic, faults>>

Ready == up /\ stage = "idle" /\ offset < Len(log)
Command == log[offset + 1]

SkipRecord ==
    /\ Ready
    /\ Command.o = NoId
    /\ offset' = offset + 1
    /\ UNCHANGED <<log, committed, procVars, callVars, dbVars, placed, topic, faults>>

(* Fault model: a dropped duplicate is not consumed.                       *)
DropWithoutAdvance ==
    /\ Ready
    /\ Command.o # NoId
    /\ SeenRecently(Command.o)
    /\ dedup' = Cleaned
    /\ UNCHANGED <<queueVars, up, epoch, now, callVars, dbVars, placed, topic, faults>>

DropDuplicate ==
    /\ Ready
    /\ Command.o # NoId
    /\ SeenRecently(Command.o)
    /\ dedup' = Cleaned
    /\ offset' = offset + 1
    /\ UNCHANGED <<log, committed, up, epoch, now, callVars, dbVars, placed, topic, faults>>

(* A CANCEL command has type 0: in REAL mode it is not a MARKET order.     *)
CallsExchange(c) ==
    /\ Mode = "REAL" /\ Exchange = "BINANCE" /\ HasClient
    /\ c.action = "CREATE" /\ Details[c.o].type = "MARKET"

(* The reports known before any call: PAPER simulates, REAL rejects what   *)
(* it cannot route.                                                        *)
FirstReports(c, n) ==
    IF CallsExchange(c) THEN <<>>
    ELSE IF Mode = "REAL" THEN <<Reject(c.o, n)>>
    ELSE IF c.action = "CANCEL" THEN <<Cancel(c.o, n)>>
    ELSE BuildReports(c.o, n)

(* Fault model: the id is looked up and never inserted.                    *)
RememberNothing(o) == dedup' = Cleaned

(* The entry is made before the command is handled, and stays whatever     *)
(* becomes of it.                                                          *)
Remember(o) == dedup' = [Cleaned EXCEPT ![o] = now]

Accept ==
    /\ Ready
    /\ Command.o # NoId
    /\ ~SeenRecently(Command.o)
    /\ Remember(Command.o)
    /\ offset' = offset + 1
    /\ handled' = Append(handled, [o |-> Command.o, action |-> Command.action,
                                   at |-> now, epoch |-> epoch])
    /\ todo' = FirstReports(Command, Len(handled) + 1)
    /\ stage' = IF CallsExchange(Command) THEN "exchange" ELSE "persist"
    /\ UNCHANGED <<log, committed, up, epoch, now, dbVars, placed, topic, faults>>

(* Any call may fail; the bound keeps the model small. *)
Fault == faults < MaxFaults /\ faults' = faults + 1

Current == handled[Len(handled)]

(* place_order returns an order id. *)
PlaceAcknowledged ==
    /\ stage = "exchange"
    /\ placed' = placed \cup {Len(handled)}
    /\ todo' = <<Ack(Current.o, Len(handled))>>
    /\ stage' = "persist"
    /\ UNCHANGED <<queueVars, procVars, handled, dbVars, topic, faults>>

(* Fault model: a failed placement is forgotten, to be tried again.        *)
PlaceFailedForgets ==
    /\ Fault
    /\ stage = "exchange"
    /\ placed' \in {placed, placed \cup {Len(handled)}}
    /\ dedup' = [dedup EXCEPT ![Current.o] = NotCached]
    /\ todo' = <<Reject(Current.o, Len(handled))>>
    /\ stage' = "persist"
    /\ UNCHANGED <<queueVars, up, epoch, now, handled, dbVars, topic>>

(* place_order returns an error: the exchange refused the order, or took   *)
(* it and the answer was lost.                                             *)
PlaceFailed ==
    /\ Fault
    /\ stage = "exchange"
    /\ placed' \in {placed, placed \cup {Len(handled)}}
    /\ todo' = <<Reject(Current.o, Len(handled))>>
    /\ stage' = "persist"
    /\ UNCHANGED <<queueVars, procVars, handled, dbVars, topic>>

(* The exchange never answers. place_order sets no time limit on the       *)
(* request, nor handle_order on place_order: the loop stays in its await,  *)
(* and only the end of the process ends it.                                *)
PlaceUnanswered ==
    /\ Fault
    /\ stage = "exchange"
    /\ placed' \in {placed, placed \cup {Len(handled)}}
    /\ stage' = "unanswered"
    /\ UNCHANGED <<queueVars, procVars, handled, todo, dbVars, topic>>

PersistReport ==
    /\ stage = "persist"
    /\ Write(Current.action, Head(todo))
    /\ stage' = "publish"
    /\ UNCHANGED <<queueVars, procVars, handled, todo, placed, topic, faults>>

(* An error ends handle_order: its remaining reports are dropped.          *)
GiveUp == stage' = "idle" /\ todo' = <<>> /\ handled' = handled

(* The transaction fails, or commits and the answer is lost. *)
PersistFailed ==
    /\ Fault
    /\ stage = "persist"
    /\ Write(Current.action, Head(todo)) \/ UNCHANGED dbVars
    /\ GiveUp
    /\ UNCHANGED <<queueVars, procVars, placed, topic>>

PublishReport ==
    /\ stage = "publish"
    /\ topic' = Append(topic, Head(todo))
    /\ todo' = Tail(todo)
    /\ stage' = IF Len(todo) = 1 THEN "idle" ELSE "persist"
    /\ UNCHANGED <<queueVars, procVars, handled, dbVars, placed, faults>>

(* The broker has the report, the acknowledgement is lost, and librdkafka  *)
(* sends it again while publish_report awaits: the producer is not         *)
(* idempotent.                                                             *)
Resend ==
    /\ Fault
    /\ stage = "publish"
    /\ topic' = Append(topic, Head(todo))
    /\ UNCHANGED <<queueVars, procVars, callVars, dbVars, placed>>

(* Fault model: the error of publish_report is logged and no more.         *)
PublishErrorIgnored ==
    /\ Fault
    /\ stage = "publish"
    /\ todo' = Tail(todo)
    /\ stage' = IF Len(todo) = 1 THEN "idle" ELSE "persist"
    /\ UNCHANGED <<queueVars, procVars, handled, dbVars, placed, topic>>

(* The send fails, or the broker has the report and the answer is lost.    *)
PublishFailed ==
    /\ Fault
    /\ stage = "publish"
    /\ topic' \in {topic, Append(topic, Head(todo))}
    /\ GiveUp
    /\ UNCHANGED <<queueVars, procVars, dbVars, placed>>

------------------------------------------------------------------------------
(* Offsets, rebalances, crashes.                                           *)

(* Fault model: the next offset is taken for the last one, and counted up. *)
CommitPastEnd ==
    /\ up /\ committed # offset
    /\ committed' = offset + 1
    /\ UNCHANGED <<log, offset, procVars, callVars, dbVars, placed, topic, faults>>

AutoCommit ==
    /\ up /\ committed # offset
    /\ committed' = offset
    /\ UNCHANGED <<log, offset, procVars, callVars, dbVars, placed, topic, faults>>

(* The partition is taken and given back: the records since the last       *)
(* commit are handed over again, to the same cache.                        *)
Rebalance ==
    /\ up /\ offset # committed
    /\ offset' = committed
    /\ UNCHANGED <<log, committed, procVars, callVars, dbVars, placed, topic, faults>>

Crash ==
    /\ up /\ epoch < MaxCrashes
    /\ up' = FALSE
    /\ epoch' = epoch + 1
    /\ dedup' = [o \in Orders |-> NotCached]
    /\ GiveUp
    /\ UNCHANGED <<queueVars, now, dbVars, placed, topic, faults>>

Restart ==
    /\ ~up
    /\ up' = TRUE
    /\ offset' = committed
    /\ UNCHANGED <<log, committed, epoch, now, dedup, callVars, dbVars, placed, topic, faults>>

Receive  == SkipRecord \/ DropDuplicate \/ Accept
Place    == PlaceAcknowledged \/ PlaceFailed
Persist  == PersistReport \/ PersistFailed
Publish  == PublishReport \/ PublishFailed
Process  == Receive \/ Place \/ PlaceUnanswered \/ Persist \/ Publish \/ Resend

Next ==
    \/ \E c \in Submissions : Submit(c)
    \/ Process
    \/ Tick \/ AutoCommit \/ Rebalance \/ Crash \/ Restart

Spec == Init /\ [][Next]_vars

(* The loop awaits and handles one record at a time and never stops by     *)
(* itself. Its sends return, as librdkafka gives one up after              *)
(* message.timeout.ms; its queries are assumed to, with an answer or an    *)
(* error. A call of the exchange need not: no step leads on from           *)
(* PlaceUnanswered. librdkafka commits on a timer, the container restarts. *)
Fairness == WF_vars(Process) /\ SF_vars(AutoCommit) /\ WF_vars(Restart)
FairSpec == Spec /\ Fairness

------------------------------------------------------------------------------
(* Types.                                                                  *)

Handlings == [o: Orders, action: {"CREATE", "CANCEL"}, at: Nat, epoch: Nat]
Labels == {"WIN", "LOSS", "UNKNOWN"}

(* Every variable holds a value of its kind: the columns and enums of the  *)
(* tables of db/postgres, the fields of DedupCache, Kafka offsets.         *)
TypeOK ==
    /\ log \in Seq(Commands) /\ offset \in 0..Len(log) /\ committed \in 0..Len(log)
    /\ up \in BOOLEAN /\ epoch \in Nat /\ now \in Nat /\ faults \in Nat
    /\ dedup \in [Orders -> Nat \cup {NotCached}]
    /\ handled \in Seq(Handlings)
    /\ stage \in {"idle", "exchange", "unanswered", "persist", "publish"}
    /\ todo \in Seq(Reports)
    /\ orders \in [Orders -> Rows]
    /\ events \in Seq([report: Reports, label: Labels])
    /\ trades \subseteq [fill: Orders \X Nat, time: Nat, qty: Nat]
    /\ positions \in [Symbols -> Int]
    /\ exitTags \in Seq([o: Orders, at: Nat, trigger: Triggers])
    /\ placed \subseteq Nat
    /\ topic \in Seq(Reports)

------------------------------------------------------------------------------
(* Safety.                                                                 *)

(* Two handlings of one order lie in different incarnations of the process *)
(* or more than TTL apart.                                                 *)
Apart(m, n) ==
    \/ handled[m].epoch # handled[n].epoch
    \/ handled[n].at - handled[m].at > TTL

(* seen_recently_or_insert guards handle_order: whatever is redelivered,   *)
(* swept from the cache or handed over again after a rebalance, an order   *)
(* is handled a second time only by a process that had to forget it.       *)
HandledOncePerWindow ==
    \A m, n \in 1..Len(handled) :
        m < n /\ handled[m].o = handled[n].o => Apart(m, n)

(* insert_fill_idempotent keys a trade by fill id and event time, so the   *)
(* same fill can be stored twice; only handlings that are Apart do that.   *)
FillsOncePerWindow ==
    \A t, u \in trades : t.fill = u.fill /\ t.time < u.time => Apart(t.time, u.time)

(* place_order sends no idempotency key: what keeps an order from being    *)
(* placed twice is the same cache.                                         *)
PlacedOncePerWindow ==
    \A m, n \in placed :
        m < n /\ handled[m].o = handled[n].o => Apart(m, n)

(* handle_order persists a report before it publishes it: a consumer of    *)
(* TOPIC_FILLS never learns of a fill that Postgres does not hold.         *)
PublishedWasPersisted ==
    \A i \in 1..Len(topic) : \E j \in 1..Len(events) : events[j].report = topic[i]

(* A report that could not be persisted or published ends the call: no     *)
(* later report of the call overtakes it, on the topic or in the table,    *)
(* and none is published that is not in the table.                         *)
NoGapInFills ==
    /\ PublishedWasPersisted
    /\ \A i \in 1..Len(topic) :
           topic[i].seq > 0 => \E j \in 1..(i - 1) :
               topic[j].n = topic[i].n /\ topic[j].seq = topic[i].seq - 1
    /\ \A i \in 1..Len(events) :
           events[i].report.seq > 0 => \E j \in 1..(i - 1) :
               /\ events[j].report.n = events[i].report.n
               /\ events[j].report.seq = events[i].report.seq - 1

(* A row that has reached a final status is changed only by a handling     *)
(* Apart from the one that finished it: within a window no report, cancel  *)
(* or redelivery undoes a FILLED, CANCELED or REJECTED order.              *)
Final == {"FILLED", "CANCELED", "REJECTED"}
FinalStaysFinal ==
    [][\A o \in Orders :
           orders[o].status \in Final /\ orders'[o] # orders[o]
               => Apart(orders[o].at, Len(handled))]_vars

(* AutoCommit may run ahead of handle_order but no committed offset is     *)
(* ever taken back, and every record is committed in the end - or the loop *)
(* waits for ever for an exchange that does not answer, as nothing in      *)
(* place_order or around it keeps it from doing.                           *)
EveryRecordCommitted ==
    \A i \in 1..MaxLog :
        (Len(log) >= i) ~> (committed >= i \/ [](stage = "unanswered"))

QtyOf(S) == MapThenSumSet(LAMBDA t : t.qty, S)

(* update_position adds a fill to the position whether or not the trade    *)
(* row was inserted; the position is the signed sum of the trades because  *)
(* no handling reuses an event time.                                       *)
PositionIsSumOfTrades ==
    \A s \in Symbols :
        LET of(side) == {t \in trades : /\ Details[t.fill[1]].symbol = s
                                        /\ Details[t.fill[1]].side = side}
        IN  positions[s] = QtyOf(of("BUY")) - QtyOf(of("SELL"))

(* filled_qty is overwritten with the cumulative quantity of the report:   *)
(* it equals the trades the last handling to write the row has stored.     *)
FilledMatchesTrades ==
    \A o \in Orders :
        orders[o].filled =
            QtyOf({t \in trades : t.fill[1] = o /\ t.time = orders[o].at})

(* Both readings of the table trades, in every state.                      *)
TablesMatchTrades == PositionIsSumOfTrades /\ FilledMatchesTrades

(* task-plan.md: "Replaying same message does NOT create duplicate DB      *)
(* rows"; the trades of one fill are such rows.                            *)
NoDuplicateFills ==
    \A t, u \in trades : t.fill = u.fill => t = u

------------------------------------------------------------------------------
(* The tables of the router, read as an OrderLedger.                       *)
Ledger == INSTANCE OrderLedger WITH
              status   <- [o \in Orders |-> orders[o].status],
              filled   <- [o \in Orders |-> orders[o].filled],
              position <- positions

(* While the process neither crashes nor runs for longer than TTL, its     *)
(* tables behave as an OrderLedger: duplicates, rebalances and failures    *)
(* of Postgres or Kafka do not show.                                       *)
IsOrderLedger == Ledger!Spec
=============================================================================
