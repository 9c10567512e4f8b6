------------------------------ MODULE FillPath ------------------------------
(***************************************************************************)
(* strategy_engine, paper_trader and order_executor around the topics      *)
(* TOPIC_ORDERS_APPROVED and TOPIC_FILLS: the loop that emits orders and   *)
(* logs its decisions, the simulation that fills every approved command,   *)
(* and the consumer that writes each report through the repositories of    *)
(* hft_store in one transaction.  execution_router answers the same        *)
(* commands on the same topic; risk_guard forwards the commands of others. *)
(*                                                                         *)
(* Both consumers take a record, work on it, and take the next: librdkafka *)
(* commits behind their backs, on a timer.                                 *)
(***************************************************************************)
EXTENDS Integers, Sequences, FiniteSetsExt

CONSTANTS
    Buys,           \* MANUAL_SIDE is not SELL
    Qty,            \* the quantity of an order, in units of the smallest fill
    MaxCommands,    \* bound: records on TOPIC_ORDERS_APPROVED
    MaxFills,       \* bound: records on TOPIC_FILLS
    MaxRuns,        \* bound: times strategy_engine is started
    MaxFaults       \* bound: calls that fail and processes that crash

ASSUME FillAssumption ==
    /\ Buys \in BOOLEAN
    /\ Qty \in Nat \ {0, 1}
    /\ MaxCommands \in Nat /\ MaxFills \in Nat /\ MaxRuns \in Nat
    /\ MaxFaults \in Nat

Consumers == {"paper_trader", "order_executor"}

VARIABLES
    emit_once,  \* EMIT_ONCE
    logging,    \* DECISION_LOG_ENABLED
    runs,       \* starts of strategy_engine
    unlogged,   \* orders it published and then ended without a log of them
    strategy,   \* where its loop is: off, emit, log
    order,      \* the id of the order it has published last
    decisions,  \* table decision_logs
    commands,   \* TOPIC_ORDERS_APPROVED
    fills,      \* TOPIC_FILLS
    routed,     \* the reports execution_router has published of each command
    offset,     \* records handed to each consumer
    committed,  \* the committed offset of each group
    busy,       \* the consumer works on the record it took last
    up,         \* the process runs
    fits,       \* the tables have the columns and keys that hft_store names
    rows,       \* table orders
    trades,     \* table trades
    position,   \* the one row of table positions
    stored,     \* the reports whose transaction has committed, in order
    faults      \* calls that have failed, processes that have crashed

strategyVars == <<emit_once, logging, runs, unlogged, strategy, order, decisions>>
consumerVars == <<offset, committed, busy, up>>
tableVars    == <<fits, rows, trades, position, stored>>
vars == <<strategyVars, commands, fills, routed, consumerVars, tableVars, faults>>

Fault == faults < MaxFaults /\ faults' = faults + 1
Ids == 1..MaxCommands
NoRow == [status |-> "NONE", ack |-> FALSE, done |-> FALSE]

------------------------------------------------------------------------------
(* strategy_engine.                                                        *)

(* client_order_id: the key holds a trace id that is new in each turn of   *)
(* the loop, so the planner never meets a key again.                       *)
FreshId == Len(commands) + 1

Command(id, action, buy, who) == [id |-> id, action |-> action, buy |-> buy, by |-> who]

StartStrategy ==
    /\ strategy = "off" /\ runs < MaxRuns
    /\ strategy' = "emit"
    /\ runs' = runs + 1
    /\ UNCHANGED <<emit_once, logging, unlogged, order, decisions, commands, fills,
                   routed, consumerVars, tableVars, faults>>

(* The end of a turn. *)
NextTurn == IF emit_once THEN "off" ELSE "emit"

SendOrder ==
    /\ commands' = Append(commands, Command(FreshId, "CREATE", Buys, "strategy_engine"))
    /\ order' = FreshId

(* build_manual_order and publish_order_command. *)
PublishOrder ==
    /\ strategy = "emit" /\ Len(commands) < MaxCommands
    /\ SendOrder
    /\ strategy' = IF logging THEN "log" ELSE NextTurn
    /\ UNCHANGED <<emit_once, logging, runs, unlogged, decisions, fills, routed,
                   consumerVars, tableVars, faults>>

(* The send fails, or the broker's answer is lost: main returns the error. *)
PublishOrderFailed ==
    /\ Fault
    /\ strategy = "emit" /\ Len(commands) < MaxCommands
    /\ \/ SendOrder /\ unlogged' = unlogged + 1
       \/ UNCHANGED <<commands, order, unlogged>>
    /\ strategy' = "off"
    /\ UNCHANGED <<emit_once, logging, runs, decisions, fills, routed, consumerVars,
                   tableVars>>

(* write_enter; the error of write_strat_log is ignored. *)
WriteDecision ==
    /\ strategy = "log"
    /\ decisions' = decisions \cup {order}
    /\ strategy' = NextTurn
    /\ UNCHANGED <<emit_once, logging, runs, unlogged, order, commands, fills, routed,
                   consumerVars, tableVars, faults>>

(* Fault model: the error of write_enter is logged and no more.            *)
WriteDecisionIgnored ==
    /\ Fault
    /\ strategy = "log"
    /\ strategy' = NextTurn
    /\ UNCHANGED <<emit_once, logging, runs, unlogged, order, decisions, commands,
                   fills, routed, consumerVars, tableVars>>

(* An error of write_enter ends the process. *)
WriteDecisionFailed ==
    /\ Fault
    /\ strategy = "log"
    /\ \/ decisions' = decisions \cup {order} /\ unlogged' = unlogged
       \/ decisions' = decisions /\ unlogged' = unlogged + 1
    /\ strategy' = "off"
    /\ UNCHANGED <<emit_once, logging, runs, order, commands, fills, routed,
                   consumerVars, tableVars>>

(* risk_guard forwards an order of another client, or a CANCEL; its own    *)
(* rejections, which go to TOPIC_FILLS too, are left out.                  *)
ForwardCommand ==
    /\ Len(commands) < MaxCommands
    /\ \/ commands' = Append(commands, Command(FreshId, "CREATE", ~Buys, "risk_guard"))
       \/ \E i \in 1..Len(commands) :
              commands' = Append(commands,
                              Command(commands[i].id, "CANCEL", FALSE, "risk_guard"))
    /\ UNCHANGED <<strategyVars, fills, routed, consumerVars, tableVars, faults>>

------------------------------------------------------------------------------
(* Reports.                                                                *)

(* qty is signed: hft_store takes every side but BUY for a sale.           *)
Fill(id, fill, status, qty, buy) ==
    [id |-> id, fill |-> fill, status |-> status, qty |-> IF buy THEN qty ELSE -qty]

Part == IF 4 * Qty < 10 THEN 1 ELSE (4 * Qty) \div 10

(* execution_router, in PAPER mode: the id of each report is made of the   *)
(* order's, so an order that is handled again has the same fills again.    *)
(* Which commands its cache drops is left open here.                       *)
RouterReports(c) ==
    IF c.action = "CANCEL" THEN <<Fill(c.id, <<"ack", c.id>>, "CANCELED", 0, FALSE)>>
    ELSE <<Fill(c.id, <<"ack", c.id>>, "NEW", 0, c.buy),
           Fill(c.id, <<"p1", c.id>>, "PARTIALLY_FILLED", Part, c.buy),
           Fill(c.id, <<"p2", c.id>>, "FILLED", Qty - Part, c.buy)>>

RouterPublishes(i) ==
    /\ Len(fills) < MaxFills
    /\ routed[i] < Len(RouterReports(commands[i]))
    /\ fills' = Append(fills, RouterReports(commands[i])[routed[i] + 1])
    /\ routed' = [routed EXCEPT ![i] = @ + 1]
    /\ UNCHANGED <<strategyVars, commands, consumerVars, tableVars, faults>>

(* It crashes and gets the command again, having forgotten it. *)
RouterForgets(i) ==
    /\ Fault
    /\ routed[i] > 0
    /\ routed' = [routed EXCEPT ![i] = 0]
    /\ UNCHANGED <<strategyVars, commands, fills, consumerVars, tableVars>>

(* paper_trader: one FILLED report under an id of its own, whatever the    *)
(* action of the command; a CANCEL has quantity 0 and no side.             *)
PaperReport(c) ==
    Fill(c.id, <<"paper", Len(fills) + 1>>, "FILLED",
         IF c.action = "CANCEL" THEN 0 ELSE Qty, c.buy)

------------------------------------------------------------------------------
(* The two consumers.                                                      *)

Topic(c) == IF c = "paper_trader" THEN commands ELSE fills

Receive(c) ==
    /\ up[c] /\ ~busy[c]
    /\ offset[c] < Len(Topic(c))
    /\ offset' = [offset EXCEPT ![c] = @ + 1]
    /\ busy' = [busy EXCEPT ![c] = TRUE]
    /\ UNCHANGED <<strategyVars, commands, fills, routed, committed, up, tableVars, faults>>

Finish(c) == busy[c] /\ busy' = [busy EXCEPT ![c] = FALSE]

(* The simulated fill, after its latency. *)
PublishFill ==
    /\ Len(fills) < MaxFills
    /\ Finish("paper_trader")
    /\ fills' = Append(fills, PaperReport(commands[offset["paper_trader"]]))
    /\ UNCHANGED <<strategyVars, commands, routed, offset, committed, up, tableVars, faults>>

(* The error is logged, and the next command taken. *)
PublishFillFailed ==
    /\ Fault
    /\ Len(fills) < MaxFills
    /\ Finish("paper_trader")
    /\ fills' \in {fills, Append(fills, PaperReport(commands[offset["paper_trader"]]))}
    /\ UNCHANGED <<strategyVars, commands, routed, offset, committed, up, tableVars>>

(* upsert_order: the status is overwritten, the two times are kept.        *)
UpsertOrder(r) ==
    rows' = [rows EXCEPT ![r.id] =
                [status |-> r.status,
                 ack    |-> @.ack \/ r.status \in {"NEW", "PARTIALLY_FILLED"},
                 done   |-> @.done \/ r.status \in {"FILLED", "CANCELED", "REJECTED", "EXPIRED"}]]

(* Fault model: the conflict is on the order.                              *)
InsertTradeByOrder(r) ==
    trades' = IF \E t \in trades : t.id = r.id THEN trades
              ELSE trades \cup {[fill |-> r.fill, id |-> r.id, qty |-> r.qty]}

(* ON CONFLICT (fill_id) DO NOTHING *)
InsertTrade(r) ==
    trades' = IF \E t \in trades : t.fill = r.fill THEN trades
              ELSE trades \cup {[fill |-> r.fill, id |-> r.id, qty |-> r.qty]}

UpdatePosition(r) == position' = position + r.qty

(* Fault model: only partial fills are taken for fills.                    *)
IsPartialFill(r) == r.status = "PARTIALLY_FILLED"

IsFill(r) == r.status \in {"PARTIALLY_FILLED", "FILLED"}

Report == fills[offset["order_executor"]]

(* The transaction of persist_report; order_events only grows beside it.   *)
Transaction(r) ==
    /\ fits
    /\ UpsertOrder(r)
    /\ IF IsFill(r) THEN InsertTrade(r) /\ UpdatePosition(r)
       ELSE UNCHANGED <<trades, position>>
    /\ stored' = Append(stored, r)
    /\ UNCHANGED fits

Persist ==
    /\ Finish("order_executor")
    /\ Transaction(Report)
    /\ UNCHANGED <<strategyVars, commands, fills, routed, offset, committed, up, faults>>

(* The transaction rolls back, or commits and the answer is lost: the      *)
(* error is logged, and the next report taken.                             *)
PersistFailed ==
    /\ Fault
    /\ Finish("order_executor")
    /\ Transaction(Report) \/ UNCHANGED tableVars
    /\ UNCHANGED <<strategyVars, commands, fills, routed, offset, committed, up>>

(* On tables that lack a column the statement names, it always rolls back. *)
PersistRejected ==
    /\ ~fits
    /\ Finish("order_executor")
    /\ UNCHANGED <<strategyVars, commands, fills, routed, offset, committed, up, tableVars, faults>>

(* Fault model: the next offset is taken for the last one, and counted up. *)
CommitPastEnd(c) ==
    /\ up[c] /\ committed[c] # offset[c]
    /\ committed' = [committed EXCEPT ![c] = offset[c] + 1]
    /\ UNCHANGED <<strategyVars, commands, fills, routed, offset, busy, up, tableVars, faults>>

AutoCommit(c) ==
    /\ up[c] /\ committed[c] # offset[c]
    /\ committed' = [committed EXCEPT ![c] = offset[c]]
    /\ UNCHANGED <<strategyVars, commands, fills, routed, offset, busy, up, tableVars, faults>>

Crash(c) ==
    /\ Fault
    /\ up[c]
    /\ up' = [up EXCEPT ![c] = FALSE]
    /\ busy' = [busy EXCEPT ![c] = FALSE]
    /\ UNCHANGED <<strategyVars, commands, fills, routed, offset, committed, tableVars>>

Restart(c) ==
    /\ ~up[c]
    /\ up' = [up EXCEPT ![c] = TRUE]
    /\ offset' = [offset EXCEPT ![c] = committed[c]]
    /\ UNCHANGED <<strategyVars, commands, fills, routed, committed, busy, tableVars, faults>>

------------------------------------------------------------------------------
Init ==
    /\ emit_once \in BOOLEAN /\ logging \in BOOLEAN /\ fits \in BOOLEAN
    /\ runs = 0 /\ unlogged = 0 /\ strategy = "off" /\ order = 0 /\ decisions = {}
    /\ commands = <<>> /\ fills = <<>> /\ routed = [i \in Ids |-> 0]
    /\ offset = [c \in Consumers |-> 0] /\ committed = [c \in Consumers |-> 0]
    /\ busy = [c \in Consumers |-> FALSE] /\ up = [c \in Consumers |-> TRUE]
    /\ rows = [i \in Ids |-> NoRow]
    /\ trades = {} /\ position = 0 /\ stored = <<>>
    /\ faults = 0

Strategy ==
    \/ StartStrategy
    \/ PublishOrder \/ PublishOrderFailed
    \/ WriteDecision \/ WriteDecisionFailed

Router == \E i \in 1..Len(commands) : RouterPublishes(i) \/ RouterForgets(i)

Trader == Receive("paper_trader") \/ PublishFill \/ PublishFillFailed

Executor == Receive("order_executor") \/ Persist \/ PersistFailed \/ PersistRejected

Next ==
    \/ Strategy \/ ForwardCommand \/ Router \/ Trader \/ Executor
    \/ \E c \in Consumers : AutoCommit(c) \/ Crash(c) \/ Restart(c)

Spec == Init /\ [][Next]_vars

(* Each consumer takes what is there and waits for no other process; the   *)
(* containers restart.                                                     *)
Fairness == WF_vars(Trader) /\ WF_vars(Executor) /\ \A c \in Consumers : WF_vars(Restart(c))
FairSpec == Spec /\ Fairness

------------------------------------------------------------------------------
StrategyOrders == {i \in 1..Len(commands) : commands[i].by = "strategy_engine"}

(* Every variable holds a value of its kind, and no consumer is ahead of   *)
(* its topic.                                                              *)
TypeOK ==
    /\ emit_once \in BOOLEAN /\ logging \in BOOLEAN /\ fits \in BOOLEAN
    /\ strategy \in {"off", "emit", "log"}
    /\ runs \in Nat /\ unlogged \in Nat /\ order \in 0..Len(commands)
    /\ decisions \subseteq StrategyOrders
    /\ \A c \in Consumers : committed[c] \in 0..Len(Topic(c)) /\ offset[c] \in 0..Len(Topic(c))
    /\ busy \in [Consumers -> BOOLEAN] /\ up \in [Consumers -> BOOLEAN]
    /\ routed \in [Ids -> 0..3]
    /\ \A i \in Ids : rows[i] # NoRow => rows[i].ack \/ rows[i].done
    /\ position \in Int /\ faults \in Nat

(* update_position moves the position whether or not insert_trade found    *)
(* the fill new (positions_repo.rs:22, fills_repo.rs:37): they agree as    *)
(* long as no fill was stored twice - neither re-read by order_executor    *)
(* nor published again by a router that had forgotten the order.           *)
FillsStored == {i \in 1..Len(stored) : IsFill(stored[i])}
PositionMatchesTrades ==
    (\A i, j \in FillsStored : stored[i].fill = stored[j].fill => i = j) =>
        position = MapThenSumSet(LAMBDA t : t.qty, trades)

(* main emits one order per start under EMIT_ONCE, and stops at the first  *)
(* error of the decision log: an order without its decision row is the     *)
(* last of a run that failed, or the one being logged.                     *)
OrdersAreLogged ==
    /\ emit_once => Cardinality(StrategyOrders) <= runs
    /\ unlogged <= faults
    /\ logging => Cardinality(StrategyOrders \ decisions) =
                      unlogged + (IF strategy = "log" THEN 1 ELSE 0)

(* The orders that were created, and those of which a trade tells.         *)
CreatedOrders == {i \in 1..Len(commands) : commands[i].action = "CREATE"}
TradedOrders == {t.id : t \in {t \in trades : t.qty # 0}}

(* Every CREATE on TOPIC_ORDERS_APPROVED becomes a trade in the end, but   *)
(* for one for each call that failed or process that crashed, and unless   *)
(* the tables refuse the statement: an error is logged and passed, and no  *)
(* report holds back the next.                                             *)
EveryOrderTraded ==
    \A n \in Ids :
        (Cardinality(CreatedOrders) >= n) ~>
            \/ Cardinality(TradedOrders) + faults >= n
            \/ ~fits \/ Len(fills) = MaxFills
=============================================================================
