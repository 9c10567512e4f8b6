--------------------------- MODULE FillPathProofs ---------------------------
(***************************************************************************)
(* Theorems about FillPath, for every quantity and every value of the      *)
(* bounds.                                                                 *)
(***************************************************************************)
EXTENDS FillPath, TradeSums

Commands == [id : Nat, action : {"CREATE", "CANCEL"}, buy : BOOLEAN,
             by : {"strategy_engine", "risk_guard"}]
Statuses == {"NEW", "PARTIALLY_FILLED", "FILLED", "CANCELED"}
FillIds  == {"ack", "p1", "p2", "paper"} \X Nat
Reports  == [id : Nat, fill : FillIds, status : Statuses, qty : Int]
Rows     == [status : Statuses \cup {"NONE"}, ack : BOOLEAN, done : BOOLEAN]

(* What moves along the topics, and into the tables.                       *)
FlowInv ==
    /\ commands \in Seq(Commands) /\ Len(commands) <= MaxCommands
    /\ fills \in Seq(Reports) /\ stored \in Seq(Reports)
    /\ rows \in [Ids -> Rows] /\ \A i \in Ids : rows[i] # NoRow => rows[i].ack \/ rows[i].done
    /\ routed \in [Ids -> 0..3]
    /\ position \in Int /\ faults \in Nat /\ fits \in BOOLEAN

(* Who stands where: a consumer that works has been handed a record.       *)
PlaceInv ==
    /\ offset \in [Consumers -> Nat] /\ committed \in [Consumers -> Nat]
    /\ busy \in [Consumers -> BOOLEAN] /\ up \in [Consumers -> BOOLEAN]
    /\ \A c \in Consumers :
           /\ committed[c] <= Len(Topic(c)) /\ offset[c] <= Len(Topic(c))
           /\ busy[c] => up[c] /\ offset[c] > 0

(* The loop of strategy_engine.                                            *)
StrategyInv ==
    /\ emit_once \in BOOLEAN /\ logging \in BOOLEAN
    /\ strategy \in {"off", "emit", "log"}
    /\ runs \in Nat /\ unlogged \in Nat
    /\ order \in 0..Len(commands)
    /\ decisions \subseteq StrategyOrders
    /\ strategy = "log" => order \in StrategyOrders

IInv == FlowInv /\ PlaceInv /\ StrategyInv

------------------------------------------------------------------------------
(* The steps, by what they move.                                           *)

LEMMA AppendFacts ==
    ASSUME NEW S, NEW s \in Seq(S), NEW x \in S
    PROVE  /\ Append(s, x) \in Seq(S) /\ Len(s) \in Nat /\ Len(Append(s, x)) = Len(s) + 1
           /\ \A i \in 1..Len(s) : Append(s, x)[i] = s[i]
           /\ Append(s, x)[Len(s) + 1] = x
OBVIOUS

LEMMA PartType == Part \in Nat /\ Qty \in Nat
<1>1. Qty \in Nat
  BY FillAssumption
<1> QED
  BY <1>1 DEF Part

LEMMA FillType ==
    ASSUME NEW id \in Nat, NEW fill \in FillIds, NEW status \in Statuses, NEW qty \in Int, NEW buy \in BOOLEAN
    PROVE  Fill(id, fill, status, qty, buy) \in Reports
BY DEF Fill, Reports

LEMMA RouterReportsType ==
    ASSUME NEW c \in Commands
    PROVE  /\ RouterReports(c) \in Seq(Reports) /\ Len(RouterReports(c)) <= 3
<1>1. c.id \in Nat /\ c.buy \in BOOLEAN /\ FALSE \in BOOLEAN
  BY DEF Commands
<1>2. <<"ack", c.id>> \in FillIds /\ <<"p1", c.id>> \in FillIds /\ <<"p2", c.id>> \in FillIds
  BY <1>1 DEF FillIds
<1>3. /\ Fill(c.id, <<"ack", c.id>>, "CANCELED", 0, FALSE) \in Reports
      /\ Fill(c.id, <<"ack", c.id>>, "NEW", 0, c.buy) \in Reports
      /\ Fill(c.id, <<"p1", c.id>>, "PARTIALLY_FILLED", Part, c.buy) \in Reports
      /\ Fill(c.id, <<"p2", c.id>>, "FILLED", Qty - Part, c.buy) \in Reports
  <2>1. Part \in Int /\ Qty - Part \in Int /\ 0 \in Int
    BY PartType
  <2>2. "CANCELED" \in Statuses /\ "NEW" \in Statuses /\ "PARTIALLY_FILLED" \in Statuses /\ "FILLED" \in Statuses
    BY DEF Statuses
  <2> QED
    BY <1>1, <1>2, <2>1, <2>2, FillType
<1>4. ASSUME NEW x \in Reports, NEW y \in Reports, NEW z \in Reports
      PROVE  /\ <<x>> \in Seq(Reports) /\ Len(<<x>>) = 1
             /\ <<x, y, z>> \in Seq(Reports) /\ Len(<<x, y, z>>) = 3
  OBVIOUS
<1> DEFINE f0 == Fill(c.id, <<"ack", c.id>>, "CANCELED", 0, FALSE)
           f1 == Fill(c.id, <<"ack", c.id>>, "NEW", 0, c.buy)
           f2 == Fill(c.id, <<"p1", c.id>>, "PARTIALLY_FILLED", Part, c.buy)
           f3 == Fill(c.id, <<"p2", c.id>>, "FILLED", Qty - Part, c.buy)
<1>5. RouterReports(c) = IF c.action = "CANCEL" THEN <<f0>> ELSE <<f1, f2, f3>>
  BY DEF RouterReports
<1>6. f0 \in Reports /\ f1 \in Reports /\ f2 \in Reports /\ f3 \in Reports
  BY <1>3
<1> HIDE DEF f0, f1, f2, f3
<1>7. /\ <<f0>> \in Seq(Reports) /\ Len(<<f0>>) = 1
      /\ <<f1, f2, f3>> \in Seq(Reports) /\ Len(<<f1, f2, f3>>) = 3
  BY <1>4, <1>6
<1>8. CASE c.action = "CANCEL"
  <2>1. RouterReports(c) = <<f0>>
    BY <1>5, <1>8
  <2> QED
    BY <2>1, <1>7
<1>9. CASE c.action # "CANCEL"
  <2>1. RouterReports(c) = <<f1, f2, f3>>
    BY <1>5, <1>9
  <2> QED
    BY <2>1, <1>7
<1> QED
  BY <1>8, <1>9

LEMMA PaperReportType ==
    ASSUME NEW c \in Commands, FlowInv
    PROVE  PaperReport(c) \in Reports
<1>1. c.id \in Nat /\ c.buy \in BOOLEAN /\ Len(fills) + 1 \in Nat
  BY DEF Commands, FlowInv
<1>2. <<"paper", Len(fills) + 1>> \in FillIds /\ "FILLED" \in Statuses
  BY <1>1 DEF FillIds, Statuses
<1>3. (IF c.action = "CANCEL" THEN 0 ELSE Qty) \in Int
  BY PartType
<1> QED
  BY <1>1, <1>2, <1>3, FillType DEF PaperReport

LEMMA CommandType ==
    ASSUME NEW id \in Nat, NEW action \in {"CREATE", "CANCEL"}, NEW buy \in BOOLEAN,
           NEW who \in {"strategy_engine", "risk_guard"}
    PROVE  Command(id, action, buy, who) \in Commands
BY DEF Command, Commands

(* The commands as they are, or one more; and by strategy_engine only from *)
(* its own loop.                                                           *)
LEMMA CommandSteps ==
    ASSUME IInv, [Next]_vars
    PROVE  \/ commands' = commands
           \/ /\ \E x \in Commands : commands' = Append(commands, x) /\ x.by = "risk_guard"
              /\ Len(commands) < MaxCommands
              /\ UNCHANGED <<strategyVars, faults>>
           \/ /\ commands' = Append(commands, Command(FreshId, "CREATE", Buys, "strategy_engine"))
              /\ Command(FreshId, "CREATE", Buys, "strategy_engine") \in Commands
              /\ Len(commands) < MaxCommands /\ strategy = "emit" /\ order' = FreshId
<1>1. FreshId \in Nat
  <2>1. Len(commands) \in Nat
    BY DEF IInv, FlowInv
  <2> QED
    BY <2>1 DEF FreshId
<1>b. Buys \in BOOLEAN
  BY FillAssumption, Zenon
<1>n. (~Buys) \in BOOLEAN
  OBVIOUS
<1>f. FALSE \in BOOLEAN
  OBVIOUS
<1>2. Command(FreshId, "CREATE", Buys, "strategy_engine") \in Commands
  BY <1>1, <1>b, CommandType
<1>3. CASE ForwardCommand
  <2>1. CASE commands' = Append(commands, Command(FreshId, "CREATE", ~Buys, "risk_guard"))
    <3>1. Command(FreshId, "CREATE", ~Buys, "risk_guard") \in Commands
      BY <1>1, <1>n, CommandType
    <3> QED
      BY <1>3, <2>1, <3>1 DEF ForwardCommand, Command
  <2>2. ASSUME NEW i \in 1..Len(commands),
               commands' = Append(commands, Command(commands[i].id, "CANCEL", FALSE, "risk_guard"))
        PROVE  \E x \in Commands : commands' = Append(commands, x) /\ x.by = "risk_guard"
    <3>1. commands[i].id \in Nat
      <4>1. commands[i] \in Commands
        BY DEF IInv, FlowInv
      <4> QED
        BY <4>1 DEF Commands
    <3>2. Command(commands[i].id, "CANCEL", FALSE, "risk_guard") \in Commands
      BY <1>f, <3>1, CommandType
    <3> QED
      BY <2>2, <3>2 DEF Command
  <2> QED
    BY <1>3, <2>1, <2>2 DEF ForwardCommand
<1>4. CASE PublishOrder \/ PublishOrderFailed
  BY <1>2, <1>4 DEF PublishOrder, PublishOrderFailed, SendOrder
<1>5. CASE ~(ForwardCommand \/ PublishOrder \/ PublishOrderFailed)
  BY <1>5 DEF Next, vars, Strategy, Router, Trader, Executor, StartStrategy, WriteDecision,
       WriteDecisionFailed, RouterPublishes, RouterForgets, Receive, PublishFill, PublishFillFailed,
       Persist, PersistFailed, PersistRejected, AutoCommit, Crash, Restart
<1> QED
  BY <1>3, <1>4, <1>5

(* The fills as they are, or one more. *)
LEMMA FillSteps ==
    ASSUME IInv, [Next]_vars
    PROVE  \/ fills' = fills
           \/ \E r \in Reports : fills' = Append(fills, r)
<1>1. CASE PublishFill \/ PublishFillFailed
  <2> DEFINE c == commands[offset["paper_trader"]]
  <2>1. offset["paper_trader"] \in 1..Len(commands)
    BY <1>1 DEF PublishFill, PublishFillFailed, Finish, IInv, PlaceInv, FlowInv, Topic, Consumers
  <2>2. c \in Commands
    BY <2>1 DEF IInv, FlowInv
  <2>3. PaperReport(c) \in Reports
    BY <2>2, PaperReportType DEF IInv
  <2> QED
    BY <1>1, <2>3 DEF PublishFill, PublishFillFailed
<1>2. ASSUME NEW i \in 1..Len(commands), RouterPublishes(i) PROVE \E r \in Reports : fills' = Append(fills, r)
  <2> DEFINE c == commands[i]
             s == RouterReports(c)
  <2>1. c \in Commands
    BY DEF IInv, FlowInv
  <2>2. s \in Seq(Reports)
    BY <2>1, RouterReportsType
  <2>3. routed[i] < Len(s) /\ fills' = Append(fills, s[routed[i] + 1])
    BY <1>2 DEF RouterPublishes
  <2>4. routed[i] \in Nat
    <3>1. i \in Ids
      BY FillAssumption DEF IInv, FlowInv, Ids
    <3> QED
      BY <3>1 DEF IInv, FlowInv
  <2> HIDE DEF s
  <2>5. s[routed[i] + 1] \in Reports
    BY <2>2, <2>3, <2>4
  <2> QED
    BY <2>3, <2>5
<1>3. CASE ~(PublishFill \/ PublishFillFailed \/ \E i \in 1..Len(commands) : RouterPublishes(i))
  BY <1>3 DEF Next, vars, Strategy, Router, Trader, Executor, StartStrategy, WriteDecision,
       WriteDecisionFailed, PublishOrder, PublishOrderFailed, ForwardCommand, RouterForgets, Receive,
       Persist, PersistFailed, PersistRejected, AutoCommit, Crash, Restart
<1> QED
  BY <1>1, <1>2, <1>3

LEMMA BusyAt ==
    ASSUME IInv, NEW c \in Consumers, busy[c]
    PROVE  offset[c] \in 1..Len(Topic(c)) /\ offset[c] \in Int /\ Len(Topic(c)) \in Nat
<1>1. Len(commands) \in Nat /\ Len(fills) \in Nat
  BY DEF IInv, FlowInv
<1> QED
  BY <1>1 DEF IInv, PlaceInv, Topic

LEMMA ReportType ==
    ASSUME IInv, busy["order_executor"]
    PROVE  Report \in Reports
<1>1. offset["order_executor"] \in 1..Len(fills)
  BY BusyAt DEF Topic, Consumers
<1> QED
  BY <1>1 DEF IInv, FlowInv, Report

(* One transaction: the report is stored, and its row is of an order that  *)
(* was acknowledged or is done.                                            *)
LEMMA TransactionTypes ==
    ASSUME FlowInv, NEW r \in Reports, Transaction(r)
    PROVE  /\ stored' \in Seq(Reports) /\ position' \in Int
           /\ rows' \in [Ids -> Rows] /\ \A i \in Ids : rows'[i] # NoRow => rows'[i].ack \/ rows'[i].done
           /\ fits' \in BOOLEAN
<1>1. r.status \in Statuses /\ r.qty \in Int
  BY DEF Reports
<1>2. stored' = Append(stored, r) /\ stored \in Seq(Reports) /\ fits' = fits /\ position \in Int
  BY DEF Transaction, FlowInv
<1>3. position' \in Int
  BY <1>1, <1>2 DEF Transaction, UpdatePosition
<1> DEFINE Row(i) == [status |-> r.status,
                      ack  |-> rows[i].ack \/ r.status \in {"NEW", "PARTIALLY_FILLED"},
                      done |-> rows[i].done \/ r.status \in {"FILLED", "CANCELED", "REJECTED", "EXPIRED"}]
<1>4. \A i \in Ids : Row(i) \in Rows /\ (Row(i).ack \/ Row(i).done)
  <2> TAKE i \in Ids
  <2>1. rows[i].ack \in BOOLEAN /\ rows[i].done \in BOOLEAN
    BY DEF FlowInv, Rows
  <2>2. (rows[i].ack \/ r.status \in {"NEW", "PARTIALLY_FILLED"}) \in BOOLEAN
        /\ (rows[i].done \/ r.status \in {"FILLED", "CANCELED", "REJECTED", "EXPIRED"}) \in BOOLEAN
    BY <2>1
  <2>3. r.status \in Statuses \cup {"NONE"}
    BY <1>1
  <2>4. Row(i) \in Rows
    BY <2>2, <2>3 DEF Rows
  <2>5. Row(i).ack \/ Row(i).done
    BY <1>1 DEF Statuses
  <2> QED
    BY <2>4, <2>5
<1>5. rows' = [rows EXCEPT ![r.id] = Row(r.id)]
  BY DEF Transaction, UpsertOrder
<1>6. \A i \in Ids : rows'[i] = rows[i] \/ rows'[i] = Row(i)
  BY <1>5 DEF FlowInv
<1> HIDE DEF Row
<1>7. rows' \in [Ids -> Rows]
  BY <1>4, <1>5 DEF FlowInv
<1>8. \A i \in Ids : rows'[i] # NoRow => rows'[i].ack \/ rows'[i].done
  BY <1>4, <1>6 DEF FlowInv
<1> QED
  BY <1>2, <1>3, <1>7, <1>8, AppendFacts DEF FlowInv

------------------------------------------------------------------------------
(* What moves.                                                             *)

LEMMA FlowStep ==
    ASSUME IInv, [Next]_vars
    PROVE  FlowInv'
<1>1. commands' \in Seq(Commands) /\ Len(commands') <= MaxCommands
  <2>1. commands \in Seq(Commands) /\ Len(commands) <= MaxCommands /\ MaxCommands \in Nat
    BY FillAssumption DEF IInv, FlowInv
  <2>2. ASSUME NEW x \in Commands, commands' = Append(commands, x), Len(commands) < MaxCommands
        PROVE  commands' \in Seq(Commands) /\ Len(commands') <= MaxCommands
    BY <2>1, <2>2, AppendFacts
  <2> QED
    BY <2>1, <2>2, CommandSteps
<1>2. fills' \in Seq(Reports)
  <2>1. fills \in Seq(Reports)
    BY DEF IInv, FlowInv
  <2> QED
    BY <2>1, FillSteps, AppendFacts
<1>3. /\ stored' \in Seq(Reports) /\ position' \in Int
      /\ rows' \in [Ids -> Rows] /\ \A i \in Ids : rows'[i] # NoRow => rows'[i].ack \/ rows'[i].done
      /\ fits' \in BOOLEAN
  <2>1. CASE UNCHANGED tableVars
    BY <2>1 DEF tableVars, IInv, FlowInv
  <2>2. CASE busy["order_executor"] /\ Transaction(Report)
    BY <2>2, ReportType, TransactionTypes DEF IInv
  <2>3. UNCHANGED tableVars \/ (busy["order_executor"] /\ Transaction(Report))
    BY DEF Next, vars, Strategy, Router, Trader, Executor, StartStrategy, WriteDecision,
       WriteDecisionFailed, PublishOrder, PublishOrderFailed, ForwardCommand, RouterPublishes,
       RouterForgets, Receive, PublishFill, PublishFillFailed, Persist, PersistFailed, PersistRejected,
       AutoCommit, Crash, Restart, Finish
  <2> QED
    BY <2>1, <2>2, <2>3
<1>4. routed' \in [Ids -> 0..3]
  <2>1. routed \in [Ids -> 0..3]
    BY DEF IInv, FlowInv
  <2>2. CASE routed' = routed
    BY <2>1, <2>2
  <2>3. ASSUME NEW i \in 1..Len(commands), RouterPublishes(i) PROVE routed' \in [Ids -> 0..3]
    <3>1. RouterReports(commands[i]) \in Seq(Reports) /\ Len(RouterReports(commands[i])) <= 3
      <4>1. commands[i] \in Commands
        BY DEF IInv, FlowInv
      <4> QED
        BY <4>1, RouterReportsType
    <3>2. Len(RouterReports(commands[i])) \in Nat
      BY <3>1
    <3>3. routed[i] < Len(RouterReports(commands[i])) /\ routed' = [routed EXCEPT ![i] = routed[i] + 1]
      BY <2>3 DEF RouterPublishes
    <3>4. i \in Ids
      BY FillAssumption DEF IInv, FlowInv, Ids
    <3>5. routed[i] + 1 \in 0..3
      BY <2>1, <3>1, <3>2, <3>3, <3>4
    <3>6. [routed EXCEPT ![i] = routed[i] + 1] \in [Ids -> 0..3]
      BY <2>1, <3>5
    <3> QED
      BY <3>3, <3>6, Zenon
  <2>4. ASSUME NEW i \in 1..Len(commands), RouterForgets(i) PROVE routed' \in [Ids -> 0..3]
    <3>1. routed' = [routed EXCEPT ![i] = 0]
      BY <2>4 DEF RouterForgets
    <3>0. 0 \in 0..3
      OBVIOUS
    <3>2. [routed EXCEPT ![i] = 0] \in [Ids -> 0..3]
      BY <2>1, <3>0
    <3> QED
      BY <3>1, <3>2, Zenon
  <2>5. \/ routed' = routed
        \/ \E i \in 1..Len(commands) : RouterPublishes(i) \/ RouterForgets(i)
    BY DEF Next, vars, Strategy, Router, Trader, Executor, StartStrategy, WriteDecision,
       WriteDecisionFailed, PublishOrder, PublishOrderFailed, ForwardCommand,
       Receive, PublishFill, PublishFillFailed, Persist, PersistFailed, PersistRejected,
       AutoCommit, Crash, Restart
  <2> QED
    BY <2>2, <2>3, <2>4, <2>5
<1>5. faults' \in Nat
  <2>1. faults' = faults \/ faults' = faults + 1
    BY DEF Next, vars, Strategy, Router, Trader, Executor, StartStrategy, WriteDecision,
       WriteDecisionFailed, PublishOrder, PublishOrderFailed, ForwardCommand, RouterPublishes,
       RouterForgets, Receive, PublishFill, PublishFillFailed, Persist, PersistFailed, PersistRejected,
       AutoCommit, Crash, Restart, Fault
  <2> QED
    BY <2>1 DEF IInv, FlowInv
<1> QED
  BY <1>1, <1>2, <1>3, <1>4, <1>5 DEF FlowInv

LEMMA PrefixStays ==
    ASSUME IInv, [Next]_vars
    PROVE  /\ Len(commands) \in Nat /\ Len(commands') \in Nat /\ Len(commands) <= Len(commands')
           /\ \A i \in 1..Len(commands) : commands'[i] = commands[i]
           /\ Len(fills) \in Nat /\ Len(fills') \in Nat /\ Len(fills) <= Len(fills')
           /\ \A i \in 1..Len(fills) : fills'[i] = fills[i]
<1>1. commands \in Seq(Commands) /\ fills \in Seq(Reports)
  BY DEF IInv, FlowInv
<1>2. ASSUME NEW x \in Commands, commands' = Append(commands, x)
      PROVE  Len(commands') = Len(commands) + 1 /\ \A i \in 1..Len(commands) : commands'[i] = commands[i]
  BY <1>1, <1>2, AppendFacts
<1>3. ASSUME NEW x \in Reports, fills' = Append(fills, x)
      PROVE  Len(fills') = Len(fills) + 1 /\ \A i \in 1..Len(fills) : fills'[i] = fills[i]
  BY <1>1, <1>3, AppendFacts
<1>4. Len(commands) \in Nat /\ Len(fills) \in Nat
  BY <1>1
<1>5. \/ commands' = commands
      \/ Len(commands') = Len(commands) + 1 /\ \A i \in 1..Len(commands) : commands'[i] = commands[i]
  BY CommandSteps, <1>2
<1>6. \/ fills' = fills
      \/ Len(fills') = Len(fills) + 1 /\ \A i \in 1..Len(fills) : fills'[i] = fills[i]
  BY FillSteps, <1>3
<1> QED
  BY <1>4, <1>5, <1>6

LEMMA PlaceStep ==
    ASSUME IInv, [Next]_vars
    PROVE  PlaceInv'
<1>1. \A c \in Consumers : /\ Len(Topic(c)) \in Nat /\ Len(Topic(c))' \in Nat
                           /\ Len(Topic(c)) <= Len(Topic(c))'
  BY PrefixStays DEF Topic
<1>2. PlaceInv
  BY DEF IInv
<1>3. ASSUME offset' \in [Consumers -> Nat], committed' \in [Consumers -> Nat],
             busy' \in [Consumers -> BOOLEAN], up' \in [Consumers -> BOOLEAN],
             \A c \in Consumers :
                 /\ committed'[c] <= Len(Topic(c)) /\ offset'[c] <= Len(Topic(c))
                 /\ busy'[c] => up'[c] /\ offset'[c] > 0
      PROVE  PlaceInv'
  <2>1. \A c \in Consumers : committed'[c] <= Len(Topic(c))' /\ offset'[c] <= Len(Topic(c))'
    BY <1>1, <1>3
  <2> QED
    BY <1>3, <2>1 DEF PlaceInv
<1>4. CASE UNCHANGED consumerVars
  BY <1>2, <1>3, <1>4 DEF PlaceInv, consumerVars
<1>5. ASSUME NEW c \in Consumers, Receive(c) PROVE PlaceInv'
  <2>1. offset[c] + 1 <= Len(Topic(c)) /\ offset[c] + 1 \in Nat
    BY <1>1, <1>2, <1>5 DEF Receive, PlaceInv
  <2> QED
    BY <1>2, <1>3, <1>5, <2>1 DEF Receive, PlaceInv
<1>6. ASSUME NEW c \in Consumers, Finish(c), UNCHANGED <<offset, committed, up>> PROVE PlaceInv'
  BY <1>2, <1>3, <1>6 DEF Finish, PlaceInv
<1>7. ASSUME NEW c \in Consumers, AutoCommit(c) PROVE PlaceInv'
  BY <1>2, <1>3, <1>7 DEF AutoCommit, PlaceInv
<1>8. ASSUME NEW c \in Consumers, Crash(c) PROVE PlaceInv'
  BY <1>2, <1>3, <1>8 DEF Crash, PlaceInv
<1>9. ASSUME NEW c \in Consumers, Restart(c) PROVE PlaceInv'
  BY <1>2, <1>3, <1>9 DEF Restart, PlaceInv
<1>10. \/ UNCHANGED consumerVars
       \/ \E c \in Consumers : \/ Receive(c) \/ AutoCommit(c) \/ Crash(c) \/ Restart(c)
                               \/ Finish(c) /\ UNCHANGED <<offset, committed, up>>
  BY DEF Next, vars, Strategy, Router, Trader, Executor, StartStrategy, WriteDecision,
     WriteDecisionFailed, PublishOrder, PublishOrderFailed, ForwardCommand, RouterPublishes,
     RouterForgets, PublishFill, PublishFillFailed, Persist, PersistFailed, PersistRejected,
     Consumers, consumerVars
<1> QED
  BY <1>4, <1>5, <1>6, <1>7, <1>8, <1>9, <1>10

(* An order that is sent is one more of strategy_engine's. *)
LEMMA OrderSent ==
    ASSUME IInv, SendOrder
    PROVE  /\ StrategyOrders' = StrategyOrders \cup {order'}
           /\ order' = Len(commands) + 1 /\ order' \notin StrategyOrders
           /\ Len(commands') = Len(commands) + 1
<1>1. commands \in Seq(Commands) /\ Len(commands) \in Nat
  BY DEF IInv, FlowInv
<1> DEFINE x == Command(FreshId, "CREATE", Buys, "strategy_engine")
<1>2. x.by = "strategy_engine"
  BY DEF Command
<1>3. x \in Commands
  <2>1. FreshId \in Nat
    BY <1>1 DEF FreshId
  <2>2. Buys \in BOOLEAN
    BY FillAssumption, Zenon
  <2> QED
    BY <2>1, <2>2, CommandType
<1>4. commands' = Append(commands, x) /\ order' = Len(commands) + 1
  BY DEF SendOrder, FreshId
<1> HIDE DEF x
<1>5. /\ Len(commands') = Len(commands) + 1 /\ commands'[Len(commands) + 1] = x
      /\ \A i \in 1..Len(commands) : commands'[i] = commands[i]
  BY <1>1, <1>3, <1>4, AppendFacts
<1> QED
  BY <1>1, <1>2, <1>4, <1>5 DEF StrategyOrders

(* The orders of strategy_engine: those there are, or the new one too.     *)
LEMMA StrategyOrdersStep ==
    ASSUME IInv, [Next]_vars
    PROVE  StrategyOrders' = StrategyOrders \/ SendOrder
<1>1. commands \in Seq(Commands) /\ Len(commands) \in Nat
  BY DEF IInv, FlowInv
<1>2. CASE commands' = commands
  BY <1>2 DEF StrategyOrders
<1>3. ASSUME NEW x \in Commands, commands' = Append(commands, x), x.by = "risk_guard"
      PROVE  StrategyOrders' = StrategyOrders
  <2>1. /\ Len(commands') = Len(commands) + 1 /\ commands'[Len(commands) + 1] = x
        /\ \A i \in 1..Len(commands) : commands'[i] = commands[i]
    BY <1>1, <1>3, AppendFacts
  <2> QED
    BY <1>1, <1>3, <2>1 DEF StrategyOrders
<1> QED
  BY <1>2, <1>3, CommandSteps DEF SendOrder

LEMMA StrategyStep ==
    ASSUME IInv, [Next]_vars
    PROVE  StrategyInv'
<1>1. StrategyInv
  BY DEF IInv
<1>2. StrategyOrders \subseteq StrategyOrders' /\ Len(commands) \in Nat /\ Len(commands') \in Nat
      /\ Len(commands) <= Len(commands')
  BY StrategyOrdersStep, OrderSent, PrefixStays
<1>3. order' \in 0..Len(commands')
  <2>1. order' = order \/ SendOrder
    BY DEF Next, vars, Strategy, Router, Trader, Executor, StartStrategy, WriteDecision,
       WriteDecisionFailed, PublishOrder, PublishOrderFailed, ForwardCommand, RouterPublishes,
       RouterForgets, Receive, PublishFill, PublishFillFailed, Persist, PersistFailed, PersistRejected,
       AutoCommit, Crash, Restart, strategyVars
  <2> QED
    BY <1>1, <1>2, <2>1, OrderSent DEF StrategyInv
<1>4. decisions' \subseteq StrategyOrders'
  <2>1. decisions' = decisions \/ (strategy = "log" /\ decisions' = decisions \cup {order})
    BY DEF Next, vars, Strategy, Router, Trader, Executor, StartStrategy, WriteDecision,
       WriteDecisionFailed, PublishOrder, PublishOrderFailed, ForwardCommand, RouterPublishes,
       RouterForgets, Receive, PublishFill, PublishFillFailed, Persist, PersistFailed, PersistRejected,
       AutoCommit, Crash, Restart, strategyVars
  <2> QED
    BY <1>1, <1>2, <2>1 DEF StrategyInv
<1>5. /\ emit_once' \in BOOLEAN /\ logging' \in BOOLEAN
      /\ strategy' \in {"off", "emit", "log"}
      /\ runs' \in Nat /\ unlogged' \in Nat
  <2>1. emit_once \in BOOLEAN /\ logging \in BOOLEAN /\ strategy \in {"off", "emit", "log"}
        /\ runs \in Nat /\ unlogged \in Nat
    BY <1>1 DEF StrategyInv
  <2>2. emit_once' = emit_once /\ logging' = logging /\ runs' \in {runs, runs + 1}
        /\ unlogged' \in {unlogged, unlogged + 1} /\ strategy' \in {strategy, "off", "emit", "log"}
    BY DEF Next, vars, Strategy, Router, Trader, Executor, StartStrategy, WriteDecision,
       WriteDecisionFailed, PublishOrder, PublishOrderFailed, ForwardCommand, RouterPublishes,
       RouterForgets, Receive, PublishFill, PublishFillFailed, Persist, PersistFailed, PersistRejected,
       AutoCommit, Crash, Restart, strategyVars, NextTurn
  <2> QED
    BY <2>1, <2>2
<1>6. ASSUME strategy' = "log" PROVE order' \in StrategyOrders'
  <2>1. (strategy = "log" /\ order' = order) \/ SendOrder
    BY <1>6 DEF Next, vars, Strategy, Router, Trader, Executor, StartStrategy, WriteDecision,
       WriteDecisionFailed, PublishOrder, PublishOrderFailed, ForwardCommand, RouterPublishes,
       RouterForgets, Receive, PublishFill, PublishFillFailed, Persist, PersistFailed, PersistRejected,
       AutoCommit, Crash, Restart, strategyVars, NextTurn
  <2> QED
    BY <1>1, <1>2, <2>1, OrderSent DEF StrategyInv
<1> QED
  BY <1>3, <1>4, <1>5, <1>6 DEF StrategyInv

LEMMA InitIInv == Init => IInv
<1> SUFFICES ASSUME Init PROVE IInv
  OBVIOUS
<1>1. FlowInv
  <2>1. commands = <<>> /\ fills = <<>> /\ stored = <<>> /\ MaxCommands \in Nat
    BY FillAssumption DEF Init
  <2>2. rows \in [Ids -> Rows] /\ \A i \in Ids : rows[i] = NoRow
    BY DEF Init, NoRow, Rows
  <2>3. routed \in [Ids -> 0..3]
    BY DEF Init
  <2>4. position \in Int /\ faults \in Nat /\ fits \in BOOLEAN
    BY DEF Init
  <2> QED
    BY <2>1, <2>2, <2>3, <2>4 DEF FlowInv
<1>2. PlaceInv
  BY DEF Init, PlaceInv, Topic
<1>3. StrategyInv
  BY DEF Init, StrategyInv
<1> QED
  BY <1>1, <1>2, <1>3 DEF IInv

LEMMA InvStep == IInv /\ [Next]_vars => IInv'
BY FlowStep, PlaceStep, StrategyStep DEF IInv

THEOREM Invariant == Spec => []IInv
BY InitIInv, InvStep, PTL DEF Spec

(* No consumer is ahead of its topic, what strategy_engine logs are orders *)
(* it published, and a row in table orders is of an order that was         *)
(* acknowledged or is done.                                                *)
THEOREM TypeCorrect == Spec => []TypeOK
<1>1. IInv => TypeOK
  <2> SUFFICES ASSUME IInv PROVE TypeOK
    OBVIOUS
  <2>1. \A c \in Consumers : committed[c] \in 0..Len(Topic(c)) /\ offset[c] \in 0..Len(Topic(c))
    BY DEF IInv, PlaceInv, FlowInv, Topic
  <2> QED
    BY <2>1 DEF IInv, FlowInv, PlaceInv, StrategyInv, TypeOK
<1> QED
  BY <1>1, Invariant, PTL

------------------------------------------------------------------------------
(* Orders and decision rows.                                               *)

(* An order waits for its row while it is logged, and for ever when the    *)
(* run it belongs to has failed: each such order has cost a fault.  A      *)
(* start under EMIT_ONCE has one order to give.                            *)
Waiting == IF strategy = "log" THEN 1 ELSE 0
ToEmit  == IF strategy = "emit" THEN 1 ELSE 0
LogInv ==
    /\ emit_once => Cardinality(StrategyOrders) + ToEmit <= runs
    /\ unlogged <= faults
    /\ strategy = "log" => logging /\ order \notin decisions
    /\ logging => Cardinality(StrategyOrders \ decisions) = unlogged + Waiting

LEMMA StrategyOrdersFinite ==
    ASSUME IInv
    PROVE  /\ IsFiniteSet(StrategyOrders) /\ Cardinality(StrategyOrders) \in Nat
           /\ IsFiniteSet(StrategyOrders \ decisions) /\ Cardinality(StrategyOrders \ decisions) \in Nat
<1>1. Len(commands) \in Int /\ 1 \in Int
  BY DEF IInv, FlowInv
<1>2. IsFiniteSet(1..Len(commands))
  BY <1>1, FS_Interval
<1>3. StrategyOrders \in SUBSET (1..Len(commands))
  BY DEF StrategyOrders
<1>4. IsFiniteSet(StrategyOrders)
  BY <1>2, <1>3, FS_Subset
<1>5. StrategyOrders \ decisions \in SUBSET StrategyOrders
  OBVIOUS
<1>6. IsFiniteSet(StrategyOrders \ decisions)
  BY <1>4, <1>5, FS_Subset
<1> QED
  BY <1>4, <1>6, FS_CardinalityType

(* An order is sent: one more order, and one more that waits.              *)
LEMMA OneMoreWaits ==
    ASSUME IInv, SendOrder, decisions' = decisions
    PROVE  /\ Cardinality(StrategyOrders') = Cardinality(StrategyOrders) + 1
           /\ Cardinality((StrategyOrders \ decisions)') = Cardinality(StrategyOrders \ decisions) + 1
           /\ order' \notin decisions
<1>1. StrategyOrders' = StrategyOrders \cup {order'} /\ order' \notin StrategyOrders
  BY OrderSent
<1>2. order' \notin decisions
  BY <1>1 DEF IInv, StrategyInv
<1>3. (StrategyOrders \ decisions)' = (StrategyOrders \ decisions) \cup {order'}
  BY <1>1, <1>2
<1>4. Cardinality(StrategyOrders') = Cardinality(StrategyOrders) + 1
  BY <1>1, StrategyOrdersFinite, FS_AddElement
<1>5. Cardinality((StrategyOrders \ decisions)') = Cardinality(StrategyOrders \ decisions) + 1
  <2>1. order' \notin StrategyOrders \ decisions
    BY <1>1
  <2> QED
    BY <1>3, <2>1, StrategyOrdersFinite, FS_AddElement
<1> QED
  BY <1>2, <1>4, <1>5

(* A decision is written: one order less waits. *)
LEMMA OneLessWaits ==
    ASSUME IInv, StrategyOrders' = StrategyOrders, decisions' = decisions \cup {order},
           order \in StrategyOrders, order \notin decisions
    PROVE  Cardinality((StrategyOrders \ decisions)') = Cardinality(StrategyOrders \ decisions) - 1
<1>1. (StrategyOrders \ decisions)' = (StrategyOrders \ decisions) \ {order}
  OBVIOUS
<1>2. order \in StrategyOrders \ decisions
  OBVIOUS
<1> QED
  BY <1>1, <1>2, StrategyOrdersFinite, FS_RemoveElement

LEMMA LogStep ==
    ASSUME IInv, LogInv, [Next]_vars
    PROVE  LogInv'
<1> DEFINE n == Cardinality(StrategyOrders)
           w == Cardinality(StrategyOrders \ decisions)
<1>1. /\ n \in Nat /\ w \in Nat /\ runs \in Nat /\ unlogged \in Nat /\ faults \in Nat
      /\ emit_once \in BOOLEAN /\ logging \in BOOLEAN /\ strategy \in {"off", "emit", "log"}
      /\ strategy = "log" => order \in StrategyOrders
  BY StrategyOrdersFinite DEF IInv, StrategyInv, FlowInv
<1>2. /\ emit_once => n + ToEmit <= runs
      /\ unlogged <= faults
      /\ strategy = "log" => logging /\ order \notin decisions
      /\ logging => w = unlogged + Waiting
  BY DEF LogInv
<1>3. ASSUME StrategyOrders' = StrategyOrders, UNCHANGED <<emit_once, logging, runs, unlogged, strategy, order, decisions>>,
             faults' = faults \/ faults' = faults + 1
      PROVE  LogInv'
  <2>1. n' = n /\ w' = w /\ Waiting' = Waiting /\ ToEmit' = ToEmit
    BY <1>3 DEF Waiting, ToEmit
  <2> HIDE DEF n, w
  <2>2. unlogged' <= faults'
    BY <1>1, <1>2, <1>3
  <2> QED
    BY <1>2, <1>3, <2>1, <2>2 DEF LogInv, n, w
(* What each step does to the counts and the rest, on abstract numbers. *)
<1>4. ASSUME NEW n2 \in Nat, NEW w2 \in Nat, n' = n2, w' = w2,
             emit_once' = emit_once, logging' = logging,
             emit_once => n2 + ToEmit' <= runs',
             unlogged' <= faults',
             strategy' = "log" => logging /\ order' \notin decisions',
             logging => w2 = unlogged' + Waiting'
      PROVE  LogInv'
  BY <1>4 DEF LogInv
<1>5. CASE StartStrategy
  <2>1. /\ strategy = "off" /\ strategy' = "emit" /\ runs' = runs + 1
        /\ UNCHANGED <<emit_once, logging, unlogged, order, decisions, commands, faults>>
    BY <1>5 DEF StartStrategy
  <2>2. n' = n /\ w' = w
    BY <2>1 DEF StrategyOrders
  <2>3. Waiting = 0 /\ Waiting' = 0 /\ ToEmit = 0 /\ ToEmit' = 1
    BY <2>1 DEF Waiting, ToEmit
  <2> HIDE DEF n, w
  <2> QED
    BY <1>1, <1>2, <1>4, <2>1, <2>2, <2>3
<1>6. CASE PublishOrder
  <2>1. /\ SendOrder /\ strategy = "emit" /\ strategy' = IF logging THEN "log" ELSE NextTurn
        /\ UNCHANGED <<emit_once, logging, runs, unlogged, decisions, faults>>
    BY <1>6 DEF PublishOrder
  <2>2. n' = n + 1 /\ w' = w + 1 /\ order' \notin decisions
    BY <2>1, OneMoreWaits
  <2>3. Waiting = 0 /\ ToEmit = 1
    BY <2>1 DEF Waiting, ToEmit
  <2>4. logging => Waiting' = 1 /\ ToEmit' = 0
    BY <2>1 DEF Waiting, ToEmit
  <2>5. emit_once => ToEmit' = 0
    BY <2>1 DEF ToEmit, NextTurn
  <2>6. ToEmit' \in {0, 1}
    BY DEF ToEmit
  <2>7. strategy' = "log" => logging
    BY <2>1, <1>1 DEF NextTurn
  <2> HIDE DEF n, w
  <2>8. n + 1 \in Nat /\ w + 1 \in Nat
    BY <1>1
  <2>9. (emit_once => n + 1 + ToEmit' <= runs') /\ unlogged' <= faults'
    BY <1>1, <1>2, <2>1, <2>3, <2>5
  <2>10. logging => w + 1 = unlogged' + Waiting'
    BY <1>1, <1>2, <2>1, <2>3, <2>4
  <2> QED
    BY <1>4, <2>1, <2>2, <2>7, <2>8, <2>9, <2>10
<1>7. CASE PublishOrderFailed
  <2>1. /\ faults' = faults + 1 /\ strategy = "emit" /\ strategy' = "off"
        /\ UNCHANGED <<emit_once, logging, runs, decisions>>
        /\ (SendOrder /\ unlogged' = unlogged + 1) \/ UNCHANGED <<commands, order, unlogged>>
    BY <1>7 DEF PublishOrderFailed, Fault
  <2>2. Waiting = 0 /\ Waiting' = 0 /\ ToEmit = 1 /\ ToEmit' = 0
    BY <2>1 DEF Waiting, ToEmit
  <2>3. CASE SendOrder /\ unlogged' = unlogged + 1
    <3>1. n' = n + 1 /\ w' = w + 1
      BY <2>1, <2>3, OneMoreWaits
    <3> HIDE DEF n, w
    <3>2. n + 1 \in Nat /\ w + 1 \in Nat
      BY <1>1
    <3>3. (emit_once => n + 1 + ToEmit' <= runs') /\ unlogged' <= faults'
          /\ (logging => w + 1 = unlogged' + Waiting')
      BY <1>1, <1>2, <2>1, <2>2, <2>3
    <3> QED
      BY <1>4, <2>1, <3>1, <3>2, <3>3
  <2>4. CASE UNCHANGED <<commands, order, unlogged>>
    <3>1. n' = n /\ w' = w
      BY <2>1, <2>4 DEF StrategyOrders
    <3> HIDE DEF n, w
    <3>3. (emit_once => n + ToEmit' <= runs') /\ unlogged' <= faults'
          /\ (logging => w = unlogged' + Waiting')
      BY <1>1, <1>2, <2>1, <2>2, <2>4
    <3> QED
      BY <1>1, <1>4, <2>1, <3>1, <3>3
  <2> QED
    BY <2>1, <2>3, <2>4
<1>8. CASE WriteDecision
  <2>1. /\ strategy = "log" /\ strategy' = NextTurn /\ decisions' = decisions \cup {order}
        /\ UNCHANGED <<emit_once, logging, runs, unlogged, order, commands, faults>>
    BY <1>8 DEF WriteDecision
  <2>2. StrategyOrders' = StrategyOrders
    BY <2>1 DEF StrategyOrders
  <2>3. n' = n /\ w' = w - 1
    BY <1>1, <1>2, <2>1, <2>2, OneLessWaits
  <2>4. Waiting = 1 /\ Waiting' = 0 /\ ToEmit = 0 /\ (emit_once => ToEmit' = 0) /\ strategy' # "log"
    BY <2>1 DEF Waiting, ToEmit, NextTurn
  <2> HIDE DEF n, w
  <2>5. logging /\ w = unlogged + 1
    BY <1>2, <2>1, <2>4
  <2>6. w - 1 \in Nat /\ w - 1 = unlogged' + Waiting' /\ unlogged' <= faults'
        /\ (emit_once => n + ToEmit' <= runs')
    BY <1>1, <1>2, <2>1, <2>4, <2>5
  <2> QED
    BY <1>1, <1>4, <2>1, <2>3, <2>4, <2>6
<1>9. CASE WriteDecisionFailed
  <2>1. /\ faults' = faults + 1 /\ strategy = "log" /\ strategy' = "off"
        /\ UNCHANGED <<emit_once, logging, runs, order, commands>>
        /\ \/ decisions' = decisions \cup {order} /\ unlogged' = unlogged
           \/ decisions' = decisions /\ unlogged' = unlogged + 1
    BY <1>9 DEF WriteDecisionFailed, Fault
  <2>2. StrategyOrders' = StrategyOrders
    BY <2>1 DEF StrategyOrders
  <2>3. Waiting = 1 /\ Waiting' = 0 /\ ToEmit = 0 /\ ToEmit' = 0
    BY <2>1 DEF Waiting, ToEmit
  <2>4. logging /\ w = unlogged + 1
    BY <1>2, <2>1, <2>3
  <2>5. n' = n
    BY <2>2
  <2>6. w' = unlogged'
    <3>1. CASE decisions' = decisions \cup {order} /\ unlogged' = unlogged
      <4>1. w' = w - 1
        BY <1>1, <1>2, <2>1, <2>2, <3>1, OneLessWaits
      <4> HIDE DEF w
      <4> QED
        BY <1>1, <2>4, <3>1, <4>1
    <3>2. CASE decisions' = decisions /\ unlogged' = unlogged + 1
      <4>1. w' = w
        BY <2>2, <3>2
      <4> HIDE DEF w
      <4> QED
        BY <1>1, <2>4, <3>2, <4>1
    <3> QED
      BY <2>1, <3>1, <3>2
  <2> HIDE DEF n, w
  <2>7. unlogged' \in Nat /\ unlogged' <= faults' /\ unlogged' = unlogged' + Waiting'
        /\ (emit_once => n + ToEmit' <= runs')
    BY <1>1, <1>2, <2>1, <2>3
  <2> QED
    BY <1>1, <1>4, <2>1, <2>5, <2>6, <2>7
<1>10. CASE ~(StartStrategy \/ PublishOrder \/ PublishOrderFailed \/ WriteDecision \/ WriteDecisionFailed)
  <2>1. UNCHANGED <<emit_once, logging, runs, unlogged, strategy, order, decisions>>
        /\ (faults' = faults \/ faults' = faults + 1)
    BY <1>10 DEF Next, vars, Strategy, Router, Trader, Executor, ForwardCommand, RouterPublishes,
       RouterForgets, Receive, PublishFill, PublishFillFailed, Persist, PersistFailed, PersistRejected,
       AutoCommit, Crash, Restart, strategyVars, Fault
  <2>2. ~SendOrder
    <3>1. ASSUME SendOrder PROVE FALSE
      BY <1>1, <2>1, <3>1, OrderSent DEF IInv, StrategyInv, FlowInv
    <3> QED
      BY <3>1
  <2>3. StrategyOrders' = StrategyOrders
    BY <2>2, StrategyOrdersStep
  <2> QED
    BY <1>3, <2>1, <2>3
<1> QED
  BY <1>5, <1>6, <1>7, <1>8, <1>9, <1>10

(* Under EMIT_ONCE a start emits one order at the most; and an order of    *)
(* strategy_engine without a row in decision_logs is the one being logged, *)
(* or the last of a run that failed.                                       *)
THEOREM EveryOrderLogged == Spec => []OrdersAreLogged
<1>1. Init => LogInv
  <2> SUFFICES ASSUME Init PROVE LogInv
    OBVIOUS
  <2>1. StrategyOrders = {} /\ StrategyOrders \ decisions = {}
    BY DEF Init, StrategyOrders
  <2>2. Cardinality({}) = 0
    BY FS_EmptySet
  <2> QED
    BY <2>1, <2>2 DEF Init, LogInv, ToEmit, Waiting
<1>2. IInv /\ LogInv /\ [Next]_vars => LogInv'
  BY LogStep
<1>3. IInv /\ LogInv => OrdersAreLogged
  <2> SUFFICES ASSUME IInv, LogInv PROVE OrdersAreLogged
    OBVIOUS
  <2>1. Cardinality(StrategyOrders) \in Nat /\ runs \in Nat
    BY StrategyOrdersFinite DEF IInv, StrategyInv
  <2>2. emit_once => Cardinality(StrategyOrders) <= runs
    BY <2>1 DEF LogInv, ToEmit
  <2> QED
    BY <2>2 DEF LogInv, Waiting, OrdersAreLogged
<1> QED
  BY <1>1, <1>2, <1>3, Invariant, PTL DEF Spec

------------------------------------------------------------------------------
(* Trades and the position.                                                *)

(* While no fill is stored twice, table trades holds one row for each fill *)
(* stored, and the position is their sum.                                  *)
TradeOf(r) == [fill |-> r.fill, id |-> r.id, qty |-> r.qty]
StoredOnce == \A i, j \in FillsStored : stored[i].fill = stored[j].fill => i = j
TradesInv ==
    StoredOnce => /\ trades = {TradeOf(stored[i]) : i \in FillsStored}
                  /\ position = QtySum(trades)

LEMMA FillsStoredFinite ==
    ASSUME IInv
    PROVE  /\ IsFiniteSet({TradeOf(stored[i]) : i \in FillsStored})
           /\ \A i \in FillsStored : stored[i] \in Reports
<1>1. Len(stored) \in Int /\ 1 \in Int
  BY DEF IInv, FlowInv
<1>2. IsFiniteSet(1..Len(stored))
  BY <1>1, FS_Interval
<1>3. FillsStored \in SUBSET (1..Len(stored))
  BY DEF FillsStored
<1>4. IsFiniteSet(FillsStored)
  BY <1>2, <1>3, FS_Subset
<1>5. IsFiniteSet({TradeOf(stored[i]) : i \in FillsStored})
  <2> DEFINE T == {TradeOf(stored[i]) : i \in FillsStored}
             f == [i \in FillsStored |-> TradeOf(stored[i])]
  <2>1. f \in Surjection(FillsStored, T)
    BY DEF Surjection
  <2> HIDE DEF f, T
  <2> QED
    BY <1>4, <2>1, FS_Surjection DEF T
<1>6. \A i \in FillsStored : stored[i] \in Reports
  BY DEF FillsStored, IInv, FlowInv
<1> QED
  BY <1>5, <1>6

(* A report is stored: the fills stored are those there were, and it, if   *)
(* it is one.                                                              *)
LEMMA OneMoreStored ==
    ASSUME IInv, NEW r \in Reports, stored' = Append(stored, r)
    PROVE  /\ FillsStored' = FillsStored \cup (IF IsFill(r) THEN {Len(stored) + 1} ELSE {})
           /\ \A i \in FillsStored : stored'[i] = stored[i] /\ i # Len(stored) + 1
           /\ stored'[Len(stored) + 1] = r
<1>1. stored \in Seq(Reports) /\ Len(stored) \in Nat
  BY DEF IInv, FlowInv
<1>2. /\ Len(stored') = Len(stored) + 1 /\ stored'[Len(stored) + 1] = r
      /\ \A i \in 1..Len(stored) : stored'[i] = stored[i]
  BY <1>1, AppendFacts
<1>3. \A i \in 1..Len(stored') : i \in 1..Len(stored) \/ i = Len(stored) + 1
  BY <1>1, <1>2
<1>4. \A i \in 1..Len(stored) : i \in 1..Len(stored') /\ i # Len(stored) + 1
  BY <1>1, <1>2
<1>5. Len(stored) + 1 \in 1..Len(stored')
  BY <1>1, <1>2
<1> HIDE DEF IsFill
<1> QED
  BY <1>2, <1>3, <1>4, <1>5 DEF FillsStored

LEMMA TradesStep ==
    ASSUME IInv, TradesInv, NEW r \in Reports, Transaction(r), StoredOnce'
    PROVE  /\ trades' = {TradeOf(stored[i]) : i \in FillsStored}'
           /\ position' = QtySum(trades')
<1>1. stored' = Append(stored, r)
  BY DEF Transaction
<1>2. /\ FillsStored' = FillsStored \cup (IF IsFill(r) THEN {Len(stored) + 1} ELSE {})
      /\ \A i \in FillsStored : stored'[i] = stored[i] /\ i # Len(stored) + 1
      /\ stored'[Len(stored) + 1] = r
  BY <1>1, OneMoreStored
<1>3. StoredOnce
  BY <1>2 DEF StoredOnce
<1>4. trades = {TradeOf(stored[i]) : i \in FillsStored} /\ position = QtySum(trades)
  BY <1>3 DEF TradesInv
<1>5. CASE ~IsFill(r)
  <2>1. trades' = trades /\ position' = position /\ FillsStored' = FillsStored
    BY <1>2, <1>5 DEF Transaction
  <2>2. {TradeOf(stored[i]) : i \in FillsStored}' = {TradeOf(stored[i]) : i \in FillsStored}
    BY <1>2, <2>1 DEF TradeOf
  <2> QED
    BY <1>4, <2>1, <2>2
<1>6. CASE IsFill(r)
  <2> DEFINE new == TradeOf(r)
  <2>1. FillsStored' = FillsStored \cup {Len(stored) + 1}
    BY <1>2, <1>6
  <2>2. \A i \in FillsStored : stored[i].fill # r.fill
    BY <1>2, <2>1 DEF StoredOnce
  <2>3. \A t \in trades : t.fill # r.fill
    BY <1>4, <2>2 DEF TradeOf
  <2>4. trades' = trades \cup {new} /\ position' = position + r.qty
    BY <1>6, <2>3 DEF Transaction, InsertTrade, UpdatePosition, TradeOf
  <2>5. new.fill = r.fill /\ new.qty = r.qty
    BY DEF TradeOf
  <2>6. new \notin trades
    BY <2>3, <2>5
  <2>7. r.qty \in Int
    BY DEF Reports
  <2>8. IsFiniteSet(trades)
    BY <1>4, FillsStoredFinite
  <2>9. \A t \in trades : t.qty \in Int
    <3>1. \A i \in FillsStored : stored[i].qty \in Int
      BY FillsStoredFinite DEF Reports
    <3> QED
      BY <1>4, <3>1 DEF TradeOf
  <2> HIDE DEF new
  <2>10. QtySum(trades \cup {new}) = QtySum(trades) + new.qty
    BY <2>5, <2>6, <2>7, <2>8, <2>9, SumInsert
  <2>11. position' = QtySum(trades')
    BY <1>4, <2>4, <2>5, <2>10
  <2>12. {TradeOf(stored[i]) : i \in FillsStored}' = {TradeOf(stored[i]) : i \in FillsStored} \cup {new}
    BY <1>2, <2>1 DEF new, TradeOf
  <2> QED
    BY <1>4, <2>4, <2>11, <2>12
<1> QED
  BY <1>5, <1>6

(* The row of positions moves with every fill, new or not, and table       *)
(* trades only with a new one: they agree as long as no fill was stored    *)
(* twice.                                                                  *)
THEOREM PositionIsTheSum == Spec => []PositionMatchesTrades
<1>1. Init => TradesInv
  <2> SUFFICES ASSUME Init PROVE TradesInv
    OBVIOUS
  <2>1. trades = {} /\ position = 0 /\ FillsStored = {}
    BY DEF Init, FillsStored
  <2>2. QtySum({}) = 0
    BY SumOfNone
  <2> QED
    BY <2>1, <2>2 DEF TradesInv
<1>2. IInv /\ TradesInv /\ [Next]_vars => TradesInv'
  <2> SUFFICES ASSUME IInv, TradesInv, [Next]_vars PROVE TradesInv'
    OBVIOUS
  <2>1. CASE UNCHANGED tableVars
    <3>1. trades' = trades /\ position' = position /\ stored' = stored
      BY <2>1 DEF tableVars
    <3> QED
      BY <3>1 DEF TradesInv, StoredOnce, FillsStored
  <2>2. CASE busy["order_executor"] /\ Transaction(Report)
    BY <2>2, ReportType, TradesStep DEF TradesInv
  <2>3. UNCHANGED tableVars \/ (busy["order_executor"] /\ Transaction(Report))
    BY DEF Next, vars, Strategy, Router, Trader, Executor, StartStrategy, WriteDecision,
       WriteDecisionFailed, PublishOrder, PublishOrderFailed, ForwardCommand, RouterPublishes,
       RouterForgets, Receive, PublishFill, PublishFillFailed, Persist, PersistFailed, PersistRejected,
       AutoCommit, Crash, Restart, Finish
  <2> QED
    BY <2>1, <2>2, <2>3
<1>3. TradesInv => PositionMatchesTrades
  BY DEF TradesInv, StoredOnce, PositionMatchesTrades, QtySum
<1> QED
  BY <1>1, <1>2, <1>3, Invariant, PTL DEF Spec
=============================================================================
