------------------------------ MODULE RiskGuard ------------------------------
(***************************************************************************)
(* services/execution_router/risk_guard: the process between TOPIC_ORDERS  *)
(* and TOPIC_ORDERS_APPROVED. For every order it reads the risk limits of  *)
(* Postgres and the kill switches of Redis, runs the P0 gates in order,    *)
(* and forwards the order or publishes a REJECTED report.                  *)
(*                                                                         *)
(* Each await is a step, so the switches and the limits change between     *)
(* two reads of one call. The rows of risk_events the gates write are left *)
(* out: their errors are ignored and nothing in the guard reads them.      *)
(*                                                                         *)
(* A notional is an integer, qty * price of the command; a MARKET order    *)
(* has price 0 and therefore notional 0.                                   *)
(***************************************************************************)
EXTENDS Integers, Sequences, FiniteSets

CONSTANTS
    Orders,         \* client order ids
    NoOrder,        \* stands for a payload that does not decode
    Accounts, Symbols,
    Details,        \* account, symbol and notional of each order
    NoLimit,        \* no row of risk_limits, no entry of the environment
    StaticLimits,   \* LIMIT_NOTIONAL_PER_SYMBOL_MAP
    MaxNotional,    \* LIMIT_NOTIONAL_PER_ORDER
    Limits,         \* the values the risk_limits rows of a symbol may take
    MaxLog,         \* bound: records on TOPIC_ORDERS
    MaxChanges,     \* bound: changes of a switch or of a limit
    MaxRewinds,     \* bound: crashes and rebalances
    MaxFaults       \* bound: calls to another service that fail

Services == {"redis", "postgres", "kafka"}
Switches == {"global"} \cup Accounts

ASSUME GuardAssumption ==
    /\ Details \in [Orders -> [account: Accounts, symbol: Symbols, notional: Nat]]
    /\ NoOrder \notin Orders
    /\ "global" \notin Accounts
    /\ NoLimit \notin Nat
    /\ StaticLimits \in [Symbols -> Nat \cup {NoLimit}]
    /\ MaxNotional \in Nat
    /\ Limits \subseteq Nat \cup {NoLimit}
    /\ MaxLog \in Nat /\ MaxChanges \in Nat /\ MaxRewinds \in Nat /\ MaxFaults \in Nat

VARIABLES
    log,        \* TOPIC_ORDERS
    offset,     \* records handed to the guard
    committed,  \* the group's committed offset
    up,         \* the process runs
    crashes,    \* crashes so far
    rewinds,    \* crashes and rebalances so far
    faults,     \* failed calls of each service so far
    kill,       \* keys risk:kill and risk:kill:{account} that are set
    limits,     \* risk_limits: MAX_POSITION_NOTIONAL by symbol
    changes,    \* changes of kill and limits so far
    cur,        \* the record the current call is about
    stage,      \* where the call is: idle or the name of its next step
    dynamic,    \* DynamicLimits of the call
    reason,     \* RejectReason of a call about to publish a rejection
    approved,   \* TOPIC_ORDERS_APPROVED: the records forwarded
    rejected,   \* TOPIC_EXECUTION_REPORTS: the records rejected, with reason
    armed,      \* switches on ever since the call's record was received
    inForce,    \* limits of its symbol in force at some time since then
    unread      \* what the call failed to read: switches, "limits"

queueVars == <<log, offset, committed>>
procVars  == <<up, crashes, rewinds>>
envVars   == <<kill, limits, changes>>
callVars  == <<cur, stage, dynamic, reason>>
outVars   == <<approved, rejected>>
seenVars  == <<armed, inForce, unread>>
vars == <<queueVars, procVars, faults, envVars, callVars, outVars, seenVars>>

Order == Details[log[cur]]
NoLimits == [s \in Symbols |-> NoLimit]
Reasons == {"KILL_SWITCH", "KILL_SWITCH_ACCOUNT", "NOTIONAL_LIMIT_EXCEEDED",
            "LEVERAGE_LIMIT_EXCEEDED"}

Init ==
    /\ log = <<>> /\ offset = 0 /\ committed = 0
    /\ up = TRUE /\ crashes = 0 /\ rewinds = 0
    /\ faults = [s \in Services |-> 0]
    /\ kill = {} /\ limits = NoLimits /\ changes = 0
    /\ cur = 0 /\ stage = "idle" /\ dynamic = NoLimits /\ reason = "NONE"
    /\ approved = <<>> /\ rejected = <<>>
    /\ armed = {} /\ inForce = {} /\ unread = {}

Fault(service) ==
    /\ faults["redis"] + faults["postgres"] + faults["kafka"] < MaxFaults
    /\ faults' = [faults EXCEPT ![service] = @ + 1]

------------------------------------------------------------------------------
(* The environment: producers of orders, operators, the limits table.      *)

Submit(o) ==
    /\ Len(log) < MaxLog
    /\ log' = Append(log, o)
    /\ UNCHANGED <<offset, committed, procVars, faults, envVars, callVars, outVars, seenVars>>

Change == changes < MaxChanges /\ changes' = changes + 1

(* KillSwitch::enable and enable_account. *)
Enable(s) ==
    /\ Change
    /\ s \notin kill
    /\ kill' = kill \cup {s}
    /\ UNCHANGED <<queueVars, procVars, faults, limits, callVars, outVars, seenVars>>

(* KillSwitch::disable and disable_account. *)
Disable(s) ==
    /\ Change
    /\ s \in kill
    /\ kill' = kill \ {s}
    /\ armed' = armed \ {s}
    /\ UNCHANGED <<queueVars, procVars, faults, limits, callVars, outVars, inForce, unread>>

SetLimit(s, l) ==
    /\ Change
    /\ l # limits[s]
    /\ limits' = [limits EXCEPT ![s] = l]
    /\ inForce' = IF stage # "idle" /\ Order.symbol = s THEN inForce \cup {l} ELSE inForce
    /\ UNCHANGED <<queueVars, procVars, faults, kill, callVars, outVars, armed, unread>>

------------------------------------------------------------------------------
(* The loop: recv, fetch_dynamic_limits, run_gates.                        *)

Ready == up /\ stage = "idle" /\ offset < Len(log)

SkipRecord ==
    /\ Ready
    /\ log[offset + 1] = NoOrder
    /\ offset' = offset + 1
    /\ UNCHANGED <<log, committed, procVars, faults, envVars, callVars, outVars, seenVars>>

Receive ==
    /\ Ready
    /\ log[offset + 1] # NoOrder
    /\ offset' = offset + 1
    /\ cur' = offset + 1
    /\ stage' = "limits"
    /\ armed' = kill
    /\ inForce' = {limits[Details[log[offset + 1]].symbol]}
    /\ unread' = {}
    /\ UNCHANGED <<log, committed, procVars, faults, envVars, dynamic, reason, outVars>>

FetchLimits ==
    /\ stage = "limits"
    /\ dynamic' = limits
    /\ stage' = "global"
    /\ UNCHANGED <<queueVars, procVars, faults, envVars, cur, reason, outVars, seenVars>>

(* unwrap_or_default: without Postgres, the limits of the environment.     *)
FetchLimitsFailed ==
    /\ stage = "limits"
    /\ Fault("postgres")
    /\ dynamic' = NoLimits
    /\ stage' = "global"
    /\ unread' = unread \cup {"limits"}
    /\ UNCHANGED <<queueVars, procVars, envVars, cur, reason, outVars, armed, inForce>>

RejectWith(why) == reason' = why /\ stage' = "report"
PassTo(next) == reason' = reason /\ stage' = next

(* Fault model: the order waits for the switch to go off.                  *)
CheckGlobalWaits ==
    /\ stage = "global"
    /\ "global" \notin kill
    /\ PassTo("account")
    /\ UNCHANGED <<queueVars, procVars, faults, envVars, cur, dynamic, outVars, seenVars>>

CheckGlobal ==
    /\ stage = "global"
    /\ IF "global" \in kill
       THEN RejectWith("KILL_SWITCH")
       ELSE PassTo("account")
    /\ UNCHANGED <<queueVars, procVars, faults, envVars, cur, dynamic, outVars, seenVars>>

(* Fault model: is_enabled in place of check_global and check_account: an  *)
(* error of the first read ends both.                                      *)
CheckGlobalFailedSkipsAccount ==
    /\ stage = "global"
    /\ Fault("redis")
    /\ stage' = "notional"
    /\ unread' = unread \cup {"global"}
    /\ UNCHANGED <<queueVars, procVars, envVars, cur, dynamic, reason, outVars, armed, inForce>>

(* A Redis error is taken for a switch that is off. *)
CheckGlobalFailed ==
    /\ stage = "global"
    /\ Fault("redis")
    /\ stage' = "account"
    /\ unread' = unread \cup {"global"}
    /\ UNCHANGED <<queueVars, procVars, envVars, cur, dynamic, reason, outVars, armed, inForce>>

CheckAccount ==
    /\ stage = "account"
    /\ IF Order.account \in kill
       THEN RejectWith("KILL_SWITCH_ACCOUNT")
       ELSE PassTo("notional")
    /\ UNCHANGED <<queueVars, procVars, faults, envVars, cur, dynamic, outVars, seenVars>>

CheckAccountFailed ==
    /\ stage = "account"
    /\ Fault("redis")
    /\ stage' = "notional"
    /\ unread' = unread \cup {Order.account}
    /\ UNCHANGED <<queueVars, procVars, envVars, cur, dynamic, reason, outVars, armed, inForce>>

(* Fault model: the environment overrides the table.                       *)
StaticFirst(s, l) ==
    IF StaticLimits[s] # NoLimit THEN StaticLimits[s]
    ELSE IF l # NoLimit THEN l ELSE MaxNotional

(* The limit of a symbol whose row of risk_limits is l. *)
LimitFor(s, l) ==
    IF l # NoLimit THEN l
    ELSE IF StaticLimits[s] # NoLimit THEN StaticLimits[s] ELSE MaxNotional

CheckNotional ==
    /\ stage = "notional"
    /\ IF Order.notional <= LimitFor(Order.symbol, dynamic[Order.symbol])
       THEN PassTo("leverage")
       ELSE RejectWith("NOTIONAL_LIMIT_EXCEEDED")
    /\ UNCHANGED <<queueVars, procVars, faults, envVars, cur, dynamic, outVars, seenVars>>

(* The gate compares the leverage limit with itself and always passes.     *)
CheckLeverage ==
    /\ stage = "leverage"
    /\ PassTo("forward")
    /\ UNCHANGED <<queueVars, procVars, faults, envVars, cur, dynamic, outVars, seenVars>>

(* What the call knew is gone when it ends. *)
EndCall ==
    /\ cur' = 0 /\ stage' = "idle" /\ dynamic' = NoLimits /\ reason' = "NONE"
    /\ armed' = {} /\ inForce' = {} /\ unread' = {}

Forward ==
    /\ stage = "forward"
    /\ approved' = Append(approved, cur)
    /\ EndCall
    /\ UNCHANGED <<queueVars, procVars, faults, envVars, rejected>>

(* The send fails, or the broker has the order and the answer is lost; the *)
(* error is logged and the loop goes on.                                   *)
ForwardFailed ==
    /\ stage = "forward"
    /\ Fault("kafka")
    /\ approved' \in {approved, Append(approved, cur)}
    /\ EndCall
    /\ UNCHANGED <<queueVars, procVars, envVars, rejected>>

(* Fault model: the row of risk_events is all that says of the rejection.  *)
RejectSilently ==
    /\ stage = "report"
    /\ EndCall
    /\ UNCHANGED <<queueVars, procVars, faults, envVars, outVars>>

(* publish_rejection_report. *)
ReportRejection ==
    /\ stage = "report"
    /\ rejected' = Append(rejected, [rec |-> cur, reason |-> reason])
    /\ EndCall
    /\ UNCHANGED <<queueVars, procVars, faults, envVars, approved>>

ReportFailed ==
    /\ stage = "report"
    /\ Fault("kafka")
    /\ rejected' \in {rejected, Append(rejected, [rec |-> cur, reason |-> reason])}
    /\ EndCall
    /\ UNCHANGED <<queueVars, procVars, envVars, approved>>

------------------------------------------------------------------------------
(* Offsets, rebalances, crashes.                                           *)

(* Fault model: the next offset is taken for the last one, and counted up. *)
CommitPastEnd ==
    /\ up /\ committed # offset
    /\ committed' = offset + 1
    /\ UNCHANGED <<log, offset, procVars, faults, envVars, callVars, outVars, seenVars>>

AutoCommit ==
    /\ up /\ committed # offset
    /\ committed' = offset
    /\ UNCHANGED <<log, offset, procVars, faults, envVars, callVars, outVars, seenVars>>

Rewind == rewinds < MaxRewinds /\ rewinds' = rewinds + 1

Rebalance ==
    /\ up /\ committed # offset
    /\ Rewind
    /\ offset' = committed
    /\ UNCHANGED <<log, committed, up, crashes, faults, envVars, callVars, outVars, seenVars>>

Crash ==
    /\ up
    /\ Rewind
    /\ crashes' = crashes + 1
    /\ up' = FALSE
    /\ EndCall
    /\ UNCHANGED <<queueVars, faults, envVars, outVars>>

Restart ==
    /\ ~up
    /\ up' = TRUE
    /\ offset' = committed
    /\ UNCHANGED <<log, committed, crashes, rewinds, faults, envVars, callVars, outVars, seenVars>>

Gates ==
    \/ CheckGlobal \/ CheckGlobalFailed
    \/ CheckAccount \/ CheckAccountFailed
    \/ CheckNotional \/ CheckLeverage

Process ==
    \/ SkipRecord \/ Receive
    \/ FetchLimits \/ FetchLimitsFailed
    \/ Gates
    \/ Forward \/ ForwardFailed
    \/ ReportRejection \/ ReportFailed

Operate ==
    \/ \E s \in Switches : Enable(s) \/ Disable(s)
    \/ \E s \in Symbols, l \in Limits : SetLimit(s, l)

Next ==
    \/ \E o \in Orders \cup {NoOrder} : Submit(o)
    \/ Operate
    \/ Process
    \/ AutoCommit \/ Rebalance \/ Crash \/ Restart

Spec == Init /\ [][Next]_vars

(* The loop awaits one record at a time. Its sends return, within          *)
(* message.timeout.ms; that Redis and Postgres answer or fail is assumed.  *)
FairSpec == Spec /\ WF_vars(Process) /\ WF_vars(Restart)

------------------------------------------------------------------------------
(* Properties.                                                             *)

Stages == {"idle", "limits", "global", "account", "notional", "leverage", "forward", "report"}

(* Every variable holds a value of its kind: the enums of hft_risk, the    *)
(* columns of risk_events and risk_limits, Kafka offsets.                  *)
TypeOK ==
    /\ log \in Seq(Orders \cup {NoOrder})
    /\ offset \in 0..Len(log) /\ committed \in 0..Len(log) /\ cur \in 0..Len(log)
    /\ up \in BOOLEAN /\ crashes \in Nat /\ rewinds \in Nat /\ changes \in Nat
    /\ faults \in [Services -> Nat]
    /\ kill \subseteq Switches /\ armed \subseteq Switches
    /\ unread \subseteq Switches \cup {"limits"}
    /\ limits \in [Symbols -> Nat \cup {NoLimit}]
    /\ dynamic \in [Symbols -> Nat \cup {NoLimit}]
    /\ inForce \subseteq Nat \cup {NoLimit}
    /\ stage \in Stages
    /\ stage # "idle" => up /\ cur > 0 /\ log[cur] # NoOrder
    /\ reason \in Reasons \cup {"NONE"}
    /\ approved \in Seq(1..Len(log))
    /\ rejected \in Seq([rec: 1..Len(log), reason: Reasons])

(* The switches an order answers to. *)
SwitchesOf(o) == {"global", Details[o].account}

(* A switch that was on when the order was received and has been on ever   *)
(* since keeps the order from being forwarded, unless Redis could not be   *)
(* asked about that very switch: run_gates reads both, and an error on one *)
(* does not spare the other.                                               *)
KillSwitchHolds ==
    stage = "forward" => armed \cap SwitchesOf(log[cur]) \subseteq unread

(* An order about to be forwarded is within a limit that was in force for  *)
(* its symbol while it was being decided, or within the limit of the       *)
(* environment when the table could not be read: never within one that     *)
(* was withdrawn before the order came.                                    *)
LimitHolds ==
    stage = "forward" =>
        \E l \in inForce \cup (IF "limits" \in unread THEN {NoLimit} ELSE {}) :
            Order.notional <= IF l # NoLimit THEN l
                              ELSE IF StaticLimits[Order.symbol] # NoLimit
                                   THEN StaticLimits[Order.symbol] ELSE MaxNotional

Approvals(i)  == {k \in 1..Len(approved) : approved[k] = i}
Rejections(i) == {k \in 1..Len(rejected) : rejected[k].rec = i}
Decided(i) == Approvals(i) # {} \/ Rejections(i) # {}

(* The loop answers an order once each time it is handed over: a committed *)
(* order that nobody will decide any more is the price of one failed send  *)
(* or of one crash between recv and send, and an order is decided again,   *)
(* perhaps differently, only after a crash or a rebalance.                 *)
DecisionsAreCharged ==
    /\ Cardinality({i \in 1..committed : /\ log[i] # NoOrder
                                         /\ ~Decided(i)
                                         /\ ~(stage # "idle" /\ cur = i)})
           <= faults["kafka"] + crashes
    /\ \A i \in 1..Len(log) :
           Cardinality(Approvals(i)) + Cardinality(Rejections(i)) <= 1 + rewinds

(* Every order is decided in the end, as long as no send fails and the     *)
(* process does not crash: no error of Redis or Postgres holds it up.      *)
EveryOrderDecided ==
    \A i \in 1..MaxLog :
        (Len(log) >= i /\ log[i] # NoOrder)
            ~> (Decided(i) \/ faults["kafka"] > 0 \/ crashes > 0)
=============================================================================
