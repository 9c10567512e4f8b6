-------------------------- MODULE RiskGuardProofs --------------------------
(***************************************************************************)
(* Theorems about RiskGuard, for every set of accounts, symbols and orders,*)
(* every limit and every value of the bounds.                              *)
(***************************************************************************)
EXTENDS RiskGuard, FiniteSetTheorems, TLAPS

(* The switches a call counts on are still on. *)
ArmedInv == armed \subseteq kill

(* A gate that was passed either saw its switch off, and then it has not   *)
(* been on all the time, or could not read it.                             *)
GateInv ==
    /\ stage \in {"account", "notional", "leverage", "forward"} =>
           ("global" \in armed => "global" \in unread)
    /\ stage \in {"notional", "leverage", "forward"} =>
           (Order.account \in armed => Order.account \in unread)

(* The limits a call has in hand were in force since its record came, or   *)
(* are those of the environment because the table could not be read.       *)
Known == inForce \cup (IF "limits" \in unread THEN {NoLimit} ELSE {})

LimitInv ==
    /\ stage # "idle" => limits[Order.symbol] \in inForce
    /\ stage \in {"global", "account", "notional", "leverage", "forward"} =>
           dynamic[Order.symbol] \in Known
    /\ stage \in {"leverage", "forward"} =>
           Order.notional <= LimitFor(Order.symbol, dynamic[Order.symbol])

(* A call about to publish a rejection knows why. *)
ReasonInv == stage = "report" => reason \in Reasons

IInv == TypeOK /\ ArmedInv /\ GateInv /\ LimitInv /\ ReasonInv

------------------------------------------------------------------------------
(* The data.                                                               *)

LEMMA OrderType ==
    ASSUME TypeOK, stage # "idle"
    PROVE  /\ cur \in 1..Len(log)
           /\ log[cur] \in Orders
           /\ Order = Details[log[cur]]
           /\ Order.account \in Accounts
           /\ Order.symbol \in Symbols
           /\ Order.notional \in Nat
<1>1. cur \in 1..Len(log) /\ log[cur] \in Orders
  BY DEF TypeOK
<1>2. Details[log[cur]] \in [account: Accounts, symbol: Symbols, notional: Nat]
  BY <1>1, GuardAssumption
<1> QED
  BY <1>1, <1>2 DEF Order

LEMMA LimitType ==
    ASSUME NEW s \in Symbols, NEW l \in Nat \cup {NoLimit}
    PROVE  LimitFor(s, l) \in Nat
  BY GuardAssumption DEF LimitFor

LEMMA AppendType ==
    ASSUME NEW S, NEW q \in Seq(S), NEW e \in S
    PROVE  /\ Append(q, e) \in Seq(S)
           /\ Len(Append(q, e)) = Len(q) + 1
           /\ \A i \in 1..Len(q) : Append(q, e)[i] = q[i]
           /\ Append(q, e)[Len(q) + 1] = e
  OBVIOUS

LEMMA SeqGrows ==
    ASSUME NEW S, NEW T, S \subseteq T, NEW q \in Seq(S)
    PROVE  q \in Seq(T)
  OBVIOUS

LEMMA FaultType ==
    ASSUME TypeOK, NEW s \in Services, Fault(s)
    PROVE  faults' \in [Services -> Nat]
<1>1. faults' = [faults EXCEPT ![s] = @ + 1]
  BY DEF Fault
<1> QED
  BY <1>1 DEF TypeOK

------------------------------------------------------------------------------
THEOREM InitIInv == Init => IInv
<1> SUFFICES ASSUME Init PROVE IInv
  OBVIOUS
<1>1. NoLimits \in [Symbols -> Nat \cup {NoLimit}]
  BY DEF NoLimits
<1>2. TypeOK
  <2>1. log \in Seq(Orders \cup {NoOrder}) /\ approved \in Seq(1..Len(log))
        /\ rejected \in Seq([rec: 1..Len(log), reason: Reasons])
    BY DEF Init
  <2>2. faults \in [Services -> Nat]
    BY DEF Init
  <2> QED
    BY <1>1, <2>1, <2>2 DEF Init, TypeOK, Stages
<1> QED
  BY <1>2 DEF Init, IInv, ArmedInv, GateInv, LimitInv, ReasonInv

------------------------------------------------------------------------------
(* The log grows: what a call knows of its record stays true.              *)
LEMMA SubmitStep ==
    ASSUME IInv, NEW o \in Orders \cup {NoOrder}, Submit(o)
    PROVE  IInv'
<1> DEFINE T == Orders \cup {NoOrder}
<1>1. /\ log' = Append(log, o)
      /\ UNCHANGED <<offset, committed, up, crashes, rewinds, faults, kill, limits, changes,
                     cur, stage, dynamic, reason, approved, rejected, armed, inForce, unread>>
  BY DEF Submit, procVars, envVars, callVars, outVars, seenVars
<1>2. log \in Seq(T)
  BY DEF IInv, TypeOK
<1>3. /\ log' \in Seq(T) /\ Len(log') = Len(log) + 1 /\ Len(log) \in Nat
      /\ \A i \in 1..Len(log) : log'[i] = log[i]
  BY <1>1, <1>2, AppendType
<1>4. approved' \in Seq(1..Len(log')) /\ rejected' \in Seq([rec: 1..Len(log'), reason: Reasons])
  <2>1. approved \in Seq(1..Len(log)) /\ rejected \in Seq([rec: 1..Len(log), reason: Reasons])
    BY DEF IInv, TypeOK
  <2>2. 1..Len(log) \subseteq 1..Len(log')
    BY <1>3
  <2>3. [rec: 1..Len(log), reason: Reasons] \subseteq [rec: 1..Len(log'), reason: Reasons]
    BY <2>2
  <2>4. approved \in Seq(1..Len(log'))
    BY <2>1, <2>2, SeqGrows
  <2>5. rejected \in Seq([rec: 1..Len(log'), reason: Reasons])
    BY <2>1, <2>3, SeqGrows
  <2> QED
    BY <1>1, <2>4, <2>5
<1>5. stage # "idle" => cur \in 1..Len(log) /\ log'[cur] = log[cur] /\ Order' = Order
  <2> SUFFICES ASSUME stage # "idle"
               PROVE  cur \in 1..Len(log) /\ log'[cur] = log[cur] /\ Order' = Order
    OBVIOUS
  <2>1. cur \in 1..Len(log)
    BY OrderType DEF IInv
  <2> QED
    BY <1>1, <1>3, <2>1 DEF Order
<1>6. TypeOK'
  <2>1. offset' \in 0..Len(log') /\ committed' \in 0..Len(log') /\ cur' \in 0..Len(log')
    BY <1>1, <1>3 DEF IInv, TypeOK
  <2>2. stage' # "idle" => up' /\ cur' > 0 /\ log'[cur'] # NoOrder
    BY <1>1, <1>5 DEF IInv, TypeOK
  <2> QED
    BY <1>1, <1>3, <1>4, <2>1, <2>2 DEF IInv, TypeOK
<1>7. ArmedInv' /\ GateInv'
  BY <1>1, <1>5 DEF IInv, ArmedInv, GateInv
<1>8. LimitInv'
  BY <1>1, <1>5 DEF IInv, LimitInv, Known, LimitFor
<1> QED
  BY <1>1, <1>6, <1>7, <1>8 DEF IInv, ReasonInv

------------------------------------------------------------------------------
(* Switches and limits change under a running call.                        *)

LEMMA SwitchStep ==
    ASSUME IInv, NEW s \in Switches, Enable(s) \/ Disable(s)
    PROVE  IInv'
<1>1. /\ UNCHANGED <<log, offset, committed, up, crashes, rewinds, faults, limits,
                     cur, stage, dynamic, reason, approved, rejected, inForce, unread>>
      /\ changes' = changes + 1
  BY DEF Enable, Disable, Change, queueVars, procVars, callVars, outVars, seenVars
<1>2. \/ kill' = kill \cup {s} /\ armed' = armed
      \/ kill' = kill \ {s} /\ armed' = armed \ {s}
  BY DEF Enable, Disable, seenVars
<1>3. Order' = Order
  BY <1>1 DEF Order
<1>4. TypeOK'
  <2>1. kill' \subseteq Switches /\ armed' \subseteq Switches
    BY <1>2 DEF IInv, TypeOK
  <2> QED
    BY <1>1, <2>1 DEF IInv, TypeOK
<1>5. ArmedInv' /\ armed' \subseteq armed
  BY <1>2 DEF IInv, ArmedInv
<1>6. GateInv'
  BY <1>1, <1>3, <1>5 DEF IInv, GateInv
<1>7. LimitInv'
  BY <1>1, <1>3 DEF IInv, LimitInv, Known, LimitFor
<1> QED
  BY <1>1, <1>4, <1>5, <1>6, <1>7 DEF IInv, ReasonInv

(* A new limit joins those in force, and none leaves them.                 *)
LEMMA SetLimitStep ==
    ASSUME IInv, NEW s \in Symbols, NEW l \in Limits, SetLimit(s, l)
    PROVE  IInv'
<1>1. /\ UNCHANGED <<log, offset, committed, up, crashes, rewinds, faults, kill, cur,
                     stage, dynamic, reason, approved, rejected, armed, unread>>
      /\ changes' = changes + 1
      /\ limits' = [limits EXCEPT ![s] = l]
  BY DEF SetLimit, Change, queueVars, procVars, callVars, outVars
<1>2. inForce' = IF stage # "idle" /\ Order.symbol = s THEN inForce \cup {l} ELSE inForce
  BY DEF SetLimit
<1>3. l \in Nat \cup {NoLimit}
  BY GuardAssumption
<1>4. Order' = Order
  BY <1>1 DEF Order
<1>5. TypeOK'
  <2>1. limits' \in [Symbols -> Nat \cup {NoLimit}]
    BY <1>1, <1>3 DEF IInv, TypeOK
  <2>2. inForce' \subseteq Nat \cup {NoLimit}
    BY <1>2, <1>3 DEF IInv, TypeOK
  <2> QED
    BY <1>1, <2>1, <2>2 DEF IInv, TypeOK
<1>6. ArmedInv' /\ GateInv'
  BY <1>1, <1>4 DEF IInv, ArmedInv, GateInv
<1>7. inForce \subseteq inForce'
  BY <1>2
<1>8. stage # "idle" => limits'[Order.symbol] \in inForce'
  <2> SUFFICES ASSUME stage # "idle" PROVE limits'[Order.symbol] \in inForce'
    OBVIOUS
  <2>1. Order.symbol \in Symbols
    BY OrderType DEF IInv
  <2>2. limits[Order.symbol] \in inForce
    BY DEF IInv, LimitInv
  <2>3. limits'[Order.symbol] = IF Order.symbol = s THEN l ELSE limits[Order.symbol]
    BY <1>1, <2>1 DEF IInv, TypeOK
  <2> QED
    BY <1>2, <2>2, <2>3
<1>9. LimitInv'
  <2>1. Known \subseteq Known'
    BY <1>1, <1>7 DEF Known
  <2> QED
    BY <1>1, <1>4, <1>8, <2>1 DEF IInv, LimitInv, LimitFor
<1> QED
  BY <1>1, <1>5, <1>6, <1>9 DEF IInv, ReasonInv

------------------------------------------------------------------------------
(* The call.                                                               *)

LEMMA SkipStep == ASSUME IInv, SkipRecord PROVE IInv'
<1>1. /\ UNCHANGED <<log, committed, up, crashes, rewinds, faults, kill, limits, changes, cur,
                     stage, dynamic, reason, approved, rejected, armed, inForce, unread>>
      /\ offset' = offset + 1 /\ offset < Len(log)
  BY DEF SkipRecord, Ready, procVars, envVars, callVars, outVars, seenVars
<1>2. Order' = Order
  BY <1>1 DEF Order
<1>3. TypeOK'
  <2>1. offset' \in 0..Len(log)
    BY <1>1 DEF IInv, TypeOK
  <2> QED
    BY <1>1, <2>1 DEF IInv, TypeOK
<1> QED
  BY <1>1, <1>2, <1>3 DEF IInv, ArmedInv, GateInv, LimitInv, ReasonInv, Known, LimitFor

(* A call begins: every switch that is on counts, and the limit of now.    *)
LEMMA ReceiveStep == ASSUME IInv, Receive PROVE IInv'
<1>1. /\ UNCHANGED <<log, committed, up, crashes, rewinds, faults, kill, limits, changes,
                     dynamic, reason, approved, rejected>>
      /\ offset' = offset + 1 /\ cur' = offset + 1 /\ stage' = "limits"
      /\ armed' = kill /\ unread' = {}
      /\ inForce' = {limits[Details[log[offset + 1]].symbol]}
      /\ up /\ offset < Len(log) /\ log[offset + 1] # NoOrder
  BY DEF Receive, Ready, procVars, envVars, outVars
<1>2. offset + 1 \in 1..Len(log)
  BY <1>1 DEF IInv, TypeOK
<1>3. log[offset + 1] \in Orders
  BY <1>1, <1>2 DEF IInv, TypeOK
<1>4. Details[log[offset + 1]].symbol \in Symbols
  BY <1>3, GuardAssumption
<1>5. Order' = Details[log[offset + 1]]
  BY <1>1 DEF Order
<1>6. TypeOK'
  <2>1. inForce' \subseteq Nat \cup {NoLimit}
    BY <1>1, <1>4 DEF IInv, TypeOK
  <2>2. /\ offset' \in 0..Len(log) /\ cur' \in 0..Len(log) /\ cur' > 0
        /\ log[cur'] # NoOrder
    BY <1>1, <1>2
  <2> QED
    BY <1>1, <2>1, <2>2 DEF IInv, TypeOK, Stages
<1>7. LimitInv'
  BY <1>1, <1>5 DEF LimitInv
<1> QED
  BY <1>1, <1>6, <1>7 DEF IInv, ArmedInv, GateInv, ReasonInv

LEMMA FetchStep == ASSUME IInv, FetchLimits \/ FetchLimitsFailed PROVE IInv'
<1>1. /\ UNCHANGED <<log, offset, committed, up, crashes, rewinds, kill, limits, changes,
                     cur, reason, approved, rejected, armed, inForce>>
      /\ stage = "limits" /\ stage' = "global"
  BY DEF FetchLimits, FetchLimitsFailed, queueVars, procVars, envVars, outVars, seenVars
<1>2. Order' = Order
  BY <1>1 DEF Order
<1>3. \/ dynamic' = limits /\ unread' = unread /\ faults' = faults
      \/ dynamic' = NoLimits /\ unread' = unread \cup {"limits"} /\ Fault("postgres")
  BY DEF FetchLimits, FetchLimitsFailed, seenVars
<1>4. faults' \in [Services -> Nat]
  BY <1>3, FaultType DEF IInv, TypeOK, Services
<1>5. Order.symbol \in Symbols
  BY <1>1, OrderType DEF IInv
<1>6. TypeOK'
  <2>1. dynamic' \in [Symbols -> Nat \cup {NoLimit}]
    BY <1>3 DEF IInv, TypeOK, NoLimits
  <2>2. unread' \subseteq Switches \cup {"limits"}
    BY <1>3 DEF IInv, TypeOK
  <2> QED
    BY <1>1, <1>4, <2>1, <2>2 DEF IInv, TypeOK, Stages
<1>7. ArmedInv' /\ GateInv'
  BY <1>1 DEF IInv, ArmedInv, GateInv
<1>8. dynamic'[Order.symbol] \in Known'
  <2>1. limits[Order.symbol] \in inForce
    BY <1>1 DEF IInv, LimitInv
  <2>2. NoLimits[Order.symbol] = NoLimit
    BY <1>5 DEF NoLimits
  <2> QED
    BY <1>1, <1>3, <2>1, <2>2 DEF Known
<1>9. LimitInv'
  BY <1>1, <1>2, <1>8 DEF IInv, LimitInv
<1> QED
  BY <1>1, <1>6, <1>7, <1>9 DEF IInv, ReasonInv

(* A gate lets an order pass on a switch that is off, on an error of Redis *)
(* or on a notional within the limit in hand; else it names its reason.    *)
LEMMA GateStep == ASSUME IInv, Gates PROVE IInv'
<1>1. /\ UNCHANGED <<log, offset, committed, up, crashes, rewinds, kill, limits, changes,
                     cur, dynamic, approved, rejected, armed, inForce>>
      /\ stage \in {"global", "account", "notional", "leverage"}
  BY DEF Gates, CheckGlobal, CheckGlobalFailed, CheckAccount, CheckAccountFailed,
         CheckNotional, CheckLeverage, queueVars, procVars, envVars, outVars, seenVars
<1>2. \/ stage' = "report" /\ reason' \in Reasons /\ unread' = unread /\ faults' = faults
      \/ /\ stage = "global" /\ stage' = "account" /\ reason' = reason
         /\ \/ "global" \notin kill /\ unread' = unread /\ faults' = faults
            \/ unread' = unread \cup {"global"} /\ Fault("redis")
      \/ /\ stage = "account" /\ stage' = "notional" /\ reason' = reason
         /\ \/ Order.account \notin kill /\ unread' = unread /\ faults' = faults
            \/ unread' = unread \cup {Order.account} /\ Fault("redis")
      \/ /\ stage = "notional" /\ stage' = "leverage" /\ reason' = reason
         /\ unread' = unread /\ faults' = faults
         /\ Order.notional <= LimitFor(Order.symbol, dynamic[Order.symbol])
      \/ /\ stage = "leverage" /\ stage' = "forward" /\ reason' = reason
         /\ unread' = unread /\ faults' = faults
  BY DEF Gates, CheckGlobal, CheckGlobalFailed, CheckAccount, CheckAccountFailed,
         CheckNotional, CheckLeverage, RejectWith, PassTo, Reasons, seenVars
<1>3. Order' = Order
  BY <1>1 DEF Order
<1>4. faults' \in [Services -> Nat]
  BY <1>2, FaultType DEF IInv, TypeOK, Services
<1>5. Order.account \in Accounts
  BY <1>1, OrderType DEF IInv
<1>6. TypeOK'
  <2>1. unread' \subseteq Switches \cup {"limits"}
    BY <1>2, <1>5 DEF IInv, TypeOK, Switches
  <2>2. stage' \in Stages /\ stage # "idle" /\ stage' # "idle"
        /\ reason' \in Reasons \cup {"NONE"}
    BY <1>1, <1>2 DEF IInv, TypeOK, Stages
  <2> QED
    BY <1>1, <1>4, <2>1, <2>2 DEF IInv, TypeOK
<1>7. ArmedInv'
  BY <1>1 DEF IInv, ArmedInv
<1>8. unread \subseteq unread'
  BY <1>2
<1>9. GateInv'
  BY <1>1, <1>2, <1>3, <1>8 DEF IInv, GateInv, ArmedInv
<1>10. LimitInv'
  <2>1. Known \subseteq Known'
    BY <1>1, <1>8 DEF Known
  <2>2. stage # "idle"
    BY <1>1
  <2>3. limits'[Order'.symbol] \in inForce'
    BY <1>1, <1>3, <2>2 DEF IInv, LimitInv
  <2>4. dynamic'[Order'.symbol] \in Known'
    BY <1>1, <1>3, <2>1 DEF IInv, LimitInv
  <2>5. stage' \in {"leverage", "forward"} =>
            Order'.notional <= LimitFor(Order'.symbol, dynamic'[Order'.symbol])
    BY <1>1, <1>2, <1>3 DEF IInv, LimitInv
  <2> QED
    BY <2>3, <2>4, <2>5 DEF LimitInv, LimitFor
<1> QED
  BY <1>1, <1>2, <1>6, <1>7, <1>9, <1>10 DEF IInv, ReasonInv

Ends == Forward \/ ForwardFailed \/ ReportRejection \/ ReportFailed

(* A call ends: one decision more at most, and nothing left in hand.       *)
LEMMA EndStep == ASSUME IInv, Ends PROVE IInv'
<1>1. /\ UNCHANGED <<log, offset, committed, up, crashes, rewinds, kill, limits, changes>>
      /\ EndCall /\ stage \in {"forward", "report"}
  BY DEF Ends, Forward, ForwardFailed, ReportRejection, ReportFailed,
         queueVars, procVars, envVars
<1>2. faults' = faults \/ Fault("kafka")
  BY DEF Ends, Forward, ForwardFailed, ReportRejection, ReportFailed
<1>3. /\ approved' \in {approved, Append(approved, cur)}
      /\ \/ rejected' = rejected
         \/ stage = "report" /\ rejected' = Append(rejected, [rec |-> cur, reason |-> reason])
  BY DEF Ends, Forward, ForwardFailed, ReportRejection, ReportFailed
<1>4. cur \in 1..Len(log)
  BY <1>1, OrderType DEF IInv
<1>5. approved' \in Seq(1..Len(log))
  <2>1. approved \in Seq(1..Len(log))
    BY DEF IInv, TypeOK
  <2>2. Append(approved, cur) \in Seq(1..Len(log))
    BY <1>4, <2>1, AppendType
  <2> QED
    BY <1>3, <2>1, <2>2
<1>6. rejected' \in Seq([rec: 1..Len(log), reason: Reasons])
  <2> DEFINE R == [rec: 1..Len(log), reason: Reasons]
  <2>1. rejected \in Seq(R)
    BY DEF IInv, TypeOK
  <2>2. CASE stage = "report"
    <3>1. [rec |-> cur, reason |-> reason] \in R
      BY <1>4, <2>2 DEF IInv, ReasonInv
    <3>2. Append(rejected, [rec |-> cur, reason |-> reason]) \in Seq(R)
      BY <2>1, <3>1, AppendType
    <3> QED
      BY <1>3, <2>1, <3>2
  <2> QED
    BY <1>3, <2>1, <2>2
<1>7. faults' \in [Services -> Nat]
  BY <1>2, FaultType DEF IInv, TypeOK, Services
<1>8. TypeOK'
  <2>1. NoLimits \in [Symbols -> Nat \cup {NoLimit}]
    BY DEF NoLimits
  <2> QED
    BY <1>1, <1>5, <1>6, <1>7, <2>1 DEF IInv, TypeOK, EndCall, Stages
<1> QED
  BY <1>1, <1>8 DEF IInv, EndCall, ArmedInv, GateInv, LimitInv, ReasonInv

------------------------------------------------------------------------------
(* Offsets, rebalances, crashes.                                           *)

LEMMA OffsetStep ==
    ASSUME IInv, AutoCommit \/ Rebalance \/ Restart
    PROVE  IInv'
<1>1. /\ UNCHANGED <<log, crashes, faults, kill, limits, changes, cur, stage, dynamic,
                     reason, approved, rejected, armed, inForce, unread>>
      /\ \/ committed' = offset /\ offset' = offset /\ UNCHANGED <<up, rewinds>>
         \/ /\ offset' = committed /\ committed' = committed
            /\ \/ up' = up /\ rewinds' = rewinds + 1
               \/ up' = TRUE /\ rewinds' = rewinds
  BY DEF AutoCommit, Rebalance, Restart, Rewind, procVars, envVars, callVars, outVars, seenVars
<1>2. Order' = Order
  BY <1>1 DEF Order
<1>3. TypeOK'
  <2>1. offset' \in 0..Len(log) /\ committed' \in 0..Len(log) /\ rewinds' \in Nat
    BY <1>1 DEF IInv, TypeOK
  <2>2. up' \in BOOLEAN
    BY <1>1 DEF IInv, TypeOK
  <2>3. stage # "idle" => up'
    BY <1>1 DEF IInv, TypeOK
  <2> QED
    BY <1>1, <2>1, <2>2, <2>3 DEF IInv, TypeOK
<1> QED
  BY <1>1, <1>2, <1>3 DEF IInv, ArmedInv, GateInv, LimitInv, ReasonInv, Known, LimitFor

LEMMA CrashStep == ASSUME IInv, Crash PROVE IInv'
<1>1. /\ UNCHANGED <<log, offset, committed, faults, kill, limits, changes, approved, rejected>>
      /\ EndCall /\ up' = FALSE /\ crashes' = crashes + 1 /\ rewinds' = rewinds + 1
  BY DEF Crash, Rewind, queueVars, envVars, outVars
<1>2. NoLimits \in [Symbols -> Nat \cup {NoLimit}]
  BY DEF NoLimits
<1>3. TypeOK'
  <2>1. crashes' \in Nat /\ rewinds' \in Nat
    BY <1>1 DEF IInv, TypeOK
  <2>2. /\ cur' = 0 /\ stage' = "idle" /\ dynamic' = NoLimits /\ reason' = "NONE"
        /\ armed' = {} /\ inForce' = {} /\ unread' = {}
    BY <1>1 DEF EndCall
  <2>3. 0 \in 0..Len(log)
    BY DEF IInv, TypeOK
  <2>4. up' \in BOOLEAN
    BY <1>1
  <2> QED
    BY <1>1, <1>2, <2>1, <2>2, <2>3, <2>4 DEF IInv, TypeOK, Stages
<1> QED
  BY <1>1, <1>3 DEF IInv, EndCall, ArmedInv, GateInv, LimitInv, ReasonInv

------------------------------------------------------------------------------
(* The inductive invariant holds in every behaviour of the guard.          *)
THEOREM GuardInvariant == Spec => []IInv
<1>1. IInv /\ [Next]_vars => IInv'
  <2> SUFFICES ASSUME IInv, [Next]_vars PROVE IInv'
    OBVIOUS
  <2>1. CASE \E o \in Orders \cup {NoOrder} : Submit(o)
    BY <2>1, SubmitStep
  <2>2. CASE Operate
    BY <2>2, SwitchStep, SetLimitStep DEF Operate
  <2>3. CASE Process
    BY <2>3, SkipStep, ReceiveStep, FetchStep, GateStep, EndStep DEF Process, Ends
  <2>4. CASE AutoCommit \/ Rebalance \/ Restart
    BY <2>4, OffsetStep
  <2>5. CASE Crash
    BY <2>5, CrashStep
  <2>6. CASE UNCHANGED vars
    BY <2>6 DEF IInv, TypeOK, ArmedInv, GateInv, LimitInv, ReasonInv, Known, LimitFor, Order,
                vars, queueVars, procVars, envVars, callVars, outVars, seenVars
  <2> QED
    BY <2>1, <2>2, <2>3, <2>4, <2>5, <2>6 DEF Next
<1> QED
  BY InitIInv, <1>1, PTL DEF Spec

(* Every variable of the guard keeps its type (main.rs, checker.rs).       *)
THEOREM TypeCorrect == Spec => []TypeOK
<1>1. IInv => TypeOK
  BY DEF IInv
<1> QED
  BY <1>1, GuardInvariant, PTL

(* run_gates forwards no order against a switch that was on from its       *)
(* receipt to its decision, unless Redis failed on that very switch.       *)
THEOREM SwitchesHold == Spec => []KillSwitchHolds
<1>1. IInv => KillSwitchHolds
  <2> SUFFICES ASSUME IInv, stage = "forward"
               PROVE  armed \cap SwitchesOf(log[cur]) \subseteq unread
    BY DEF KillSwitchHolds
  <2>1. Order = Details[log[cur]]
    BY OrderType DEF IInv
  <2> QED
    BY <2>1 DEF IInv, GateInv, SwitchesOf
<1> QED
  BY <1>1, GuardInvariant, PTL

(* run_gates forwards an order only within a limit that was in force while *)
(* it was being decided, or within the environment's if Postgres failed.   *)
THEOREM LimitsHold == Spec => []LimitHolds
<1>1. IInv => LimitHolds
  <2> SUFFICES ASSUME IInv, stage = "forward" PROVE LimitHolds
    BY DEF LimitHolds
  <2>1. /\ dynamic[Order.symbol] \in Known
        /\ Order.notional <= LimitFor(Order.symbol, dynamic[Order.symbol])
    BY DEF IInv, LimitInv
  <2> QED
    BY <2>1 DEF LimitHolds, Known, LimitFor
<1> QED
  BY <1>1, GuardInvariant, PTL

------------------------------------------------------------------------------
(* What each crash, rebalance and failed send is charged with.             *)

(* Orders handed over since the last rewind that nobody has decided and    *)
(* nobody is deciding; the committed ones are among them.                  *)
Undecided == {i \in 1..offset : /\ log[i] # NoOrder
                                /\ ~Decided(i)
                                /\ ~(stage # "idle" /\ cur = i)}

Decisions(i) == Cardinality(Approvals(i)) + Cardinality(Rejections(i))
InHand(i)    == IF stage # "idle" /\ cur = i THEN 1 ELSE 0
Handed(i)    == IF up /\ i <= offset THEN 1 ELSE 0

(* A record is decided, or in hand, once for each time the offset has      *)
(* passed it: once, and again for each rewind that took it back.           *)
ChargeInv ==
    /\ committed <= offset
    /\ Cardinality(Undecided) <= faults["kafka"] + crashes
    /\ \A i \in Nat \ {0} : Decisions(i) + InHand(i) <= rewinds + Handed(i)

(* The decisions on a record are finitely many. *)
LEMMA DecisionsType ==
    ASSUME TypeOK, NEW i
    PROVE  /\ IsFiniteSet(Approvals(i)) /\ IsFiniteSet(Rejections(i))
           /\ Cardinality(Approvals(i)) \in Nat /\ Cardinality(Rejections(i)) \in Nat
           /\ Decisions(i) \in Nat
<1>1. Len(approved) \in Nat /\ Len(rejected) \in Nat
  BY DEF TypeOK
<1>2. IsFiniteSet(1..Len(approved)) /\ IsFiniteSet(1..Len(rejected))
  BY <1>1, FS_Interval
<1>3. Approvals(i) \in SUBSET (1..Len(approved)) /\ Rejections(i) \in SUBSET (1..Len(rejected))
  BY DEF Approvals, Rejections
<1>4. IsFiniteSet(Approvals(i)) /\ IsFiniteSet(Rejections(i))
  BY <1>2, <1>3, FS_Subset
<1> QED
  BY <1>4, FS_CardinalityType DEF Decisions

LEMMA UndecidedType ==
    ASSUME TypeOK
    PROVE  IsFiniteSet(Undecided) /\ Cardinality(Undecided) \in Nat
<1>1. IsFiniteSet(1..offset)
  BY FS_Interval DEF TypeOK
<1>2. Undecided \in SUBSET (1..offset)
  BY DEF Undecided
<1> QED
  BY <1>1, <1>2, FS_Subset, FS_CardinalityType

(* A decision more on the record in hand, at most, and none on the others. *)
LEMMA ApprovalsGrow ==
    ASSUME TypeOK, NEW i, approved' = Append(approved, cur)
    PROVE  Approvals(i)' = IF cur = i THEN Approvals(i) \cup {Len(approved) + 1} ELSE Approvals(i)
<1>1. approved \in Seq(Nat) /\ cur \in Nat
  <2>1. 1..Len(log) \subseteq Nat
    BY DEF TypeOK
  <2> QED
    BY <2>1, SeqGrows DEF TypeOK
<1>2. /\ Len(approved') = Len(approved) + 1 /\ Len(approved) \in Nat
      /\ \A k \in 1..Len(approved) : approved'[k] = approved[k]
      /\ approved'[Len(approved) + 1] = cur
  BY <1>1, AppendType
<1>3. 1..Len(approved') = 1..Len(approved) \cup {Len(approved) + 1}
  BY <1>2
<1> QED
  BY <1>2, <1>3 DEF Approvals

LEMMA RejectionsGrow ==
    ASSUME TypeOK, NEW i, NEW r, NEW why \in Reasons,
           cur \in 1..Len(log),
           r = [rec |-> cur, reason |-> why],
           rejected' = Append(rejected, r)
    PROVE  Rejections(i)' = IF cur = i THEN Rejections(i) \cup {Len(rejected) + 1} ELSE Rejections(i)
<1>1. rejected \in Seq([rec: 1..Len(log), reason: Reasons]) /\ r \in [rec: 1..Len(log), reason: Reasons]
  BY DEF TypeOK
<1>2. /\ Len(rejected') = Len(rejected) + 1 /\ Len(rejected) \in Nat
      /\ \A k \in 1..Len(rejected) : rejected'[k] = rejected[k]
      /\ rejected'[Len(rejected) + 1] = r
  BY <1>1, AppendType
<1>3. 1..Len(rejected') = 1..Len(rejected) \cup {Len(rejected) + 1}
  BY <1>2
<1>4. r.rec = cur
  OBVIOUS
<1> QED
  BY <1>2, <1>3, <1>4 DEF Rejections

(* One element more costs one. *)
LEMMA OneMore ==
    ASSUME NEW S, NEW T, NEW x, IsFiniteSet(S), T \subseteq S \cup {x}
    PROVE  /\ Cardinality(T) \in Nat /\ Cardinality(S) \in Nat
           /\ Cardinality(T) <= Cardinality(S) + 1
<1>1. /\ IsFiniteSet(S \cup {x})
      /\ Cardinality(S \cup {x}) = IF x \in S THEN Cardinality(S) ELSE Cardinality(S) + 1
  BY FS_AddElement
<1>2. T \in SUBSET (S \cup {x})
  OBVIOUS
<1>3. IsFiniteSet(T) /\ Cardinality(T) <= Cardinality(S \cup {x})
  BY <1>1, <1>2, FS_Subset
<1>4. Cardinality(T) \in Nat /\ Cardinality(S) \in Nat
  BY <1>3, FS_CardinalityType
<1> QED
  BY <1>1, <1>3, <1>4

LEMMA NoMore ==
    ASSUME NEW S, NEW T, IsFiniteSet(S), T \subseteq S
    PROVE  /\ Cardinality(T) \in Nat /\ Cardinality(S) \in Nat
           /\ Cardinality(T) <= Cardinality(S)
<1>1. T \in SUBSET S
  OBVIOUS
<1> QED
  BY <1>1, FS_Subset, FS_CardinalityType

LEMMA InitCharge == Init => ChargeInv
<1> SUFFICES ASSUME Init PROVE ChargeInv
  OBVIOUS
<1>1. Undecided = {} /\ \A i : Approvals(i) = {} /\ Rejections(i) = {}
  BY DEF Init, Undecided, Approvals, Rejections
<1>2. Cardinality({}) = 0
  BY FS_EmptySet
<1>3. faults["kafka"] = 0 /\ crashes = 0 /\ rewinds = 0 /\ committed = offset /\ offset = 0
  BY DEF Init, Services
<1>4. ASSUME NEW i
      PROVE  Decisions(i) = 0 /\ InHand(i) = 0
  <2>1. Cardinality(Approvals(i)) = 0 /\ Cardinality(Rejections(i)) = 0
    BY <1>1, <1>2
  <2> QED
    BY <2>1 DEF Init, Decisions, InHand
<1>5. \A i : Handed(i) \in {0, 1}
  BY DEF Handed
<1>6. Cardinality(Undecided) = 0
  BY <1>1, <1>2
<1> QED
  BY <1>3, <1>4, <1>5, <1>6 DEF ChargeInv

(* Steps that neither pass a record, nor decide one, nor rewind.           *)
LEMMA ChargeQuiet ==
    ASSUME IInv, IInv', ChargeInv,
           UNCHANGED <<log, offset, committed, up, crashes, rewinds, cur, approved, rejected>>,
           (stage = "idle") = (stage' = "idle"),
           faults'["kafka"] >= faults["kafka"]
    PROVE  ChargeInv'
<1>1. /\ Undecided' = Undecided
      /\ \A i : /\ Approvals(i)' = Approvals(i) /\ Rejections(i)' = Rejections(i)
                /\ InHand(i)' = InHand(i) /\ Handed(i)' = Handed(i)
  BY DEF Undecided, Decided, Approvals, Rejections, InHand, Handed
<1>2. Cardinality(Undecided) \in Nat
  BY UndecidedType DEF IInv
<1>3. faults["kafka"] \in Nat /\ crashes \in Nat
  BY DEF IInv, TypeOK, Services
<1>4. faults'["kafka"] \in Nat
  BY DEF IInv, TypeOK, Services
<1>5. Cardinality(Undecided') <= faults'["kafka"] + crashes'
  BY <1>1, <1>2, <1>3, <1>4 DEF ChargeInv
<1>6. \A i \in Nat \ {0} : Decisions(i)' + InHand(i)' <= rewinds' + Handed(i)'
  BY <1>1 DEF ChargeInv, Decisions
<1> QED
  BY <1>5, <1>6 DEF ChargeInv

LEMMA FaultCounts ==
    ASSUME TypeOK, NEW s \in Services, Fault(s)
    PROVE  /\ faults'["kafka"] \in Nat /\ faults["kafka"] \in Nat
           /\ faults'["kafka"] >= faults["kafka"]
           /\ s = "kafka" => faults'["kafka"] = faults["kafka"] + 1
<1>1. faults' = [faults EXCEPT ![s] = @ + 1] /\ faults \in [Services -> Nat]
  BY DEF Fault, TypeOK
<1> QED
  BY <1>1 DEF Services

(* The log grows behind the offset.                                        *)
LEMMA SubmitCharge ==
    ASSUME IInv, IInv', ChargeInv, NEW o \in Orders \cup {NoOrder}, Submit(o)
    PROVE  ChargeInv'
<1>1. /\ log' = Append(log, o)
      /\ UNCHANGED <<offset, committed, up, crashes, rewinds, faults, stage, cur, approved, rejected>>
  BY DEF Submit, procVars, callVars, outVars
<1>2. log \in Seq(Orders \cup {NoOrder}) /\ offset \in 0..Len(log)
  BY DEF IInv, TypeOK
<1>3. \A i \in 1..offset : log'[i] = log[i]
  BY <1>1, <1>2, AppendType
<1>4. /\ Undecided' = Undecided
      /\ \A i : /\ Approvals(i)' = Approvals(i) /\ Rejections(i)' = Rejections(i)
                /\ InHand(i)' = InHand(i) /\ Handed(i)' = Handed(i)
  BY <1>1, <1>3 DEF Undecided, Decided, Approvals, Rejections, InHand, Handed
<1> QED
  BY <1>1, <1>4 DEF ChargeInv, Decisions

(* The offset passes a record that is taken in hand, or holds no order.    *)
LEMMA PassCharge ==
    ASSUME IInv, IInv', ChargeInv, SkipRecord \/ Receive
    PROVE  ChargeInv'
<1>1. /\ UNCHANGED <<log, committed, up, crashes, rewinds, faults, approved, rejected>>
      /\ offset' = offset + 1 /\ up /\ stage = "idle"
      /\ \/ log[offset + 1] = NoOrder /\ stage' = "idle" /\ cur' = cur
         \/ cur' = offset + 1 /\ stage' = "limits"
  BY DEF SkipRecord, Receive, Ready, procVars, envVars, outVars, callVars
<1>2. offset \in Nat /\ committed \in Nat /\ crashes \in Nat /\ rewinds \in Nat
  BY DEF IInv, TypeOK
<1>3. \A i : Approvals(i)' = Approvals(i) /\ Rejections(i)' = Rejections(i) /\ Decisions(i)' = Decisions(i)
  BY <1>1 DEF Approvals, Rejections, Decisions
<1>4. Undecided' = Undecided
  <2>1. Undecided = {i \in 1..offset : log[i] # NoOrder /\ ~Decided(i)}
    BY <1>1 DEF Undecided
  <2>2. 1..offset' = 1..offset \cup {offset + 1} /\ offset + 1 \notin 1..offset
    BY <1>1, <1>2
  <2>3. \A i : Decided(i)' = Decided(i)
    BY <1>3 DEF Decided
  <2>4. Undecided' = {i \in 1..offset : log[i] # NoOrder /\ ~Decided(i)}
    BY <1>1, <2>2, <2>3 DEF Undecided
  <2> QED
    BY <2>1, <2>4
<1>5. \A i \in Nat \ {0} : Decisions(i)' + InHand(i)' <= rewinds' + Handed(i)'
  <2> SUFFICES ASSUME NEW i \in Nat \ {0}
               PROVE  Decisions(i)' + InHand(i)' <= rewinds' + Handed(i)'
    OBVIOUS
  <2>1. Decisions(i) \in Nat
    BY DecisionsType DEF IInv
  <2>2. Decisions(i) + InHand(i) <= rewinds + Handed(i) /\ InHand(i) = 0
    BY <1>1 DEF ChargeInv, InHand
  <2>3. Handed(i) = (IF i <= offset THEN 1 ELSE 0) /\ Handed(i)' = (IF i <= offset + 1 THEN 1 ELSE 0)
    BY <1>1 DEF Handed
  <2>4. InHand(i)' = 0 \/ (InHand(i)' = 1 /\ i = offset + 1)
    BY <1>1 DEF InHand
  <2> QED
    BY <1>1, <1>2, <1>3, <2>1, <2>2, <2>3, <2>4
<1> QED
  BY <1>1, <1>2, <1>4, <1>5 DEF ChargeInv

(* A call ends: the record is decided, or a failed send is to blame.       *)
LEMMA EndCharge ==
    ASSUME IInv, IInv', ChargeInv, Ends
    PROVE  ChargeInv'
<1>1. /\ UNCHANGED <<log, offset, committed, up, crashes, rewinds>>
      /\ stage \in {"forward", "report"} /\ stage' = "idle"
  BY DEF Ends, Forward, ForwardFailed, ReportRejection, ReportFailed, EndCall,
         queueVars, procVars, envVars
<1>2. /\ offset \in Nat /\ crashes \in Nat /\ rewinds \in Nat /\ cur \in 1..Len(log) /\ cur \in Nat \ {0}
      /\ Len(approved) \in Nat /\ Len(rejected) \in Nat
  <2>1. cur \in 1..Len(log)
    BY <1>1, OrderType DEF IInv
  <2> QED
    BY <2>1 DEF IInv, TypeOK
<1>3. stage = "report" => reason \in Reasons
  BY DEF IInv, ReasonInv
<1>4. \/ /\ approved' = Append(approved, cur) /\ rejected' = rejected
      \/ /\ stage = "report" /\ approved' = approved
         /\ rejected' = Append(rejected, [rec |-> cur, reason |-> reason])
      \/ Fault("kafka") /\ approved' = approved /\ rejected' = rejected
  BY DEF Ends, Forward, ForwardFailed, ReportRejection, ReportFailed
<1>5. faults' = faults \/ Fault("kafka")
  BY DEF Ends, Forward, ForwardFailed, ReportRejection, ReportFailed
<1>6. /\ faults'["kafka"] \in Nat /\ faults["kafka"] \in Nat
      /\ faults'["kafka"] >= faults["kafka"]
      /\ Fault("kafka") => faults'["kafka"] = faults["kafka"] + 1
  <2>1. faults["kafka"] \in Nat
    BY DEF IInv, TypeOK, Services
  <2> QED
    BY <1>5, <2>1, FaultCounts DEF IInv, Services
<1>7. ASSUME NEW i
      PROVE  /\ i # cur => Approvals(i)' = Approvals(i) /\ Rejections(i)' = Rejections(i)
             /\ Approvals(i) \subseteq Approvals(i)' /\ Rejections(i) \subseteq Rejections(i)'
             /\ \/ Approvals(i)' \subseteq Approvals(i) \cup {Len(approved) + 1}
                   /\ Rejections(i)' = Rejections(i)
                \/ Rejections(i)' \subseteq Rejections(i) \cup {Len(rejected) + 1}
                   /\ Approvals(i)' = Approvals(i)
             /\ i = cur => Fault("kafka") \/ Decided(i)'
  <2>1. CASE approved' = Append(approved, cur) /\ rejected' = rejected
    <3>1. Approvals(i)' = IF cur = i THEN Approvals(i) \cup {Len(approved) + 1} ELSE Approvals(i)
      BY <2>1, ApprovalsGrow DEF IInv
    <3>2. Rejections(i)' = Rejections(i)
      BY <2>1 DEF Rejections
    <3> QED
      BY <3>1, <3>2 DEF Decided
  <2>2. CASE /\ stage = "report" /\ approved' = approved
             /\ rejected' = Append(rejected, [rec |-> cur, reason |-> reason])
    <3>1. Rejections(i)' = IF cur = i THEN Rejections(i) \cup {Len(rejected) + 1} ELSE Rejections(i)
      BY <1>2, <1>3, <2>2, RejectionsGrow DEF IInv
    <3>2. Approvals(i)' = Approvals(i)
      BY <2>2 DEF Approvals
    <3> QED
      BY <3>1, <3>2 DEF Decided
  <2>3. CASE Fault("kafka") /\ approved' = approved /\ rejected' = rejected
    BY <2>3 DEF Approvals, Rejections
  <2> QED
    BY <1>4, <2>1, <2>2, <2>3
<1>8. Cardinality(Undecided') <= faults'["kafka"] + crashes'
  <2>1. IsFiniteSet(Undecided)
    BY UndecidedType DEF IInv
  <2>2. \A i : Decided(i) => Decided(i)'
    BY <1>7 DEF Decided
  <2>3. Undecided' = {i \in 1..offset : log[i] # NoOrder /\ ~Decided(i)'}
    BY <1>1 DEF Undecided
  <2>4. Undecided' \subseteq Undecided \cup {cur}
    BY <2>2, <2>3 DEF Undecided
  <2>5. CASE Fault("kafka")
    <3>1. /\ Cardinality(Undecided') \in Nat /\ Cardinality(Undecided) \in Nat
          /\ Cardinality(Undecided') <= Cardinality(Undecided) + 1
      BY <2>1, <2>4, OneMore
    <3> QED
      BY <1>1, <1>2, <1>6, <2>5, <3>1 DEF ChargeInv
  <2>6. CASE ~Fault("kafka")
    <3>1. Undecided' \subseteq Undecided
      BY <1>7, <2>3, <2>4, <2>6
    <3>2. /\ Cardinality(Undecided') \in Nat /\ Cardinality(Undecided) \in Nat
          /\ Cardinality(Undecided') <= Cardinality(Undecided)
      BY <2>1, <3>1, NoMore
    <3> QED
      BY <1>1, <1>2, <1>6, <3>2 DEF ChargeInv
  <2> QED
    BY <2>5, <2>6
<1>9. ASSUME NEW i \in Nat \ {0}
      PROVE  Decisions(i)' + InHand(i)' <= rewinds' + Handed(i)'
  <2>1. /\ IsFiniteSet(Approvals(i)) /\ IsFiniteSet(Rejections(i))
        /\ Cardinality(Approvals(i)) \in Nat /\ Cardinality(Rejections(i)) \in Nat
    BY DecisionsType DEF IInv
  <2>2. Decisions(i) + InHand(i) <= rewinds + Handed(i)
    BY DEF ChargeInv
  <2>3. Handed(i)' = Handed(i) /\ InHand(i)' = 0 /\ Handed(i) \in {0, 1}
    BY <1>1 DEF Handed, InHand
  <2>4. CASE i # cur
    <3>1. Decisions(i)' = Decisions(i) /\ InHand(i) = 0
      BY <1>7, <2>4 DEF Decisions, InHand
    <3> QED
      BY <1>1, <2>2, <2>3, <3>1
  <2>5. CASE i = cur
    <3>1. InHand(i) = 1
      BY <1>1, <2>5 DEF InHand
    <3>2. Decisions(i)' \in Nat /\ Decisions(i)' <= Decisions(i) + 1
      <4>1. CASE Approvals(i)' \subseteq Approvals(i) \cup {Len(approved) + 1}
                 /\ Rejections(i)' = Rejections(i)
        <5>1. /\ Cardinality(Approvals(i)') \in Nat
              /\ Cardinality(Approvals(i)') <= Cardinality(Approvals(i)) + 1
          BY <2>1, <4>1, OneMore
        <5> QED
          BY <2>1, <4>1, <5>1 DEF Decisions
      <4>2. CASE Rejections(i)' \subseteq Rejections(i) \cup {Len(rejected) + 1}
                 /\ Approvals(i)' = Approvals(i)
        <5>1. /\ Cardinality(Rejections(i)') \in Nat
              /\ Cardinality(Rejections(i)') <= Cardinality(Rejections(i)) + 1
          BY <2>1, <4>2, OneMore
        <5> QED
          BY <2>1, <4>2, <5>1 DEF Decisions
      <4> QED
        BY <1>7, <4>1, <4>2
    <3>3. Decisions(i) \in Nat
      BY <2>1 DEF Decisions
    <3> QED
      BY <1>1, <1>2, <2>2, <2>3, <3>1, <3>2, <3>3
  <2> QED
    BY <2>4, <2>5
<1> QED
  BY <1>1, <1>8, <1>9 DEF ChargeInv

(* The offset is committed, or taken back to what is.                      *)
LEMMA OffsetCharge ==
    ASSUME IInv, IInv', ChargeInv, AutoCommit \/ Rebalance \/ Restart
    PROVE  ChargeInv'
<1>1. /\ UNCHANGED <<log, crashes, faults, cur, stage, approved, rejected>>
      /\ \/ committed' = offset /\ offset' = offset /\ UNCHANGED <<up, rewinds>>
         \/ /\ offset' = committed /\ committed' = committed /\ up
            /\ up' = up /\ rewinds' = rewinds + 1
         \/ /\ offset' = committed /\ committed' = committed /\ ~up
            /\ up' = TRUE /\ rewinds' = rewinds
  BY DEF AutoCommit, Rebalance, Restart, Rewind, procVars, envVars, callVars, outVars, seenVars
<1>2. /\ offset \in Nat /\ committed \in Nat /\ crashes \in Nat /\ rewinds \in Nat
      /\ faults["kafka"] \in Nat
  BY DEF IInv, TypeOK, Services
<1>3. offset' <= offset /\ offset' \in Nat /\ committed' <= offset'
  BY <1>1, <1>2 DEF ChargeInv
<1>4. \A i : /\ Decided(i)' = Decided(i) /\ Decisions(i)' = Decisions(i) /\ InHand(i)' = InHand(i)
  BY <1>1 DEF Decided, Decisions, Approvals, Rejections, InHand
<1>5. Cardinality(Undecided') <= faults'["kafka"] + crashes'
  <2>1. 1..offset' \subseteq 1..offset
    BY <1>2, <1>3
  <2>2. Undecided' \subseteq Undecided
    BY <1>1, <1>4, <2>1 DEF Undecided
  <2>3. /\ Cardinality(Undecided') \in Nat /\ Cardinality(Undecided) \in Nat
        /\ Cardinality(Undecided') <= Cardinality(Undecided)
    BY <2>2, NoMore, UndecidedType DEF IInv
  <2> QED
    BY <1>1, <1>2, <2>3 DEF ChargeInv
<1>6. ASSUME NEW i \in Nat \ {0}
      PROVE  Decisions(i)' + InHand(i)' <= rewinds' + Handed(i)'
  <2>1. Decisions(i) \in Nat /\ InHand(i) \in {0, 1}
    BY DecisionsType DEF IInv, InHand
  <2>2. Decisions(i) + InHand(i) <= rewinds + Handed(i)
    BY DEF ChargeInv
  <2>3. Handed(i) \in {0, 1} /\ Handed(i)' \in {0, 1} /\ (~up => Handed(i) = 0)
    BY DEF Handed
  <2>4. offset' = offset /\ up' = up => Handed(i)' = Handed(i)
    BY DEF Handed
  <2> QED
    BY <1>1, <1>2, <1>4, <2>1, <2>2, <2>3, <2>4
<1> QED
  BY <1>3, <1>5, <1>6 DEF ChargeInv

(* A crash takes the record in hand with it, and is charged for it.        *)
LEMMA CrashCharge == ASSUME IInv, IInv', ChargeInv, Crash PROVE ChargeInv'
<1>1. /\ UNCHANGED <<log, offset, committed, faults, approved, rejected>>
      /\ up /\ up' = FALSE /\ crashes' = crashes + 1 /\ rewinds' = rewinds + 1
      /\ cur' = 0 /\ stage' = "idle"
  BY DEF Crash, EndCall, Rewind, queueVars, envVars, outVars
<1>2. crashes \in Nat /\ rewinds \in Nat /\ faults["kafka"] \in Nat
  BY DEF IInv, TypeOK, Services
<1>3. \A i : Decided(i)' = Decided(i) /\ Decisions(i)' = Decisions(i)
  BY <1>1 DEF Decided, Decisions, Approvals, Rejections
<1>4. Cardinality(Undecided') <= faults'["kafka"] + crashes'
  <2>1. Undecided' \subseteq Undecided \cup {cur}
    BY <1>1, <1>3 DEF Undecided
  <2>2. /\ Cardinality(Undecided') \in Nat /\ Cardinality(Undecided) \in Nat
        /\ Cardinality(Undecided') <= Cardinality(Undecided) + 1
    BY <2>1, OneMore, UndecidedType DEF IInv
  <2> QED
    BY <1>1, <1>2, <2>2 DEF ChargeInv
<1>5. ASSUME NEW i \in Nat \ {0}
      PROVE  Decisions(i)' + InHand(i)' <= rewinds' + Handed(i)'
  <2>1. Decisions(i) \in Nat /\ InHand(i) \in {0, 1} /\ InHand(i)' = 0
    BY <1>1, DecisionsType DEF IInv, InHand
  <2>2. Decisions(i) + InHand(i) <= rewinds + Handed(i)
    BY DEF ChargeInv
  <2>3. Handed(i) \in {0, 1} /\ Handed(i)' = 0
    BY <1>1 DEF Handed
  <2> QED
    BY <1>1, <1>2, <1>3, <2>1, <2>2, <2>3
<1> QED
  BY <1>1, <1>4, <1>5 DEF ChargeInv

THEOREM ChargesAddUp == Spec => []ChargeInv
<1>1. IInv /\ IInv' /\ ChargeInv /\ [Next]_vars => ChargeInv'
  <2> SUFFICES ASSUME IInv, IInv', ChargeInv, [Next]_vars PROVE ChargeInv'
    OBVIOUS
  <2> DEFINE Same == UNCHANGED <<log, offset, committed, up, crashes, rewinds, cur, approved, rejected>>
  <2>1. faults["kafka"] \in Nat
    BY DEF IInv, TypeOK, Services
  <2>2. CASE \E o \in Orders \cup {NoOrder} : Submit(o)
    BY <2>2, SubmitCharge
  <2>3. CASE Operate
    <3>1. Same /\ stage' = stage /\ faults' = faults
      BY <2>3 DEF Operate, Enable, Disable, SetLimit, queueVars, procVars, callVars, outVars
    <3> QED
      BY <2>1, <3>1, ChargeQuiet
  <2>4. CASE FetchLimits \/ FetchLimitsFailed \/ Gates
    <3>1. /\ Same /\ stage # "idle" /\ stage' # "idle"
          /\ faults' = faults \/ \E s \in Services : Fault(s)
      BY <2>4 DEF FetchLimits, FetchLimitsFailed, Gates, CheckGlobal, CheckGlobalFailed,
                  CheckAccount, CheckAccountFailed, CheckNotional, CheckLeverage, RejectWith,
                  PassTo, Services, queueVars, procVars, envVars, outVars
    <3>2. faults'["kafka"] >= faults["kafka"]
      BY <2>1, <3>1, FaultCounts DEF IInv
    <3> QED
      BY <3>1, <3>2, ChargeQuiet
  <2>5. CASE SkipRecord \/ Receive
    BY <2>5, PassCharge
  <2>6. CASE Ends
    BY <2>6, EndCharge
  <2>7. CASE AutoCommit \/ Rebalance \/ Restart
    BY <2>7, OffsetCharge
  <2>8. CASE Crash
    BY <2>8, CrashCharge
  <2>9. CASE UNCHANGED vars
    <3>1. Same /\ stage' = stage /\ faults' = faults
      BY <2>9 DEF vars, queueVars, procVars, callVars, outVars
    <3> QED
      BY <2>1, <3>1, ChargeQuiet
  <2> QED
    BY <2>2, <2>3, <2>4, <2>5, <2>6, <2>7, <2>8, <2>9 DEF Next, Process, Ends
<1> QED
  BY InitCharge, <1>1, GuardInvariant, PTL DEF Spec

(* The loop of main.rs answers an order once each time it is handed over:  *)
(* a committed order that nobody will decide is charged to a failed send   *)
(* or a crash, a second decision to a crash or a rebalance.                *)
THEOREM DecisionsCharged == Spec => []DecisionsAreCharged
<1>1. IInv /\ ChargeInv => DecisionsAreCharged
  <2> SUFFICES ASSUME IInv, ChargeInv PROVE DecisionsAreCharged
    OBVIOUS
  <2> DEFINE Lost == {i \in 1..committed : /\ log[i] # NoOrder
                                           /\ ~Decided(i)
                                           /\ ~(stage # "idle" /\ cur = i)}
  <2>1. /\ offset \in Nat /\ committed \in Nat /\ committed <= offset /\ rewinds \in Nat
        /\ faults["kafka"] \in Nat /\ crashes \in Nat
    BY DEF IInv, TypeOK, ChargeInv, Services
  <2>2. Lost \subseteq Undecided
    <3>1. 1..committed \subseteq 1..offset
      BY <2>1
    <3> QED
      BY <3>1 DEF Undecided
  <2>3. Cardinality(Lost) <= faults["kafka"] + crashes
    <3>1. /\ Cardinality(Lost) \in Nat /\ Cardinality(Undecided) \in Nat
          /\ Cardinality(Lost) <= Cardinality(Undecided)
      BY <2>2, NoMore, UndecidedType DEF IInv
    <3> HIDE DEF Lost
    <3> QED
      BY <2>1, <3>1 DEF ChargeInv
  <2>4. ASSUME NEW i \in 1..Len(log)
        PROVE  Cardinality(Approvals(i)) + Cardinality(Rejections(i)) <= 1 + rewinds
    <3>1. Decisions(i) + InHand(i) <= rewinds + Handed(i)
      BY DEF ChargeInv
    <3>2. InHand(i) \in {0, 1} /\ Handed(i) \in {0, 1} /\ Decisions(i) \in Nat
      BY DecisionsType DEF IInv, InHand, Handed
    <3> QED
      BY <2>1, <3>1, <3>2 DEF Decisions
  <2> QED
    BY <2>3, <2>4 DEF DecisionsAreCharged
<1> QED
  BY <1>1, GuardInvariant, ChargesAddUp, PTL
=============================================================================
