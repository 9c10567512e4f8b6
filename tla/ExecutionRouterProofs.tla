----------------------- MODULE ExecutionRouterProofs -----------------------
(***************************************************************************)
(* Theorems about ExecutionRouter and about OrderGateway, the gateway      *)
(* composed with it: for every set of orders and requests, every mode and  *)
(* every value of the bounds.                                              *)
(***************************************************************************)
EXTENDS OrderGateway, TradeSums

(* Where a call is, what it still has to do. *)
CallInv ==
    /\ stage # "idle" => Len(handled) > 0
    /\ stage \in {"persist", "publish"} => Len(todo) > 0
    /\ \A i \in 1..Len(todo) : todo[i].n = Len(handled) /\ todo[i].o = Current.o

(* Nothing was handled or remembered in the future. *)
ClockInv ==
    /\ \A m \in 1..Len(handled) : handled[m].at <= now /\ handled[m].epoch <= epoch
    /\ \A o \in Orders : dedup[o] <= now

(* The cache remembers every handling of this incarnation within TTL.      *)
CacheInv ==
    \A m \in 1..Len(handled) :
        handled[m].epoch = epoch =>
            \/ dedup[handled[m].o] >= handled[m].at
            \/ now - handled[m].at > TTL

(* Trades and placements belong to handlings. *)
OriginInv ==
    /\ \A t \in trades : t.time \in 1..Len(handled) /\ t.fill[1] = handled[t.time].o
    /\ placed \subseteq 1..Len(handled)

(* A report about to be published is in the audit trail. *)
PublishInv ==
    stage = "publish" => \E j \in 1..Len(events) : events[j].report = Head(todo)

IInv == /\ TypeOK
        /\ CallInv
        /\ ClockInv
        /\ CacheInv
        /\ HandledOncePerWindow
        /\ OriginInv
        /\ PublishInv
        /\ PublishedWasPersisted

------------------------------------------------------------------------------
(* The data.                                                               *)

LEMMA ReportType ==
    ASSUME NEW o \in Orders, NEW n \in Nat, NEW seq \in Nat, NEW status \in Statuses,
           NEW last \in Nat, NEW cum \in Nat
    PROVE  Report(o, n, seq, status, last, cum) \in Reports
  BY DEF Report, Reports

LEMMA OneReport ==
    ASSUME NEW r \in Reports
    PROVE  <<r>> \in Seq(Reports) /\ Len(<<r>>) = 1 /\ <<r>>[1] = r
  OBVIOUS

LEMMA DetailType ==
    ASSUME NEW o \in Orders
    PROVE  /\ Details[o].qty \in Nat
           /\ Details[o].symbol \in Symbols
  BY OrdersAssumption DEF OrderDetails

LEMMA SplitType == \A q \in Nat : Split(q) \in Nat \ {0}
  BY DEF Split

(* The simulation answers with one report at least, each of this call. *)
LEMMA BuildReportsType ==
    ASSUME NEW o \in Orders, NEW n \in Nat
    PROVE  /\ BuildReports(o, n) \in Seq(Reports)
           /\ Len(BuildReports(o, n)) > 0
           /\ \A i \in 1..Len(BuildReports(o, n)) :
                  BuildReports(o, n)[i].n = n /\ BuildReports(o, n)[i].o = o
<1> DEFINE q == Details[o].qty
           p == Split(q)
<1>1. q \in Nat /\ p \in Nat
  BY DetailType, SplitType
<1>2. CASE q = 0
  <2>1. Reject(o, n) \in Reports
    BY ReportType DEF Reject, Statuses
  <2>2. BuildReports(o, n) = <<Reject(o, n)>>
    BY <1>2 DEF BuildReports
  <2> QED
    BY <2>1, <2>2 DEF Reject, Report
<1>3. CASE q # 0 /\ p < q
  <2> DEFINE a == Ack(o, n)
             b == Report(o, n, 1, "PARTIALLY_FILLED", p, p)
             c == Report(o, n, 2, "FILLED", q - p, q)
  <2>1. a \in Reports /\ b \in Reports /\ c \in Reports
    <3>1. q - p \in Nat
      BY <1>1, <1>3
    <3> QED
      BY <1>1, <3>1, ReportType DEF Ack, Statuses
  <2>2. BuildReports(o, n) = <<a, b, c>>
    BY <1>3 DEF BuildReports
  <2> QED
    BY <2>1, <2>2 DEF Ack, Report
<1>4. CASE q # 0 /\ ~(p < q)
  <2> DEFINE a == Ack(o, n)
             b == Report(o, n, 1, "FILLED", q, q)
  <2>1. a \in Reports /\ b \in Reports
    BY <1>1, ReportType DEF Ack, Statuses
  <2>2. BuildReports(o, n) = <<a, b>>
    BY <1>4 DEF BuildReports
  <2> QED
    BY <2>1, <2>2 DEF Ack, Report
<1> QED
  BY <1>2, <1>3, <1>4

LEMMA FirstReportsType ==
    ASSUME NEW c \in Commands, c.o # NoId, NEW n \in Nat
    PROVE  /\ FirstReports(c, n) \in Seq(Reports)
           /\ ~CallsExchange(c) => Len(FirstReports(c, n)) > 0
           /\ \A i \in 1..Len(FirstReports(c, n)) :
                  FirstReports(c, n)[i].n = n /\ FirstReports(c, n)[i].o = c.o
<1>1. c.o \in Orders
  BY DEF Commands
<1>2. /\ Reject(c.o, n) \in Reports /\ Reject(c.o, n).n = n /\ Reject(c.o, n).o = c.o
      /\ Cancel(c.o, n) \in Reports /\ Cancel(c.o, n).n = n /\ Cancel(c.o, n).o = c.o
  <2>1. Reject(c.o, n) \in Reports /\ Cancel(c.o, n) \in Reports
    BY <1>1, ReportType DEF Reject, Cancel, Statuses
  <2> QED
    BY <2>1 DEF Reject, Cancel, Report
<1>3. CASE CallsExchange(c)
  BY <1>3 DEF FirstReports
<1>4. CASE ~CallsExchange(c) /\ (Mode = "REAL" \/ c.action = "CANCEL")
  <2>1. PICK r \in {Reject(c.o, n), Cancel(c.o, n)} : FirstReports(c, n) = <<r>>
    BY <1>4 DEF FirstReports
  <2>2. r \in Reports /\ r.n = n /\ r.o = c.o
    BY <1>2
  <2>3. 1..1 = {1}
    OBVIOUS
  <2> QED
    BY <2>1, <2>2, <2>3, OneReport
<1>5. CASE ~CallsExchange(c) /\ Mode # "REAL" /\ c.action # "CANCEL"
  BY <1>1, <1>5, BuildReportsType DEF FirstReports
<1> QED
  BY <1>3, <1>4, <1>5

LEMMA CurrentType ==
    ASSUME TypeOK, CallInv, stage # "idle"
    PROVE  /\ Len(handled) \in Nat \ {0}
           /\ Current \in Handlings
           /\ Current.o \in Orders
<1>1. handled \in Seq(Handlings) /\ Len(handled) > 0
  BY DEF TypeOK, CallInv
<1>2. Len(handled) \in Nat \ {0} /\ handled[Len(handled)] \in Handlings
  BY <1>1
<1> QED
  BY <1>2 DEF Current, Handlings

LEMMA HeadType ==
    ASSUME TypeOK, CallInv, stage \in {"persist", "publish"}
    PROVE  /\ Head(todo) \in Reports
           /\ Head(todo).n = Len(handled) /\ Head(todo).o = Current.o
           /\ Head(todo).o \in Orders /\ Head(todo).n \in Nat
           /\ Tail(todo) \in Seq(Reports) /\ Len(Tail(todo)) = Len(todo) - 1
           /\ \A i \in 1..Len(Tail(todo)) :
                  Tail(todo)[i].n = Len(handled) /\ Tail(todo)[i].o = Current.o
<1>1. todo \in Seq(Reports) /\ Len(todo) > 0
  BY DEF TypeOK, CallInv
<1>2. Head(todo) = todo[1] /\ 1 \in 1..Len(todo)
  BY <1>1
<1>3. Head(todo) \in Reports /\ Head(todo).n = Len(handled) /\ Head(todo).o = Current.o
  BY <1>1, <1>2 DEF CallInv
<1>4. Tail(todo) \in Seq(Reports) /\ Len(Tail(todo)) = Len(todo) - 1
  BY <1>1
<1>5. ASSUME NEW i \in 1..Len(Tail(todo))
      PROVE  Tail(todo)[i].n = Len(handled) /\ Tail(todo)[i].o = Current.o
  <2>1. Tail(todo)[i] = todo[i + 1] /\ i + 1 \in 1..Len(todo)
    BY <1>1, <1>4
  <2> QED
    BY <2>1 DEF CallInv
<1> QED
  BY <1>3, <1>4, <1>5 DEF Reports

(* A sweep removes only entries that have expired. *)
LEMMA CleanedEntry ==
    ASSUME TypeOK, ClockInv, NEW o \in Orders
    PROVE  /\ Cleaned \in [Orders -> Nat \cup {NotCached}]
           /\ Cleaned[o] <= now
           /\ Cleaned[o] = dedup[o] \/ (Cleaned[o] = NotCached /\ now - dedup[o] > TTL)
  BY RouterAssumption DEF TypeOK, ClockInv, Cleaned, NotCached

LEMMA TriggerType ==
    ASSUME NEW action, NEW r \in Reports
    PROVE  ExitTrigger(action, r) \in Triggers
<1>1. Details[r.o].exitKind \in Triggers
  BY OrdersAssumption DEF OrderDetails, Reports, Triggers
<1> QED
  BY <1>1 DEF ExitTrigger, PriceTrigger, Triggers

LEMMA OutcomeType == \A trigger : Outcome(trigger) \in Labels
  BY DEF Outcome, Labels

(* One transaction: what it leaves in each table. *)
LEMMA WriteTables ==
    ASSUME TypeOK, NEW action, NEW r \in Reports, Write(action, r)
    PROVE  /\ orders' \in [Orders -> Rows]
           /\ events' \in Seq([report: Reports, label: Labels])
           /\ Len(events') = Len(events) + 1
           /\ \A j \in 1..Len(events) : events'[j] = events[j]
           /\ events'[Len(events) + 1].report = r
           /\ trades' \subseteq [fill: Orders \X Nat, time: Nat, qty: Nat]
           /\ \A t \in trades' : t \in trades \/ (t.time = r.n /\ t.fill[1] = r.o)
           /\ positions' \in [Symbols -> Int]
           /\ exitTags' \in Seq([o: Orders, at: Nat, trigger: Triggers])
<1> DEFINE g == ExitTrigger(action, r)
<1>1. r.o \in Orders /\ r.n \in Nat /\ r.seq \in Nat /\ r.last \in Nat /\ r.cum \in Nat
      /\ r.status \in Statuses
  BY DEF Reports
<1>2. g \in Triggers /\ Outcome(g) \in Labels
  BY TriggerType, OutcomeType
<1>3. orders' \in [Orders -> Rows]
  BY <1>1 DEF Write, UpsertOrder, TypeOK, Rows
<1>4. Event(r, g) \in [report: Reports, label: Labels] /\ Event(r, g).report = r
  BY <1>2 DEF Event
<1>5. events' = Append(events, Event(r, g))
  BY DEF Write
<1>6. /\ events' \in Seq([report: Reports, label: Labels])
      /\ Len(events') = Len(events) + 1
      /\ \A j \in 1..Len(events) : events'[j] = events[j]
      /\ events'[Len(events) + 1].report = r
  <2> HIDE DEF g
  <2>1. events \in Seq([report: Reports, label: Labels])
    BY DEF TypeOK
  <2> QED
    BY <1>4, <1>5, <2>1
<1>7. Trade(r) \in [fill: Orders \X Nat, time: Nat, qty: Nat]
      /\ Trade(r).time = r.n /\ Trade(r).fill[1] = r.o
  BY <1>1 DEF Trade
<1>8. /\ trades' \subseteq [fill: Orders \X Nat, time: Nat, qty: Nat]
      /\ \A t \in trades' : t \in trades \/ (t.time = r.n /\ t.fill[1] = r.o)
  <2>1. trades' = trades \/ trades' = trades \cup {Trade(r)}
    BY DEF Write, InsertFill
  <2> QED
    BY <1>7, <2>1 DEF TypeOK
<1>9. positions' \in [Symbols -> Int]
  <2>1. SignedQty(r) \in Int
    BY <1>1 DEF SignedQty
  <2>2. positions' = positions
        \/ positions' = [positions EXCEPT ![Details[r.o].symbol] = @ + SignedQty(r)]
    BY DEF Write, UpdatePosition
  <2> QED
    BY <1>1, <2>1, <2>2, DetailType DEF TypeOK
<1>10. exitTags' \in Seq([o: Orders, at: Nat, trigger: Triggers])
  <2> DEFINE Tags == [o: Orders, at: Nat, trigger: Triggers]
             tag == [o |-> r.o, at |-> r.n, trigger |-> g]
  <2>1. exitTags \in Seq(Tags)
    BY DEF TypeOK
  <2>2. tag \in Tags
    BY <1>1, <1>2
  <2>3. exitTags' = exitTags \/ exitTags' = Append(exitTags, tag)
    BY DEF Write
  <2>4. exitTags' \in Seq(Tags)
    <3> HIDE DEF Tags, tag
    <3> QED
      BY <2>1, <2>2, <2>3
  <2> QED
    BY <2>4
<1> QED
  BY <1>3, <1>6, <1>8, <1>9, <1>10

------------------------------------------------------------------------------
(* The invariant is inductive: one lemma per action.                       *)

LEMMA InitIInv == Init => IInv
<1> SUFFICES ASSUME Init PROVE IInv
  OBVIOUS
<1>1. TypeOK
  BY DEF Init, TypeOK, NotCached, Rows
<1> QED
  BY <1>1 DEF Init, IInv, CallInv, ClockInv, CacheInv, HandledOncePerWindow, OriginInv,
              PublishInv, PublishedWasPersisted, NotCached

(* A step that leaves the call, the cache, the clock and what was written  *)
(* alone only has types to keep.                                           *)
LEMMA QuietStep ==
    ASSUME IInv, TypeOK',
           UNCHANGED <<epoch, now, dedup, handled, stage, todo, events, trades, placed, topic>>
    PROVE  IInv'
  BY DEF IInv, CallInv, ClockInv, CacheInv, HandledOncePerWindow, OriginInv,
         PublishInv, PublishedWasPersisted, Apart, Current

LEMMA SubmitStep == ASSUME IInv, NEW c \in Submissions, Submit(c) PROVE IInv'
<1>1. c \in Commands
  BY RouterAssumption
<1>2. log' \in Seq(Commands) /\ Len(log') = Len(log) + 1
  BY <1>1 DEF IInv, TypeOK, Submit
<1>3. TypeOK'
  BY <1>2 DEF IInv, TypeOK, Submit, procVars, callVars, dbVars
<1> QED
  BY <1>3, QuietStep DEF Submit, procVars, callVars, dbVars

LEMMA HandledTypes ==
    ASSUME TypeOK
    PROVE  /\ now \in Nat /\ epoch \in Nat /\ TTL \in Nat
           /\ \A m \in 1..Len(handled) : /\ handled[m].o \in Orders
                                         /\ handled[m].at \in Nat
                                         /\ handled[m].epoch \in Nat
           /\ \A o \in Orders : dedup[o] \in Int
<1>1. \A m \in 1..Len(handled) : handled[m] \in Handlings
  BY DEF TypeOK
<1>2. \A o \in Orders : dedup[o] \in Int
  BY DEF TypeOK, NotCached
<1> QED
  BY <1>1, <1>2, RouterAssumption DEF TypeOK, Handlings

(* A cache entry that was young enough to matter has been kept, or the     *)
(* handling it stands for is more than TTL old.                            *)
LEMMA StaleOrKept ==
    ASSUME NEW a \in Int, NEW b \in Int, NEW t \in Int, NEW n \in Int, NEW n1 \in Int,
           NEW ttl \in Int, n <= n1, a >= t \/ n - t > ttl, b = a \/ n - a > ttl
    PROVE  b >= t \/ n1 - t > ttl
<1>1. CASE a >= t /\ b = a
  BY <1>1
<1>2. CASE a >= t /\ n - a > ttl
  BY <1>2
<1>3. CASE n - t > ttl
  BY <1>3
<1> QED
  BY <1>1, <1>2, <1>3

(* A step of the clock or of the cache that forgets no live entry.         *)
LEMMA CacheStep ==
    ASSUME IInv, TypeOK', now' \in Nat, now <= now',
           \A o \in Orders : /\ dedup'[o] \in Int /\ dedup'[o] <= now
                             /\ dedup'[o] = dedup[o] \/ now - dedup[o] > TTL,
           UNCHANGED <<epoch, handled, stage, todo, events, trades, placed, topic>>
    PROVE  IInv'
<1>1. /\ now \in Nat /\ TTL \in Nat
      /\ \A m \in 1..Len(handled) : handled[m].o \in Orders /\ handled[m].at \in Nat
      /\ \A o \in Orders : dedup[o] \in Int
  BY HandledTypes DEF IInv
<1>2. ClockInv'
  BY <1>1 DEF IInv, ClockInv
<1>3. CacheInv'
  <2> SUFFICES ASSUME NEW m \in 1..Len(handled), handled[m].epoch = epoch
               PROVE  dedup'[handled[m].o] >= handled[m].at \/ now' - handled[m].at > TTL
    BY DEF CacheInv
  <2> DEFINE o == handled[m].o
             at == handled[m].at
  <2>1. o \in Orders /\ at \in Nat /\ dedup[o] \in Int /\ dedup'[o] \in Int
    BY <1>1
  <2>2. dedup[o] >= at \/ now - at > TTL
    BY DEF IInv, CacheInv
  <2>3. dedup'[o] = dedup[o] \/ now - dedup[o] > TTL
    BY <2>1
  <2>4. now \in Int /\ now' \in Int /\ now <= now' /\ TTL \in Int
    BY <1>1
  <2> HIDE DEF o, at
  <2> QED
    BY <2>1, <2>2, <2>3, <2>4, StaleOrKept DEF o, at
<1>4. CallInv' /\ HandledOncePerWindow' /\ OriginInv' /\ PublishInv' /\ PublishedWasPersisted'
  BY DEF IInv, CallInv, HandledOncePerWindow, OriginInv, PublishInv, PublishedWasPersisted,
         Apart, Current
<1> QED
  BY <1>2, <1>3, <1>4 DEF IInv

LEMMA TickStep == ASSUME IInv, Tick PROVE IInv'
<1>1. TypeOK'
  BY DEF IInv, TypeOK, Tick, queueVars, callVars, dbVars
<1>2. now \in Nat /\ now' = now + 1
  BY DEF IInv, TypeOK, Tick
<1>3. \A o \in Orders : dedup[o] \in Int /\ dedup[o] <= now
  BY HandledTypes DEF IInv, ClockInv
<1>4. UNCHANGED <<epoch, dedup, handled, stage, todo, events, trades, placed, topic>>
  BY DEF Tick, callVars, dbVars
<1> QED
  BY <1>1, <1>2, <1>3, <1>4, CacheStep

LEMMA SkipRecordStep == ASSUME IInv, SkipRecord PROVE IInv'
<1>1. TypeOK'
  BY DEF IInv, TypeOK, SkipRecord, Ready, procVars, callVars, dbVars
<1> QED
  BY <1>1, QuietStep DEF SkipRecord, procVars, callVars, dbVars

LEMMA DropDuplicateStep == ASSUME IInv, DropDuplicate PROVE IInv'
<1>1. Cleaned \in [Orders -> Nat \cup {NotCached}]
  BY RouterAssumption DEF IInv, TypeOK, Cleaned
<1>2. TypeOK'
  BY <1>1 DEF IInv, TypeOK, DropDuplicate, Ready, callVars, dbVars
<1>3. \A o \in Orders : /\ dedup'[o] \in Int /\ dedup'[o] <= now
                        /\ dedup'[o] = dedup[o] \/ now - dedup[o] > TTL
  <2>1. dedup' = Cleaned
    BY DEF DropDuplicate
  <2> QED
    BY <1>1, <2>1, CleanedEntry DEF IInv, NotCached
<1>4. UNCHANGED <<epoch, now, handled, stage, todo, events, trades, placed, topic>>
  BY DEF DropDuplicate, callVars, dbVars
<1>5. now \in Nat
  BY DEF IInv, TypeOK
<1> QED
  BY <1>2, <1>3, <1>4, <1>5, CacheStep

(* The heart of the argument: a command that is not in the cache belongs   *)
(* to no handling of this incarnation within TTL.                          *)
LEMMA UnseenIsApart ==
    ASSUME IInv, NEW o \in Orders, ~SeenRecently(o),
           NEW m \in 1..Len(handled), handled[m].o = o
    PROVE  handled[m].epoch # epoch \/ now - handled[m].at > TTL
<1> DEFINE at == handled[m].at
<1>1. now \in Nat /\ TTL \in Nat /\ at \in Nat /\ dedup[o] \in Int
  BY HandledTypes DEF IInv
<1>2. handled[m].epoch = epoch => dedup[o] >= at \/ now - at > TTL
  BY DEF IInv, CacheInv
<1>3. Cleaned[o] = dedup[o] \/ now - dedup[o] > TTL
  BY CleanedEntry DEF IInv
<1>4. Cleaned[o] = NotCached \/ now - Cleaned[o] > TTL
  <2>1. Cleaned[o] \in Int
    BY CleanedEntry DEF IInv, NotCached
  <2> QED
    BY <1>1, <2>1 DEF SeenRecently
<1> HIDE DEF at
<1>5. handled[m].epoch # epoch \/ now - at > TTL
  BY <1>1, <1>2, <1>3, <1>4 DEF NotCached
<1> QED
  BY <1>5 DEF at

LEMMA AcceptStep == ASSUME IInv, Accept PROVE IInv'
<1> DEFINE c == Command
           L == Len(handled)
           h == [o |-> c.o, action |-> c.action, at |-> now, epoch |-> epoch]
<1>1. c \in Commands /\ c.o # NoId
  BY DEF Accept, Ready, Command, IInv, TypeOK
<1>2. c.o \in Orders /\ h \in Handlings
  BY <1>1 DEF Commands, Handlings, IInv, TypeOK
<1>3. /\ handled' = Append(handled, h)
      /\ todo' = FirstReports(c, L + 1)
      /\ dedup' = [Cleaned EXCEPT ![c.o] = now]
      /\ stage' = IF CallsExchange(c) THEN "exchange" ELSE "persist"
      /\ ~SeenRecently(c.o)
      /\ UNCHANGED <<log, committed, up, epoch, now, events, trades, placed, topic>>
  BY DEF Accept, Remember, dbVars
<1>4. L \in Nat /\ handled \in Seq(Handlings)
  BY DEF IInv, TypeOK
<1>5. /\ Len(handled') = L + 1 /\ handled' \in Seq(Handlings)
      /\ handled'[L + 1] = h
      /\ \A m \in 1..L : handled'[m] = handled[m]
  <2> HIDE DEF h, L, c
  <2>1. handled' = Append(handled, h) /\ h \in Handlings /\ handled \in Seq(Handlings)
        /\ L = Len(handled)
    BY <1>2, <1>3, <1>4 DEF L
  <2> QED
    BY <2>1
<1>6. /\ todo' \in Seq(Reports)
      /\ ~CallsExchange(c) => Len(todo') > 0
      /\ \A i \in 1..Len(todo') : todo'[i].n = L + 1 /\ todo'[i].o = c.o
  BY <1>1, <1>3, <1>4, FirstReportsType
<1>7. /\ Cleaned \in [Orders -> Nat \cup {NotCached}]
      /\ \A o \in Orders : /\ Cleaned[o] \in Int /\ Cleaned[o] <= now
                           /\ Cleaned[o] = dedup[o] \/ now - dedup[o] > TTL
  <2>1. Cleaned \in [Orders -> Nat \cup {NotCached}]
    BY RouterAssumption DEF IInv, TypeOK, Cleaned
  <2> QED
    BY <2>1, CleanedEntry DEF IInv, NotCached
<1>8. TypeOK'
  <2>1. dedup' \in [Orders -> Nat \cup {NotCached}]
    BY <1>2, <1>3, <1>7 DEF IInv, TypeOK
  <2>2. offset' \in 0..Len(log)
    BY DEF Accept, Ready, IInv, TypeOK
  <2>3. stage' \in {"idle", "exchange", "unanswered", "persist", "publish"}
    BY <1>3
  <2> QED
    BY <1>5, <1>6, <2>1, <2>2, <2>3 DEF IInv, TypeOK, Accept, dbVars
<1>9. CallInv'
  <2>1. Current' = h
    BY <1>5 DEF Current
  <2>2. stage' \in {"persist", "publish"} => ~CallsExchange(c)
    BY <1>3
  <2> QED
    BY <1>4, <1>5, <1>6, <2>1, <2>2 DEF CallInv
<1>10. /\ now \in Nat /\ TTL \in Nat
       /\ \A m \in 1..L : handled[m].o \in Orders /\ handled[m].at \in Nat
       /\ \A o \in Orders : dedup[o] \in Int
  BY HandledTypes DEF IInv
<1>11. \A o \in Orders : dedup'[o] = IF o = c.o THEN now ELSE Cleaned[o]
  BY <1>3, <1>7
<1>12. ClockInv'
  <2>1. \A m \in 1..(L + 1) : handled'[m].at <= now /\ handled'[m].epoch <= epoch
    <3> TAKE m \in 1..(L + 1)
    <3>1. CASE m = L + 1
      BY <1>5, <3>1 DEF IInv, TypeOK
    <3>2. CASE m \in 1..L
      BY <1>5, <3>2 DEF IInv, ClockInv
    <3> QED
      BY <1>4, <3>1, <3>2
  <2>2. \A o \in Orders : dedup'[o] <= now
    BY <1>7, <1>10, <1>11
  <2> QED
    BY <1>3, <1>5, <2>1, <2>2 DEF ClockInv
<1>13. CacheInv'
  <2> SUFFICES ASSUME NEW m \in 1..(L + 1), handled'[m].epoch = epoch
               PROVE  dedup'[handled'[m].o] >= handled'[m].at \/ now - handled'[m].at > TTL
    BY <1>3, <1>5 DEF CacheInv
  <2>1. CASE m = L + 1
    <3>1. handled'[m].o = c.o /\ handled'[m].at = now
      BY <1>5, <2>1
    <3> QED
      BY <1>2, <1>10, <1>11, <3>1
  <2>2. CASE m \in 1..L
    <3> DEFINE o == handled[m].o
               at == handled[m].at
    <3>1. handled'[m] = handled[m] /\ handled[m].epoch = epoch
      BY <1>5, <2>2
    <3>2. dedup[o] >= at \/ now - at > TTL
      BY <2>2, <3>1 DEF IInv, CacheInv
    <3>3. o \in Orders /\ at \in Nat /\ at <= now
      BY <1>10, <2>2 DEF IInv, ClockInv
    <3>4. /\ dedup[o] \in Int /\ Cleaned[o] \in Int
          /\ dedup'[o] = now \/ dedup'[o] = Cleaned[o]
          /\ Cleaned[o] = dedup[o] \/ now - dedup[o] > TTL
      BY <1>7, <1>10, <1>11, <3>3
    <3> HIDE DEF o, at
    <3>5. dedup'[o] >= at \/ now - at > TTL
      BY <1>10, <3>2, <3>3, <3>4
    <3> QED
      BY <3>1, <3>5 DEF o, at
  <2> QED
    BY <1>4, <2>1, <2>2
<1>14. HandledOncePerWindow'
  <2> SUFFICES ASSUME NEW m \in 1..(L + 1), NEW n \in 1..(L + 1), m < n,
                      handled'[m].o = handled'[n].o
               PROVE  Apart(m, n)'
    BY <1>5 DEF HandledOncePerWindow
  <2>1. m \in 1..L
    BY <1>4
  <2>2. CASE n = L + 1
    <3>1. handled'[n] = h /\ handled'[m] = handled[m] /\ handled[m].o = c.o
      BY <1>5, <2>1, <2>2
    <3>2. handled[m].epoch # epoch \/ now - handled[m].at > TTL
      BY <1>2, <1>3, <2>1, <3>1, UnseenIsApart
    <3> QED
      BY <3>1, <3>2 DEF Apart
  <2>3. CASE n \in 1..L
    <3>1. handled'[n] = handled[n] /\ handled'[m] = handled[m]
      BY <1>5, <2>1, <2>3
    <3> QED
      BY <2>1, <2>3, <3>1 DEF IInv, HandledOncePerWindow, Apart
  <2> QED
    BY <1>4, <2>2, <2>3
<1>15. OriginInv'
  <2>1. ASSUME NEW t \in trades
        PROVE  t.time \in 1..(L + 1) /\ t.fill[1] = handled'[t.time].o
    <3>1. t.time \in 1..L /\ t.fill[1] = handled[t.time].o
      BY DEF IInv, OriginInv
    <3> QED
      BY <1>4, <1>5, <3>1
  <2>2. placed \subseteq 1..(L + 1)
    BY <1>4 DEF IInv, OriginInv
  <2> QED
    BY <1>3, <1>5, <2>1, <2>2 DEF OriginInv
<1>16. PublishInv' /\ PublishedWasPersisted'
  BY <1>3 DEF IInv, PublishInv, PublishedWasPersisted
<1> QED
  BY <1>8, <1>9, <1>12, <1>13, <1>14, <1>15, <1>16 DEF IInv

(* A step within a call: the cache, the clock and the handlings stay.      *)
LEMMA CallStep ==
    ASSUME IInv, TypeOK', CallInv', OriginInv', PublishInv', PublishedWasPersisted',
           UNCHANGED <<epoch, now, dedup, handled>>
    PROVE  IInv'
  BY DEF IInv, ClockInv, CacheInv, HandledOncePerWindow, Apart

LEMMA PlaceStep == ASSUME IInv, Place PROVE IInv'
<1> DEFINE L == Len(handled)
           r == todo'[1]
<1>1. stage = "exchange" /\ stage' = "persist"
      /\ UNCHANGED <<queueVars, procVars, handled, dbVars, topic>>
      /\ placed' \in {placed, placed \cup {L}}
  BY DEF Place, PlaceAcknowledged, PlaceFailed
<1>2. faults' \in Nat
  BY DEF Place, PlaceAcknowledged, PlaceFailed, Fault, IInv, TypeOK
<1>3. L \in Nat \ {0} /\ Current.o \in Orders
  BY <1>1, CurrentType DEF IInv
<1>4. PICK a \in {Ack(Current.o, L), Reject(Current.o, L)} : todo' = <<a>>
  BY DEF Place, PlaceAcknowledged, PlaceFailed
<1>5. a \in Reports /\ a.n = L /\ a.o = Current.o
  <2>1. a \in Reports
    BY <1>3, ReportType DEF Ack, Reject, Statuses
  <2> QED
    BY <2>1 DEF Ack, Reject, Report
<1>6. todo' \in Seq(Reports) /\ Len(todo') = 1 /\ todo'[1] = a
  BY <1>4, <1>5, OneReport
<1>7. TypeOK'
  BY <1>1, <1>2, <1>3, <1>6 DEF IInv, TypeOK, queueVars, procVars, dbVars
<1>8. CallInv'
  <2>1. Current' = Current /\ Len(handled') = L
    BY <1>1 DEF Current
  <2>2. \A i \in 1..1 : i = 1
    OBVIOUS
  <2> QED
    BY <1>1, <1>3, <1>5, <1>6, <2>1, <2>2 DEF CallInv
<1>9. OriginInv'
  BY <1>1, <1>3 DEF IInv, OriginInv, dbVars
<1>10. PublishInv' /\ PublishedWasPersisted'
  BY <1>1 DEF IInv, PublishInv, PublishedWasPersisted, dbVars
<1> QED
  BY <1>1, <1>7, <1>8, <1>9, <1>10, CallStep DEF procVars

LEMMA PersistStep == ASSUME IInv, Persist PROVE IInv'
<1> DEFINE L == Len(handled)
           r == Head(todo)
<1>1. stage = "persist" /\ UNCHANGED <<queueVars, procVars, handled, placed, topic>>
      /\ \/ stage' = "publish" /\ todo' = todo /\ Write(Current.action, r)
         \/ stage' = "idle" /\ todo' = <<>>
      /\ (Write(Current.action, r) \/ UNCHANGED dbVars)
  <2> HIDE DEF r
  <2>1. CASE PersistReport
    BY <2>1 DEF PersistReport, r
  <2>2. CASE PersistFailed
    BY <2>2 DEF PersistFailed, GiveUp, r
  <2> QED
    BY <2>1, <2>2 DEF Persist
<1>2. faults' \in Nat
  BY DEF Persist, PersistReport, PersistFailed, Fault, IInv, TypeOK
<1>3. L \in Nat \ {0} /\ r \in Reports /\ r.n = L /\ r.o = Current.o
  BY <1>1, HeadType, CurrentType DEF IInv
<1>4. /\ orders' \in [Orders -> Rows]
      /\ events' \in Seq([report: Reports, label: Labels])
      /\ Len(events') >= Len(events)
      /\ \A j \in 1..Len(events) : events'[j] = events[j]
      /\ Write(Current.action, r) =>
             Len(events') = Len(events) + 1 /\ events'[Len(events) + 1].report = r
      /\ trades' \subseteq [fill: Orders \X Nat, time: Nat, qty: Nat]
      /\ \A t \in trades' : t \in trades \/ (t.time = r.n /\ t.fill[1] = r.o)
      /\ positions' \in [Symbols -> Int]
      /\ exitTags' \in Seq([o: Orders, at: Nat, trigger: Triggers])
  <2>1. CASE Write(Current.action, r)
    <3>1. Len(events) \in Nat /\ TypeOK
      BY DEF IInv, TypeOK
    <3>2. /\ orders' \in [Orders -> Rows]
          /\ events' \in Seq([report: Reports, label: Labels])
          /\ Len(events') = Len(events) + 1
          /\ \A j \in 1..Len(events) : events'[j] = events[j]
          /\ events'[Len(events) + 1].report = r
          /\ trades' \subseteq [fill: Orders \X Nat, time: Nat, qty: Nat]
          /\ \A t \in trades' : t \in trades \/ (t.time = r.n /\ t.fill[1] = r.o)
          /\ positions' \in [Symbols -> Int]
          /\ exitTags' \in Seq([o: Orders, at: Nat, trigger: Triggers])
      <4> HIDE DEF r
      <4> QED
        BY <1>3, <2>1, <3>1, WriteTables, Zenon
    <3> QED
      BY <3>1, <3>2
  <2>2. CASE ~Write(Current.action, r)
    <3> HIDE DEF r
    <3>1. UNCHANGED <<orders, events, trades, positions, exitTags>> /\ Len(events) \in Nat
      BY <1>1, <2>2 DEF IInv, TypeOK, dbVars
    <3> QED
      BY <2>2, <3>1 DEF IInv, TypeOK
  <2> QED
    BY <2>1, <2>2
<1>5. Len(events) \in Nat /\ Len(events') \in Nat
  BY <1>4 DEF IInv, TypeOK
<1>6. TypeOK'
  <2>1. todo' \in Seq(Reports)
    <3>1. todo' = todo \/ todo' = <<>>
      BY <1>1
    <3>2. todo \in Seq(Reports) /\ <<>> \in Seq(Reports)
      BY DEF IInv, TypeOK
    <3> QED
      BY <3>1, <3>2
  <2>2. stage' \in {"idle", "exchange", "unanswered", "persist", "publish"}
    BY <1>1
  <2> QED
    BY <1>1, <1>2, <1>4, <2>1, <2>2 DEF IInv, TypeOK, queueVars, procVars
<1>7. CallInv'
  <2>1. Current' = Current
    BY <1>1 DEF Current
  <2>2. CASE stage' = "publish"
    BY <1>1, <2>1, <2>2 DEF IInv, CallInv
  <2>3. CASE stage' = "idle"
    BY <1>1, <2>3 DEF CallInv
  <2> QED
    BY <1>1, <2>2, <2>3
<1>8. OriginInv'
  <2>1. r.n \in 1..L /\ r.o = handled[r.n].o
    BY <1>3 DEF Current
  <2>2. \A t \in trades' : t.time \in 1..L /\ t.fill[1] = handled[t.time].o
    BY <1>4, <2>1 DEF IInv, OriginInv
  <2> QED
    BY <1>1, <2>2 DEF IInv, OriginInv
<1>9. PublishInv'
  <2> SUFFICES ASSUME stage' = "publish"
               PROVE  \E j \in 1..Len(events') : events'[j].report = Head(todo')
    BY DEF PublishInv
  <2>1. Write(Current.action, r) /\ Head(todo') = r
    BY <1>1
  <2> HIDE DEF r
  <2>2. Len(events') = Len(events) + 1 /\ events'[Len(events) + 1].report = r
    BY <1>4, <2>1
  <2>3. Len(events) + 1 \in 1..Len(events')
    BY <1>5, <2>2
  <2> QED
    BY <2>1, <2>2, <2>3
<1>10. PublishedWasPersisted'
  <2> SUFFICES ASSUME NEW i \in 1..Len(topic)
               PROVE  \E j \in 1..Len(events') : events'[j].report = topic[i]
    BY <1>1 DEF PublishedWasPersisted
  <2>1. PICK j \in 1..Len(events) : events[j].report = topic[i]
    BY DEF IInv, PublishedWasPersisted
  <2>2. j \in 1..Len(events') /\ events'[j].report = topic[i]
    BY <1>4, <1>5, <2>1
  <2> QED
    BY <2>2
<1> QED
  BY <1>1, <1>6, <1>7, <1>8, <1>9, <1>10, CallStep DEF procVars

LEMMA PublishStep == ASSUME IInv, Publish PROVE IInv'
<1> DEFINE L == Len(handled)
           r == Head(todo)
<1>1. stage = "publish" /\ UNCHANGED <<queueVars, procVars, handled, dbVars, placed>>
      /\ (\/ todo' = Tail(todo) /\ stage' = IF Len(todo) = 1 THEN "idle" ELSE "persist"
          \/ stage' = "idle" /\ todo' = <<>>)
      /\ (topic' = topic \/ topic' = Append(topic, r))
  BY DEF Publish, PublishReport, PublishFailed, GiveUp
<1>2. faults' \in Nat
  BY DEF Publish, PublishReport, PublishFailed, Fault, IInv, TypeOK
<1>3. /\ L \in Nat \ {0} /\ r \in Reports
      /\ Tail(todo) \in Seq(Reports) /\ Len(Tail(todo)) = Len(todo) - 1
      /\ \A i \in 1..Len(Tail(todo)) :
             Tail(todo)[i].n = L /\ Tail(todo)[i].o = Current.o
  BY <1>1, HeadType, CurrentType DEF IInv
<1>4. Len(todo) \in Nat /\ Len(todo) > 0
  BY <1>1 DEF IInv, TypeOK, CallInv
<1>5. topic' \in Seq(Reports)
      /\ \A i \in 1..Len(topic') : topic'[i] = r \/ (i \in 1..Len(topic) /\ topic'[i] = topic[i])
  <2>1. topic \in Seq(Reports)
    BY DEF IInv, TypeOK
  <2> HIDE DEF r
  <2>2. r \in Reports
    BY <1>3
  <2>3. CASE topic' = topic
    BY <2>1, <2>3
  <2>4. CASE topic' = Append(topic, r)
    BY <2>1, <2>2, <2>4
  <2> QED
    BY <1>1, <2>3, <2>4
<1>6. TypeOK'
  <2>1. todo' \in Seq(Reports)
    <3>1. todo' = Tail(todo) \/ todo' = <<>>
      BY <1>1
    <3>2. <<>> \in Seq(Reports)
      OBVIOUS
    <3> QED
      BY <1>3, <3>1, <3>2
  <2>2. stage' \in {"idle", "exchange", "unanswered", "persist", "publish"}
    BY <1>1
  <2> QED
    BY <1>1, <1>2, <1>5, <2>1, <2>2 DEF IInv, TypeOK, queueVars, procVars, dbVars
<1>7. CallInv'
  <2>1. Current' = Current
    BY <1>1 DEF Current
  <2>2. CASE todo' = <<>> /\ stage' = "idle"
    BY <2>2 DEF CallInv
  <2>3. CASE todo' = Tail(todo) /\ stage' = IF Len(todo) = 1 THEN "idle" ELSE "persist"
    BY <1>1, <1>3, <1>4, <2>1, <2>3 DEF CallInv
  <2> QED
    BY <1>1, <2>2, <2>3
<1>8. OriginInv'
  BY <1>1 DEF IInv, OriginInv, dbVars
<1>9. PublishInv'
  BY <1>1 DEF PublishInv
<1>10. PublishedWasPersisted'
  <2>1. \E j \in 1..Len(events) : events[j].report = r
    BY <1>1 DEF IInv, PublishInv
  <2>2. events' = events
    BY <1>1 DEF dbVars
  <2> HIDE DEF r
  <2> QED
    BY <1>5, <2>1, <2>2 DEF IInv, PublishedWasPersisted
<1> QED
  BY <1>1, <1>6, <1>7, <1>8, <1>9, <1>10, CallStep DEF procVars

(* The exchange is silent: the call is left where it is.                   *)
LEMMA UnansweredStep == ASSUME IInv, PlaceUnanswered PROVE IInv'
<1>1. /\ stage = "exchange" /\ stage' = "unanswered" /\ faults' \in Nat
      /\ UNCHANGED <<queueVars, procVars, handled, todo, dbVars, topic>>
      /\ placed' \in {placed, placed \cup {Len(handled)}}
  BY DEF PlaceUnanswered, Fault, IInv, TypeOK
<1>2. Len(handled) \in Nat \ {0}
  BY <1>1, CurrentType DEF IInv
<1>3. TypeOK'
  BY <1>1, <1>2 DEF IInv, TypeOK, queueVars, procVars, dbVars
<1>4. CallInv' /\ PublishInv' /\ PublishedWasPersisted'
  BY <1>1 DEF IInv, CallInv, PublishInv, PublishedWasPersisted, Current, dbVars
<1>5. OriginInv'
  BY <1>1, <1>2 DEF IInv, OriginInv, dbVars
<1> QED
  BY <1>1, <1>3, <1>4, <1>5, CallStep DEF procVars

(* A copy of a report is a report: nothing else has changed.               *)
LEMMA ResendStep == ASSUME IInv, Resend PROVE IInv'
<1> DEFINE r == Head(todo)
<1>1. /\ stage = "publish" /\ topic' = Append(topic, r) /\ faults' \in Nat
      /\ UNCHANGED <<queueVars, procVars, callVars, dbVars, placed>>
  BY DEF Resend, Fault, IInv, TypeOK
<1>2. r \in Reports
  BY <1>1, HeadType DEF IInv
<1>3. \E j \in 1..Len(events) : events[j].report = r
  BY <1>1 DEF IInv, PublishInv
<1>4. topic \in Seq(Reports)
  BY DEF IInv, TypeOK
<1>5. topic' \in Seq(Reports)
      /\ \A i \in 1..Len(topic') : topic'[i] = r \/ (i \in 1..Len(topic) /\ topic'[i] = topic[i])
  <2> HIDE DEF r
  <2> QED
    BY <1>1, <1>2, <1>4
<1>6. TypeOK'
  BY <1>1, <1>5 DEF IInv, TypeOK, queueVars, procVars, callVars, dbVars
<1>7. CallInv' /\ OriginInv' /\ PublishInv'
  BY <1>1 DEF IInv, CallInv, OriginInv, PublishInv, Current, callVars, dbVars
<1>8. PublishedWasPersisted'
  <2>1. events' = events
    BY <1>1 DEF dbVars
  <2> HIDE DEF r
  <2> QED
    BY <1>3, <1>5, <2>1 DEF IInv, PublishedWasPersisted
<1> QED
  BY <1>1, <1>6, <1>7, <1>8, CallStep DEF procVars, callVars

LEMMA OffsetStep == ASSUME IInv, AutoCommit \/ Rebalance \/ Restart PROVE IInv'
<1>1. TypeOK'
  BY DEF IInv, TypeOK, AutoCommit, Rebalance, Restart, procVars, callVars, dbVars
<1>2. UNCHANGED <<epoch, now, dedup, handled, stage, todo, events, trades, placed, topic>>
  BY DEF AutoCommit, Rebalance, Restart, procVars, callVars, dbVars
<1> QED
  BY <1>1, <1>2, QuietStep

(* A new incarnation has handled nothing, so it needs to remember nothing. *)
LEMMA CrashStep == ASSUME IInv, Crash PROVE IInv'
<1>1. TypeOK'
  <2>1. todo' \in Seq(Reports)
    BY DEF Crash, GiveUp
  <2>2. dedup' \in [Orders -> Nat \cup {NotCached}]
    BY DEF Crash
  <2>3. up' = FALSE /\ handled' = handled /\ stage' = "idle"
    BY DEF Crash, GiveUp
  <2>4. epoch' \in Nat
    BY DEF Crash, IInv, TypeOK
  <2> QED
    BY <2>1, <2>2, <2>3, <2>4 DEF IInv, TypeOK, Crash, queueVars, dbVars
<1>2. /\ now \in Nat /\ epoch \in Nat
      /\ \A m \in 1..Len(handled) : handled[m].epoch \in Nat /\ handled[m].epoch <= epoch
  BY HandledTypes DEF IInv, ClockInv
<1>3. epoch' = epoch + 1 /\ now' = now /\ handled' = handled
      /\ \A o \in Orders : dedup'[o] = NotCached
  BY DEF Crash, GiveUp
<1>4. ClockInv'
  <2>1. \A m \in 1..Len(handled) : handled[m].at <= now /\ handled[m].epoch <= epoch + 1
    BY <1>2 DEF IInv, ClockInv
  <2>2. NotCached <= now
    BY <1>2 DEF NotCached
  <2> QED
    BY <1>3, <2>1, <2>2 DEF ClockInv
<1>5. CacheInv'
  BY <1>2, <1>3 DEF CacheInv
<1>6. CallInv'
  BY DEF Crash, GiveUp, CallInv
<1>7. HandledOncePerWindow' /\ OriginInv' /\ PublishInv' /\ PublishedWasPersisted'
  BY DEF IInv, Crash, GiveUp, dbVars, HandledOncePerWindow, Apart, OriginInv, PublishInv,
         PublishedWasPersisted
<1> QED
  BY <1>1, <1>4, <1>5, <1>6, <1>7 DEF IInv

LEMMA NextIInv == IInv /\ [Next]_vars => IInv'
<1> SUFFICES ASSUME IInv, [Next]_vars PROVE IInv'
  OBVIOUS
<1>1. CASE \E c \in Submissions : Submit(c)
  BY <1>1, SubmitStep
<1>2. CASE Receive
  BY <1>2, SkipRecordStep, DropDuplicateStep, AcceptStep DEF Receive
<1>3. CASE Place
  BY <1>3, PlaceStep
<1>4. CASE Persist
  BY <1>4, PersistStep
<1>5. CASE Publish
  BY <1>5, PublishStep
<1>6. CASE Tick
  BY <1>6, TickStep
<1>7. CASE Crash
  BY <1>7, CrashStep
<1>8. CASE AutoCommit \/ Rebalance \/ Restart
  BY <1>8, OffsetStep
<1>9. CASE UNCHANGED vars
  <2>1. TypeOK'
    BY <1>9 DEF IInv, TypeOK, vars, queueVars, procVars, callVars, dbVars
  <2> QED
    BY <1>9, <2>1, QuietStep DEF vars, procVars, callVars, dbVars
<1>10. CASE PlaceUnanswered \/ Resend
  BY <1>10, UnansweredStep, ResendStep
<1> QED
  BY <1>1, <1>2, <1>3, <1>4, <1>5, <1>6, <1>7, <1>8, <1>9, <1>10 DEF Next, Process

------------------------------------------------------------------------------
(* Theorems.                                                               *)

(* The inductive invariant: what the loop, the cache, the tables and the   *)
(* topic of execution_router have to do with each other.                   *)
THEOREM RouterInvariant == Spec => []IInv
<1>1. Init => IInv
  BY InitIInv
<1>2. IInv /\ [Next]_vars => IInv'
  BY NextIInv
<1> QED
  BY <1>1, <1>2, PTL DEF Spec

(* Every variable of the router keeps its type.                            *)
THEOREM TypeCorrect == Spec => []TypeOK
<1>1. IInv => TypeOK
  BY DEF IInv
<1> QED
  BY <1>1, RouterInvariant, PTL

(* Whatever is redelivered or swept, seen_recently_or_insert lets an order *)
(* be handled twice only by another incarnation or more than TTL later.    *)
THEOREM HandledOnce == Spec => []HandledOncePerWindow
<1>1. IInv => HandledOncePerWindow
  BY DEF IInv
<1> QED
  BY <1>1, RouterInvariant, PTL

(* ... so insert_fill_idempotent stores a fill twice only then ...         *)
THEOREM FillsOnce == Spec => []FillsOncePerWindow
<1>1. IInv => FillsOncePerWindow
  <2> SUFFICES ASSUME IInv, NEW t \in trades, NEW u \in trades,
                      t.fill = u.fill, t.time < u.time
               PROVE  Apart(t.time, u.time)
    BY DEF FillsOncePerWindow
  <2>1. t.time \in 1..Len(handled) /\ u.time \in 1..Len(handled)
        /\ handled[t.time].o = handled[u.time].o
    BY DEF IInv, OriginInv
  <2> QED
    BY <2>1 DEF IInv, HandledOncePerWindow
<1> QED
  BY <1>1, RouterInvariant, PTL

(* ... and place_order puts an order on the exchange twice only then.      *)
THEOREM PlacedOnce == Spec => []PlacedOncePerWindow
<1>1. IInv => PlacedOncePerWindow
  BY DEF IInv, OriginInv, HandledOncePerWindow, PlacedOncePerWindow
<1> QED
  BY <1>1, RouterInvariant, PTL

(* handle_order publishes to TOPIC_FILLS only what Postgres holds.         *)
THEOREM PersistBeforePublish == Spec => []PublishedWasPersisted
<1>1. IInv => PublishedWasPersisted
  BY DEF IInv
<1> QED
  BY <1>1, RouterInvariant, PTL

------------------------------------------------------------------------------
(* The reports of a call: the order in which they reach the tables and the *)
(* topic, and the rows they leave.                                         *)

(* A row was written by a handling of its order. *)
OriginOfRows ==
    \A o \in Orders :
        orders[o] # NoRow => orders[o].at \in 1..Len(handled) /\ handled[orders[o].at].o = o

(* The reports of a call are numbered in a row, and its last one is final  *)
(* if any of them is.                                                      *)
Numbered(reports) ==
    \A i \in 1..(Len(reports) - 1) :
        /\ reports[i + 1].seq = reports[i].seq + 1
        /\ reports[i].status \notin Final

(* The report before r of its call is among the records.                   *)
Preceded(r, records) ==
    r.seq > 0 => \E j \in 1..Len(records) : records[j].n = r.n /\ records[j].seq = r.seq - 1

PrecededInTable(r) ==
    r.seq > 0 => \E j \in 1..Len(events) : /\ events[j].report.n = r.n
                                           /\ events[j].report.seq = r.seq - 1

(* What is done of a call: the report before its next one is on the topic, *)
(* and in the table once the next one is about to be written.              *)
ProgressInv ==
    /\ Numbered(todo)
    /\ stage = "persist" => PrecededInTable(Head(todo))
    /\ stage \in {"persist", "publish"} => Preceded(Head(todo), topic)

(* A call that has a report to write has not finished the row ...          *)
UnfinishedInv ==
    stage \in {"exchange", "persist"} /\ orders[Current.o].at = Len(handled) =>
        orders[Current.o].status \notin Final

(* ... and one that has written a report has made the row what it says.    *)
WrittenInv == stage = "publish" => orders[Current.o].status = Head(todo).status

GapInv ==
    /\ \A i \in 1..Len(topic) :
           topic[i].seq > 0 => \E j \in 1..(i - 1) :
               topic[j].n = topic[i].n /\ topic[j].seq = topic[i].seq - 1
    /\ \A i \in 1..Len(events) :
           events[i].report.seq > 0 => \E j \in 1..(i - 1) :
               /\ events[j].report.n = events[i].report.n
               /\ events[j].report.seq = events[i].report.seq - 1

RInv == /\ IInv
        /\ OriginOfRows
        /\ ProgressInv
        /\ UnfinishedInv
        /\ WrittenInv
        /\ GapInv

------------------------------------------------------------------------------
(* The data.                                                               *)

LEMMA BuildReportsNumbered ==
    ASSUME NEW o, NEW n
    PROVE  Numbered(BuildReports(o, n)) /\ BuildReports(o, n)[1].seq = 0
<1> DEFINE q == Details[o].qty
           p == Split(q)
<1>1. CASE q = 0
  <2>1. BuildReports(o, n) = <<Reject(o, n)>>
    BY <1>1 DEF BuildReports
  <2> QED
    BY <2>1 DEF Numbered, Reject, Report
<1>2. CASE q # 0 /\ p < q
  <2> DEFINE a == Ack(o, n)
             b == Report(o, n, 1, "PARTIALLY_FILLED", p, p)
             c == Report(o, n, 2, "FILLED", q - p, q)
  <2>1. BuildReports(o, n) = <<a, b, c>>
    BY <1>2 DEF BuildReports
  <2>2. /\ a.seq = 0 /\ b.seq = 1 /\ c.seq = 2
        /\ a.status \notin Final /\ b.status \notin Final
    BY DEF Ack, Report, Final
  <2> HIDE DEF a, b, c
  <2>3. 1..2 = {1, 2} /\ Len(<<a, b, c>>) - 1 = 2
    OBVIOUS
  <2> QED
    BY <2>1, <2>2, <2>3 DEF Numbered
<1>3. CASE q # 0 /\ ~(p < q)
  <2> DEFINE a == Ack(o, n)
             b == Report(o, n, 1, "FILLED", q, q)
  <2>1. BuildReports(o, n) = <<a, b>>
    BY <1>3 DEF BuildReports
  <2>2. a.seq = 0 /\ b.seq = 1 /\ a.status \notin Final
    BY DEF Ack, Report, Final
  <2> HIDE DEF a, b
  <2>3. 1..1 = {1} /\ Len(<<a, b>>) - 1 = 1
    OBVIOUS
  <2> QED
    BY <2>1, <2>2, <2>3 DEF Numbered
<1> QED
  BY <1>1, <1>2, <1>3

LEMMA FirstReportsNumbered ==
    ASSUME NEW c, NEW n
    PROVE  /\ Numbered(FirstReports(c, n))
           /\ ~CallsExchange(c) => FirstReports(c, n)[1].seq = 0
<1>1. CASE CallsExchange(c)
  <2>1. FirstReports(c, n) = <<>>
    BY <1>1 DEF FirstReports
  <2> QED
    BY <1>1, <2>1 DEF Numbered
<1>2. CASE ~CallsExchange(c) /\ (Mode = "REAL" \/ c.action = "CANCEL")
  <2>1. PICK r \in {Reject(c.o, n), Cancel(c.o, n)} : FirstReports(c, n) = <<r>>
    BY <1>2 DEF FirstReports
  <2>2. r.seq = 0
    BY DEF Reject, Cancel, Report
  <2> HIDE DEF CallsExchange
  <2>3. <<r>>[1] = r /\ Len(<<r>>) - 1 = 0
    OBVIOUS
  <2> QED
    BY <2>1, <2>2, <2>3 DEF Numbered
<1>3. CASE ~CallsExchange(c) /\ Mode # "REAL" /\ c.action # "CANCEL"
  <2>1. FirstReports(c, n) = BuildReports(c.o, n)
    BY <1>3 DEF FirstReports
  <2> QED
    BY <2>1, BuildReportsNumbered
<1> QED
  BY <1>1, <1>2, <1>3

------------------------------------------------------------------------------
(* One lemma per action.                                                   *)

LEMMA InitRInv == Init => RInv
<1> SUFFICES ASSUME Init PROVE RInv
  OBVIOUS
<1>1. IInv
  BY InitIInv
<1>2. Numbered(todo)
  BY DEF Init, Numbered
<1> QED
  BY <1>1, <1>2 DEF Init, RInv, OriginOfRows, ProgressInv, UnfinishedInv, WrittenInv, GapInv

LEMMA QuietReports ==
    ASSUME RInv, IInv', UNCHANGED <<handled, stage, todo, orders, events, topic>>
    PROVE  RInv'
  BY DEF RInv, OriginOfRows, ProgressInv, UnfinishedInv, WrittenInv, GapInv, Numbered,
         Preceded, PrecededInTable, Current

LEMMA AcceptReports == ASSUME RInv, Accept PROVE RInv'
<1> DEFINE c == Command
           L == Len(handled)
           h == [o |-> c.o, action |-> c.action, at |-> now, epoch |-> epoch]
<1>1. IInv'
  BY AcceptStep DEF RInv
<1>2. L \in Nat /\ handled \in Seq(Handlings)
  BY DEF RInv, IInv, TypeOK
<1>3. /\ handled' = Append(handled, h)
      /\ todo' = FirstReports(c, L + 1)
      /\ stage' = IF CallsExchange(c) THEN "exchange" ELSE "persist"
      /\ UNCHANGED <<orders, events, topic>>
  BY DEF Accept, dbVars
<1>4. Len(handled') = L + 1 /\ \A m \in 1..L : handled'[m] = handled[m]
  <2> HIDE DEF h, c
  <2> QED
    BY <1>2, <1>3
<1>5. OriginOfRows'
  BY <1>2, <1>3, <1>4 DEF RInv, OriginOfRows
<1>6. stage' = "persist" => Head(todo').seq = 0
  <2>1. stage' = "persist" => ~CallsExchange(c)
    BY <1>3
  <2>2. stage' = "persist" => Len(todo') > 0 /\ todo' \in Seq(Reports)
    BY <1>1 DEF IInv, CallInv, TypeOK
  <2>3. stage' = "persist" => todo'[1].seq = 0
    BY <1>3, <2>1, FirstReportsNumbered
  <2> QED
    BY <2>2, <2>3
<1>7. ProgressInv'
  BY <1>3, <1>6, FirstReportsNumbered DEF ProgressInv, Preceded, PrecededInTable
<1>8. UnfinishedInv'
  <2>1. Current'.o \in Orders
    <3>1. handled' \in Seq(Handlings) /\ L + 1 \in 1..Len(handled')
      BY <1>1, <1>2, <1>4 DEF IInv, TypeOK
    <3>2. handled'[L + 1] \in Handlings
      BY <3>1
    <3> QED
      BY <1>4, <3>2 DEF Current, Handlings
  <2>2. orders[Current'.o].at # L + 1
    BY <1>2, <2>1 DEF RInv, OriginOfRows, NoRow
  <2> QED
    BY <1>3, <1>4, <2>2 DEF UnfinishedInv
<1>9. WrittenInv' /\ GapInv'
  BY <1>3 DEF RInv, WrittenInv, GapInv
<1> QED
  BY <1>1, <1>5, <1>7, <1>8, <1>9 DEF RInv

LEMMA PlaceReports == ASSUME RInv, Place PROVE RInv'
<1>1. IInv'
  BY PlaceStep DEF RInv
<1>2. /\ stage = "exchange" /\ stage' = "persist"
      /\ UNCHANGED <<handled, orders, events, topic>>
  BY DEF Place, PlaceAcknowledged, PlaceFailed, dbVars
<1>3. PICK a \in {Ack(Current.o, Len(handled)), Reject(Current.o, Len(handled))} :
          todo' = <<a>>
  BY DEF Place, PlaceAcknowledged, PlaceFailed
<1>4. a.seq = 0
  BY DEF Ack, Reject, Report
<1>5. Head(todo').seq = 0 /\ Len(todo') = 1
  BY <1>3, <1>4
<1>6. ProgressInv'
  <2>1. Numbered(todo')
    BY <1>5 DEF Numbered
  <2>2. ~(Head(todo').seq > 0)
    BY <1>5
  <2> QED
    BY <2>1, <2>2 DEF ProgressInv, Preceded, PrecededInTable
<1>7. OriginOfRows' /\ UnfinishedInv' /\ WrittenInv' /\ GapInv'
  BY <1>2 DEF RInv, OriginOfRows, UnfinishedInv, WrittenInv, GapInv, Current
<1> QED
  BY <1>1, <1>6, <1>7 DEF RInv

(* A call that ends has nothing left to keep in order.                     *)
LEMMA EndedReports ==
    ASSUME RInv, IInv', GapInv', OriginOfRows', stage' = "idle", todo' = <<>>
    PROVE  RInv'
  BY DEF RInv, ProgressInv, UnfinishedInv, WrittenInv, Numbered

(* The row the transaction writes.                                         *)
LEMMA ReportedRow ==
    ASSUME IInv, stage = "persist", Write(Current.action, Head(todo)), NEW o \in Orders
    PROVE  orders'[o] = IF o = Current.o
                        THEN [status |-> Head(todo).status, filled |-> Head(todo).cum,
                              at |-> Len(handled)]
                        ELSE orders[o]
<1>1. Head(todo).n = Len(handled) /\ Head(todo).o = Current.o
  BY HeadType DEF IInv
<1>2. orders \in [Orders -> Rows]
  BY DEF IInv, TypeOK
<1>3. orders' = [orders EXCEPT ![Current.o] =
                     [status |-> Head(todo).status, filled |-> Head(todo).cum,
                      at |-> Len(handled)]]
  BY <1>1 DEF Write, UpsertOrder
<1> QED
  BY <1>2, <1>3

LEMMA PersistReports == ASSUME RInv, Persist PROVE RInv'
<1> DEFINE r == Head(todo)
<1>1. IInv /\ IInv'
  BY PersistStep DEF RInv
<1>2. /\ stage = "persist" /\ UNCHANGED <<handled, topic>>
      /\ \/ stage' = "publish" /\ todo' = todo /\ Write(Current.action, r)
         \/ stage' = "idle" /\ todo' = <<>>
      /\ Write(Current.action, r) \/ UNCHANGED <<orders, events>>
  BY DEF Persist, PersistReport, PersistFailed, GiveUp, dbVars
<1>3. Current \in Handlings /\ Current.o \in Orders /\ Len(handled) \in Nat \ {0}
      /\ r \in Reports
  BY <1>1, <1>2, CurrentType, HeadType DEF IInv
<1>4. GapInv'
  <2>1. CASE UNCHANGED events
    BY <1>2, <2>1 DEF RInv, GapInv
  <2>2. CASE Write(Current.action, r)
    <3>1. /\ Len(events') = Len(events) + 1 /\ Len(events) \in Nat
          /\ \A j \in 1..Len(events) : events'[j] = events[j]
          /\ events'[Len(events) + 1].report = r
      <4>1. TypeOK /\ Len(events) \in Nat
        <5>1. TypeOK
          BY <1>1 DEF IInv
        <5> QED
          BY <5>1 DEF TypeOK
      <4> HIDE DEF r
      <4>2. /\ Len(events') = Len(events) + 1
            /\ \A j \in 1..Len(events) : events'[j] = events[j]
            /\ events'[Len(events) + 1].report = r
        BY <1>3, <2>2, <4>1, WriteTables, Zenon
      <4> QED
        BY <4>1, <4>2
    <3>2. PrecededInTable(r)
      BY <1>2 DEF RInv, ProgressInv
    <3> HIDE DEF r
    <3>3. ASSUME NEW i \in 1..(Len(events) + 1), events'[i].report.seq > 0
          PROVE  \E j \in 1..(i - 1) : /\ events'[j].report.n = events'[i].report.n
                                       /\ events'[j].report.seq = events'[i].report.seq - 1
      <4>1. CASE i = Len(events) + 1
        <5>1. PICK j \in 1..Len(events) : /\ events[j].report.n = r.n
                                          /\ events[j].report.seq = r.seq - 1
          BY <3>1, <3>2, <3>3, <4>1 DEF PrecededInTable
        <5>2. j \in 1..(i - 1) /\ events'[j] = events[j] /\ events'[i].report = r
          BY <3>1, <4>1
        <5> QED
          BY <5>1, <5>2
      <4>2. CASE i \in 1..Len(events)
        <5>1. events'[i] = events[i] /\ \A j \in 1..(i - 1) : events'[j] = events[j]
          BY <3>1, <4>2
        <5> QED
          BY <3>3, <4>2, <5>1 DEF RInv, GapInv
      <4> QED
        BY <3>1, <4>1, <4>2
    <3> QED
      BY <1>2, <3>1, <3>3 DEF RInv, GapInv
  <2> QED
    BY <1>2, <2>1, <2>2
<1>5. OriginOfRows'
  <2> SUFFICES ASSUME NEW o \in Orders, orders'[o] # NoRow
               PROVE  orders'[o].at \in 1..Len(handled) /\ handled[orders'[o].at].o = o
    BY <1>2 DEF OriginOfRows
  <2>1. CASE orders'[o] = orders[o]
    BY <2>1 DEF RInv, OriginOfRows
  <2>2. CASE orders'[o] # orders[o]
    <3>1. o = Current.o /\ orders'[o].at = Len(handled)
      BY <1>1, <1>2, <2>2, ReportedRow
    <3> QED
      BY <1>3, <3>1 DEF Current
  <2> QED
    BY <2>1, <2>2
<1>6. CASE stage' = "idle" /\ todo' = <<>>
  BY <1>1, <1>4, <1>5, <1>6, EndedReports
<1>7. CASE stage' = "publish" /\ todo' = todo /\ Write(Current.action, r)
  <2>1. ProgressInv'
    BY <1>2, <1>7 DEF RInv, ProgressInv, Preceded, Numbered
  <2>2. orders'[Current.o].status = r.status
    BY <1>1, <1>2, <1>3, <1>7, ReportedRow
  <2>3. WrittenInv' /\ UnfinishedInv'
    BY <1>2, <1>7, <2>2 DEF WrittenInv, UnfinishedInv, Current
  <2> QED
    BY <1>1, <1>4, <1>5, <2>1, <2>3 DEF RInv
<1> QED
  BY <1>2, <1>6, <1>7

LEMMA PublishReports == ASSUME RInv, Publish PROVE RInv'
<1> DEFINE r == Head(todo)
<1>1. IInv /\ IInv'
  BY PublishStep DEF RInv
<1>2. /\ stage = "publish" /\ UNCHANGED <<handled, orders, events>>
      /\ \/ /\ topic' = Append(topic, r) /\ todo' = Tail(todo)
            /\ stage' = IF Len(todo) = 1 THEN "idle" ELSE "persist"
         \/ /\ topic' \in {topic, Append(topic, r)}
            /\ stage' = "idle" /\ todo' = <<>>
  BY DEF Publish, PublishReport, PublishFailed, GiveUp, dbVars
<1>3. /\ r \in Reports /\ r.n = Len(handled) /\ r = todo[1]
      /\ topic \in Seq(Reports) /\ todo \in Seq(Reports)
      /\ Len(todo) \in Nat /\ Len(todo) > 0 /\ Len(topic) \in Nat
  <2>1. TypeOK /\ CallInv
    BY <1>1 DEF IInv
  <2>2. r \in Reports /\ r.n = Len(handled)
    BY <1>2, <2>1, HeadType
  <2>3. topic \in Seq(Reports) /\ todo \in Seq(Reports) /\ Len(todo) > 0
    BY <1>2, <2>1 DEF TypeOK, CallInv
  <2> QED
    BY <2>2, <2>3
<1>4. /\ Preceded(r, topic)
      /\ \E j \in 1..Len(events) : events[j].report = r
  BY <1>1, <1>2 DEF RInv, ProgressInv, IInv, PublishInv
<1> HIDE DEF r
<1>5. ASSUME topic' = Append(topic, r)
      PROVE  /\ Len(topic') = Len(topic) + 1 /\ topic'[Len(topic) + 1] = r
             /\ \A j \in 1..Len(topic) : topic'[j] = topic[j]
  BY <1>3, <1>5
<1>6. GapInv'
  <2>1. CASE topic' = topic
    BY <1>2, <2>1 DEF RInv, GapInv
  <2>2. CASE topic' = Append(topic, r)
    <3>1. ASSUME NEW i \in 1..(Len(topic) + 1), topic'[i].seq > 0
          PROVE  \E j \in 1..(i - 1) : /\ topic'[j].n = topic'[i].n
                                       /\ topic'[j].seq = topic'[i].seq - 1
      <4>1. CASE i = Len(topic) + 1
        <5>1. PICK j \in 1..Len(topic) : topic[j].n = r.n /\ topic[j].seq = r.seq - 1
          BY <1>4, <1>5, <2>2, <3>1, <4>1 DEF Preceded
        <5>2. j \in 1..(i - 1) /\ topic'[j] = topic[j] /\ topic'[i] = r
          BY <1>3, <1>5, <2>2, <4>1
        <5> QED
          BY <5>1, <5>2
      <4>2. CASE i \in 1..Len(topic)
        <5>1. topic'[i] = topic[i] /\ \A j \in 1..(i - 1) : topic'[j] = topic[j]
          BY <1>3, <1>5, <2>2, <4>2
        <5> QED
          BY <3>1, <4>2, <5>1 DEF RInv, GapInv
      <4> QED
        BY <1>3, <4>1, <4>2
    <3> QED
      BY <1>2, <1>5, <2>2, <3>1 DEF RInv, GapInv
  <2> QED
    BY <1>2, <2>1, <2>2
<1>7. OriginOfRows'
  BY <1>2 DEF RInv, OriginOfRows
<1>8. CASE stage' = "idle" /\ Len(todo') = 0
  <2>1. Numbered(todo')
    BY <1>8 DEF Numbered
  <2> QED
    BY <1>1, <1>6, <1>7, <1>8, <2>1 DEF RInv, ProgressInv, UnfinishedInv, WrittenInv
<1>9. CASE topic' = Append(topic, r) /\ todo' = Tail(todo) /\ Len(todo) # 1
           /\ stage' = "persist"
  <2>0. Len(todo) > 1
    <3>1. Len(todo) \in Nat /\ Len(todo) > 0 /\ Len(todo) # 1
      BY <1>3, <1>9, Zenon
    <3>2. \A n \in Nat : n > 0 /\ n # 1 => n > 1
      OBVIOUS
    <3> QED
      BY <3>1, <3>2, Zenon
  <2>1. /\ Len(todo') = Len(todo) - 1 /\ Head(todo') = todo[2]
        /\ \A i \in 1..Len(todo') : todo'[i] = todo[i + 1]
    <3>1. todo \in Seq(Reports) /\ Len(todo) > 1 /\ todo' = Tail(todo)
      BY <1>3, <1>9, <2>0, Zenon
    <3> QED
      BY <3>1
  <2>2. todo[2].seq = r.seq + 1 /\ r.status \notin Final
    <3>1. 1 \in 1..(Len(todo) - 1) /\ 1 + 1 = 2
      BY <2>0
    <3> QED
      BY <1>3, <3>1 DEF RInv, ProgressInv, Numbered
  <2>3. Head(todo').n = r.n
    <3>1. 2 \in 1..Len(todo)
      BY <2>0
    <3> QED
      BY <1>1, <1>3, <2>1, <3>1 DEF IInv, CallInv
  <2>4. Numbered(todo')
    <3>1. ASSUME NEW i \in 1..(Len(todo') - 1)
          PROVE  /\ todo'[i] = todo[i + 1] /\ todo'[i + 1] = todo[(i + 1) + 1]
                 /\ i + 1 \in 1..(Len(todo) - 1)
      BY <1>3, <2>1
    <3> QED
      BY <3>1 DEF RInv, ProgressInv, Numbered
  <2>5. Head(todo').n = r.n /\ Head(todo').seq - 1 = r.seq
    <3>1. r.seq \in Nat
      BY <1>3 DEF Reports
    <3>2. \A n \in Nat : (n + 1) - 1 = n
      OBVIOUS
    <3> QED
      BY <2>1, <2>2, <2>3, <3>1, <3>2, Zenon
  <2>6. PrecededInTable(Head(todo'))
    BY <1>4, <2>5, Zenon DEF PrecededInTable
  <2>7. Preceded(Head(todo'), topic')
    <3>1. Len(topic) + 1 \in 1..Len(topic') /\ topic'[Len(topic) + 1] = r
      BY <1>3, <1>5, <1>9
    <3> QED
      BY <2>5, <3>1, Zenon DEF Preceded
  <2>8. ProgressInv'
    BY <1>2, <1>9, <2>4, <2>6, <2>7 DEF ProgressInv, PrecededInTable, Preceded
  <2>9. UnfinishedInv' /\ WrittenInv'
    BY <1>2, <1>9, <2>2 DEF RInv, UnfinishedInv, WrittenInv, Current, r
  <2> QED
    BY <1>1, <1>6, <1>7, <2>8, <2>9 DEF RInv
<1> QED
  <2>1. Len(todo) = 1 => Len(Tail(todo)) = 0
    BY <1>3
  <2> QED
    BY <1>2, <1>8, <1>9, <2>1

LEMMA UnansweredReports == ASSUME RInv, PlaceUnanswered PROVE RInv'
<1>1. IInv'
  BY UnansweredStep DEF RInv
<1>2. /\ stage = "exchange" /\ stage' = "unanswered"
      /\ UNCHANGED <<handled, todo, orders, events, topic>>
  BY DEF PlaceUnanswered, dbVars
<1> QED
  BY <1>1, <1>2 DEF RInv, OriginOfRows, ProgressInv, UnfinishedInv, WrittenInv, GapInv,
                    Numbered, Preceded, PrecededInTable, Current

(* The report before the one that is sent again is on the topic already.   *)
LEMMA ResendReports == ASSUME RInv, Resend PROVE RInv'
<1> DEFINE r == Head(todo)
<1>1. IInv /\ IInv'
  BY ResendStep DEF RInv
<1>2. /\ stage = "publish" /\ topic' = Append(topic, r)
      /\ UNCHANGED <<handled, stage, todo, orders, events>>
  BY DEF Resend, callVars, dbVars
<1>3. r \in Reports /\ topic \in Seq(Reports) /\ Len(topic) \in Nat
  <2>1. TypeOK /\ CallInv
    BY <1>1 DEF IInv
  <2>2. r \in Reports
    BY <1>2, <2>1, HeadType
  <2> QED
    BY <2>1, <2>2 DEF TypeOK
<1>4. Preceded(r, topic)
  BY <1>2 DEF RInv, ProgressInv
<1>5. /\ Len(topic') = Len(topic) + 1 /\ topic'[Len(topic) + 1] = r
      /\ \A j \in 1..Len(topic) : topic'[j] = topic[j]
  <2> HIDE DEF r
  <2> QED
    BY <1>2, <1>3
<1>6. Preceded(r, topic')
  BY <1>3, <1>4, <1>5 DEF Preceded
<1>7. ProgressInv'
  BY <1>2, <1>6 DEF RInv, ProgressInv, Numbered, PrecededInTable
<1> HIDE DEF r
<1>8. ASSUME NEW i \in 1..(Len(topic) + 1), topic'[i].seq > 0
      PROVE  \E j \in 1..(i - 1) : /\ topic'[j].n = topic'[i].n
                                   /\ topic'[j].seq = topic'[i].seq - 1
  <2>1. CASE i = Len(topic) + 1
    <3>1. PICK j \in 1..Len(topic) : topic[j].n = r.n /\ topic[j].seq = r.seq - 1
      BY <1>4, <1>5, <1>8, <2>1 DEF Preceded
    <3>2. j \in 1..(i - 1) /\ topic'[j] = topic[j] /\ topic'[i] = r
      BY <1>3, <1>5, <2>1
    <3> QED
      BY <3>1, <3>2
  <2>2. CASE i \in 1..Len(topic)
    <3>1. topic'[i] = topic[i] /\ \A j \in 1..(i - 1) : topic'[j] = topic[j]
      BY <1>3, <1>5, <2>2
    <3> QED
      BY <1>8, <2>2, <3>1 DEF RInv, GapInv
  <2> QED
    BY <1>3, <2>1, <2>2
<1>9. GapInv'
  BY <1>2, <1>5, <1>8 DEF RInv, GapInv
<1>10. OriginOfRows' /\ UnfinishedInv' /\ WrittenInv'
  BY <1>2 DEF RInv, OriginOfRows, UnfinishedInv, WrittenInv, Current
<1> QED
  BY <1>1, <1>7, <1>9, <1>10 DEF RInv

LEMMA NextRInv == RInv /\ [Next]_vars => RInv'
<1> SUFFICES ASSUME RInv, [Next]_vars PROVE RInv'
  OBVIOUS
<1>1. IInv'
  BY NextIInv DEF RInv
<1>2. CASE \E c \in Submissions : Submit(c)
  BY <1>1, <1>2, QuietReports DEF Submit, callVars, dbVars
<1>3. CASE SkipRecord \/ DropDuplicate \/ Tick \/ AutoCommit \/ Rebalance \/ Restart
  BY <1>1, <1>3, QuietReports DEF SkipRecord, DropDuplicate, Tick, AutoCommit, Rebalance,
                                  Restart, callVars, dbVars
<1>4. CASE Accept
  BY <1>4, AcceptReports
<1>5. CASE Place
  BY <1>5, PlaceReports
<1>6. CASE Persist
  BY <1>6, PersistReports
<1>7. CASE Publish
  BY <1>7, PublishReports
<1>8. CASE Crash
  <2>1. stage' = "idle" /\ todo' = <<>> /\ UNCHANGED <<handled, orders, events, topic>>
    BY <1>8 DEF Crash, GiveUp, dbVars
  <2>2. GapInv' /\ OriginOfRows'
    BY <2>1 DEF RInv, GapInv, OriginOfRows
  <2> QED
    BY <1>1, <2>1, <2>2, EndedReports
<1>9. CASE UNCHANGED vars
  BY <1>1, <1>9, QuietReports DEF vars, callVars, dbVars
<1>10. CASE PlaceUnanswered \/ Resend
  BY <1>10, UnansweredReports, ResendReports
<1> QED
  BY <1>2, <1>3, <1>4, <1>5, <1>6, <1>7, <1>8, <1>9, <1>10 DEF Next, Process, Receive

------------------------------------------------------------------------------
(* Theorems.                                                               *)

(* The inductive invariant: how far a call of handle_order has come, seen  *)
(* from the table, the topic and the reports it has left.                  *)
THEOREM ReportsInvariant == Spec => []RInv
<1> QED
  BY InitRInv, NextRInv, PTL DEF Spec

(* Where a report could not be persisted or published none that follows it *)
(* reaches the table or the topic.                                         *)
THEOREM NoGaps == Spec => []NoGapInFills
<1>1. RInv => NoGapInFills
  BY DEF RInv, IInv, GapInv, NoGapInFills
<1> QED
  BY <1>1, ReportsInvariant, PTL

(* A row with a final status is rewritten by upsert_order only in a window *)
(* that has forgotten the handling which finished it.                      *)
THEOREM FinalRows == Spec => FinalStaysFinal
<1>1. ASSUME RInv, [Next]_vars, NEW o \in Orders, orders[o].status \in Final,
             orders'[o] # orders[o]
      PROVE  Apart(orders[o].at, Len(handled))
  <2>1. Persist
    <3>1. ~UNCHANGED dbVars
      BY <1>1 DEF dbVars
    <3> QED
      BY <1>1, <3>1 DEF Next, Process, Receive, Place, PlaceUnanswered, Publish, Resend,
             Submit, SkipRecord, DropDuplicate, Accept, PlaceAcknowledged, PlaceFailed, PublishReport,
             PublishFailed, Tick, AutoCommit, Rebalance, Crash, Restart, vars
  <2>2. stage = "persist" /\ Write(Current.action, Head(todo))
    BY <1>1, <2>1 DEF Persist, PersistReport, PersistFailed, dbVars
  <2>3. o = Current.o
    BY <1>1, <2>2, ReportedRow DEF RInv
  <2>4. Len(handled) \in Nat \ {0} /\ Current = handled[Len(handled)]
    BY <1>1, <2>2, CurrentType DEF RInv, IInv, Current
  <2>5. orders[o].at # Len(handled)
    BY <1>1, <2>2, <2>3 DEF RInv, UnfinishedInv
  <2>6. orders[o].at \in 1..Len(handled) /\ handled[orders[o].at].o = o
    BY <1>1 DEF RInv, OriginOfRows, NoRow, Final
  <2> QED
    BY <1>1, <2>3, <2>4, <2>5, <2>6 DEF RInv, IInv, HandledOncePerWindow
<1>2. RInv /\ [Next]_vars =>
          [\A o \in Orders :
               orders[o].status \in Final /\ orders'[o] # orders[o]
                   => Apart(orders[o].at, Len(handled))]_vars
  BY <1>1
<1> QED
  BY <1>2, ReportsInvariant, PTL DEF Spec, FinalStaysFinal

------------------------------------------------------------------------------
(* ExecutionRouter implements OrderLedger as long as its dedup cache has   *)
(* forgotten nothing: for every set of orders, both modes, and any number  *)
(* of redeliveries, rebalances and failed calls.                           *)

(* The process has neither crashed nor run for longer than TTL.            *)
Young == epoch = 0 /\ now <= TTL

(* A report answers the order, or fills a part or all of it.               *)
Shape(r) ==
    \/ /\ r.seq = 0 /\ r.last = 0 /\ r.cum = 0
       /\ r.status \in {"NEW", "REJECTED", "CANCELED"}
    \/ /\ r.seq > 0 /\ r.last > 0
       /\ \/ r.status = "FILLED" /\ r.cum = Details[r.o].qty
          \/ r.status = "PARTIALLY_FILLED" /\ r.cum \in 1..(Details[r.o].qty - 1)

(* Report s takes the order on from where it has that status and quantity. *)
Continues(s, status, filled) ==
    /\ s.seq > 0
    /\ status \in {"NEW", "PARTIALLY_FILLED"}
    /\ s.cum = filled + s.last

ShapesInv ==
    /\ \A i \in 1..Len(todo) : Shape(todo[i])
    /\ \A i \in 1..(Len(todo) - 1) : Continues(todo[i + 1], todo[i].status, todo[i].cum)

(* The row is where the next report of the call expects it.                *)
RowOfCallInv ==
    /\ stage = "exchange" => orders[Current.o] = NoRow
    /\ stage = "persist" =>
           \/ Head(todo).seq = 0 /\ orders[Current.o] = NoRow
           \/ Continues(Head(todo), orders[Current.o].status, orders[Current.o].filled)
    /\ stage = "publish" => /\ orders[Current.o].status = Head(todo).status
                            /\ orders[Current.o].filled = Head(todo).cum

LInv == RInv /\ ShapesInv /\ RowOfCallInv

------------------------------------------------------------------------------
(* The data.                                                               *)

LEMMA OneShaped ==
    ASSUME NEW r, Shape(r)
    PROVE  /\ \A i \in 1..Len(<<r>>) : Shape(<<r>>[i])
           /\ \A i \in 1..(Len(<<r>>) - 1) :
                  Continues(<<r>>[i + 1], <<r>>[i].status, <<r>>[i].cum)
<1>1. Len(<<r>>) = 1 /\ <<r>>[1] = r /\ 1..1 = {1} /\ 1..(1 - 1) = {}
  OBVIOUS
<1> QED
  BY <1>1, Zenon

LEMMA AnswerShape ==
    ASSUME NEW o, NEW n
    PROVE  Shape(Ack(o, n)) /\ Shape(Reject(o, n)) /\ Shape(Cancel(o, n))
  BY DEF Shape, Ack, Reject, Cancel, Report

(* The simulation fills an order in one step or in two, and all of it.     *)
LEMMA BuildReportsShape ==
    ASSUME NEW o \in Orders, NEW n
    PROVE  LET rs == BuildReports(o, n)
           IN  /\ \A i \in 1..Len(rs) : Shape(rs[i])
               /\ \A i \in 1..(Len(rs) - 1) : Continues(rs[i + 1], rs[i].status, rs[i].cum)
<1> DEFINE q == Details[o].qty
           p == Split(q)
<1>1. q \in Nat /\ p \in Nat /\ p > 0
  BY DetailType, SplitType
<1>2. CASE q = 0
  <2>1. BuildReports(o, n) = <<Reject(o, n)>>
    BY <1>2 DEF BuildReports
  <2> QED
    BY <2>1, AnswerShape, OneShaped
<1>3. CASE q # 0 /\ p < q
  <2> DEFINE a == Ack(o, n)
             b == Report(o, n, 1, "PARTIALLY_FILLED", p, p)
             c == Report(o, n, 2, "FILLED", q - p, q)
  <2>1. BuildReports(o, n) = <<a, b, c>>
    BY <1>3 DEF BuildReports
  <2>2. Shape(a)
    BY AnswerShape
  <2>3. Shape(b)
    <3>1. p \in 1..(q - 1)
      BY <1>1, <1>3
    <3> HIDE DEF p
    <3> QED
      BY <1>1, <3>1 DEF Shape, Report
  <2>4. Shape(c)
    <3>1. q - p > 0
      BY <1>1, <1>3
    <3> HIDE DEF p
    <3> QED
      BY <3>1 DEF Shape, Report
  <2>5. Continues(b, a.status, a.cum)
    <3> HIDE DEF p
    <3> QED
      BY <1>1 DEF Continues, Ack, Report
  <2>6. Continues(c, b.status, b.cum)
    <3>1. p + (q - p) = q
      BY <1>1
    <3> HIDE DEF p
    <3> QED
      BY <3>1 DEF Continues, Report
  <2> HIDE DEF a, b, c
  <2>7. /\ Len(<<a, b, c>>) = 3 /\ 1..3 = {1, 2, 3} /\ 1..(3 - 1) = {1, 2}
        /\ 1 + 1 = 2 /\ 2 + 1 = 3
        /\ <<a, b, c>>[1] = a /\ <<a, b, c>>[2] = b /\ <<a, b, c>>[3] = c
    OBVIOUS
  <2>8. /\ \A i \in {1, 2, 3} : Shape(<<a, b, c>>[i])
        /\ \A i \in {1, 2} :
               Continues(<<a, b, c>>[i + 1], <<a, b, c>>[i].status, <<a, b, c>>[i].cum)
    BY <2>2, <2>3, <2>4, <2>5, <2>6, <2>7
  <2> QED
    BY <2>1, <2>7, <2>8
<1>4. CASE q # 0 /\ ~(p < q)
  <2> DEFINE a == Ack(o, n)
             b == Report(o, n, 1, "FILLED", q, q)
  <2>1. BuildReports(o, n) = <<a, b>>
    BY <1>4 DEF BuildReports
  <2>2. Shape(a) /\ Shape(b)
    BY <1>1, <1>4, AnswerShape DEF Shape, Report
  <2>3. Continues(b, a.status, a.cum)
    BY <1>1 DEF Continues, Ack, Report
  <2> HIDE DEF a, b
  <2>4. /\ Len(<<a, b>>) = 2 /\ 1..2 = {1, 2} /\ 1..(2 - 1) = {1} /\ 1 + 1 = 2
        /\ <<a, b>>[1] = a /\ <<a, b>>[2] = b
    OBVIOUS
  <2>5. /\ \A i \in {1, 2} : Shape(<<a, b>>[i])
        /\ \A i \in {1} : Continues(<<a, b>>[i + 1], <<a, b>>[i].status, <<a, b>>[i].cum)
    BY <2>2, <2>3, <2>4
  <2> QED
    BY <2>1, <2>4, <2>5
<1> QED
  BY <1>2, <1>3, <1>4

LEMMA FirstReportsShape ==
    ASSUME NEW c, c.o \in Orders, NEW n
    PROVE  LET rs == FirstReports(c, n)
           IN  /\ \A i \in 1..Len(rs) : Shape(rs[i])
               /\ \A i \in 1..(Len(rs) - 1) : Continues(rs[i + 1], rs[i].status, rs[i].cum)
<1>1. CASE CallsExchange(c)
  <2>1. FirstReports(c, n) = <<>> /\ Len(<<>>) = 0 /\ 1..0 = {} /\ 1..(0 - 1) = {}
    BY <1>1 DEF FirstReports
  <2> QED
    BY <2>1, Zenon
<1>2. CASE ~CallsExchange(c) /\ (Mode = "REAL" \/ c.action = "CANCEL")
  <2>1. PICK r \in {Reject(c.o, n), Cancel(c.o, n)} : FirstReports(c, n) = <<r>>
    BY <1>2 DEF FirstReports
  <2>2. Shape(r)
    BY AnswerShape
  <2> QED
    BY <2>1, <2>2, OneShaped
<1>3. CASE ~CallsExchange(c) /\ Mode # "REAL" /\ c.action # "CANCEL"
  <2>1. FirstReports(c, n) = BuildReports(c.o, n)
    BY <1>3 DEF FirstReports
  <2> QED
    BY <2>1, BuildReportsShape
<1> QED
  BY <1>1, <1>2, <1>3

------------------------------------------------------------------------------
(* One lemma per action.                                                   *)

LEMMA InitLInv == Init => LInv
<1> SUFFICES ASSUME Init PROVE LInv
  OBVIOUS
<1>1. RInv
  BY InitRInv
<1>2. todo = <<>> /\ stage = "idle" /\ Len(<<>>) = 0 /\ 1..0 = {} /\ 1..(0 - 1) = {}
  BY DEF Init
<1> QED
  BY <1>1, <1>2, Zenon DEF LInv, ShapesInv, RowOfCallInv

LEMMA QuietLedger ==
    ASSUME LInv, RInv', UNCHANGED <<handled, stage, todo, orders>>
    PROVE  LInv'
  BY DEF LInv, ShapesInv, RowOfCallInv, Current

LEMMA EndedLedger == ASSUME RInv', stage' = "idle", todo' = <<>> PROVE LInv'
<1>1. Len(<<>>) = 0 /\ 1..0 = {} /\ 1..(0 - 1) = {}
  OBVIOUS
<1>2. ShapesInv'
  BY <1>1, Zenon DEF ShapesInv
<1> QED
  BY <1>2 DEF LInv, RowOfCallInv

(* A young cache has forgotten nothing: an accepted order is a new one.    *)
LEMMA AcceptedIsNew ==
    ASSUME LInv, Young, NEW o \in Orders, ~SeenRecently(o)
    PROVE  orders[o] = NoRow
<1> SUFFICES ASSUME orders[o] # NoRow PROVE FALSE
  OBVIOUS
<1> DEFINE m == orders[o].at
<1>1. m \in 1..Len(handled) /\ handled[m].o = o
  BY DEF LInv, RInv, OriginOfRows
<1>2. IInv /\ ClockInv
  BY DEF LInv, RInv, IInv
<1>3. handled[m].epoch # epoch \/ now - handled[m].at > TTL
  BY <1>1, <1>2, UnseenIsApart
<1>4. now \in Nat /\ TTL \in Nat /\ handled[m].at \in Nat /\ handled[m].epoch \in Nat
  BY <1>1, <1>2, HandledTypes DEF IInv
<1>5. handled[m].epoch <= epoch
  BY <1>1, <1>2 DEF ClockInv
<1> HIDE DEF m
<1> QED
  BY <1>3, <1>4, <1>5 DEF Young

LEMMA AcceptLedger == ASSUME LInv, Young, RInv', Accept PROVE LInv'
<1> DEFINE c == Command
           L == Len(handled)
           h == [o |-> c.o, action |-> c.action, at |-> now, epoch |-> epoch]
<1>1. TypeOK
  BY DEF LInv, RInv, IInv
<1>2. c.o \in Orders /\ ~SeenRecently(c.o)
  BY <1>1 DEF Accept, Ready, Command, Commands, TypeOK
<1>3. /\ handled' = Append(handled, h)
      /\ todo' = FirstReports(c, L + 1)
      /\ stage' = IF CallsExchange(c) THEN "exchange" ELSE "persist"
      /\ UNCHANGED orders
  BY DEF Accept, dbVars
<1>4. Current'.o = c.o
  <2>1. handled \in Seq(Handlings)
    BY <1>1 DEF TypeOK
  <2>2. h.o = c.o
    OBVIOUS
  <2> HIDE DEF h, c
  <2>3. handled'[Len(handled')] = h
    BY <1>3, <2>1
  <2> QED
    BY <2>2, <2>3 DEF Current
<1>5. orders[c.o] = NoRow
  BY <1>2, AcceptedIsNew
<1>6. ShapesInv'
  BY <1>2, <1>3, FirstReportsShape DEF ShapesInv
<1>7. stage' = "persist" => Head(todo').seq = 0
  <2>1. stage' = "persist" => ~CallsExchange(c)
    BY <1>3
  <2>2. stage' = "persist" => Len(todo') > 0 /\ todo' \in Seq(Reports)
    BY DEF RInv, IInv, CallInv, TypeOK
  <2>3. stage' = "persist" => todo'[1].seq = 0
    BY <1>3, <2>1, FirstReportsNumbered
  <2> QED
    BY <2>2, <2>3
<1>8. RowOfCallInv'
  BY <1>3, <1>4, <1>5, <1>7 DEF RowOfCallInv
<1> QED
  BY <1>6, <1>8 DEF LInv

LEMMA PlaceLedger == ASSUME LInv, RInv', Place PROVE LInv'
<1>1. stage = "exchange" /\ stage' = "persist" /\ UNCHANGED <<handled, orders>>
  BY DEF Place, PlaceAcknowledged, PlaceFailed, dbVars
<1>2. PICK a \in {Ack(Current.o, Len(handled)), Reject(Current.o, Len(handled))} :
          todo' = <<a>>
  BY DEF Place, PlaceAcknowledged, PlaceFailed
<1>3. Shape(a) /\ a.seq = 0
  <2>1. Shape(a)
    BY AnswerShape
  <2>2. a.seq = 0
    BY DEF Ack, Reject, Report
  <2> QED
    BY <2>1, <2>2
<1>4. ShapesInv'
  BY <1>2, <1>3, OneShaped DEF ShapesInv
<1>5. Head(todo').seq = 0
  BY <1>2, <1>3
<1>6. RowOfCallInv'
  BY <1>1, <1>5 DEF LInv, RowOfCallInv, Current
<1> QED
  BY <1>4, <1>6 DEF LInv

LEMMA PersistLedger == ASSUME LInv, RInv', Persist PROVE LInv'
<1>1. stage = "persist" /\ UNCHANGED handled
      /\ \/ stage' = "publish" /\ todo' = todo /\ Write(Current.action, Head(todo))
         \/ stage' = "idle" /\ todo' = <<>>
  BY DEF Persist, PersistReport, PersistFailed, GiveUp
<1>2. CASE stage' = "idle" /\ todo' = <<>>
  BY <1>2, EndedLedger
<1>3. CASE stage' = "publish" /\ todo' = todo /\ Write(Current.action, Head(todo))
  <2>1. IInv /\ TypeOK /\ CallInv
    BY DEF LInv, RInv, IInv
  <2>2. Current.o \in Orders
    BY <1>1, <2>1, CurrentType
  <2>3. orders'[Current.o] = [status |-> Head(todo).status, filled |-> Head(todo).cum,
                              at |-> Len(handled)]
    BY <1>1, <1>3, <2>1, <2>2, ReportedRow
  <2>4. RowOfCallInv'
    BY <1>1, <1>3, <2>3 DEF RowOfCallInv, Current
  <2> QED
    BY <1>3, <2>4 DEF LInv, ShapesInv
<1> QED
  BY <1>1, <1>2, <1>3

LEMMA PublishLedger == ASSUME LInv, RInv', Publish PROVE LInv'
<1>1. /\ stage = "publish" /\ UNCHANGED <<handled, orders>>
      /\ \/ todo' = Tail(todo) /\ stage' = IF Len(todo) = 1 THEN "idle" ELSE "persist"
         \/ stage' = "idle" /\ todo' = <<>>
  BY DEF Publish, PublishReport, PublishFailed, GiveUp, dbVars
<1>2. todo \in Seq(Reports) /\ Len(todo) \in Nat /\ Len(todo) > 0 /\ Head(todo) = todo[1]
  <2>1. TypeOK /\ CallInv
    BY DEF LInv, RInv, IInv
  <2> QED
    BY <1>1, <2>1 DEF TypeOK, CallInv
<1>3. CASE stage' = "idle" /\ todo' = <<>>
  BY <1>3, EndedLedger
<1>4. CASE todo' = Tail(todo) /\ stage' = IF Len(todo) = 1 THEN "idle" ELSE "persist"
  <2>1. /\ Len(todo') = Len(todo) - 1
        /\ \A i \in 1..Len(todo') : todo'[i] = todo[i + 1] /\ i + 1 \in 1..Len(todo)
    BY <1>2, <1>4
  <2>2. \A i \in 1..(Len(todo') - 1) : /\ i \in 1..Len(todo') /\ i + 1 \in 1..Len(todo')
                                       /\ i + 1 \in 1..(Len(todo) - 1)
    BY <1>2, <2>1
  <2>3. ShapesInv'
    BY <2>1, <2>2 DEF LInv, ShapesInv
  <2>4. stage' = "persist" => Continues(Head(todo'), todo[1].status, todo[1].cum)
    <3> SUFFICES ASSUME stage' = "persist"
                 PROVE  Continues(Head(todo'), todo[1].status, todo[1].cum)
      OBVIOUS
    <3>1. Len(todo) # 1
      BY <1>4
    <3>2. \A n \in Nat : n > 0 /\ n # 1 => n > 1
      OBVIOUS
    <3>3. Len(todo) > 1
      BY <1>2, <3>1, <3>2, Zenon
    <3>4. Head(todo') = todo[1 + 1]
      <4>1. todo' = Tail(todo)
        BY <1>4
      <4> QED
        BY <1>2, <3>3, <4>1
    <3>5. 1 \in 1..(Len(todo) - 1)
      BY <1>2, <3>3
    <3> QED
      BY <3>4, <3>5, Zenon DEF LInv, ShapesInv
  <2>5. stage' \in {"idle", "persist"}
    BY <1>4
  <2>6. RowOfCallInv'
    BY <1>1, <1>2, <2>4, <2>5 DEF LInv, RowOfCallInv, Current
  <2> QED
    BY <2>3, <2>6 DEF LInv
<1> QED
  BY <1>1, <1>3, <1>4

LEMMA NextLInv == LInv /\ Young /\ [Next]_vars => LInv'
<1> SUFFICES ASSUME LInv, Young, [Next]_vars PROVE LInv'
  OBVIOUS
<1>1. RInv'
  BY NextRInv DEF LInv
<1>2. CASE Accept
  BY <1>1, <1>2, AcceptLedger
<1>3. CASE Place
  BY <1>1, <1>3, PlaceLedger
<1>4. CASE Persist
  BY <1>1, <1>4, PersistLedger
<1>5. CASE Publish
  BY <1>1, <1>5, PublishLedger
<1>6. CASE Crash
  BY <1>1, <1>6, EndedLedger DEF Crash, GiveUp
<1>7. CASE \E c \in Submissions : Submit(c)
  BY <1>1, <1>7, QuietLedger DEF Submit, callVars, dbVars
<1>8. CASE SkipRecord \/ DropDuplicate \/ Tick \/ AutoCommit \/ Rebalance \/ Restart
  BY <1>1, <1>8, QuietLedger DEF SkipRecord, DropDuplicate, Tick, AutoCommit, Rebalance,
                                 Restart, callVars, dbVars
<1>9. CASE UNCHANGED vars
  BY <1>1, <1>9, QuietLedger DEF vars, callVars, dbVars
<1>10. CASE PlaceUnanswered
  <2>1. stage' = "unanswered" /\ UNCHANGED todo
    BY <1>10 DEF PlaceUnanswered
  <2> QED
    BY <1>1, <2>1 DEF LInv, ShapesInv, RowOfCallInv
<1>11. CASE Resend
  BY <1>1, <1>11, QuietLedger DEF Resend, callVars, dbVars
<1> QED
  BY <1>2, <1>3, <1>4, <1>5, <1>6, <1>7, <1>8, <1>9, <1>10, <1>11 DEF Next, Process, Receive

------------------------------------------------------------------------------
(* Every step of the router is a step of the ledger, or none.              *)

LEMMA InitLedger == Init => Ledger!Init
  BY DEF Init, NoRow, Ledger!Init

LEMMA WriteLedger ==
    ASSUME LInv, stage = "persist", Write(Current.action, Head(todo)),
           NEW o \in Orders, o = Current.o, NEW r \in Reports, r = Head(todo)
    PROVE  Ledger!Next
<1> DEFINE st == [x \in Orders |-> orders[x].status]
           fl == [x \in Orders |-> orders[x].filled]
<1>1. IInv /\ TypeOK /\ CallInv
  BY DEF LInv, RInv, IInv
<1>2. r.o = o
  BY <1>1, HeadType
<1>3. /\ r.last \in Nat /\ r.cum \in Nat /\ r.seq \in Nat
      /\ orders[o].filled \in Nat
      /\ Details[o].qty \in Nat /\ Details[o].symbol \in Symbols
  <2>1. orders[o] \in Rows
    BY <1>1, <1>2 DEF TypeOK
  <2>2. orders[o].filled \in Nat
    BY <2>1 DEF Rows, NoRow
  <2> QED
    BY <1>2, <2>2, DetailType DEF Reports
<1>4. \A x \in Orders : orders'[x] = IF x = o
                                     THEN [status |-> r.status, filled |-> r.cum,
                                           at |-> Len(handled)]
                                     ELSE orders[x]
  BY <1>1, ReportedRow
<1>5. st' = [st EXCEPT ![o] = r.status] /\ fl' = [fl EXCEPT ![o] = r.cum]
  <2>1. \A x \in Orders : orders'[x].status = IF x = o THEN r.status ELSE orders[x].status
    BY <1>4
  <2>2. \A x \in Orders : orders'[x].filled = IF x = o THEN r.cum ELSE orders[x].filled
    BY <1>4
  <2>3. st' = [x \in Orders |-> orders'[x].status] /\ fl' = [x \in Orders |-> orders'[x].filled]
    OBVIOUS
  <2>4. st' = [st EXCEPT ![o] = r.status]
    BY <1>2, <2>1, <2>3
  <2>5. fl' = [fl EXCEPT ![o] = r.cum]
    BY <1>2, <2>2, <2>3
  <2> QED
    BY <2>4, <2>5
<1>6. Shape(r)
  <2>1. 1 \in 1..Len(todo) /\ r = todo[1]
    BY <1>1 DEF TypeOK, CallInv
  <2> QED
    BY <2>1 DEF LInv, ShapesInv
<1>7. CASE r.seq = 0 /\ orders[o] = NoRow
  <2>1. r.last = 0 /\ r.cum = 0 /\ r.status \in {"NEW", "REJECTED", "CANCELED"}
    BY <1>6, <1>7 DEF Shape
  <2>2. positions' = positions
    BY <2>1 DEF Write, IsFill
  <2>3. st[o] = "NONE" /\ fl[o] = 0
    BY <1>2, <1>7 DEF NoRow
  <2>4. fl' = fl
    BY <1>2, <1>5, <2>1, <2>3
  <2>5. Ledger!Answer(o, r.status)
    BY <1>5, <2>2, <2>3, <2>4 DEF Ledger!Answer, Ledger!Become
  <2> QED
    BY <1>2, <2>1, <2>5 DEF Ledger!Next
<1>8. CASE Continues(r, orders[o].status, orders[o].filled)
  <2>1. /\ r.seq > 0 /\ orders[o].status \in {"NEW", "PARTIALLY_FILLED"}
        /\ r.cum = orders[o].filled + r.last
    BY <1>8 DEF Continues
  <2>2. /\ r.last > 0
        /\ \/ r.status = "FILLED" /\ r.cum = Details[o].qty
           \/ r.status = "PARTIALLY_FILLED" /\ r.cum \in 1..(Details[o].qty - 1)
    BY <1>2, <1>6, <2>1 DEF Shape
  <2>3. positions' = [positions EXCEPT ![Details[o].symbol] = @ + SignedQty(r)]
    <3>1. IsFill(r)
      BY <2>2 DEF IsFill
    <3> QED
      BY <1>2, <3>1 DEF Write, UpdatePosition
  <2>4. st[o] \in {"NEW", "PARTIALLY_FILLED"} /\ fl[o] = orders[o].filled
    BY <1>2, <2>1
  <2>5. r.cum - fl[o] = r.last
    BY <1>3, <2>1, <2>4
  <2>6. SignedQty(r) = IF Details[o].side = "BUY" THEN r.cum - fl[o] ELSE -(r.cum - fl[o])
    BY <1>2, <2>5 DEF SignedQty
  <2>7. Ledger!FillTo(o, r.cum, r.status)
    BY <1>5, <2>2, <2>3, <2>4, <2>5, <2>6 DEF Ledger!FillTo, Ledger!Become
  <2> QED
    BY <1>2, <2>2, <2>7 DEF Ledger!Next
<1> QED
  BY <1>7, <1>8 DEF LInv, RowOfCallInv

LEMMA NextLedger == LInv /\ [Next]_vars => [Ledger!Next]_Ledger!vars
<1> SUFFICES ASSUME LInv, [Next]_vars PROVE [Ledger!Next]_Ledger!vars
  OBVIOUS
<1>1. CASE stage = "persist" /\ Write(Current.action, Head(todo))
  <2>1. TypeOK /\ CallInv
    BY DEF LInv, RInv, IInv
  <2>2. PICK o \in Orders : o = Current.o
    BY <1>1, <2>1, CurrentType
  <2>3. PICK r \in Reports : r = Head(todo)
    BY <1>1, <2>1, HeadType
  <2> QED
    BY <1>1, <2>2, <2>3, WriteLedger
<1>2. CASE UNCHANGED <<orders, positions>>
  BY <1>2 DEF Ledger!vars
<1>3. CASE Persist
  BY <1>1, <1>2, <1>3 DEF Persist, PersistReport, PersistFailed, dbVars
<1>4. CASE ~Persist
  <2>1. UNCHANGED dbVars
    BY <1>4 DEF Next, Process, Receive, Place, PlaceUnanswered, Publish, Resend, Submit,
           SkipRecord, DropDuplicate, Accept, PlaceAcknowledged, PlaceFailed, PublishReport, PublishFailed, Tick,
           AutoCommit, Rebalance, Crash, Restart, vars
  <2> QED
    BY <1>2, <2>1 DEF dbVars
<1> QED
  BY <1>3, <1>4

------------------------------------------------------------------------------
(* Theorems.                                                               *)

(* While the cache is young, a call of handle_order finds the row of its   *)
(* order where its next report takes it on.                                *)
THEOREM LedgerInvariant == Spec /\ []Young => []LInv
<1> QED
  BY InitLInv, NextLInv, PTL DEF Spec

(* A router that neither crashes nor runs for longer than TTL implements   *)
(* the ledger: each order is answered, filled and booked once.             *)
THEOREM ImplementsLedger == Spec /\ []Young => IsOrderLedger
<1>1. Init => Ledger!Init
  BY InitLedger
<1>2. LInv /\ [Next]_vars => [Ledger!Next]_Ledger!vars
  BY NextLedger
<1> QED
  BY <1>1, <1>2, LedgerInvariant, PTL DEF Spec, Ledger!Spec, IsOrderLedger

------------------------------------------------------------------------------
(* The tables read as sums: with any number of crashes, and orders that    *)
(* are handled again and again.                                            *)

(* Of the current call, only the fills before this one are stored.         *)
StoredBefore(seq) == \A t \in trades : t.time = Len(handled) => t.fill[2] < seq

(* The row of a call that has begun to write shows what it has stored, and *)
(* its next report goes on from there.                                     *)
BooksOfCall ==
    /\ stage = "exchange" => StoredBefore(0)
    /\ stage = "persist" =>
           /\ StoredBefore(Head(todo).seq)
           /\ Head(todo).seq > 0 =>
                  /\ orders[Current.o].at = Len(handled)
                  /\ Head(todo).cum = orders[Current.o].filled + Head(todo).last
    /\ stage = "publish" =>
           /\ StoredBefore(Head(todo).seq + 1)
           /\ orders[Current.o].at = Len(handled)
           /\ orders[Current.o].filled = Head(todo).cum

BInv == RInv /\ ShapesInv /\ BooksOfCall /\ IsFiniteSet(trades) /\ TablesMatchTrades

LEMMA ShapesStep ==
    ASSUME RInv, ShapesInv, [Next]_vars
    PROVE  ShapesInv'
<1>1. CASE todo' = todo
  BY <1>1 DEF ShapesInv
<1>2. CASE todo' = <<>>
  <2>1. Len(<<>>) = 0 /\ 1..0 = {} /\ 1..(0 - 1) = {}
    OBVIOUS
  <2> QED
    BY <1>2, <2>1, Zenon DEF ShapesInv
<1>3. CASE Accept
  <2>1. Command.o \in Orders
    BY <1>3 DEF RInv, IInv, Accept, Ready, Command, Commands, TypeOK
  <2>2. todo' = FirstReports(Command, Len(handled) + 1)
    BY <1>3 DEF Accept
  <2> QED
    BY <2>1, <2>2, FirstReportsShape DEF ShapesInv
<1>4. CASE Place
  <2>1. PICK a \in {Ack(Current.o, Len(handled)), Reject(Current.o, Len(handled))} : todo' = <<a>>
    BY <1>4 DEF Place, PlaceAcknowledged, PlaceFailed
  <2>2. Shape(a)
    BY AnswerShape
  <2> QED
    BY <2>1, <2>2, OneShaped DEF ShapesInv
<1>5. CASE stage = "publish" /\ todo' = Tail(todo)
  <2>1. todo \in Seq(Reports) /\ Len(todo) \in Nat /\ Len(todo) > 0
    BY <1>5 DEF RInv, IInv, TypeOK, CallInv
  <2>2. /\ Len(todo') = Len(todo) - 1
        /\ \A i \in 1..Len(todo') : todo'[i] = todo[i + 1] /\ i + 1 \in 1..Len(todo)
    BY <1>5, <2>1
  <2>3. \A i \in 1..(Len(todo') - 1) : /\ i \in 1..Len(todo') /\ i + 1 \in 1..Len(todo')
                                       /\ i + 1 \in 1..(Len(todo) - 1)
    BY <2>1, <2>2
  <2> QED
    BY <2>2, <2>3 DEF ShapesInv
<1> QED
  BY <1>1, <1>2, <1>3, <1>4, <1>5 DEF Next, Process, Receive, PlaceUnanswered, Persist, Publish,
     Resend, Submit, SkipRecord,
     DropDuplicate, PersistReport, PersistFailed, PublishReport, PublishFailed, GiveUp, Tick,
     AutoCommit, Rebalance, Crash, Restart, vars, callVars

(* A transaction stores at most its own fill, which is new in its call.    *)
LEMMA OneFillStored ==
    ASSUME BInv, stage = "persist", Write(Current.action, Head(todo)), NEW r \in Reports, r = Head(todo)
    PROVE  /\ Trade(r) \notin trades
           /\ trades' = IF IsFill(r) THEN trades \cup {Trade(r)} ELSE trades
           /\ Trade(r).time = Len(handled) /\ Trade(r).fill[1] = Current.o /\ Trade(r).fill[2] = r.seq
           /\ Trade(r).qty = r.last
           /\ IF IsFill(r) THEN r.seq > 0 ELSE r.seq = 0 /\ r.cum = 0
           /\ r.n = Len(handled) /\ r.o = Current.o /\ r.last \in Nat
<1>1. TypeOK /\ CallInv
  BY DEF BInv, RInv, IInv
<1>2. r.n = Len(handled) /\ r.o = Current.o
  BY <1>1, HeadType
<1>3. r.seq \in Nat /\ r.last \in Nat
  BY DEF Reports
<1>4. Trade(r).time = Len(handled) /\ Trade(r).fill = <<r.o, r.seq>> /\ Trade(r).qty = r.last
  BY <1>2 DEF Trade
<1>5. ASSUME NEW t \in trades, t.fill = <<r.o, r.seq>>, t.time = r.n PROVE FALSE
  <2>1. t.fill[2] < r.seq
    BY <1>2, <1>5 DEF BInv, BooksOfCall, StoredBefore
  <2>2. t.fill[2] = r.seq
    BY <1>5
  <2> QED
    BY <1>3, <2>1, <2>2
<1>6. Trade(r) \notin trades
  BY <1>2, <1>4, <1>5
<1>7. trades' = IF IsFill(r) THEN trades \cup {Trade(r)} ELSE trades
  BY <1>5 DEF Write, InsertFill
<1>8. Shape(r)
  <2>1. 1 \in 1..Len(todo) /\ r = todo[1]
    BY <1>1 DEF TypeOK, CallInv
  <2> QED
    BY <2>1 DEF BInv, ShapesInv
<1>9. IF IsFill(r) THEN r.seq > 0 ELSE r.seq = 0 /\ r.cum = 0
  BY <1>3, <1>8 DEF Shape, IsFill
<1> QED
  BY <1>2, <1>3, <1>4, <1>6, <1>7, <1>9

LEMMA BooksStep ==
    ASSUME BInv, RInv', [Next]_vars
    PROVE  BooksOfCall'
<1>1. RInv /\ IInv /\ TypeOK /\ CallInv /\ BooksOfCall
  BY DEF BInv, RInv, IInv
<1>2. CASE stage' = "idle"
  BY <1>2 DEF BooksOfCall
<1>3. CASE UNCHANGED <<stage, todo, handled, orders, trades>>
  BY <1>1, <1>3 DEF BooksOfCall, StoredBefore, Current
<1>4. CASE Accept
  <2> DEFINE L == Len(handled)
             h == [o |-> Command.o, action |-> Command.action, at |-> now, epoch |-> epoch]
  <2>1. /\ handled' = Append(handled, h) /\ trades' = trades
        /\ todo' = FirstReports(Command, L + 1)
        /\ stage' = IF CallsExchange(Command) THEN "exchange" ELSE "persist"
    BY <1>4 DEF Accept, dbVars
  <2>2. handled \in Seq(Handlings) /\ L \in Nat
    BY <1>1 DEF TypeOK
  <2>3. Len(handled') = L + 1
    <3> HIDE DEF h
    <3> QED
      BY <2>1, <2>2
  <2>4. \A t \in trades' : t.time # Len(handled')
    BY <1>1, <2>1, <2>2, <2>3 DEF IInv, OriginInv
  <2>5. stage' = "persist" => Head(todo').seq = 0
    <3>1. stage' = "persist" => ~CallsExchange(Command)
      BY <2>1
    <3>2. stage' = "persist" => Len(todo') > 0 /\ todo' \in Seq(Reports)
      BY DEF RInv, IInv, CallInv, TypeOK
    <3>3. stage' = "persist" => todo'[1].seq = 0
      BY <2>1, <3>1, FirstReportsNumbered
    <3> QED
      BY <3>2, <3>3
  <2>6. \A n : StoredBefore(n)'
    BY <2>4 DEF StoredBefore
  <2>7. stage' \in {"exchange", "persist"}
    BY <2>1
  <2> QED
    BY <2>5, <2>6, <2>7 DEF BooksOfCall
<1>5. CASE Place
  <2>1. stage = "exchange" /\ stage' = "persist" /\ UNCHANGED <<handled, trades>>
    BY <1>5 DEF Place, PlaceAcknowledged, PlaceFailed, dbVars
  <2>2. PICK a \in {Ack(Current.o, Len(handled)), Reject(Current.o, Len(handled))} : todo' = <<a>>
    BY <1>5 DEF Place, PlaceAcknowledged, PlaceFailed
  <2>3. a.seq = 0
    BY DEF Ack, Reject, Report
  <2>4. Head(todo').seq = 0
    BY <2>2, <2>3
  <2> QED
    BY <1>1, <2>1, <2>4 DEF BooksOfCall, StoredBefore
<1>6. CASE stage = "persist" /\ stage' = "publish" /\ todo' = todo /\ handled' = handled /\ Write(Current.action, Head(todo))
  <2>1. PICK r \in Reports : r = Head(todo)
    BY <1>1, <1>6, HeadType
  <2>2. r.seq \in Nat
    BY DEF Reports
  <2>3. \A t \in trades' : t.time = Len(handled) => t.fill[2] < r.seq + 1
    <3> TAKE t \in trades'
    <3>1. CASE t \in trades
      <4>1. t.fill[2] \in Nat
        BY <1>1, <3>1 DEF TypeOK
      <4>2. t.time = Len(handled) => t.fill[2] < r.seq
        BY <1>1, <1>6, <2>1, <3>1 DEF BooksOfCall, StoredBefore
      <4> QED
        BY <2>2, <4>1, <4>2
    <3>2. CASE t = Trade(r)
      BY <1>6, <2>1, <2>2, <3>2, OneFillStored
    <3> QED
      BY <1>6, <2>1, <3>1, <3>2, OneFillStored
  <2>4. Current.o \in Orders
    BY <1>1, <1>6, CurrentType
  <2>5. orders'[Current.o] = [status |-> r.status, filled |-> r.cum, at |-> Len(handled)]
    BY <1>1, <1>6, <2>1, <2>4, ReportedRow
  <2> QED
    BY <1>6, <2>1, <2>3, <2>5 DEF BooksOfCall, StoredBefore, Current
<1>7. CASE stage = "publish" /\ stage' = "persist" /\ todo' = Tail(todo) /\ UNCHANGED <<handled, orders, trades>>
  <2>1. todo \in Seq(Reports) /\ Len(todo) \in Nat /\ Len(todo) > 0
    BY <1>1, <1>7 DEF TypeOK, CallInv
  <2>2. Len(todo') > 0
    BY <1>7 DEF RInv, IInv, CallInv
  <2>3. Len(todo) > 1 /\ Head(todo) = todo[1] /\ Head(todo') = todo[1 + 1] /\ 1 \in 1..(Len(todo) - 1)
    BY <1>7, <2>1, <2>2
  <2>4. Head(todo').seq = Head(todo).seq + 1
    BY <1>1, <2>3 DEF RInv, ProgressInv, Numbered
  <2>5. Continues(todo[1 + 1], todo[1].status, todo[1].cum)
    BY <2>3 DEF BInv, ShapesInv
  <2>6. Head(todo').cum = Head(todo).cum + Head(todo').last
    BY <2>3, <2>5 DEF Continues
  <2> QED
    BY <1>1, <1>7, <2>4, <2>6 DEF BooksOfCall, StoredBefore, Current
<1>8. CASE Persist
  BY <1>2, <1>6, <1>8 DEF Persist, PersistReport, PersistFailed, GiveUp
<1>9. CASE Publish
  <2>1. stage = "publish" /\ UNCHANGED <<handled, orders, trades>>
        /\ (stage' = "idle" \/ (stage' = "persist" /\ todo' = Tail(todo)))
    BY <1>9 DEF Publish, PublishReport, PublishFailed, GiveUp, dbVars
  <2> QED
    BY <1>2, <1>7, <2>1
<1>10. CASE PlaceUnanswered
  BY <1>10 DEF PlaceUnanswered, BooksOfCall
<1>11. CASE ~(Accept \/ Place \/ PlaceUnanswered \/ Persist \/ Publish)
  BY <1>2, <1>3, <1>11 DEF Next, Process, Receive, Resend, Submit, SkipRecord, DropDuplicate, GiveUp,
     Tick, AutoCommit, Rebalance, Crash, Restart, vars, callVars, dbVars
<1> QED
  BY <1>4, <1>5, <1>8, <1>9, <1>11, <1>10

(* The trades a property adds up. *)
OfCall(S, o, n)   == {t \in S : t.fill[1] = o /\ t.time = n}
OfSide(S, s, side) == {t \in S : Details[t.fill[1]].symbol = s /\ Details[t.fill[1]].side = side}

LEMMA QtyOfIsSum == \A S : QtyOf(S) = QtySum(S)
BY DEF QtyOf, QtySum

LEMMA TablesAsSums ==
    TablesMatchTrades <=>
        /\ \A s \in Symbols :
               positions[s] = QtySum(OfSide(trades, s, "BUY")) - QtySum(OfSide(trades, s, "SELL"))
        /\ \A o \in Orders : orders[o].filled = QtySum(OfCall(trades, o, orders[o].at))
BY QtyOfIsSum DEF TablesMatchTrades, PositionIsSumOfTrades, FilledMatchesTrades, OfSide, OfCall

LEMMA NextTablesAsSums ==
    TablesMatchTrades' <=>
        /\ \A s \in Symbols :
               positions'[s] = QtySum(OfSide(trades', s, "BUY")) - QtySum(OfSide(trades', s, "SELL"))
        /\ \A o \in Orders : orders'[o].filled = QtySum(OfCall(trades', o, orders'[o].at))
BY QtyOfIsSum DEF TablesMatchTrades, PositionIsSumOfTrades, FilledMatchesTrades, OfSide, OfCall

(* A new trade counts where it belongs, and nowhere else.                  *)
LEMMA SumOfPart ==
    ASSUME NEW S, IsFiniteSet(S), \A t \in S : t.qty \in Int, NEW x, x \notin S, x.qty \in Int,
           NEW P \in SUBSET S
    PROVE  QtySum(P \cup {x}) = QtySum(P) + x.qty /\ QtySum(P) \in Int
<1>1. IsFiniteSet(P)
  BY FS_Subset
<1>2. (\A t \in P : t.qty \in Int) /\ x \notin P
  OBVIOUS
<1> QED
  BY <1>1, <1>2, SumInsert, SumType

LEMMA TablesStep ==
    ASSUME BInv, stage = "persist", Write(Current.action, Head(todo))
    PROVE  IsFiniteSet(trades') /\ TablesMatchTrades'
<1>1. RInv /\ IInv /\ TypeOK /\ CallInv /\ BooksOfCall
  BY DEF BInv, RInv, IInv
<1>2. PICK r \in Reports : r = Head(todo)
  BY <1>1, HeadType
<1> DEFINE new == Trade(r)
           cur == Current.o
           L == Len(handled)
<1>3. /\ new \notin trades
      /\ trades' = IF IsFill(r) THEN trades \cup {new} ELSE trades
      /\ new.time = L /\ new.fill[1] = cur /\ new.qty = r.last
      /\ IF IsFill(r) THEN r.seq > 0 ELSE r.seq = 0 /\ r.cum = 0
      /\ r.o = cur /\ r.last \in Nat
  BY <1>2, OneFillStored
<1>4. cur \in Orders
  BY <1>1, CurrentType
<1>5. \A o \in Orders : orders'[o] = IF o = cur THEN [status |-> r.status, filled |-> r.cum, at |-> L]
                                     ELSE orders[o]
  BY <1>1, <1>2, ReportedRow
<1>6. IsFiniteSet(trades) /\ TablesMatchTrades
  BY DEF BInv
<1>7. \A t \in trades : t.qty \in Int /\ t.fill[2] \in Nat
  BY <1>1 DEF TypeOK
<1>8. IsFiniteSet(trades')
  BY <1>3, <1>6, FS_AddElement
<1>9. /\ \A s \in Symbols :
             positions[s] = QtySum(OfSide(trades, s, "BUY")) - QtySum(OfSide(trades, s, "SELL"))
      /\ \A o \in Orders : orders[o].filled = QtySum(OfCall(trades, o, orders[o].at))
  BY <1>6, TablesAsSums
<1>10. StoredBefore(r.seq)
  BY <1>1, <1>2 DEF BooksOfCall
<1>11. CASE ~IsFill(r)
  <2>1. trades' = trades /\ positions' = positions /\ r.seq = 0 /\ r.cum = 0
    BY <1>2, <1>3, <1>11 DEF Write
  <2>2. OfCall(trades, cur, L) = {}
    <3> SUFFICES ASSUME NEW t \in trades, t.time = L PROVE FALSE
      BY DEF OfCall
    <3>1. t.fill[2] < 0
      BY <1>10, <2>1 DEF StoredBefore
    <3> QED
      BY <1>7, <3>1
  <2>3. \A o \in Orders : orders'[o].filled = QtySum(OfCall(trades, o, orders'[o].at))
    <3> TAKE o \in Orders
    <3>1. CASE o = cur
      <4>1. orders'[o].filled = 0 /\ orders'[o].at = L
        BY <1>5, <2>1, <3>1
      <4> QED
        BY <2>2, <3>1, <4>1, SumOfNone
    <3>2. CASE o # cur
      BY <1>5, <1>9, <3>2
    <3> QED
      BY <3>1, <3>2
  <2>4. /\ \A s \in Symbols :
               positions'[s] = QtySum(OfSide(trades', s, "BUY")) - QtySum(OfSide(trades', s, "SELL"))
        /\ \A o \in Orders : orders'[o].filled = QtySum(OfCall(trades', o, orders'[o].at))
    BY <1>9, <2>1, <2>3
  <2> QED
    BY <1>8, <2>4, NextTablesAsSums, Zenon
<1>12. CASE IsFill(r)
  <2>1. trades' = trades \cup {new} /\ r.seq > 0
    BY <1>3, <1>12
  <2>2. positions' = [positions EXCEPT ![Details[cur].symbol] = @ + SignedQty(r)]
    BY <1>2, <1>3, <1>12 DEF Write, UpdatePosition
  <2>3. orders[cur].at = L /\ r.cum = orders[cur].filled + r.last
    BY <1>1, <1>2, <2>1 DEF BooksOfCall
  <2>4. new.qty \in Int
    BY <1>3
  <2> HIDE DEF new, cur, L
  <2>5. \A P \in SUBSET trades : QtySum(P \cup {new}) = QtySum(P) + new.qty /\ QtySum(P) \in Int
    BY <1>3, <1>6, <1>7, <2>4, SumOfPart
  <2>6. \A o \in Orders : orders'[o].filled = QtySum(OfCall(trades', o, orders'[o].at))
    <3> TAKE o \in Orders
    <3>1. CASE o = cur
      <4>1. orders'[o].filled = r.cum /\ orders'[o].at = L
        BY <1>5, <3>1
      <4>2. OfCall(trades', o, L) = OfCall(trades, o, L) \cup {new}
        BY <1>3, <2>1, <3>1 DEF OfCall
      <4>3. OfCall(trades, o, L) \in SUBSET trades
        BY DEF OfCall
      <4>4. QtySum(OfCall(trades', o, L)) = QtySum(OfCall(trades, o, L)) + r.last
        BY <1>3, <2>5, <4>2, <4>3
      <4> QED
        BY <1>4, <1>9, <2>3, <3>1, <4>1, <4>4
    <3>2. CASE o # cur
      <4>1. orders'[o] = orders[o]
        BY <1>5, <3>2
      <4>2. OfCall(trades', o, orders[o].at) = OfCall(trades, o, orders[o].at)
        BY <1>3, <2>1, <3>2 DEF OfCall
      <4> QED
        BY <1>9, <4>1, <4>2
    <3> QED
      BY <3>1, <3>2
  <2>7. \A s \in Symbols :
            positions'[s] = QtySum(OfSide(trades', s, "BUY")) - QtySum(OfSide(trades', s, "SELL"))
    <3> TAKE s \in Symbols
    <3>1. OfSide(trades, s, "BUY") \in SUBSET trades /\ OfSide(trades, s, "SELL") \in SUBSET trades
      BY DEF OfSide
    <3> DEFINE b == QtySum(OfSide(trades, s, "BUY"))
               c == QtySum(OfSide(trades, s, "SELL"))
    <3>2. b \in Int /\ c \in Int /\ positions[s] = b - c
      BY <1>9, <2>5, <3>1
    <3>3. \A side : OfSide(trades', s, side) =
              IF Details[cur].symbol = s /\ Details[cur].side = side
              THEN OfSide(trades, s, side) \cup {new} ELSE OfSide(trades, s, side)
      BY <1>3, <2>1 DEF OfSide
    <3>4. Details[cur].side \in {"BUY", "SELL"}
      BY <1>4, OrdersAssumption DEF OrderDetails
    <3>5. QtySum(OfSide(trades', s, "BUY")) =
              IF Details[cur].symbol = s /\ Details[cur].side = "BUY" THEN b + r.last ELSE b
      BY <1>3, <2>5, <3>1, <3>3
    <3>6. QtySum(OfSide(trades', s, "SELL")) =
              IF Details[cur].symbol = s /\ Details[cur].side = "SELL" THEN c + r.last ELSE c
      BY <1>3, <2>5, <3>1, <3>3
    <3>7. SignedQty(r) = IF Details[cur].side = "BUY" THEN r.last ELSE -r.last
      BY <1>3 DEF SignedQty
    <3>8. positions'[s] = IF Details[cur].symbol = s THEN positions[s] + SignedQty(r) ELSE positions[s]
      BY <1>1, <2>2 DEF TypeOK
    <3> HIDE DEF b, c
    <3>9. CASE Details[cur].symbol = s /\ Details[cur].side = "BUY"
      BY <1>3, <3>2, <3>5, <3>6, <3>7, <3>8, <3>9
    <3>10. CASE Details[cur].symbol = s /\ Details[cur].side = "SELL"
      BY <1>3, <3>2, <3>5, <3>6, <3>7, <3>8, <3>10
    <3>11. CASE Details[cur].symbol # s
      BY <3>2, <3>5, <3>6, <3>8, <3>11
    <3> QED
      BY <3>4, <3>9, <3>10, <3>11
  <2> QED
    BY <1>8, <2>6, <2>7, NextTablesAsSums, Zenon
<1> QED
  BY <1>11, <1>12

LEMMA NextBInv == BInv /\ [Next]_vars => BInv'
<1> SUFFICES ASSUME BInv, [Next]_vars PROVE BInv'
  OBVIOUS
<1>1. RInv'
  BY NextRInv DEF BInv
<1>2. ShapesInv' /\ BooksOfCall'
  BY <1>1, ShapesStep, BooksStep DEF BInv
<1>3. CASE UNCHANGED dbVars
  BY <1>1, <1>2, <1>3 DEF BInv, dbVars, TablesMatchTrades, PositionIsSumOfTrades, FilledMatchesTrades
<1>4. CASE stage = "persist" /\ Write(Current.action, Head(todo))
  BY <1>1, <1>2, <1>4, TablesStep DEF BInv
<1> QED
  BY <1>3, <1>4 DEF Next, Process, Receive, Place, PlaceUnanswered, Persist, Publish, Resend,
     Submit, SkipRecord, DropDuplicate, Accept, PlaceAcknowledged, PlaceFailed, PersistReport, PersistFailed, PublishReport, PublishFailed,
     Tick, AutoCommit, Rebalance, Crash, Restart, vars

(* Whatever is handled again, redelivered or lost: a position is the sum   *)
(* of the trades of its symbol, bought less sold, and the filled quantity  *)
(* of an order is what the last handling to write its row has stored.      *)
THEOREM TablesAreSums == Spec => []TablesMatchTrades
<1>1. Init => BInv
  <2> SUFFICES ASSUME Init PROVE BInv
    OBVIOUS
  <2>1. RInv /\ ShapesInv
    <3>1. todo = <<>> /\ Len(<<>>) = 0 /\ 1..0 = {} /\ 1..(0 - 1) = {}
      BY DEF Init
    <3> QED
      BY <3>1, InitRInv, Zenon DEF ShapesInv
  <2>2. BooksOfCall
    BY DEF Init, BooksOfCall
  <2>3. trades = {} /\ IsFiniteSet(trades)
    BY FS_EmptySet DEF Init
  <2>4. QtySum({}) = 0
    BY SumOfNone
  <2>5. /\ \A s \in Symbols : OfSide(trades, s, "BUY") = {} /\ OfSide(trades, s, "SELL") = {}
        /\ \A o \in Orders : OfCall(trades, o, orders[o].at) = {}
    BY <2>3 DEF OfSide, OfCall
  <2>6. TablesMatchTrades
    <3>1. (\A s \in Symbols : positions[s] = 0) /\ \A o \in Orders : orders[o].filled = 0
      BY DEF Init, NoRow
    <3>2. \A s \in Symbols :
              positions[s] = QtySum(OfSide(trades, s, "BUY")) - QtySum(OfSide(trades, s, "SELL"))
      BY <2>4, <2>5, <3>1
    <3>3. \A o \in Orders : orders[o].filled = QtySum(OfCall(trades, o, orders[o].at))
      BY <2>4, <2>5, <3>1
    <3> QED
      BY <3>2, <3>3, TablesAsSums, Zenon
  <2> QED
    BY <2>1, <2>2, <2>3, <2>6 DEF BInv
<1>2. BInv => TablesMatchTrades
  BY DEF BInv
<1> QED
  BY <1>1, <1>2, NextBInv, PTL DEF Spec

------------------------------------------------------------------------------
(* The gateway and the router.                                             *)

(* A command reached the router as a CREATE.                               *)
CreatedBefore(o, m) ==
    \E n \in 1..m : handled[n].o = o /\ handled[n].action = "CREATE"

(* A row was written by a handling of its order, a CREATE is among them.   *)
Backed(o, at) ==
    /\ at \in 1..Len(handled) /\ handled[at].o = o
    /\ CreatedBefore(o, Len(handled))

RowInv == \A o \in Orders : orders[o] # NoRow => Backed(o, orders[o].at)

(* A request that has a cancel to send read the row while it was open.     *)
Justified(c) == c.seen.status \in Open /\ Backed(c.o, c.seen.at)

RequestInv ==
    /\ \A t \in Tasks : \A c \in work[t] : Justified(c)
    /\ \A c \in asked : Justified(c)

(* No record on a topic is a CANCEL nobody sent.                           *)
Requested(r) == r.action = "CANCEL" => \E c \in asked : c.o = r.o

RecordInv ==
    /\ \A i \in 1..Len(inbox) : Requested(inbox[i])
    /\ \A i \in 1..Len(log) : Requested(log[i])

(* The router knows ids the gateway handed out, and no other.              *)
IdInv ==
    /\ \A i \in 1..Len(log) : log[i].o \in issued
    /\ \A m \in 1..Len(handled) : handled[m].o \in issued

(* What a CANCEL the router handled goes back to.                          *)
CancelInv ==
    \A m \in 1..Len(handled) :
        handled[m].action = "CANCEL" =>
            /\ CreatedBefore(handled[m].o, m - 1)
            /\ \E c \in asked : c.o = handled[m].o /\ c.seen.at < m

(* Only the handling of a CANCEL has a CANCELED to report.                 *)
ReportInv ==
    \A i \in 1..Len(todo) : todo[i].status = "CANCELED" => Current.action = "CANCEL"

GatewayTypes ==
    /\ producer \in BOOLEAN /\ readable \in BOOLEAN
    /\ issued \subseteq Orders
    /\ inbox \in Seq([o: issued, action: {"CREATE", "CANCEL"}])
    /\ work \in [Tasks -> SUBSET Cancels]
    /\ asked \subseteq Cancels

GInv == /\ IInv
        /\ GatewayTypes
        /\ RowInv
        /\ RequestInv
        /\ RecordInv
        /\ IdInv
        /\ CancelInv
        /\ ReportInv

------------------------------------------------------------------------------
(* What a step leaves as it was.                                           *)

(* Handlings are only ever added, so what was backed stays backed.         *)
LEMMA BackedStays ==
    ASSUME Len(handled) \in Nat, Len(handled') \in Nat, Len(handled) <= Len(handled'),
           \A m \in 1..Len(handled) : handled'[m] = handled[m],
           NEW o, NEW at, Backed(o, at)
    PROVE  Backed(o, at)'
<1>1. at \in 1..Len(handled') /\ handled'[at] = handled[at]
  BY DEF Backed
<1>2. PICK n \in 1..Len(handled) : handled[n].o = o /\ handled[n].action = "CREATE"
  BY DEF Backed, CreatedBefore
<1>3. n \in 1..Len(handled') /\ handled'[n] = handled[n]
  OBVIOUS
<1> QED
  BY <1>1, <1>2, <1>3 DEF Backed, CreatedBefore

LEMMA HandledLen == ASSUME IInv PROVE Len(handled) \in Nat /\ handled \in Seq(Handlings)
  BY DEF IInv, TypeOK

(* The invariants of the gateway read five variables of the router: a step *)
(* of the router that keeps four of them has the fifth, todo, to answer    *)
(* for.                                                                    *)
LEMMA RouterKeeps ==
    ASSUME GInv, IInv', ReportInv',
           UNCHANGED <<log, handled, orders, gatewayVars, inbox>>
    PROVE  GInv'
<1>1. UNCHANGED <<log, handled, orders, work, asked, inbox, issued>>
  BY DEF gatewayVars
<1>2. GatewayTypes' /\ IdInv'
  BY DEF GInv, GatewayTypes, IdInv, gatewayVars
<1>3. RowInv'
  BY <1>1 DEF GInv, RowInv, Backed, CreatedBefore
<1>4. RequestInv'
  BY <1>1 DEF GInv, RequestInv, Justified, Backed, CreatedBefore
<1>5. RecordInv'
  BY <1>1 DEF GInv, RecordInv, Requested
<1>6. CancelInv'
  BY <1>1 DEF GInv, CancelInv, Justified, Backed, CreatedBefore
<1> QED
  BY <1>2, <1>3, <1>4, <1>5, <1>6 DEF GInv

(* A step that moves no call has nothing new to report.                    *)
LEMMA IdleKeeps ==
    ASSUME GInv, IInv', UNCHANGED <<log, handled, orders, gatewayVars, inbox, todo>>
    PROVE  GInv'
  BY RouterKeeps DEF GInv, ReportInv, Current

LEMMA DroppedKeeps ==
    ASSUME GInv, IInv', UNCHANGED <<log, handled, orders, gatewayVars, inbox>>, todo' = <<>>
    PROVE  GInv'
  BY RouterKeeps DEF ReportInv

------------------------------------------------------------------------------
(* The steps of the router.                                                *)

(* Nothing but a CANCEL command is answered with CANCELED.                 *)
LEMMA BuildReportsStatus ==
    ASSUME NEW o, NEW n, NEW i \in 1..Len(BuildReports(o, n))
    PROVE  BuildReports(o, n)[i].status # "CANCELED"
<1> DEFINE q == Details[o].qty
           p == Split(q)
<1>1. CASE q = 0
  BY <1>1 DEF BuildReports, Reject, Report
<1>2. CASE q # 0 /\ p < q
  BY <1>2 DEF BuildReports, Ack, Report
<1>3. CASE q # 0 /\ ~(p < q)
  BY <1>3 DEF BuildReports, Ack, Report
<1> QED
  BY <1>1, <1>2, <1>3

LEMMA FirstReportsStatus ==
    ASSUME NEW c \in Commands, NEW n, NEW i \in 1..Len(FirstReports(c, n)),
           FirstReports(c, n)[i].status = "CANCELED"
    PROVE  c.action = "CANCEL"
<1> SUFFICES ASSUME c.action # "CANCEL" PROVE FALSE
  OBVIOUS
<1>1. CASE CallsExchange(c)
  <2>1. Len(FirstReports(c, n)) = 0
    BY <1>1 DEF FirstReports
  <2> QED
    BY <2>1
<1>2. CASE ~CallsExchange(c) /\ Mode = "REAL"
  <2>1. FirstReports(c, n) = <<Reject(c.o, n)>>
    BY <1>2 DEF FirstReports
  <2> QED
    BY <2>1 DEF Reject, Report
<1>3. CASE ~CallsExchange(c) /\ Mode # "REAL"
  <2>1. FirstReports(c, n) = BuildReports(c.o, n)
    BY <1>3 DEF FirstReports
  <2> QED
    BY <2>1, BuildReportsStatus
<1> QED
  BY <1>1, <1>2, <1>3

LEMMA GatewayAcceptStep ==
    ASSUME GInv, Accept, UNCHANGED <<gatewayVars, inbox>>
    PROVE  GInv'
<1> DEFINE c == Command
           L == Len(handled)
           h == [o |-> c.o, action |-> c.action, at |-> now, epoch |-> epoch]
<1>1. IInv /\ IInv'
  BY AcceptStep DEF GInv
<1>2. L \in Nat /\ handled \in Seq(Handlings)
  BY HandledLen DEF GInv
<1>3. offset + 1 \in 1..Len(log) /\ c = log[offset + 1] /\ c \in Commands /\ c.o # NoId
  BY <1>1 DEF Accept, Ready, Command, IInv, TypeOK
<1>4. /\ handled' = Append(handled, h)
      /\ todo' = FirstReports(c, L + 1)
      /\ UNCHANGED <<log, orders, gatewayVars, inbox>>
  BY DEF Accept, dbVars
<1>5. h \in Handlings
  <2>1. now \in Nat /\ epoch \in Nat
    BY <1>1 DEF IInv, TypeOK
  <2> QED
    BY <1>3, <2>1 DEF Commands, Handlings
<1>6. /\ Len(handled') = L + 1 /\ handled'[L + 1] = h
      /\ \A m \in 1..L : handled'[m] = handled[m]
  <2> HIDE DEF h, L, c
  <2>1. handled' = Append(handled, h) /\ L = Len(handled)
    BY <1>4 DEF L
  <2> QED
    BY <1>2, <1>5, <2>1
<1>7. \A o, at : Backed(o, at) => Backed(o, at)'
  BY <1>2, <1>6, BackedStays
<1>8. GatewayTypes'
  BY <1>4 DEF GInv, GatewayTypes, gatewayVars
<1>9. RowInv'
  BY <1>4, <1>7 DEF GInv, RowInv
<1>10. RequestInv'
  BY <1>4, <1>7 DEF GInv, RequestInv, Justified, gatewayVars
<1>11. RecordInv'
  BY <1>4 DEF GInv, RecordInv, Requested, gatewayVars
<1>12. IdInv'
  <2>1. h.o \in issued
    BY <1>3 DEF GInv, IdInv
  <2>2. \A m \in 1..(L + 1) : handled'[m].o \in issued
    BY <1>2, <1>6, <2>1 DEF GInv, IdInv
  <2> QED
    BY <1>4, <1>6, <2>2 DEF GInv, IdInv, gatewayVars
<1>13. CancelInv'
  <2> SUFFICES ASSUME NEW m \in 1..(L + 1), handled'[m].action = "CANCEL"
               PROVE  /\ \E n \in 1..(m - 1) : /\ handled'[n].o = handled'[m].o
                                               /\ handled'[n].action = "CREATE"
                      /\ \E a \in asked : a.o = handled'[m].o /\ a.seen.at < m
    BY <1>4, <1>6 DEF CancelInv, CreatedBefore, gatewayVars
  <2>1. CASE m \in 1..L
    <3>1. handled'[m] = handled[m] /\ \A n \in 1..(m - 1) : handled'[n] = handled[n]
      BY <1>2, <1>6, <2>1
    <3> QED
      BY <2>1, <3>1 DEF GInv, CancelInv, CreatedBefore
  <2>2. CASE m = L + 1
    <3>1. handled'[m] = h /\ c.action = "CANCEL"
      BY <1>6, <2>2
    <3>2. PICK a \in asked : a.o = c.o
      BY <1>3, <3>1 DEF GInv, RecordInv, Requested
    <3>3. a.seen.at \in 1..L /\ CreatedBefore(c.o, L)
      BY <3>2 DEF GInv, RequestInv, Justified, Backed
    <3>4. \E n \in 1..L : handled'[n].o = c.o /\ handled'[n].action = "CREATE"
      BY <1>6, <3>3 DEF CreatedBefore
    <3> QED
      BY <1>2, <2>2, <3>1, <3>2, <3>3, <3>4
  <2> QED
    BY <1>2, <2>1, <2>2
<1>14. ReportInv'
  <2>1. Current' = h
    BY <1>6 DEF Current
  <2>2. \A i \in 1..Len(todo') : todo'[i].status = "CANCELED" => c.action = "CANCEL"
    BY <1>3, <1>4, FirstReportsStatus
  <2> QED
    BY <2>1, <2>2 DEF ReportInv
<1> QED
  BY <1>1, <1>8, <1>9, <1>10, <1>11, <1>12, <1>13, <1>14 DEF GInv

LEMMA GatewayPlaceStep ==
    ASSUME GInv, Place, UNCHANGED <<gatewayVars, inbox>>
    PROVE  GInv'
<1>1. IInv'
  BY PlaceStep DEF GInv
<1>2. UNCHANGED <<log, handled, orders>>
  BY DEF Place, PlaceAcknowledged, PlaceFailed, queueVars, dbVars
<1>3. PICK a \in {Ack(Current.o, Len(handled)), Reject(Current.o, Len(handled))} :
          todo' = <<a>>
  BY DEF Place, PlaceAcknowledged, PlaceFailed
<1>4. a.status # "CANCELED"
  BY DEF Ack, Reject, Report
<1>5. \A i \in 1..Len(todo') : todo'[i].status # "CANCELED"
  BY <1>3, <1>4
<1>6. ReportInv'
  BY <1>5 DEF ReportInv
<1> QED
  BY <1>1, <1>2, <1>6, RouterKeeps

(* The current call, and the CREATE it is or goes back to.                 *)
LEMMA CurrentBacked ==
    ASSUME GInv, stage # "idle"
    PROVE  Backed(Current.o, Len(handled))
<1>1. Len(handled) \in Nat \ {0} /\ Current \in Handlings /\ Current = handled[Len(handled)]
  BY CurrentType DEF GInv, IInv, Current
<1>2. CASE Current.action = "CREATE"
  BY <1>1, <1>2 DEF Backed, CreatedBefore
<1>3. CASE Current.action = "CANCEL"
  <2>1. CreatedBefore(Current.o, Len(handled) - 1)
    BY <1>1, <1>3 DEF GInv, CancelInv
  <2>2. CreatedBefore(Current.o, Len(handled))
    BY <1>1, <2>1 DEF CreatedBefore
  <2> QED
    BY <1>1, <2>2 DEF Backed
<1> QED
  BY <1>1, <1>2, <1>3 DEF Handlings

LEMMA GatewayPersistStep ==
    ASSUME GInv, Persist, UNCHANGED <<gatewayVars, inbox>>
    PROVE  GInv'
<1>1. IInv'
  BY PersistStep DEF GInv
<1>2. /\ stage = "persist" /\ UNCHANGED <<log, handled>>
      /\ todo' = todo \/ todo' = <<>>
      /\ Write(Current.action, Head(todo)) \/ UNCHANGED orders
  BY DEF Persist, PersistReport, PersistFailed, GiveUp, queueVars, dbVars
<1>3. ReportInv'
  BY <1>2 DEF GInv, ReportInv, Current
<1>4. RowInv'
  <2> SUFFICES ASSUME NEW o \in Orders, orders'[o] # NoRow
               PROVE  Backed(o, orders'[o].at)
    BY <1>2 DEF RowInv, Backed, CreatedBefore
  <2>1. CASE orders'[o] = orders[o]
    BY <2>1 DEF GInv, RowInv
  <2>2. CASE orders'[o] # orders[o]
    <3>1. o = Current.o /\ orders'[o].at = Len(handled)
      BY <1>1, <1>2, <2>2, ReportedRow DEF GInv
    <3> QED
      BY <1>2, <3>1, CurrentBacked
  <2> QED
    BY <2>1, <2>2
<1>5. GatewayTypes' /\ RequestInv' /\ RecordInv' /\ IdInv' /\ CancelInv'
  BY <1>2 DEF GInv, GatewayTypes, RequestInv, RecordInv, IdInv, CancelInv, Justified,
              Requested, Backed, CreatedBefore, gatewayVars
<1> QED
  BY <1>1, <1>3, <1>4, <1>5 DEF GInv

LEMMA GatewayPublishStep ==
    ASSUME GInv, Publish, UNCHANGED <<gatewayVars, inbox>>
    PROVE  GInv'
<1>1. IInv'
  BY PublishStep DEF GInv
<1>2. stage = "publish" /\ UNCHANGED <<log, handled, orders>>
  BY DEF Publish, PublishReport, PublishFailed, GiveUp, queueVars, dbVars
<1>3. todo' = <<>> \/ todo' = Tail(todo)
  BY DEF Publish, PublishReport, PublishFailed, GiveUp
<1>4. ASSUME todo' = Tail(todo) PROVE ReportInv'
  <2>1. todo \in Seq(Reports) /\ Len(Tail(todo)) = Len(todo) - 1 /\ Len(todo) \in Nat
    BY <1>2, HeadType DEF GInv, IInv, TypeOK
  <2>2. \A i \in 1..Len(Tail(todo)) : Tail(todo)[i] = todo[i + 1] /\ i + 1 \in 1..Len(todo)
    BY <2>1
  <2> QED
    BY <1>2, <1>4, <2>2 DEF GInv, ReportInv, Current
<1>5. ReportInv'
  BY <1>3, <1>4 DEF ReportInv
<1> QED
  BY <1>1, <1>2, <1>5, RouterKeeps

LEMMA RouterStep == ASSUME GInv, Router PROVE GInv'
<1>1. IInv /\ UNCHANGED <<gatewayVars, inbox>>
  BY DEF GInv, Router
<1>2. CASE Accept
  BY <1>1, <1>2, GatewayAcceptStep
<1>3. CASE Place
  BY <1>1, <1>3, GatewayPlaceStep
<1>4. CASE Persist
  BY <1>1, <1>4, GatewayPersistStep
<1>5. CASE Publish
  BY <1>1, <1>5, GatewayPublishStep
<1>6. CASE Crash
  <2>1. IInv'
    BY <1>1, <1>6, CrashStep
  <2>2. UNCHANGED <<log, handled, orders>> /\ todo' = <<>>
    BY <1>6 DEF Crash, GiveUp, queueVars, dbVars
  <2> QED
    BY <1>1, <2>1, <2>2, DroppedKeeps
<1>7. CASE SkipRecord \/ DropDuplicate \/ Tick \/ AutoCommit \/ Rebalance \/ Restart
  <2>1. IInv'
    BY <1>1, <1>7, SkipRecordStep, DropDuplicateStep, TickStep, OffsetStep
  <2>2. UNCHANGED <<log, handled, orders, todo>>
    BY <1>7 DEF SkipRecord, DropDuplicate, Tick, AutoCommit, Rebalance, Restart,
                queueVars, callVars, dbVars
  <2> QED
    BY <1>1, <2>1, <2>2, IdleKeeps
<1>8. CASE PlaceUnanswered \/ Resend
  <2>1. IInv'
    BY <1>1, <1>8, UnansweredStep, ResendStep
  <2>2. UNCHANGED <<log, handled, orders, todo>>
    BY <1>8 DEF PlaceUnanswered, Resend, queueVars, callVars, dbVars
  <2> QED
    BY <1>1, <2>1, <2>2, IdleKeeps
<1> QED
  BY <1>2, <1>3, <1>4, <1>5, <1>6, <1>7, <1>8 DEF Router, Process, Receive

------------------------------------------------------------------------------
(* The steps of the gateway and of risk_guard.                             *)

LEMMA SubmitsOne ==
    ASSUME GInv, NEW c, Submits(c)
    PROVE  inbox' \in {inbox, Append(inbox, c)} /\ faults' \in Nat
<1>1. faults \in Nat
  BY DEF GInv, IInv, TypeOK
<1>2. CASE Submitted(c)
  BY <1>1, <1>2 DEF Submitted
<1>3. CASE SubmitFailed(c)
  BY <1>1, <1>3 DEF SubmitFailed, Fault
<1> QED
  BY <1>2, <1>3 DEF Submits

LEMMA RouterRests ==
    ASSUME IInv, faults' \in Nat,
           UNCHANGED <<queueVars, procVars, callVars, dbVars, placed, topic>>
    PROVE  IInv'
<1>1. UNCHANGED <<log, offset, committed, up, epoch, now, dedup, handled, stage, todo, orders,
                  events, trades, positions, exitTags, placed, topic>>
  BY DEF queueVars, procVars, callVars, dbVars
<1>2. TypeOK'
  BY <1>1, Zenon DEF IInv, TypeOK
<1> QED
  BY <1>1, <1>2, QuietStep

(* A record more, or none: what held of every record still has to hold of  *)
(* that one.                                                               *)
LEMMA OneMore ==
    ASSUME NEW S, NEW T, S \subseteq T, NEW s \in Seq(S), NEW x \in T,
           NEW u, u = s \/ u = Append(s, x)
    PROVE  /\ u \in Seq(T)
           /\ \A i \in 1..Len(u) : (i \in 1..Len(s) /\ u[i] = s[i]) \/ u[i] = x
<1>1. s \in Seq(T)
  OBVIOUS
<1>2. CASE u = s
  BY <1>1, <1>2
<1>3. CASE u = Append(s, x)
  BY <1>1, <1>3
<1> QED
  BY <1>2, <1>3

LEMMA PlaceOrderStep ==
    ASSUME GInv, NEW o \in Orders, PlaceOrder(o)
    PROVE  GInv'
<1> DEFINE r == [o |-> o, action |-> "CREATE"]
           Sent(ids) == [o: ids, action: {"CREATE", "CANCEL"}]
<1>1. /\ issued' = issued \cup {o} /\ Submits(r)
      /\ UNCHANGED <<queueVars, procVars, callVars, dbVars, placed, topic,
                     producer, readable, work, asked>>
  BY DEF PlaceOrder
<1>2. inbox' \in {inbox, Append(inbox, r)} /\ faults' \in Nat
  BY <1>1, SubmitsOne
<1>3. IInv'
  BY <1>1, <1>2, RouterRests DEF GInv
<1>4. inbox \in Seq(Sent(issued)) /\ issued \subseteq Orders
  BY DEF GInv, GatewayTypes
<1>5. r \in Sent(issued') /\ Sent(issued) \subseteq Sent(issued')
  BY <1>1
<1>6. /\ inbox' \in Seq(Sent(issued'))
      /\ \A i \in 1..Len(inbox') :
             (i \in 1..Len(inbox) /\ inbox'[i] = inbox[i]) \/ inbox'[i] = r
  <2> HIDE DEF r, Sent
  <2>1. inbox \in Seq(Sent(issued)) /\ r \in Sent(issued') /\ Sent(issued) \subseteq Sent(issued')
        /\ (inbox' = inbox \/ inbox' = Append(inbox, r))
    BY <1>2, <1>4, <1>5
  <2> QED
    BY <2>1, OneMore
<1>7. GatewayTypes'
  BY <1>1, <1>4, <1>6 DEF GInv, GatewayTypes
<1>8. RecordInv'
  BY <1>1, <1>6 DEF GInv, RecordInv, Requested, queueVars
<1>9. IdInv'
  BY <1>1 DEF GInv, IdInv, queueVars, callVars
<1>10. RowInv' /\ RequestInv' /\ CancelInv' /\ ReportInv'
  BY <1>1 DEF GInv, RowInv, RequestInv, CancelInv, ReportInv, Justified, Backed,
              CreatedBefore, Current, callVars, dbVars
<1> QED
  BY <1>3, <1>7, <1>8, <1>9, <1>10 DEF GInv

LEMMA SendCancelStep ==
    ASSUME GInv, NEW t \in Tasks, NEW c \in work[t], SendCancel(t, c)
    PROVE  GInv'
<1> DEFINE r == [o |-> c.o, action |-> "CANCEL"]
           Sent == [o: issued, action: {"CREATE", "CANCEL"}]
<1>1. /\ Submits(r)
      /\ work' = [work EXCEPT ![t] = @ \ {c}]
      /\ asked' = asked \cup {c}
      /\ UNCHANGED <<queueVars, procVars, callVars, dbVars, placed, topic,
                     producer, readable, issued>>
  BY DEF SendCancel
<1>2. inbox' \in {inbox, Append(inbox, r)} /\ faults' \in Nat
  BY <1>1, SubmitsOne
<1>3. IInv'
  BY <1>1, <1>2, RouterRests DEF GInv
<1>4. inbox \in Seq(Sent) /\ work \in [Tasks -> SUBSET Cancels] /\ asked \subseteq Cancels
  BY DEF GInv, GatewayTypes
<1>5. Justified(c) /\ c \in Cancels
  BY <1>4 DEF GInv, RequestInv
<1>6. r \in Sent
  BY <1>5 DEF GInv, IdInv, Justified, Backed
<1>7. /\ inbox' \in Seq(Sent)
      /\ \A i \in 1..Len(inbox') :
             (i \in 1..Len(inbox) /\ inbox'[i] = inbox[i]) \/ inbox'[i] = r
  <2> HIDE DEF r, Sent
  <2>1. inbox \in Seq(Sent) /\ r \in Sent /\ Sent \subseteq Sent
        /\ (inbox' = inbox \/ inbox' = Append(inbox, r))
    BY <1>2, <1>4, <1>6
  <2> QED
    BY <2>1, OneMore
<1>8. GatewayTypes'
  <2>1. work' \in [Tasks -> SUBSET Cancels] /\ asked' \subseteq Cancels
    BY <1>1, <1>4, <1>5
  <2> QED
    BY <1>1, <1>7, <2>1 DEF GInv, GatewayTypes
<1>9. RequestInv'
  <2>1. \A u \in Tasks : work'[u] \subseteq work[u]
    BY <1>1, <1>4
  <2>2. \A a : Justified(a) => Justified(a)'
    BY <1>1 DEF Justified, Backed, CreatedBefore, callVars
  <2>3. \A a \in asked' : Justified(a)
    BY <1>1, <1>5 DEF GInv, RequestInv
  <2>4. \A u \in Tasks : \A a \in work'[u] : Justified(a)
    BY <2>1 DEF GInv, RequestInv
  <2> QED
    BY <2>2, <2>3, <2>4 DEF RequestInv
<1>10. RecordInv'
  <2> DEFINE Asked(x) == x.action = "CANCEL" => \E a \in asked' : a.o = x.o
  <2>1. Asked(r) /\ log' = log
    BY <1>1 DEF queueVars
  <2>2. /\ \A i \in 1..Len(inbox) : Asked(inbox[i])
        /\ \A i \in 1..Len(log) : Asked(log[i])
    BY <1>1 DEF GInv, RecordInv, Requested
  <2>3. \A i \in 1..Len(inbox') : Asked(inbox'[i])
    <3> HIDE DEF r, Asked
    <3> QED
      BY <1>7, <2>1, <2>2
  <2> QED
    BY <2>1, <2>2, <2>3 DEF RecordInv, Requested
<1>11. CancelInv'
  BY <1>1 DEF GInv, CancelInv, CreatedBefore, callVars
<1>12. IdInv' /\ RowInv' /\ ReportInv'
  BY <1>1 DEF GInv, IdInv, RowInv, ReportInv, Backed, CreatedBefore, Current,
              queueVars, callVars, dbVars
<1> QED
  BY <1>3, <1>8, <1>9, <1>10, <1>11, <1>12 DEF GInv

(* A request reads, sends or goes away: what it has yet to send changes.   *)
LEMMA WorkStep ==
    ASSUME GInv, NEW t \in Tasks, NEW W \in SUBSET Cancels, \A c \in W : Justified(c),
           work' = [work EXCEPT ![t] = W],
           UNCHANGED <<vars, producer, readable, issued, inbox, asked>>
    PROVE  GInv'
<1>1. IInv'
  BY NextIInv DEF GInv
<1>2. work \in [Tasks -> SUBSET Cancels]
  BY DEF GInv, GatewayTypes
<1>3. GatewayTypes'
  BY <1>2 DEF GInv, GatewayTypes
<1>4. UNCHANGED <<handled, orders, todo, log>>
  BY DEF vars, queueVars, callVars, dbVars
<1>5. RequestInv'
  <2>1. \A u \in Tasks : \A c \in work'[u] : Justified(c)
    <3> TAKE u \in Tasks
    <3>1. work'[u] = IF u = t THEN W ELSE work[u]
      BY <1>2
    <3> QED
      BY <3>1 DEF GInv, RequestInv
  <2>2. \A c \in asked : Justified(c)
    BY DEF GInv, RequestInv
  <2> QED
    BY <1>4, <2>1, <2>2 DEF RequestInv, Justified, Backed, CreatedBefore
<1>6. RowInv' /\ RecordInv' /\ IdInv' /\ CancelInv' /\ ReportInv'
  BY <1>4 DEF GInv, RowInv, RecordInv, IdInv, CancelInv, ReportInv, Requested, Backed,
              CreatedBefore, Current
<1> QED
  BY <1>1, <1>3, <1>5, <1>6 DEF GInv

(* The cancels of rows that are open, as they stand.                       *)
LEMMA OpenRows ==
    ASSUME GInv, NEW S \in SUBSET Orders,
           \A o \in S : orders[o] # NoRow /\ orders[o].status \in Open
    PROVE  /\ ToCancel(S) \in SUBSET Cancels
           /\ \A c \in ToCancel(S) : Justified(c)
<1>1. \A o \in S : orders[o] \in Rows /\ Backed(o, orders[o].at)
  BY DEF GInv, IInv, TypeOK, RowInv
<1> QED
  BY <1>1 DEF ToCancel, Cancels, Justified

LEMMA FetchOrderStep ==
    ASSUME GInv, NEW t \in Tasks, NEW o \in Orders, FetchOrder(t, o)
    PROVE  GInv'
<1>1. orders[o] \in Rows /\ orders[o] # NoRow /\ ~Refuses(orders[o].status)
  BY DEF FetchOrder, Stored, GInv, IInv, TypeOK
<1>2. orders[o].status \in Statuses
  BY <1>1 DEF Rows
<1>3. orders[o].status \in Open
  BY <1>1, <1>2 DEF Refuses, Statuses, Open
<1>4. /\ ToCancel({o}) \in SUBSET Cancels
      /\ \A c \in ToCancel({o}) : Justified(c)
  BY <1>1, <1>3, OpenRows
<1> QED
  BY <1>4, WorkStep DEF FetchOrder

LEMMA FetchAllStep ==
    ASSUME GInv, NEW t \in Tasks, NEW F \in Filters, FetchAll(t, F)
    PROVE  GInv'
<1>1. PICK S \in Pages(F) :
          work' = [work EXCEPT ![t] = ToCancel({o \in S : orders[o].status = "NEW"})]
  BY DEF FetchAll
<1> DEFINE N == {o \in S : orders[o].status = "NEW"}
<1>2. F \subseteq Orders /\ S \subseteq F
  BY DEF Filters, Pages, Stored
<1>3. \A o \in N : orders[o] # NoRow /\ orders[o].status \in Open
  BY DEF NoRow, Open
<1>4. N \in SUBSET Orders /\ work' = [work EXCEPT ![t] = ToCancel(N)]
  BY <1>1, <1>2
<1> HIDE DEF N
<1>5. ToCancel(N) \in SUBSET Cancels /\ \A c \in ToCancel(N) : Justified(c)
  BY <1>3, <1>4, OpenRows
<1> QED
  BY <1>4, <1>5, WorkStep DEF FetchAll

LEMMA DisconnectStep == ASSUME GInv, NEW t \in Tasks, Disconnect(t) PROVE GInv'
<1>1. work' = [work EXCEPT ![t] = {}]
      /\ UNCHANGED <<vars, producer, readable, issued, inbox, asked>>
  BY DEF Disconnect
<1> QED
  BY <1>1, WorkStep

LEMMA TailType ==
    ASSUME NEW S, NEW s \in Seq(S), s # <<>>
    PROVE  /\ Tail(s) \in Seq(S)
           /\ \A i \in 1..Len(Tail(s)) : i + 1 \in 1..Len(s) /\ Tail(s)[i] = s[i + 1]
OBVIOUS

(* The head of the inbox moves on, or ends there.                          *)
LEMMA GuardStep == ASSUME GInv, Forward \/ Refuse PROVE GInv'
<1> DEFINE r == Head(inbox)
           Sent == [o: issued, action: {"CREATE", "CANCEL"}]
<1>1. /\ inbox # <<>> /\ inbox' = Tail(inbox)
      /\ log' = log \/ log' = Append(log, r)
      /\ UNCHANGED <<offset, committed, procVars, callVars, dbVars, placed, topic,
                     faults, gatewayVars>>
  BY DEF Forward, Refuse, vars, queueVars
<1>2. inbox \in Seq(Sent) /\ log \in Seq(Commands) /\ issued \subseteq Orders
  BY DEF GInv, GatewayTypes, IInv, TypeOK
<1>3. r \in Sent /\ r = inbox[1] /\ 1 \in 1..Len(inbox)
  <2> HIDE DEF Sent
  <2> QED
    BY <1>1, <1>2
<1>4. r \in Commands
  BY <1>2, <1>3 DEF Commands
<1>5. /\ inbox' \in Seq(Sent)
      /\ \A i \in 1..Len(inbox') : i + 1 \in 1..Len(inbox) /\ inbox'[i] = inbox[i + 1]
  <2> HIDE DEF Sent
  <2>1. inbox \in Seq(Sent) /\ inbox # <<>> /\ inbox' = Tail(inbox)
    BY <1>1, <1>2
  <2> QED
    BY <2>1, TailType
<1>6. /\ log' \in Seq(Commands) /\ Len(log') >= Len(log)
      /\ \A i \in 1..Len(log') : (i \in 1..Len(log) /\ log'[i] = log[i]) \/ log'[i] = r
  <2> HIDE DEF r
  <2>1. log \in Seq(Commands) /\ r \in Commands /\ Commands \subseteq Commands
        /\ (log' = log \/ log' = Append(log, r))
    BY <1>1, <1>2, <1>4
  <2>2. Len(log') >= Len(log)
    BY <2>1
  <2> QED
    BY <2>1, <2>2, OneMore
<1>7. IInv'
  <2>1. TypeOK'
    <3>1. TypeOK
      BY DEF GInv, IInv
    <3>2. UNCHANGED <<offset, committed, up, epoch, now, dedup, handled, stage, todo, orders,
                      events, trades, positions, exitTags, placed, topic, faults>>
      BY <1>1 DEF procVars, callVars, dbVars
    <3>3. log' \in Seq(Commands) /\ offset' \in 0..Len(log') /\ committed' \in 0..Len(log')
      <4>1. Len(log) \in Nat /\ Len(log') \in Nat /\ Len(log') >= Len(log)
        BY <1>2, <1>6
      <4>2. offset \in 0..Len(log) /\ committed \in 0..Len(log)
        BY <3>1 DEF TypeOK
      <4> QED
        BY <1>6, <3>2, <4>1, <4>2
    <3> QED
      BY <3>1, <3>2, <3>3, Zenon DEF TypeOK
  <2> QED
    BY <1>1, <2>1, QuietStep DEF GInv, procVars, callVars, dbVars
<1>8. GatewayTypes'
  BY <1>1, <1>5 DEF GInv, GatewayTypes, gatewayVars
<1>9. RecordInv'
  <2>1. Requested(r)
    BY <1>3 DEF GInv, RecordInv
  <2>2. /\ \A i \in 1..Len(inbox') : Requested(inbox'[i])
        /\ \A i \in 1..Len(log') : Requested(log'[i])
    <3> HIDE DEF r
    <3> QED
      BY <1>5, <1>6, <2>1 DEF GInv, RecordInv
  <2> QED
    BY <1>1, <2>2 DEF RecordInv, Requested, gatewayVars
<1>10. IdInv'
  <2>1. r.o \in issued
    BY <1>3
  <2>2. \A i \in 1..Len(log') : log'[i].o \in issued
    <3> HIDE DEF r
    <3> QED
      BY <1>6, <2>1 DEF GInv, IdInv
  <2> QED
    BY <1>1, <2>2 DEF GInv, IdInv, callVars, gatewayVars
<1>11. RowInv' /\ RequestInv' /\ CancelInv' /\ ReportInv'
  BY <1>1 DEF GInv, RowInv, RequestInv, CancelInv, ReportInv, Justified, Backed,
              CreatedBefore, Current, callVars, dbVars, gatewayVars
<1> QED
  BY <1>7, <1>8, <1>9, <1>10, <1>11 DEF GInv

LEMMA GatewayInitGInv == GatewayInit => GInv
<1> SUFFICES ASSUME GatewayInit PROVE GInv
  OBVIOUS
<1>1. IInv
  BY InitIInv DEF GatewayInit
<1> QED
  BY <1>1 DEF GatewayInit, Init, GInv, GatewayTypes, RowInv, RequestInv, RecordInv, IdInv,
              CancelInv, ReportInv

LEMMA GatewayNextGInv == GInv /\ [GatewayNext]_allVars => GInv'
<1> SUFFICES ASSUME GInv, [GatewayNext]_allVars PROVE GInv'
  OBVIOUS
<1>1. CASE \E o \in Orders : PlaceOrder(o)
  BY <1>1, PlaceOrderStep
<1>2. CASE \E t \in Tasks, o \in Orders : FetchOrder(t, o)
  BY <1>2, FetchOrderStep
<1>3. CASE \E t \in Tasks, F \in Filters : FetchAll(t, F)
  BY <1>3, FetchAllStep
<1>4. CASE \E t \in Tasks : \E c \in work[t] : SendCancel(t, c)
  BY <1>4, SendCancelStep
<1>5. CASE \E t \in Tasks : Disconnect(t)
  BY <1>5, DisconnectStep
<1>6. CASE Forward \/ Refuse
  BY <1>6, GuardStep
<1>7. CASE Router
  BY <1>7, RouterStep
<1>8. CASE UNCHANGED allVars
  <2>1. IInv'
    BY <1>8, NextIInv DEF GInv, allVars
  <2> QED
    BY <1>8, <2>1, IdleKeeps DEF allVars, vars, queueVars, callVars, dbVars
<1> QED
  BY <1>1, <1>2, <1>3, <1>4, <1>5, <1>6, <1>7, <1>8 DEF GatewayNext, Gateway

------------------------------------------------------------------------------
(* Theorems.                                                               *)

(* The inductive invariant: what requests, topics, tables and handlings of *)
(* the gateway and the router behind it have to do with each other.        *)
THEOREM GatewayInvariant == GatewaySpec => []GInv
<1> QED
  BY GatewayInitGInv, GatewayNextGInv, PTL DEF GatewaySpec

(* Every variable keeps its type: every command is published under an id   *)
(* handle_place_market_order or handle_place_exit_order has handed out.    *)
THEOREM GatewayTypeCorrect == GatewaySpec => []GatewayTypeOK
<1>1. GInv => GatewayTypeOK
  BY DEF GInv, IInv, GatewayTypes, GatewayTypeOK
<1> QED
  BY <1>1, GatewayInvariant, PTL

(* A CANCEL of handle_cancel_order that the router executes follows a      *)
(* CREATE it executed, in a window it has forgotten since.                 *)
THEOREM CancelsFollow == GatewaySpec => []CancelFollowsCreate
<1>1. GInv => CancelFollowsCreate
  <2> SUFFICES ASSUME GInv, NEW m \in 1..Len(handled), handled[m].action = "CANCEL"
               PROVE  /\ CreatedBefore(handled[m].o, m - 1)
                      /\ \A n \in 1..(m - 1) : handled[n].o = handled[m].o => Apart(n, m)
    BY DEF CancelFollowsCreate, CreatedBefore
  <2>1. CreatedBefore(handled[m].o, m - 1)
    BY DEF GInv, CancelInv
  <2>2. \A n \in 1..(m - 1) : n \in 1..Len(handled) /\ n < m
    BY HandledLen DEF GInv
  <2> QED
    BY <2>1, <2>2 DEF GInv, IInv, HandledOncePerWindow
<1> QED
  BY <1>1, GatewayInvariant, PTL

(* build_cancel turns a FILLED row into a CANCELED one only for a request  *)
(* that read it open, in a window the router has forgotten since.          *)
THEOREM FilledLostOnlySo == GatewaySpec => FilledLostToStaleCancel
<1> DEFINE Lost(o) == orders[o].status = "FILLED" /\ orders'[o].status = "CANCELED"
           Stale(o) == \E c \in asked : /\ c.o = o
                                         /\ c.seen.status \in Open
                                         /\ Apart(c.seen.at, Len(handled))
<1>1. ASSUME GInv, [GatewayNext]_allVars, NEW o \in Orders, Lost(o)
      PROVE  Stale(o)
  <2>1. orders' # orders
    BY <1>1
  <2>2. Persist
    <3>1. ~UNCHANGED dbVars
      BY <2>1 DEF dbVars
    <3>2. ~Gateway /\ ~Forward /\ ~Refuse /\ ~UNCHANGED allVars
      BY <3>1 DEF Gateway, PlaceOrder, FetchOrder, FetchAll, SendCancel, Disconnect,
                  Forward, Refuse, allVars, vars
    <3>3. Process \/ Tick \/ AutoCommit \/ Rebalance \/ Crash \/ Restart
      BY <1>1, <3>2 DEF GatewayNext, Router
    <3> QED
      BY <3>1, <3>3 DEF Process, Receive, Place, PlaceUnanswered, Publish, Resend, SkipRecord,
             DropDuplicate, Accept, PlaceAcknowledged, PlaceFailed, PublishReport, PublishFailed, Tick, AutoCommit,
             Rebalance, Crash, Restart
  <2>3. stage = "persist" /\ Write(Current.action, Head(todo))
    BY <2>1, <2>2 DEF Persist, PersistReport, PersistFailed, dbVars
  <2>4. o = Current.o /\ Head(todo).status = "CANCELED"
    <3>1. orders'[o] # orders[o]
      BY <1>1
    <3>2. orders'[o] = IF o = Current.o
                       THEN [status |-> Head(todo).status, filled |-> Head(todo).cum,
                             at |-> Len(handled)]
                       ELSE orders[o]
      BY <1>1, <2>3, ReportedRow DEF GInv
    <3> QED
      BY <1>1, <3>1, <3>2
  <2>5. Current.action = "CANCEL"
    <3>1. Head(todo) = todo[1] /\ 1 \in 1..Len(todo)
      BY <1>1, <2>3 DEF GInv, IInv, TypeOK, CallInv
    <3> QED
      BY <1>1, <2>4, <3>1 DEF GInv, ReportInv
  <2>6. Len(handled) \in Nat \ {0}
    BY <1>1, <2>3, CurrentType DEF GInv, IInv
  <2>7. PICK c \in asked : c.o = o /\ c.seen.at < Len(handled)
    BY <1>1, <2>4, <2>5, <2>6 DEF GInv, CancelInv, Current
  <2>8. c.seen.status \in Open /\ c.seen.at \in 1..Len(handled)
        /\ handled[c.seen.at].o = handled[Len(handled)].o
    BY <1>1, <2>4, <2>7 DEF GInv, RequestInv, Justified, Backed, Current
  <2>9. Apart(c.seen.at, Len(handled))
    BY <1>1, <2>6, <2>7, <2>8 DEF GInv, IInv, HandledOncePerWindow
  <2> QED
    BY <2>7, <2>8, <2>9
<1>2. GInv /\ [GatewayNext]_allVars =>
          [\A o \in Orders :
               orders[o].status = "FILLED" /\ orders'[o].status = "CANCELED" =>
                   \E c \in asked : /\ c.o = o
                                    /\ c.seen.status \in Open
                                    /\ Apart(c.seen.at, Len(handled))]_allVars
  BY <1>1
<1> QED
  BY <1>2, GatewayInvariant, PTL DEF GatewaySpec, FilledLostToStaleCancel
=============================================================================
