------------------------- MODULE FeatureEngineProofs -------------------------
(***************************************************************************)
(* What the quality mask of a published vector means, for every period of  *)
(* the indicators, every throttle and every candle topic.                  *)
(***************************************************************************)
EXTENDS FeatureEngine, FiniteSetTheorems, TLAPS

Records == [symbol : Symbols, closed : BOOLEAN, bar : Nat]

States ==
    [ema_fast : Nat, ema_slow : Nat, seeded : BOOLEAN, deltas : Nat, macd_slow : Nat,
     signal : Nat, day : Nat, session : Seq(Nat), fed : Seq(Nat)]

Vectors ==
    [offset : Nat, epoch : Nat, quality : SUBSET Bits, rsi : BOOLEAN, macd : BOOLEAN,
     session : Seq(Nat), fed : Seq(Nat)]

Publications == [vector : Vectors, at : Nat, acked : BOOLEAN]

(* The counters of a state, as functions of the bars it was fed. *)
Counted(s) ==
    LET n == Len(s.fed)
    IN  /\ s.ema_fast = n /\ s.ema_slow = n /\ s.macd_slow = n
        /\ s.seeded <=> n > 0
        /\ s.deltas = IF n = 0 THEN 0 ELSE n - 1
        /\ s.signal = IF n <= EmaSlow THEN 0 ELSE n - EmaSlow

Exact(v) == ExactFor(v, Len(v.fed))

PlaceInv ==
    /\ log \in Seq(Records)
    /\ pos \in 0..Len(log)
    /\ committed \in {NoOffset} \cup 0..Len(log)
    /\ clock \in Nat /\ epoch \in Nat
    /\ step \in {"handle", "publish", "commit"} => pos > 0

StateInv == registry \in [Symbols -> States] /\ \A s \in Symbols : Counted(registry[s])

VectorInv ==
    /\ step = "publish" => fv \in Vectors /\ Exact(fv)
    /\ topic \in Seq(Publications)
    /\ \A i \in 1..Len(topic) : Exact(topic[i].vector)

IInv == PlaceInv /\ StateInv /\ VectorInv

------------------------------------------------------------------------------
(* Indicators.                                                             *)

LEMMA NewStateOk == NewState \in States /\ Counted(NewState)
<1>1. NewState \in States
  BY DEF NewState, States
<1>2. Len(NewState.fed) = 0
  BY DEF NewState
<1> QED
  BY <1>1, <1>2, EngineAssumption DEF NewState, Counted

LEMMA DayOk == \A bar \in Nat : Day(bar) \in Nat
  BY EngineAssumption DEF Day

LEMMA RsiOk ==
    ASSUME NEW s \in States
    PROVE  LET n == RsiUpdate(s)
           IN  /\ n \in States
               /\ n.fed = s.fed /\ n.ema_fast = s.ema_fast /\ n.ema_slow = s.ema_slow
               /\ n.seeded /\ n.deltas = IF s.seeded THEN s.deltas + 1 ELSE s.deltas
               /\ n.macd_slow = s.macd_slow /\ n.signal = s.signal
<1>1. CASE s.seeded
  <2>1. RsiUpdate(s) = [s EXCEPT !.deltas = s.deltas + 1]
    BY <1>1 DEF RsiUpdate, States
  <2>2. s.deltas + 1 \in Nat
    BY DEF States
  <2> QED
    BY <1>1, <2>1, <2>2 DEF States
<1>2. CASE ~s.seeded
  <2>1. RsiUpdate(s) = [s EXCEPT !.seeded = TRUE]
    BY <1>2 DEF RsiUpdate
  <2> QED
    BY <1>2, <2>1 DEF States
<1> QED
  BY <1>1, <1>2

LEMMA MacdOk ==
    ASSUME NEW s \in States
    PROVE  LET n == MacdUpdate(s)
           IN  /\ n \in States
               /\ n.fed = s.fed /\ n.ema_fast = s.ema_fast /\ n.ema_slow = s.ema_slow
               /\ n.seeded = s.seeded /\ n.deltas = s.deltas
               /\ n.macd_slow = s.macd_slow + 1
               /\ n.signal = IF s.macd_slow >= EmaSlow THEN s.signal + 1 ELSE s.signal
<1>1. CASE s.macd_slow >= EmaSlow
  <2>1. MacdUpdate(s) = [s EXCEPT !.macd_slow = s.macd_slow + 1, !.signal = s.signal + 1]
    BY <1>1 DEF MacdUpdate, States
  <2>2. s.macd_slow + 1 \in Nat /\ s.signal + 1 \in Nat
    BY DEF States
  <2> QED
    BY <1>1, <2>1, <2>2 DEF States
<1>2. CASE ~(s.macd_slow >= EmaSlow)
  <2>1. MacdUpdate(s) = [s EXCEPT !.macd_slow = s.macd_slow + 1]
    BY <1>2 DEF MacdUpdate, States
  <2>2. s.macd_slow + 1 \in Nat
    BY DEF States
  <2> QED
    BY <1>2, <2>1, <2>2 DEF States
<1> QED
  BY <1>1, <1>2

LEMMA VwapOk ==
    ASSUME NEW s \in States, NEW b \in Nat, NEW o \in Nat
    PROVE  LET n == VwapUpdate(s, b, o)
           IN  /\ n \in States
               /\ n.fed = s.fed /\ n.ema_fast = s.ema_fast /\ n.ema_slow = s.ema_slow
               /\ n.seeded = s.seeded /\ n.deltas = s.deltas
               /\ n.macd_slow = s.macd_slow /\ n.signal = s.signal
<1>1. PICK q \in Seq(Nat) : VwapUpdate(s, b, o) = [s EXCEPT !.day = Day(b), !.session = q]
  <2>1. <<o>> \in Seq(Nat) /\ Append(s.session, o) \in Seq(Nat)
    BY DEF States
  <2> QED
    BY <2>1 DEF VwapUpdate
<1>2. Day(b) \in Nat
  BY DayOk
<1> QED
  BY <1>1, <1>2 DEF States

LEMMA EmaOk ==
    ASSUME NEW s \in States, NEW o \in Nat
    PROVE  LET n == [s EXCEPT !.ema_fast = @ + 1, !.ema_slow = @ + 1, !.fed = Append(@, o)]
           IN  /\ n \in States
               /\ n.fed = Append(s.fed, o)
               /\ n.ema_fast = s.ema_fast + 1 /\ n.ema_slow = s.ema_slow + 1
               /\ n.seeded = s.seeded /\ n.deltas = s.deltas
               /\ n.macd_slow = s.macd_slow /\ n.signal = s.signal
<1>1. s.ema_fast + 1 \in Nat /\ s.ema_slow + 1 \in Nat /\ Append(s.fed, o) \in Seq(Nat)
  BY DEF States
<1> QED
  BY <1>1 DEF States

(* One more bar: each counter moves as SymbolState::update moves it.       *)
LEMMA UpdateFields ==
    ASSUME NEW s \in States, NEW o \in Nat, log[o].bar \in Nat
    PROVE  LET n == Update(s, o)
           IN  /\ n \in States
               /\ n.fed = Append(s.fed, o)
               /\ n.ema_fast = s.ema_fast + 1 /\ n.ema_slow = s.ema_slow + 1
               /\ n.seeded /\ n.deltas = IF s.seeded THEN s.deltas + 1 ELSE s.deltas
               /\ n.macd_slow = s.macd_slow + 1
               /\ n.signal = IF s.macd_slow >= EmaSlow THEN s.signal + 1 ELSE s.signal
<1> DEFINE e == [s EXCEPT !.ema_fast = @ + 1, !.ema_slow = @ + 1, !.fed = Append(@, o)]
           r == RsiUpdate(e)
           d == MacdUpdate(r)
           v == VwapUpdate(d, log[o].bar, o)
<1>1. /\ e \in States /\ e.fed = Append(s.fed, o)
      /\ e.ema_fast = s.ema_fast + 1 /\ e.ema_slow = s.ema_slow + 1
      /\ e.seeded = s.seeded /\ e.deltas = s.deltas
      /\ e.macd_slow = s.macd_slow /\ e.signal = s.signal
  BY EmaOk
<1> HIDE DEF e
<1>2. /\ r \in States
      /\ r.fed = e.fed /\ r.ema_fast = e.ema_fast /\ r.ema_slow = e.ema_slow
      /\ r.seeded /\ r.deltas = IF e.seeded THEN e.deltas + 1 ELSE e.deltas
      /\ r.macd_slow = e.macd_slow /\ r.signal = e.signal
  BY <1>1, RsiOk
<1> HIDE DEF r
<1>3. /\ d \in States
      /\ d.fed = r.fed /\ d.ema_fast = r.ema_fast /\ d.ema_slow = r.ema_slow
      /\ d.seeded = r.seeded /\ d.deltas = r.deltas
      /\ d.macd_slow = r.macd_slow + 1
      /\ d.signal = IF r.macd_slow >= EmaSlow THEN r.signal + 1 ELSE r.signal
  BY <1>2, MacdOk
<1> HIDE DEF d
<1>4. /\ v \in States
      /\ v.fed = d.fed /\ v.ema_fast = d.ema_fast /\ v.ema_slow = d.ema_slow
      /\ v.seeded = d.seeded /\ v.deltas = d.deltas
      /\ v.macd_slow = d.macd_slow /\ v.signal = d.signal
  BY <1>3, VwapOk
<1>5. Update(s, o) = v
  BY DEF Update, e, r, d
<1> HIDE DEF v
<1>6. v.seeded /\ v.deltas = IF s.seeded THEN s.deltas + 1 ELSE s.deltas
  <2>1. v.seeded
    BY <1>2, <1>3, <1>4, Zenon
  <2>2. v.deltas = IF s.seeded THEN s.deltas + 1 ELSE s.deltas
    BY <1>1, <1>2, <1>3, <1>4
  <2> QED
    BY <2>1, <2>2
<1>7. /\ v.fed = Append(s.fed, o)
      /\ v.ema_fast = s.ema_fast + 1 /\ v.ema_slow = s.ema_slow + 1
      /\ v.macd_slow = s.macd_slow + 1
      /\ v.signal = IF s.macd_slow >= EmaSlow THEN s.signal + 1 ELSE s.signal
  BY <1>1, <1>2, <1>3, <1>4
<1> QED
  BY <1>4, <1>5, <1>6, <1>7, Zenon

LEMMA UpdateFeeds ==
    ASSUME NEW s \in States, NEW o \in Nat, log[o].bar \in Nat
    PROVE  Update(s, o) \in States /\ Update(s, o).fed = Append(s.fed, o)
BY UpdateFields

LEMMA UpdateOk ==
    ASSUME NEW s \in States, Counted(s), NEW o \in Nat, log[o].bar \in Nat
    PROVE  LET n == Update(s, o)
           IN  n \in States /\ Counted(n) /\ Len(n.fed) = Len(s.fed) + 1
<1> DEFINE n == Update(s, o)
<1>1. n \in States /\ n.fed = Append(s.fed, o) /\ s.fed \in Seq(Nat)
  BY UpdateFields DEF States
<1>2. Len(n.fed) = Len(s.fed) + 1 /\ Len(s.fed) \in Nat
  BY <1>1
<1>3. /\ n.ema_fast = s.ema_fast + 1 /\ n.ema_slow = s.ema_slow + 1
      /\ n.seeded
      /\ n.deltas = IF s.seeded THEN s.deltas + 1 ELSE s.deltas
      /\ n.macd_slow = s.macd_slow + 1
      /\ n.signal = IF s.macd_slow >= EmaSlow THEN s.signal + 1 ELSE s.signal
  BY UpdateFields
<1> HIDE DEF n
<1>4. Counted(n)
  <2> DEFINE k == Len(s.fed)
  <2>1. k \in Nat /\ EmaSlow \in Nat
    BY <1>2, EngineAssumption
  <2>2. /\ s.ema_fast = k /\ s.ema_slow = k /\ s.macd_slow = k
        /\ s.seeded <=> k > 0
        /\ s.deltas = IF k = 0 THEN 0 ELSE k - 1
        /\ s.signal = IF k <= EmaSlow THEN 0 ELSE k - EmaSlow
    BY DEF Counted
  <2>3. Len(n.fed) = k + 1
    BY <1>2
  <2> HIDE DEF k
  <2>4. /\ n.ema_fast = k + 1 /\ n.ema_slow = k + 1 /\ n.macd_slow = k + 1
        /\ n.deltas = k
    BY <1>3, <2>1, <2>2
  <2>5. n.signal = IF k + 1 <= EmaSlow THEN 0 ELSE (k + 1) - EmaSlow
    BY <1>3, <2>1, <2>2
  <2> QED
    BY <1>3, <2>1, <2>3, <2>4, <2>5 DEF Counted
<1> QED
  BY <1>1, <1>2, <1>4 DEF n

(* The vector that handle_message builds from a record of the topic.       *)
LEMMA VectorOk ==
    ASSUME NEW o \in Nat, epoch \in Nat, log[o].bar \in Nat,
           registry[log[o].symbol] \in States, Counted(registry[log[o].symbol])
    PROVE  Vector(o) \in Vectors /\ Exact(Vector(o))
<1> DEFINE old == registry[log[o].symbol]
           new == Update(old, o)
           n == Len(old.fed)
           v == Vector(o)
<1>1. new \in States /\ Counted(new) /\ Len(new.fed) = n + 1
  BY UpdateOk
<1>2. n \in Nat
  BY DEF States
<1>3. v = [offset |-> o, epoch |-> epoch, quality |-> Quality(new),
           rsi |-> RsiReturns(old), macd |-> MacdReturns(old),
           session |-> new.session, fed |-> new.fed]
  BY DEF Vector
<1>4. RsiReturns(old) \in BOOLEAN /\ MacdReturns(old) \in BOOLEAN
  BY DEF RsiReturns, MacdReturns, States
<1>5. Quality(new) \subseteq Bits
  BY DEF Quality
<1>6. RsiReturns(old) <=> n + 1 > RsiPeriod
  BY <1>2, EngineAssumption DEF RsiReturns, Counted
<1>7. MacdReturns(old) <=> n + 1 > EmaSlow + SignalPeriod
  <2>1. EmaSlow \in Nat /\ SignalPeriod \in Nat /\ SignalPeriod > 0
    BY EngineAssumption
  <2>2. old.macd_slow = n /\ old.signal = IF n <= EmaSlow THEN 0 ELSE n - EmaSlow
    BY DEF Counted
  <2>3. MacdReturns(old) <=> old.macd_slow >= EmaSlow /\ old.signal >= SignalPeriod
    BY DEF MacdReturns
  <2> HIDE DEF old, n
  <2> QED
    BY <1>2, <2>1, <2>2, <2>3
<1>8. /\ "EMA_FAST" \in Quality(new) <=> n + 1 >= EmaFast
      /\ "EMA_SLOW" \in Quality(new) <=> n + 1 >= EmaSlow
      /\ "RSI" \in Quality(new) <=> n + 1 > RsiPeriod
      /\ "MACD" \in Quality(new) <=> n + 1 >= EmaSlow + SignalPeriod
  <2> HIDE DEF new, n
  <2>1. /\ "EMA_FAST" \in Quality(new) <=> new.ema_fast >= EmaFast
        /\ "EMA_SLOW" \in Quality(new) <=> new.ema_slow >= EmaSlow
        /\ "RSI" \in Quality(new) <=> new.deltas >= RsiPeriod
        /\ "MACD" \in Quality(new) <=> new.macd_slow >= EmaSlow /\ new.signal >= SignalPeriod
    BY DEF Quality, Ready, Bits
  <2>2. /\ {EmaFast, EmaSlow, RsiPeriod, SignalPeriod} \subseteq Nat
        /\ RsiPeriod >= 2 /\ SignalPeriod > 0
    BY EngineAssumption
  <2>3. /\ new.ema_fast = n + 1 /\ new.ema_slow = n + 1 /\ new.macd_slow = n + 1
        /\ new.deltas = n
        /\ new.signal = IF n + 1 <= EmaSlow THEN 0 ELSE (n + 1) - EmaSlow
    BY <1>1, <1>2 DEF Counted
  <2>4. new.macd_slow >= EmaSlow /\ new.signal >= SignalPeriod <=> n + 1 >= EmaSlow + SignalPeriod
    BY <1>2, <2>2, <2>3
  <2> QED
    BY <1>2, <2>1, <2>2, <2>3, <2>4
<1>9. v \in Vectors
  <2> HIDE DEF new, old
  <2> QED
    BY <1>1, <1>3, <1>4, <1>5 DEF Vectors, States
<1>10. /\ v.quality = Quality(new) /\ v.rsi = RsiReturns(old) /\ v.macd = MacdReturns(old)
       /\ Len(v.fed) = n + 1
  BY <1>1, <1>3
<1> HIDE DEF v, n, new, old
<1>11. Exact(v)
  BY <1>6, <1>7, <1>8, <1>10 DEF Exact, ExactFor
<1> QED
  BY <1>9, <1>11 DEF v
------------------------------------------------------------------------------
(* The invariant is inductive.                                             *)

LEMMA InitIInv == Init => IInv
<1> SUFFICES ASSUME Init PROVE IInv
  OBVIOUS
<1>1. PlaceInv
  BY DEF Init, PlaceInv, NoOffset
<1>2. StateInv
  BY NewStateOk DEF Init, StateInv
<1>3. VectorInv
  BY DEF Init, VectorInv
<1> QED
  BY <1>1, <1>2, <1>3 DEF IInv

(* Where the process may be told to begin. *)
LEMMA FirstFetchOk == PlaceInv => FirstFetch \in 0..Len(log)
  BY DEF PlaceInv, FirstFetch

LEMMA PlaceStep == IInv /\ [Next]_vars => PlaceInv'
<1> SUFFICES ASSUME IInv, [Next]_vars PROVE PlaceInv'
  OBVIOUS
<1> USE DEF IInv, PlaceInv, consumerVars, stateVars, outVars
<1>1. CASE Produce
  <2>1. PICK f \in Feeds : Len(log) < Len(f) /\ log' = Append(log, f[Len(log) + 1])
    BY <1>1 DEF Produce
  <2>2. f \in Seq(Records)
    BY EngineAssumption DEF Records
  <2>3. f[Len(log) + 1] \in Records
    BY <2>1, <2>2
  <2>4. log' \in Seq(Records) /\ Len(log') = Len(log) + 1
    BY <2>1, <2>3
  <2>5. UNCHANGED <<pos, committed, clock, epoch, step>>
    BY <1>1 DEF Produce
  <2> QED
    BY <2>4, <2>5
<1>2. CASE Tick
  BY <1>2 DEF Tick
<1>3. CASE Poll
  BY <1>3 DEF Poll
<1>4. CASE Handle
  BY <1>4 DEF Handle, SkipRecord, SkipThrottled, UpdateIndicators, PublishOk, Resend, PublishFailed
<1>5. CASE CommitOffset \/ CommitLost
  BY <1>5 DEF CommitOffset, CommitLost
<1>6. CASE Tasks
  BY <1>6 DEF Tasks, InsertRow, InsertFails
<1>7. CASE Rejoin
  BY <1>7, FirstFetchOk DEF Rejoin
<1>8. CASE Crash \/ Restart
  BY <1>8, FirstFetchOk DEF Crash, Restart
<1>9. CASE UNCHANGED vars
  BY <1>9 DEF vars
<1> QED
  BY <1>1, <1>2, <1>3, <1>4, <1>5, <1>6, <1>7, <1>8, <1>9 DEF Next, Run, Process

(* The record being handled, and the state of its symbol. *)
LEMMA RecordOk ==
    ASSUME IInv, step \in {"handle", "publish", "commit"}
    PROVE  pos \in 1..Len(log) /\ Record \in Records
  BY DEF IInv, PlaceInv, Record

LEMMA StateStep == IInv /\ [Next]_vars => StateInv'
<1> SUFFICES ASSUME IInv, [Next]_vars PROVE StateInv'
  OBVIOUS
<1> USE DEF IInv, StateInv
<1>1. CASE UpdateIndicators
  <2>1. pos \in Nat /\ Record.bar \in Nat /\ Record.symbol \in Symbols
    BY <1>1, RecordOk DEF UpdateIndicators, Records
  <2> DEFINE s == Record.symbol
             n == Update(registry[s], pos)
  <2>2. n \in States /\ Counted(n)
    BY <2>1, UpdateOk DEF Record
  <2>3. registry' = [registry EXCEPT ![s] = n]
    BY <1>1 DEF UpdateIndicators
  <2> HIDE DEF n
  <2> QED
    BY <2>1, <2>2, <2>3
<1>2. CASE Restart
  BY <1>2, NewStateOk DEF Restart
<1>3. CASE UNCHANGED registry
  BY <1>3
<1>4. UpdateIndicators \/ Restart \/ UNCHANGED registry
  BY DEF Next, vars, Run, Handle, Process, Tasks, stateVars, Produce, Tick, Poll, SkipRecord,
         SkipThrottled, PublishOk, Resend, PublishFailed, CommitOffset, CommitLost, InsertRow,
         InsertFails, Rejoin, Crash
<1> QED
  BY <1>1, <1>2, <1>3, <1>4

(* What a publish appends is the vector it was given. *)
LEMMA AppendOk ==
    ASSUME IInv, step = "publish", NEW a \in BOOLEAN
    PROVE  LET t == Append(topic, Publication(a))
           IN  t \in Seq(Publications) /\ \A i \in 1..Len(t) : Exact(t[i].vector)
<1> DEFINE p == Publication(a)
           t == Append(topic, p)
<1>1. p \in Publications /\ p.vector = fv
  BY DEF IInv, VectorInv, PlaceInv, Publication, Publications
<1>2. topic \in Seq(Publications) /\ Exact(fv)
  BY DEF IInv, VectorInv
<1> HIDE DEF p
<1>3. t \in Seq(Publications) /\ Len(t) = Len(topic) + 1
  BY <1>1, <1>2
<1>4. ASSUME NEW i \in 1..Len(t) PROVE Exact(t[i].vector)
  <2>1. CASE i = Len(t)
    BY <1>1, <1>2, <1>3, <2>1
  <2>2. CASE i # Len(t)
    <3>1. i \in 1..Len(topic) /\ t[i] = topic[i]
      BY <1>2, <1>3, <2>2
    <3> QED
      BY <3>1 DEF IInv, VectorInv
  <2> QED
    BY <2>1, <2>2
<1> QED
  BY <1>3, <1>4 DEF p

LEMMA VectorStep == IInv /\ [Next]_vars => VectorInv'
<1> SUFFICES ASSUME IInv, [Next]_vars PROVE VectorInv'
  OBVIOUS
<1>1. CASE UpdateIndicators
  <2>1. pos \in Nat /\ Record.bar \in Nat /\ Record.symbol \in Symbols
    BY <1>1, RecordOk DEF UpdateIndicators, Records
  <2>2. Vector(pos) \in Vectors /\ Exact(Vector(pos))
    BY <2>1, VectorOk DEF IInv, StateInv, PlaceInv, Record
  <2>3. fv' = Vector(pos) /\ topic' = topic
    BY <1>1 DEF UpdateIndicators, outVars
  <2>4. topic \in Seq(Publications) /\ \A i \in 1..Len(topic) : Exact(topic[i].vector)
    BY DEF IInv, VectorInv
  <2> QED
    BY <2>2, <2>3, <2>4 DEF VectorInv
<1>2. CASE PublishOk \/ PublishFailed
  <2>1. step = "publish" /\ step' # "publish"
    BY <1>2 DEF PublishOk, PublishFailed
  <2>2. \/ topic' = topic
        \/ \E a \in BOOLEAN : topic' = Append(topic, Publication(a))
    BY <1>2 DEF PublishOk, PublishFailed
  <2>3. topic' \in Seq(Publications) /\ \A i \in 1..Len(topic') : Exact(topic'[i].vector)
    BY <2>1, <2>2, AppendOk DEF IInv, VectorInv
  <2> QED
    BY <2>1, <2>3 DEF VectorInv
<1>3. CASE topic' = topic /\ step' # "publish"
  BY <1>3 DEF IInv, VectorInv
<1>4. CASE UNCHANGED <<topic, step, fv>>
  BY <1>4 DEF IInv, VectorInv
<1>5. CASE Resend
  <2>1. step = "publish" /\ fv' = fv /\ topic' = Append(topic, Publication(FALSE))
    BY <1>5 DEF Resend, stateVars
  <2>2. topic' \in Seq(Publications) /\ \A i \in 1..Len(topic') : Exact(topic'[i].vector)
    BY <2>1, AppendOk
  <2> QED
    BY <2>1, <2>2 DEF IInv, VectorInv
<1>6. \/ UpdateIndicators \/ PublishOk \/ PublishFailed \/ Resend
      \/ topic' = topic /\ step' # "publish"
      \/ UNCHANGED <<topic, step, fv>>
  BY DEF Next, vars, Run, Handle, Process, Tasks, stateVars, outVars, Produce, Tick, Poll,
         SkipRecord, SkipThrottled, CommitOffset, CommitLost, InsertRow, InsertFails, Rejoin,
         Crash, Restart
<1> QED
  BY <1>1, <1>2, <1>3, <1>4, <1>5, <1>6

------------------------------------------------------------------------------
(* The counters of every symbol's indicators follow the bars it was fed,   *)
(* and every vector carries the mask that belongs to its bars: in each     *)
(* state, for every setting of the service.                                *)
THEOREM EngineInvariant == Spec => []IInv
<1>1. Init => IInv
  BY InitIInv
<1>2. IInv /\ [Next]_vars => IInv'
  BY PlaceStep, StateStep, VectorStep DEF IInv
<1> QED
  BY <1>1, <1>2, PTL DEF Spec

(* QualityIsExact for all periods: the bit of an indicator on a published  *)
(* vector is set when the indicator has had its bars, through retries,     *)
(* rewinds and restarts, and the MACD's comes exactly one bar early.       *)
THEOREM MaskIsExact == Spec => []QualityIsExact
<1>1. IInv => QualityIsExact
  BY DEF IInv, VectorInv, QualityIsExact, Exact
<1> QED
  BY <1>1, EngineInvariant, PTL

------------------------------------------------------------------------------
(* Types and places: no offset beyond the log, no time beyond the clock.   *)

Steps == {"down", "idle", "handle", "publish", "commit"}

TypeInv ==
    /\ throttle_ms \in Throttles
    /\ step \in Steps
    /\ start \in 0..Len(log)
    /\ attempt \in 0..MaxRetries
    /\ throttle_map \in [Symbols -> {Never} \cup 0..clock]

(* The topic only grows, and the records on it stay. *)
LEMMA LogGrows ==
    ASSUME IInv, [Next]_vars
    PROVE  /\ log \in Seq(Records) /\ log' \in Seq(Records)
           /\ Len(log) \in Nat /\ Len(log') \in Nat /\ Len(log) <= Len(log')
           /\ \A i \in 1..Len(log) : log'[i] = log[i]
<1>1. log \in Seq(Records)
  BY DEF IInv, PlaceInv
<1>2. CASE Produce
  <2>1. PICK f \in Feeds : Len(log) < Len(f) /\ log' = Append(log, f[Len(log) + 1])
    BY <1>2 DEF Produce
  <2>2. f \in Seq(Records)
    BY EngineAssumption DEF Records
  <2>3. f[Len(log) + 1] \in Records
    BY <1>1, <2>1, <2>2
  <2> QED
    BY <1>1, <2>1, <2>3
<1>3. CASE log' = log
  BY <1>1, <1>3
<1>4. Produce \/ log' = log
  BY DEF Next, vars, Run, Handle, Process, Tasks, Tick, Poll, SkipRecord, SkipThrottled,
         UpdateIndicators, PublishOk, Resend, PublishFailed, CommitOffset, CommitLost, InsertRow,
         InsertFails, Rejoin, Crash, Restart
<1> QED
  BY <1>2, <1>3, <1>4

LEMMA InitType == Init => TypeInv
  BY EngineAssumption DEF Init, TypeInv, Steps, Never

LEMMA TypeStep == IInv /\ TypeInv /\ [Next]_vars => TypeInv'
<1> SUFFICES ASSUME IInv, TypeInv, [Next]_vars PROVE TypeInv'
  OBVIOUS
<1> USE DEF TypeInv, consumerVars, stateVars, outVars
<1>1. /\ Len(log) \in Nat /\ Len(log') \in Nat /\ Len(log) <= Len(log')
      /\ pos \in 0..Len(log) /\ clock \in Nat /\ MaxRetries \in Nat
  BY LogGrows, EngineAssumption DEF IInv, PlaceInv
<1>2. throttle_ms' = throttle_ms
  BY DEF Next, vars, Run, Handle, Process, Tasks, Produce, Tick, Poll, SkipRecord, SkipThrottled,
         UpdateIndicators, PublishOk, Resend, PublishFailed, CommitOffset, CommitLost, InsertRow,
         InsertFails, Rejoin, Crash, Restart
<1>3. step' \in Steps
  BY DEF Steps, Next, vars, Run, Handle, Process, Tasks, Produce, Tick, Poll, SkipRecord,
         SkipThrottled, UpdateIndicators, PublishOk, Resend, PublishFailed, CommitOffset, CommitLost,
         InsertRow, InsertFails, Rejoin, Crash, Restart
<1>4. start' \in 0..Len(log')
  <2>1. start' = start \/ start' = FirstFetch
    BY DEF Next, vars, Run, Handle, Process, Tasks, Produce, Tick, Poll, SkipRecord,
           SkipThrottled, UpdateIndicators, PublishOk, Resend, PublishFailed, CommitOffset, CommitLost,
           InsertRow, InsertFails, Rejoin, Crash, Restart
  <2>2. FirstFetch \in 0..Len(log)
    BY FirstFetchOk DEF IInv
  <2> QED
    BY <1>1, <2>1, <2>2
<1>5. attempt' \in 0..MaxRetries
  <2>1. \/ attempt' = attempt \/ attempt' = 0
        \/ attempt < MaxRetries /\ attempt' = attempt + 1
    BY DEF Next, vars, Run, Handle, Process, Tasks, Produce, Tick, Poll, SkipRecord,
           SkipThrottled, UpdateIndicators, PublishOk, Resend, PublishFailed, CommitOffset, CommitLost,
           InsertRow, InsertFails, Rejoin, Crash, Restart
  <2> QED
    BY <1>1, <2>1
<1>6. throttle_map' \in [Symbols -> {Never} \cup 0..clock']
  <2>1. CASE PublishOk
    <3>1. Record.symbol \in Symbols
      BY <2>1, RecordOk DEF PublishOk, Records
    <3>2. throttle_map' \in {throttle_map, [throttle_map EXCEPT ![Record.symbol] = clock]}
          /\ clock' = clock
      BY <2>1 DEF PublishOk, Remember
    <3> QED
      BY <1>1, <3>1, <3>2
  <2>2. CASE throttle_map' = [s \in Symbols |-> Never]
    BY <2>2
  <2>3. CASE throttle_map' = throttle_map /\ clock' \in {clock, clock + 1}
    BY <1>1, <2>3
  <2>4. \/ PublishOk \/ throttle_map' = [s \in Symbols |-> Never]
        \/ throttle_map' = throttle_map /\ clock' \in {clock, clock + 1}
    BY DEF Next, vars, Run, Handle, Process, Tasks, Produce, Tick, Poll, SkipRecord,
           SkipThrottled, UpdateIndicators, Resend, PublishFailed, CommitOffset, CommitLost,
           InsertRow, InsertFails, Rejoin, Crash, Restart
  <2> QED
    BY <2>1, <2>2, <2>3, <2>4
<1> QED
  BY <1>2, <1>3, <1>4, <1>5, <1>6

------------------------------------------------------------------------------
(* The session of the VWAP.                                                *)

(* InOrder for a topic that is given. *)
Ascending(l, f) == \A i, j \in 1..Len(f) : i < j => l[f[i]].bar <= l[f[j]].bar

(* As long as the bars came in order, the session is what was fed since    *)
(* the first bar of the day of the last one.                               *)
SessionOk(l, f, session, day) ==
    LET n == Len(f)
        k == Len(session)
    IN  Ascending(l, f) =>
            /\ k \in 0..n
            /\ n > 0 => k > 0 /\ Day(l[f[n]].bar) = day
            /\ \A j \in 1..k : session[j] = f[n - k + j]
            /\ \A j \in 1..n : Day(l[f[j]].bar) = day <=> j > n - k

(* No day before the day of an earlier bar. *)
LEMMA DayMonotone ==
    ASSUME NEW a \in Nat, NEW b \in Nat, a <= b
    PROVE  Day(a) <= Day(b)
<1>1. BarsPerDay \in Nat /\ BarsPerDay > 0
  BY EngineAssumption
<1> QED
  BY <1>1 DEF Day

(* A topic that has grown tells the same of what was fed before. *)
LEMMA SessionStable ==
    ASSUME NEW l, NEW m, NEW f, NEW session, NEW day,
           Len(l) \in Nat, \A i \in 1..Len(l) : m[i] = l[i],
           f \in Seq(1..Len(l)), SessionOk(l, f, session, day)
    PROVE  SessionOk(m, f, session, day)
<1>1. Len(f) \in Nat /\ \A i \in 1..Len(f) : m[f[i]] = l[f[i]]
  OBVIOUS
<1>2. Ascending(m, f) <=> Ascending(l, f)
  BY <1>1 DEF Ascending
<1> QED
  BY <1>1, <1>2 DEF SessionOk

(* One bar more: of the day, or the first of the next. *)
LEMMA SessionGrows ==
    ASSUME NEW l, NEW f, NEW session, NEW day, NEW o, NEW g, NEW t,
           Len(f) \in Nat, Len(session) \in Nat, Len(f) = 0 => Len(session) = 0,
           l[o].bar \in Nat, \A i \in 1..Len(f) : l[f[i]].bar \in Nat,
           SessionOk(l, f, session, day),
           Len(g) = Len(f) + 1, g[Len(f) + 1] = o, \A i \in 1..Len(f) : g[i] = f[i],
           \/ /\ Day(l[o].bar) = day /\ Len(t) = Len(session) + 1
              /\ t[Len(session) + 1] = o /\ \A i \in 1..Len(session) : t[i] = session[i]
           \/ Day(l[o].bar) # day /\ Len(t) = 1 /\ t[1] = o
    PROVE  SessionOk(l, g, t, Day(l[o].bar))
<1> DEFINE d == Day(l[o].bar)
           nt == Len(t)
           n == Len(f)
           k == Len(session)
<1> SUFFICES ASSUME Ascending(l, g)
             PROVE  /\ nt \in 1..(n + 1)
                    /\ \A j \in 1..nt : t[j] = g[n + 1 - nt + j]
                    /\ \A j \in 1..(n + 1) : Day(l[g[j]].bar) = d <=> j > n + 1 - nt
  BY DEF SessionOk
<1>0. \/ d = day /\ nt = k + 1 /\ t[k + 1] = o /\ \A i \in 1..k : t[i] = session[i]
      \/ d # day /\ nt = 1 /\ t[1] = o
  OBVIOUS
<1>8. /\ n \in Nat /\ k \in Nat /\ (n = 0 => k = 0)
      /\ l[o].bar \in Nat /\ \A i \in 1..n : l[f[i]].bar \in Nat
      /\ Len(f) = n /\ Len(g) = n + 1 /\ g[n + 1] = o /\ \A i \in 1..n : g[i] = f[i]
  OBVIOUS
<1>1. Ascending(l, f)
  BY DEF Ascending
<1>2. \A i \in 1..n : l[f[i]].bar <= l[o].bar
  <2> SUFFICES ASSUME NEW i \in 1..n PROVE l[f[i]].bar <= l[o].bar
    OBVIOUS
  <2>1. l[g[i]].bar <= l[g[n + 1]].bar
    BY DEF Ascending
  <2> QED
    BY <2>1
<1>3. /\ k \in 0..n
      /\ n > 0 => k > 0 /\ Day(l[f[n]].bar) = day
      /\ \A j \in 1..k : session[j] = f[n - k + j]
      /\ \A j \in 1..n : Day(l[f[j]].bar) = day <=> j > n - k
  BY <1>1 DEF SessionOk
<1>4. ASSUME d # day, NEW j \in 1..n
      PROVE  Day(l[f[j]].bar) # d
  <2>1. n \in 1..n /\ n > 0
    OBVIOUS
  <2>2. l[f[j]].bar \in Nat /\ l[f[n]].bar \in Nat /\ l[o].bar \in Nat
    BY <2>1
  <2>3. l[f[j]].bar <= l[f[n]].bar
    BY <1>1, <2>1, <2>2 DEF Ascending
  <2>4. l[f[n]].bar <= l[o].bar
    BY <1>2, <2>1
  <2>5. Day(l[f[j]].bar) <= Day(l[f[n]].bar) /\ Day(l[f[n]].bar) <= d
    BY <2>2, <2>3, <2>4, DayMonotone
  <2>6. Day(l[f[j]].bar) \in Nat /\ Day(l[f[n]].bar) \in Nat /\ d \in Nat
    BY <2>2, DayOk
  <2>7. Day(l[f[n]].bar) = day
    BY <1>3, <2>1
  <2> HIDE DEF d
  <2> QED
    BY <1>4, <2>5, <2>6, <2>7
<1> HIDE DEF d, nt
<1>5. nt \in 1..(n + 1)
  BY <1>0, <1>3
<1>6. ASSUME NEW j \in 1..nt
      PROVE  t[j] = g[n + 1 - nt + j]
  <2>1. CASE j = nt
    <3>1. t[j] = o
      BY <1>0, <2>1
    <3>2. n + 1 - nt + j = n + 1
      BY <1>5, <2>1
    <3> QED
      BY <3>1, <3>2
  <2>2. CASE j # nt
    <3>1. d = day /\ nt = k + 1 /\ \A i \in 1..k : t[i] = session[i]
      BY <1>0, <2>2
    <3>2. j \in 1..k /\ n - k + j \in 1..n /\ n + 1 - nt + j = n - k + j
      BY <1>3, <2>2, <3>1
    <3> QED
      BY <1>3, <3>1, <3>2
  <2> QED
    BY <2>1, <2>2
<1>7. ASSUME NEW j \in 1..(n + 1)
      PROVE  Day(l[g[j]].bar) = d <=> j > n + 1 - nt
  <2>1. CASE j = n + 1
    BY <1>5, <2>1 DEF d
  <2>2. CASE j # n + 1
    <3>1. j \in 1..n /\ g[j] = f[j]
      BY <2>2
    <3>2. CASE d = day
      <4>1. n + 1 - nt = n - k
        BY <1>0, <1>3, <3>2
      <4> QED
        BY <1>3, <3>1, <3>2, <4>1
    <3>3. CASE d # day
      <4>1. n + 1 - nt = n
        BY <1>0, <3>3
      <4> QED
        BY <1>4, <3>1, <3>3, <4>1
    <3> QED
      BY <3>2, <3>3
  <2> QED
    BY <2>1, <2>2
<1> QED
  BY <1>5, <1>6, <1>7

LEMMA SessionAppend ==
    ASSUME NEW l \in Seq(Records), NEW f \in Seq(1..Len(l)), NEW session \in Seq(1..Len(l)),
           NEW day, NEW o \in 1..Len(l),
           SessionOk(l, f, session, day),
           Len(f) = 0 => Len(session) = 0
    PROVE  SessionOk(l, Append(f, o),
                     IF Day(l[o].bar) # day THEN <<o>> ELSE Append(session, o),
                     Day(l[o].bar))
<1> DEFINE g == Append(f, o)
           t == IF Day(l[o].bar) # day THEN <<o>> ELSE Append(session, o)
           n == Len(f)
           k == Len(session)
<1>1. n \in Nat /\ k \in Nat /\ \A i \in 1..n : f[i] \in 1..Len(l)
  OBVIOUS
<1>2. \A i \in 1..Len(l) : l[i].bar \in Nat
  <2>1. \A i \in 1..Len(l) : l[i] \in Records
    OBVIOUS
  <2> QED
    BY <2>1 DEF Records
<1>3. l[o].bar \in Nat /\ \A i \in 1..n : l[f[i]].bar \in Nat
  BY <1>1, <1>2
<1>4. Len(g) = n + 1 /\ g[n + 1] = o /\ \A i \in 1..n : g[i] = f[i]
  OBVIOUS
<1>5. \/ /\ Day(l[o].bar) = day /\ Len(t) = k + 1
         /\ t[k + 1] = o /\ \A i \in 1..k : t[i] = session[i]
      \/ Day(l[o].bar) # day /\ Len(t) = 1 /\ t[1] = o
  <2>1. CASE Day(l[o].bar) = day
    BY <2>1
  <2>2. CASE Day(l[o].bar) # day
    BY <2>2
  <2> QED
    BY <2>1, <2>2
<1> HIDE DEF g, t
<1>6. SessionOk(l, g, t, Day(l[o].bar))
  BY <1>1, <1>3, <1>4, <1>5, SessionGrows
<1> QED
  BY <1>6 DEF g, t

(* What a state and a vector hold is on the topic l, and so is the day.    *)
FedOk(l, s) ==
    /\ s.fed \in Seq(1..Len(l)) /\ s.session \in Seq(1..Len(l))
    /\ Len(s.fed) = 0 => Len(s.session) = 0
    /\ SessionOk(l, s.fed, s.session, s.day)

VectorKnown(l, v) ==
    /\ v.offset \in 1..Len(l)
    /\ v.fed \in Seq(1..Len(l)) /\ v.session \in Seq(1..Len(l)) /\ Len(v.fed) > 0
    /\ SessionOk(l, v.fed, v.session, Day(l[v.offset].bar))

KnownInv ==
    /\ \A s \in Symbols : FedOk(log, registry[s])
    /\ step = "publish" => VectorKnown(log, fv)
    /\ \A i \in 1..Len(topic) : VectorKnown(log, topic[i].vector)

LEMMA SeqWider ==
    ASSUME NEW m \in Nat, NEW n \in Nat, m <= n, NEW q \in Seq(1..m)
    PROVE  q \in Seq(1..n)
  OBVIOUS

LEMMA KnownStable ==
    ASSUME NEW l, NEW m, Len(l) \in Nat, Len(m) \in Nat, Len(l) <= Len(m),
           \A i \in 1..Len(l) : m[i] = l[i]
    PROVE  /\ \A s : FedOk(l, s) => FedOk(m, s)
           /\ \A v : VectorKnown(l, v) => VectorKnown(m, v)
<1>1. ASSUME NEW s, FedOk(l, s)
      PROVE  FedOk(m, s)
  <2>1. s.fed \in Seq(1..Len(m)) /\ s.session \in Seq(1..Len(m))
    BY <1>1, SeqWider DEF FedOk
  <2>2. SessionOk(m, s.fed, s.session, s.day)
    BY <1>1, SessionStable DEF FedOk
  <2> QED
    BY <1>1, <2>1, <2>2 DEF FedOk
<1>2. ASSUME NEW v, VectorKnown(l, v)
      PROVE  VectorKnown(m, v)
  <2>1. v.fed \in Seq(1..Len(m)) /\ v.session \in Seq(1..Len(m))
    BY <1>2, SeqWider DEF VectorKnown
  <2>2. v.offset \in 1..Len(m) /\ m[v.offset] = l[v.offset]
    BY <1>2 DEF VectorKnown
  <2>3. SessionOk(m, v.fed, v.session, Day(l[v.offset].bar))
    BY <1>2, SessionStable DEF VectorKnown
  <2> QED
    BY <1>2, <2>1, <2>2, <2>3 DEF VectorKnown
<1> QED
  BY <1>1, <1>2

(* The other half of SymbolState::update: the VWAP. *)
LEMMA UpdateSession ==
    ASSUME NEW s \in States, NEW o \in Nat
    PROVE  /\ Update(s, o).day = Day(log[o].bar)
           /\ Update(s, o).session = IF Day(log[o].bar) # s.day THEN <<o>> ELSE Append(s.session, o)
<1> DEFINE e == [s EXCEPT !.ema_fast = @ + 1, !.ema_slow = @ + 1, !.fed = Append(@, o)]
           r == RsiUpdate(e)
           d == MacdUpdate(r)
           v == VwapUpdate(d, log[o].bar, o)
<1>1. e \in States /\ e.session = s.session /\ e.day = s.day
  BY EmaOk DEF States
<1> HIDE DEF e
<1>2. r \in States /\ r.session = e.session /\ r.day = e.day
  <2>1. r \in States
    BY <1>1, RsiOk
  <2>2. r = [e EXCEPT !.deltas = @ + 1] \/ r = [e EXCEPT !.seeded = TRUE]
    BY DEF RsiUpdate
  <2> QED
    BY <1>1, <2>1, <2>2 DEF States
<1> HIDE DEF r
<1>3. d \in States /\ d.session = r.session /\ d.day = r.day
  <2>1. d \in States
    BY <1>2, MacdOk
  <2>2. \E x : d = [r EXCEPT !.macd_slow = @ + 1, !.signal = x]
    BY DEF MacdUpdate
  <2> QED
    BY <1>2, <2>1, <2>2 DEF States
<1> HIDE DEF d
<1>4. /\ v.day = Day(log[o].bar)
      /\ v.session = IF Day(log[o].bar) # d.day THEN <<o>> ELSE Append(d.session, o)
  BY <1>3 DEF VwapUpdate, States
<1>5. Update(s, o) = v
  BY DEF Update, e, r, d
<1> HIDE DEF v
<1> QED
  BY <1>1, <1>2, <1>3, <1>4, <1>5

(* The handler feeds a record to its symbol, and makes its vector.         *)
LEMMA UpdateKnown ==
    ASSUME log \in Seq(Records), NEW o \in 1..Len(log), log[o].symbol \in Symbols,
           registry[log[o].symbol] \in States, FedOk(log, registry[log[o].symbol])
    PROVE  /\ FedOk(log, Update(registry[log[o].symbol], o))
           /\ VectorKnown(log, Vector(o))
<1> DEFINE s == registry[log[o].symbol]
           n == Update(s, o)
           v == Vector(o)
<1>1. o \in Nat /\ log[o].bar \in Nat
  <2>1. o \in Nat /\ log[o] \in Records
    OBVIOUS
  <2> QED
    BY <2>1 DEF Records
<1>2. n.fed = Append(s.fed, o)
  BY <1>1, UpdateFields
<1>3. /\ n.day = Day(log[o].bar)
      /\ n.session = IF Day(log[o].bar) # s.day THEN <<o>> ELSE Append(s.session, o)
  BY <1>1, UpdateSession
<1>4. /\ s.fed \in Seq(1..Len(log)) /\ s.session \in Seq(1..Len(log))
      /\ SessionOk(log, s.fed, s.session, s.day) /\ (Len(s.fed) = 0 => Len(s.session) = 0)
  BY DEF FedOk
<1>5. v.offset = o /\ v.fed = n.fed /\ v.session = n.session
  BY DEF Vector
<1> HIDE DEF s, n, v
<1>6. SessionOk(log, n.fed, n.session, Day(log[o].bar))
  BY <1>2, <1>3, <1>4, SessionAppend
<1>7. n.fed \in Seq(1..Len(log)) /\ n.session \in Seq(1..Len(log)) /\ Len(n.fed) > 0
  <2>1. Append(s.fed, o) \in Seq(1..Len(log)) /\ Len(Append(s.fed, o)) = Len(s.fed) + 1
        /\ Len(s.fed) \in Nat
    BY <1>4
  <2>2. <<o>> \in Seq(1..Len(log)) /\ Append(s.session, o) \in Seq(1..Len(log))
    BY <1>4
  <2>3. n.session \in {<<o>>, Append(s.session, o)}
    BY <1>3
  <2>4. n.session \in Seq(1..Len(log))
    BY <2>2, <2>3, Zenon
  <2>5. n.fed \in Seq(1..Len(log)) /\ Len(n.fed) = Len(s.fed) + 1
    BY <1>2, <2>1, Zenon
  <2> QED
    BY <2>1, <2>4, <2>5
<1>8. FedOk(log, n)
  BY <1>3, <1>6, <1>7 DEF FedOk
<1>9. VectorKnown(log, v)
  BY <1>5, <1>6, <1>7 DEF VectorKnown
<1> QED
  BY <1>8, <1>9 DEF s, n, v

LEMMA NewStateFed == ASSUME Len(log) \in Nat PROVE FedOk(log, NewState)
<1>1. /\ NewState.fed = <<>> /\ NewState.session = <<>>
      /\ <<>> \in Seq(1..Len(log)) /\ Len(<<>>) = 0
  BY DEF NewState
<1>2. SessionOk(log, <<>>, <<>>, NewState.day)
  BY <1>1 DEF SessionOk
<1> QED
  BY <1>1, <1>2 DEF FedOk

LEMMA InitKnown == Init => KnownInv
<1> SUFFICES ASSUME Init PROVE KnownInv
  OBVIOUS
<1>1. FedOk(log, NewState)
  BY NewStateFed DEF Init
<1> QED
  BY <1>1 DEF Init, KnownInv

LEMMA KnownStep == IInv /\ KnownInv /\ [Next]_vars => KnownInv'
<1> SUFFICES ASSUME IInv, KnownInv, [Next]_vars PROVE KnownInv'
  OBVIOUS
<1>1. /\ \A s : FedOk(log, s) => FedOk(log', s)
      /\ \A v : VectorKnown(log, v) => VectorKnown(log', v)
  BY LogGrows, KnownStable
<1>2. \A s \in Symbols : FedOk(log', registry'[s])
  <2>1. CASE UpdateIndicators
    <3>1. pos \in 1..Len(log) /\ Record \in Records /\ log \in Seq(Records) /\ log' = log
      BY <2>1, RecordOk DEF UpdateIndicators, IInv, PlaceInv
    <3> DEFINE s == Record.symbol
               n == Update(registry[s], pos)
    <3>2. s \in Symbols /\ registry \in [Symbols -> States]
      BY <3>1 DEF Records, IInv, StateInv
    <3>3. FedOk(log, n)
      BY <3>1, <3>2, UpdateKnown DEF KnownInv, Record
    <3>4. registry' = [registry EXCEPT ![s] = n]
      BY <2>1 DEF UpdateIndicators
    <3> HIDE DEF n, s
    <3> QED
      BY <3>1, <3>2, <3>3, <3>4 DEF KnownInv
  <2>2. CASE registry' = [s \in Symbols |-> NewState]
    <3>1. FedOk(log, NewState)
      BY LogGrows, NewStateFed
    <3> QED
      BY <1>1, <2>2, <3>1
  <2>3. CASE registry' = registry
    BY <1>1, <2>3 DEF KnownInv
  <2>4. UpdateIndicators \/ registry' = [s \in Symbols |-> NewState] \/ registry' = registry
    BY DEF Next, vars, Run, Handle, Process, Tasks, stateVars, Produce, Tick, Poll, SkipRecord,
           SkipThrottled, PublishOk, Resend, PublishFailed, CommitOffset, CommitLost, InsertRow,
           InsertFails, Rejoin, Crash, Restart
  <2> QED
    BY <2>1, <2>2, <2>3, <2>4
<1>3. step' = "publish" => VectorKnown(log', fv')
  <2>1. CASE UpdateIndicators
    <3>1. pos \in 1..Len(log) /\ Record \in Records /\ log \in Seq(Records)
      BY <2>1, RecordOk DEF UpdateIndicators, IInv, PlaceInv
    <3>2. Record.symbol \in Symbols /\ registry \in [Symbols -> States]
      BY <3>1 DEF Records, IInv, StateInv
    <3>3. VectorKnown(log, Vector(pos))
      BY <3>1, <3>2, UpdateKnown DEF KnownInv, Record
    <3>4. fv' = Vector(pos)
      BY <2>1 DEF UpdateIndicators
    <3> QED
      BY <1>1, <3>3, <3>4
  <2>2. CASE step' = step /\ fv' = fv
    BY <1>1, <2>2 DEF KnownInv
  <2>3. UpdateIndicators \/ step' # "publish" \/ (step' = step /\ fv' = fv)
    BY DEF Next, vars, Run, Handle, Process, Tasks, stateVars, Produce, Tick, Poll, SkipRecord,
           SkipThrottled, PublishOk, Resend, PublishFailed, CommitOffset, CommitLost, InsertRow,
           InsertFails, Rejoin, Crash, Restart
  <2> QED
    BY <2>1, <2>2, <2>3
<1>4. \A i \in 1..Len(topic') : VectorKnown(log', topic'[i].vector)
  <2>1. CASE step = "publish" /\ \E a \in BOOLEAN : topic' = Append(topic, Publication(a))
    <3>1. PICK a \in BOOLEAN : topic' = Append(topic, Publication(a))
      BY <2>1
    <3> DEFINE p == Publication(a)
    <3>2. p.vector = fv /\ VectorKnown(log, fv)
      BY <2>1 DEF Publication, KnownInv
    <3>3. topic \in Seq(Publications) /\ topic' = Append(topic, p)
      BY <3>1 DEF IInv, VectorInv
    <3> HIDE DEF p
    <3>4. /\ Len(topic') = Len(topic) + 1 /\ Len(topic) \in Nat
          /\ topic'[Len(topic) + 1] = p
          /\ \A i \in 1..Len(topic) : topic'[i] = topic[i]
      BY <3>3
    <3>5. ASSUME NEW i \in 1..Len(topic')
          PROVE  VectorKnown(log, topic'[i].vector)
      <4>1. CASE i = Len(topic) + 1
        BY <3>2, <3>4, <4>1
      <4>2. CASE i # Len(topic) + 1
        <5>1. i \in 1..Len(topic) /\ topic'[i] = topic[i]
          BY <3>4, <4>2
        <5> QED
          BY <5>1 DEF KnownInv
      <4> QED
        BY <4>1, <4>2
    <3> QED
      BY <1>1, <3>5
  <2>2. CASE topic' = topic
    BY <1>1, <2>2 DEF KnownInv
  <2>3. \/ step = "publish" /\ \E a \in BOOLEAN : topic' = Append(topic, Publication(a))
        \/ topic' = topic
    BY DEF Next, vars, Run, Handle, Process, Tasks, outVars, Produce, Tick, Poll, SkipRecord,
           SkipThrottled, UpdateIndicators, PublishOk, Resend, PublishFailed, CommitOffset, CommitLost,
           InsertRow, InsertFails, Rejoin, Crash, Restart
  <2> QED
    BY <2>1, <2>2, <2>3
<1> QED
  BY <1>2, <1>3, <1>4 DEF KnownInv

(* The VWAP of a published vector is that of the day of its candle: what   *)
(* was fed of the day, from its first bar on, for every candle topic.      *)
THEOREM VwapIsOfTheDay == Spec => []VwapOfTheDay
<1>1. IInv /\ KnownInv => VwapOfTheDay
  <2> SUFFICES ASSUME IInv, KnownInv, NEW i \in 1..Len(topic), InOrder(topic[i].vector.fed)
               PROVE  LET v == topic[i].vector
                          n == Len(v.fed)
                          k == Len(v.session)
                      IN  /\ k \in 1..n
                          /\ \A j \in 1..k : v.session[j] = v.fed[n - k + j]
                          /\ \A j \in 1..n :
                                 Day(log[v.fed[j]].bar) = Day(log[v.offset].bar) <=> j > n - k
    BY DEF VwapOfTheDay
  <2> DEFINE v == topic[i].vector
             n == Len(v.fed)
             k == Len(v.session)
  <2>1. Len(v.fed) > 0 /\ SessionOk(log, v.fed, v.session, Day(log[v.offset].bar))
        /\ v.fed \in Seq(1..Len(log))
    BY DEF KnownInv, VectorKnown
  <2>2. Ascending(log, v.fed)
    BY DEF InOrder, Ascending
  <2>3. /\ k \in 0..n /\ k > 0
        /\ \A j \in 1..k : v.session[j] = v.fed[n - k + j]
        /\ \A j \in 1..n : Day(log[v.fed[j]].bar) = Day(log[v.offset].bar) <=> j > n - k
    BY <2>1, <2>2 DEF SessionOk
  <2>4. k \in 1..n
    BY <2>1, <2>3
  <2> QED
    BY <2>3, <2>4, Zenon
<1> QED
  BY <1>1, InitKnown, KnownStep, EngineInvariant, PTL DEF Spec

------------------------------------------------------------------------------
(* No closed candle is missed.                                             *)

LEMMA UpdateFed ==
    ASSUME IInv, UpdateIndicators
    PROVE  /\ registry' \in [Symbols -> States] /\ Record.symbol \in Symbols
           /\ registry'[Record.symbol].fed = Append(registry[Record.symbol].fed, pos)
           /\ registry[Record.symbol].fed \in Seq(Nat) /\ pos \in Nat
           /\ \A s \in Symbols \ {Record.symbol} : registry'[s] = registry[s]
           /\ fv' = Vector(pos)
           /\ fv'.fed = registry'[Record.symbol].fed /\ fv'.offset = pos /\ fv'.epoch = epoch
<1>1. pos \in Nat /\ Record.bar \in Nat /\ Record.symbol \in Symbols
  BY RecordOk DEF UpdateIndicators, Records
<1> DEFINE s == Record.symbol
           n == Update(registry[s], pos)
<1>2. registry \in [Symbols -> States]
  BY DEF IInv, StateInv
<1>3. n \in States /\ n.fed = Append(registry[s].fed, pos)
  <2> DEFINE old == registry[s]
  <2>1. old \in States /\ log[pos].bar \in Nat /\ pos \in Nat
    BY <1>1, <1>2 DEF Record
  <2> HIDE DEF old
  <2>2. Update(old, pos) \in States /\ Update(old, pos).fed = Append(old.fed, pos)
    BY <2>1, UpdateFeeds
  <2> QED
    BY <2>2 DEF old
<1>4. registry' = [registry EXCEPT ![s] = n] /\ fv' = Vector(pos)
  BY DEF UpdateIndicators
<1>5. Vector(pos).fed = n.fed /\ Vector(pos).offset = pos /\ Vector(pos).epoch = epoch
  BY DEF Vector, Record
<1>6. registry[s].fed \in Seq(Nat)
  BY <1>1, <1>2 DEF States
<1> HIDE DEF s, n
<1>7. registry' \in [Symbols -> States] /\ registry'[s] = n
      /\ \A x \in Symbols \ {s} : registry'[x] = registry[x]
  BY <1>1, <1>2, <1>3, <1>4 DEF s
<1> QED
  BY <1>1, <1>3, <1>4, <1>5, <1>6, <1>7 DEF s

LEMMA FedGrows ==
    ASSUME IInv, UpdateIndicators
    PROVE  /\ pos \in Fed(Record.symbol)'
           /\ \A s \in Symbols : Fed(s) \subseteq Fed(s)'
<1>1. /\ Record.symbol \in Symbols
      /\ registry'[Record.symbol].fed = Append(registry[Record.symbol].fed, pos)
      /\ registry[Record.symbol].fed \in Seq(Nat) /\ pos \in Nat
      /\ \A s \in Symbols \ {Record.symbol} : registry'[s] = registry[s]
  BY UpdateFed
<1> DEFINE x == Record.symbol
           f == registry[x].fed
           g == registry'[x].fed
<1>2. g = Append(f, pos) /\ f \in Seq(Nat)
  BY <1>1
<1>3. x' = x
  BY DEF UpdateIndicators, Record, consumerVars
<1> HIDE DEF f, g
<1>4. /\ Len(f) \in Nat /\ Len(g) = Len(f) + 1 /\ g[Len(f) + 1] = pos
      /\ \A i \in 1..Len(f) : g[i] = f[i]
  BY <1>1, <1>2
<1>5. {g[i] : i \in 1..Len(g)} = {f[i] : i \in 1..Len(f)} \cup {pos}
  BY <1>4
<1>6. Fed(x)' = {g[i] : i \in 1..Len(g)}
  BY <1>3 DEF Fed, g
<1>7. \A s \in Symbols \ {x} : Fed(s)' = Fed(s)
  BY <1>1 DEF Fed
<1> HIDE DEF x
<1>8. \A s \in Symbols : Fed(s) \subseteq Fed(s)'
  <2> SUFFICES ASSUME NEW s \in Symbols PROVE Fed(s) \subseteq Fed(s)'
    OBVIOUS
  <2>1. CASE s = x
    <3>1. registry[s].fed = f /\ registry'[s].fed = g
      BY <2>1 DEF f, g
    <3>2. Fed(s) = {f[i] : i \in 1..Len(f)} /\ Fed(s)' = {g[i] : i \in 1..Len(g)}
      BY <3>1 DEF Fed
    <3> QED
      BY <1>5, <3>2
  <2>2. CASE s # x
    BY <1>7, <2>2
  <2> QED
    BY <2>1, <2>2
<1> QED
  BY <1>5, <1>6, <1>8 DEF x

Covered(o) == o \in Fed(log[o].symbol) \cup Made("throttled")

(* What has been taken in or throttled stays so as long as the process.    *)
LEMMA CoveredStays ==
    ASSUME IInv, [Next]_vars, epoch' = epoch, NEW o \in 1..Len(log), Covered(o),
           step # "down"
    PROVE  Covered(o)'
<1>1. log'[o] = log[o] /\ log[o].symbol \in Symbols
  <2>1. log'[o] = log[o] /\ log[o] \in Records
    BY LogGrows
  <2> QED
    BY <2>1 DEF Records
<1>2. outcomes \subseteq outcomes'
  BY DEF Next, vars, Run, Handle, Process, Tasks, outVars, Outcome, Produce, Tick, Poll, SkipRecord,
         SkipThrottled, UpdateIndicators, PublishOk, Resend, PublishFailed, CommitOffset, CommitLost,
         InsertRow, InsertFails, Rejoin, Crash, Restart
<1>3. Made("throttled") \subseteq Made("throttled")'
  BY <1>2 DEF Made
<1>4. UpdateIndicators \/ registry' = registry
  BY DEF Next, vars, Run, Handle, Process, Tasks, stateVars, Produce, Tick, Poll, SkipRecord,
         SkipThrottled, PublishOk, Resend, PublishFailed, CommitOffset, CommitLost,
         InsertRow, InsertFails, Rejoin, Crash, Restart
<1>5. \A s \in Symbols : Fed(s) \subseteq Fed(s)'
  <2>1. CASE registry' = registry
    BY <2>1 DEF Fed
  <2> QED
    BY <1>4, <2>1, FedGrows
<1>6. o \in Fed(log[o].symbol) => Covered(o)'
  <2> SUFFICES ASSUME NEW s \in Symbols, s = log[o].symbol, o \in Fed(s) PROVE Covered(o)'
    BY <1>1
  <2>1. o \in Fed(s)'
    BY <1>5
  <2> QED
    BY <1>1, <2>1 DEF Covered, Fed
<1>7. o \in Made("throttled") => Covered(o)'
  BY <1>3 DEF Covered
<1> QED
  BY <1>6, <1>7 DEF Covered

LEMMA NoGapStep == IInv /\ TypeInv /\ NoGap /\ [Next]_vars => NoGap'
<1> SUFFICES ASSUME IInv, TypeInv, NoGap, [Next]_vars,
                    NEW o \in (start' + 1)..pos', log'[o].closed,
                    ~(o = pos' /\ step' \in {"handle", "down"})
             PROVE  Covered(o)'
  BY DEF NoGap, Covered
<1>1. /\ start \in Nat /\ pos \in Nat /\ pos <= Len(log) /\ Len(log) \in Nat
      /\ FirstFetch \in 0..Len(log)
      /\ \A i \in 1..Len(log) : log'[i] = log[i]
  BY LogGrows, FirstFetchOk DEF IInv, PlaceInv, TypeInv
<1>2. CASE Restart
  BY <1>1, <1>2 DEF Restart
<1>3. CASE ~Restart
  <2>1. epoch' = epoch
    BY <1>3 DEF Next, vars, Run, Handle, Process, Tasks, Produce, Tick, Poll, SkipRecord,
         SkipThrottled, UpdateIndicators, PublishOk, Resend, PublishFailed, CommitOffset, CommitLost,
         InsertRow, InsertFails, Rejoin, Crash
  <2>2. CASE ~(o \in (start + 1)..pos /\ ~(o = pos /\ step \in {"handle", "down"}))
    <3>1. o = pos /\ o > start /\ step = "handle" /\ step' \notin {"handle", "down"}
      <4>1. CASE Poll
        BY <1>1, <2>2, <4>1 DEF Poll
      <4>2. CASE Rejoin
        BY <1>1, <2>2, <4>2 DEF Rejoin
      <4>3. CASE ~Poll /\ ~Rejoin
        <5>1. pos' = pos /\ start' = start
          BY <1>3, <4>3 DEF Next, vars, Run, Handle, Process, Tasks, consumerVars, Produce, Tick,
             SkipRecord, SkipThrottled, UpdateIndicators, PublishOk, Resend, PublishFailed, CommitOffset,
             CommitLost, InsertRow, InsertFails, Crash
        <5>2. step = "down" => step' = "down"
          BY <1>3, <4>3 DEF Next, vars, Run, Handle, Process, Tasks, Produce, Tick,
             SkipRecord, SkipThrottled, UpdateIndicators, PublishOk, Resend, PublishFailed, CommitOffset,
             CommitLost, InsertRow, InsertFails, Crash
        <5> QED
          BY <1>1, <2>2, <5>1, <5>2
      <4> QED
        BY <4>1, <4>2, <4>3
    <3>3. CASE SkipThrottled
      <4>1. outcomes' = outcomes \cup {[offset |-> pos, epoch |-> epoch, kind |-> "throttled"]}
        BY <3>3 DEF SkipThrottled, Outcome
      <4> DEFINE r == [offset |-> pos, epoch |-> epoch, kind |-> "throttled"]
      <4>2. r \in outcomes' /\ r.kind = "throttled" /\ r.epoch = epoch' /\ r.offset = pos
        BY <2>1, <4>1
      <4> HIDE DEF r
      <4>3. pos \in Made("throttled")'
        BY <4>2 DEF Made
      <4> QED
        BY <3>1, <4>3 DEF Covered
    <3>4. CASE UpdateIndicators
      <4>1. pos \in Fed(Record.symbol)'
        BY <3>4, FedGrows
      <4>2. Record' = log'[o]
        BY <3>1, <3>4 DEF UpdateIndicators, Record, consumerVars
      <4> QED
        BY <3>1, <4>1, <4>2 DEF Covered, Fed
    <3>5. CASE SkipRecord
      BY <3>1, <3>5 DEF SkipRecord, Record
    <3>6. SkipThrottled \/ UpdateIndicators \/ SkipRecord
      BY <3>1 DEF Next, vars, Run, Handle, Process, Tasks, Produce, Tick, Poll,
             PublishOk, Resend, PublishFailed, CommitOffset, CommitLost, InsertRow, InsertFails, Crash,
             Restart, Rejoin
    <3> QED
      BY <3>3, <3>4, <3>5, <3>6
  <2>3. CASE o \in (start + 1)..pos /\ ~(o = pos /\ step \in {"handle", "down"})
    <3>1. o \in 1..Len(log) /\ log[o].closed
      BY <1>1, <2>3
    <3>2. Covered(o)
      BY <2>3, <3>1 DEF NoGap, Covered
    <3>3. CASE step # "down"
      BY <2>1, <3>1, <3>2, <3>3, CoveredStays
    <3>4. CASE step = "down"
      <4>1. registry' = registry /\ outcomes' = outcomes
        BY <1>3, <3>4 DEF Next, vars, Run, Handle, Process, Tasks, stateVars, outVars, Produce, Tick,
             Poll, SkipRecord, SkipThrottled, UpdateIndicators, PublishOk, Resend, PublishFailed,
             CommitOffset, CommitLost, InsertRow, InsertFails, Crash, Rejoin
      <4> QED
        BY <1>1, <2>1, <3>1, <3>2, <4>1 DEF Covered, Fed, Made
    <3> QED
      BY <3>3, <3>4
  <2> QED
    BY <2>2, <2>3
<1> QED
  BY <1>2, <1>3

(* A process misses no closed candle between the first record it was       *)
(* handed and the current one, whatever it was sent back to.               *)
THEOREM NoCandleMissed == Spec => []NoGap
<1>1. Init => NoGap
  BY DEF Init, NoGap
<1> QED
  BY <1>1, InitType, TypeStep, NoGapStep, EngineInvariant, PTL DEF Spec

------------------------------------------------------------------------------
(* The vectors in ClickHouse.                                              *)

Acked(v) == \E i \in 1..Len(topic) : topic[i].vector = v /\ topic[i].acked
AckInv == \A v \in rows \cup writing : Acked(v)

(* A vector that was never written is told from those that were by what    *)
(* its symbol had been fed.                                                *)
BarsOf(v) == Len(registry[log[v.offset].symbol].fed)

FreshInv ==
    /\ \A v \in rows \cup writing :
           /\ v.epoch \in 0..epoch
           /\ v.epoch = epoch => Len(v.fed) <= BarsOf(v)
    /\ step = "publish" =>
           /\ fv.offset = pos /\ fv.epoch = epoch
           /\ fv.fed = registry[Record.symbol].fed
           /\ \A v \in rows \cup writing :
                  v.epoch = epoch /\ log[v.offset].symbol = Record.symbol
                      => Len(v.fed) < Len(fv.fed)
    /\ rows \cap writing = {}

LEMMA TopicSteps ==
    ASSUME IInv, [Next]_vars
    PROVE  /\ \/ topic' = topic
              \/ step = "publish" /\ \E a \in BOOLEAN : topic' = Append(topic, Publication(a))
           /\ Len(topic) \in Nat /\ Len(topic') \in Nat /\ Len(topic) <= Len(topic')
           /\ \A i \in 1..Len(topic) : topic'[i] = topic[i]
           /\ topic \in Seq(Publications) /\ topic' \in Seq(Publications)
<1>1. \/ topic' = topic
      \/ step = "publish" /\ \E a \in BOOLEAN : topic' = Append(topic, Publication(a))
  BY DEF Next, vars, Run, Handle, Process, Tasks, outVars, Produce, Tick, Poll, SkipRecord,
         SkipThrottled, UpdateIndicators, PublishOk, Resend, PublishFailed, CommitOffset, CommitLost,
         InsertRow, InsertFails, Rejoin, Crash, Restart
<1>2. topic \in Seq(Publications)
  BY DEF IInv, VectorInv
<1>3. CASE topic' = topic
  BY <1>2, <1>3
<1>4. CASE step = "publish" /\ \E a \in BOOLEAN : topic' = Append(topic, Publication(a))
  <2>1. PICK a \in BOOLEAN : topic' = Append(topic, Publication(a))
    BY <1>4
  <2> DEFINE p == Publication(a)
  <2>2. p \in Publications
    BY <1>4 DEF IInv, VectorInv, PlaceInv, Publication, Publications
  <2>3. topic' = Append(topic, p)
    BY <2>1
  <2> HIDE DEF p
  <2>4. /\ Len(topic) \in Nat /\ Len(topic') = Len(topic) + 1
        /\ \A i \in 1..Len(topic) : topic'[i] = topic[i]
        /\ topic' \in Seq(Publications)
    BY <1>2, <2>2, <2>3
  <2> QED
    BY <1>1, <1>2, <2>4
<1> QED
  BY <1>1, <1>3, <1>4

LEMMA RowSteps ==
    ASSUME [Next]_vars
    PROVE  \/ /\ PublishOk /\ writing' = writing \cup {fv} /\ rows' = rows
           \/ rows' \cup writing' \subseteq rows \cup writing
  BY DEF Next, vars, Run, Handle, Process, Tasks, outVars, Produce, Tick, Poll, SkipRecord,
         SkipThrottled, UpdateIndicators, PublishOk, Resend, PublishFailed, CommitOffset, CommitLost,
         InsertRow, InsertFails, Rejoin, Crash, Restart

LEMMA AckStep == IInv /\ AckInv /\ [Next]_vars => AckInv'
<1> SUFFICES ASSUME IInv, AckInv, [Next]_vars, NEW v \in rows' \cup writing' PROVE Acked(v)'
  BY DEF AckInv
<1>1. Acked(v) => Acked(v)'
  BY TopicSteps DEF Acked
<1>2. CASE v \in rows \cup writing
  BY <1>1, <1>2 DEF AckInv
<1>3. CASE PublishOk /\ v = fv
  <2> DEFINE p == Publication(TRUE)
  <2>1. topic \in Seq(Publications)
    BY TopicSteps
  <2>2. p.vector = fv /\ p.acked = TRUE
    BY DEF Publication
  <2>3. topic' = Append(topic, p)
    BY <1>3 DEF PublishOk
  <2> HIDE DEF p
  <2>4. Len(topic') = Len(topic) + 1 /\ Len(topic) \in Nat /\ topic'[Len(topic) + 1] = p
    BY <2>1, <2>3
  <2>5. Len(topic) + 1 \in 1..Len(topic')
    BY <2>4
  <2> QED
    BY <1>3, <2>2, <2>4, <2>5 DEF Acked
<1> QED
  BY <1>2, <1>3, RowSteps

LEMMA KnownRows ==
    ASSUME AckInv, KnownInv, IInv, NEW v \in rows \cup writing
    PROVE  /\ v.offset \in 1..Len(log) /\ log[v.offset] \in Records
           /\ log[v.offset].symbol \in Symbols
           /\ v.fed \in Seq(1..Len(log)) /\ Len(v.fed) \in Nat
<1>1. VectorKnown(log, v)
  BY DEF AckInv, Acked, KnownInv
<1>2. v.offset \in 1..Len(log) /\ v.fed \in Seq(1..Len(log)) /\ log \in Seq(Records)
  BY <1>1 DEF VectorKnown, IInv, PlaceInv
<1>3. log[v.offset] \in Records /\ Len(v.fed) \in Nat
  BY <1>2
<1> QED
  BY <1>2, <1>3 DEF Records

LEMMA FreshStep == IInv /\ KnownInv /\ AckInv /\ FreshInv /\ [Next]_vars => FreshInv'
<1> SUFFICES ASSUME IInv, KnownInv, AckInv, FreshInv, [Next]_vars PROVE FreshInv'
  OBVIOUS
<1> DEFINE W == rows \cup writing
<1>1. \A v \in W : /\ log'[v.offset] = log[v.offset] /\ log[v.offset].symbol \in Symbols
                   /\ Len(v.fed) \in Nat /\ v.epoch \in 0..epoch
  BY LogGrows, KnownRows DEF FreshInv
<1>2. epoch \in Nat /\ rows \cap writing = {}
  BY DEF IInv, PlaceInv, FreshInv
<1>3. CASE UpdateIndicators
  <2> DEFINE x == Record.symbol
             f == registry[x].fed
  <2>1. /\ registry' \in [Symbols -> States] /\ x \in Symbols
        /\ registry'[x].fed = Append(f, pos) /\ f \in Seq(Nat)
        /\ \A s \in Symbols \ {x} : registry'[s] = registry[s]
        /\ fv'.fed = registry'[x].fed /\ fv'.offset = pos /\ fv'.epoch = epoch
    BY <1>3, UpdateFed
  <2>2. UNCHANGED <<log, epoch, rows, writing, pos>> /\ x' = x
    BY <1>3 DEF UpdateIndicators, consumerVars, outVars, Record
  <2> HIDE DEF x
  <2>3. Len(registry'[x].fed) = Len(registry[x].fed) + 1 /\ Len(registry[x].fed) \in Nat
    BY <2>1
  <2>4. ASSUME NEW v \in W, v.epoch = epoch
        PROVE  /\ Len(v.fed) <= BarsOf(v)'
               /\ log[v.offset].symbol = x => Len(v.fed) < Len(fv'.fed)
    <3>1. Len(v.fed) <= Len(registry[log[v.offset].symbol].fed)
      BY <2>4 DEF FreshInv, BarsOf
    <3>2. log'[v.offset].symbol = log[v.offset].symbol /\ log[v.offset].symbol \in Symbols
          /\ Len(v.fed) \in Nat
      BY <1>1
    <3>3. CASE log[v.offset].symbol = x
      BY <2>1, <2>3, <3>1, <3>2, <3>3 DEF BarsOf
    <3>4. CASE log[v.offset].symbol # x
      <4>1. registry'[log[v.offset].symbol] = registry[log[v.offset].symbol]
        BY <2>1, <3>2, <3>4
      <4> QED
        BY <3>1, <3>2, <3>4, <4>1 DEF BarsOf
    <3> QED
      BY <3>3, <3>4
  <2> QED
    BY <1>1, <1>2, <2>1, <2>2, <2>4 DEF FreshInv, x
<1>4. CASE PublishOk
  <2>1. /\ UNCHANGED <<log, epoch, registry>>
        /\ step = "publish" /\ step' = "commit" /\ writing' = writing \cup {fv} /\ rows' = rows
    BY <1>4 DEF PublishOk, consumerVars, outVars
  <2>2. /\ fv.offset = pos /\ fv.epoch = epoch /\ fv.fed = registry[Record.symbol].fed
        /\ \A v \in W : v.epoch = epoch /\ log[v.offset].symbol = Record.symbol
                            => Len(v.fed) < Len(fv.fed)
    BY <2>1 DEF FreshInv
  <2>3. log[fv.offset] = Record /\ Len(fv.fed) \in Nat
    <3>1. VectorKnown(log, fv)
      BY <2>1 DEF KnownInv
    <3> QED
      BY <2>2, <3>1 DEF Record, VectorKnown
  <2>4. fv \notin W
    <3>1. ~(Len(fv.fed) < Len(fv.fed))
      BY <2>3
    <3> QED
      BY <2>2, <2>3, <3>1
  <2>5. BarsOf(fv) = Len(fv.fed)
    BY <2>2, <2>3 DEF BarsOf
  <2>6. \A v \in W \cup {fv} : v.epoch \in 0..epoch /\ (v.epoch = epoch => Len(v.fed) <= BarsOf(v))
    BY <1>2, <2>2, <2>3, <2>5 DEF FreshInv
  <2>7. \A v : BarsOf(v)' = Len(registry[log[v.offset].symbol].fed)
    BY <2>1 DEF BarsOf
  <2>8. \A v \in rows' \cup writing' : v.epoch \in 0..epoch' /\ (v.epoch = epoch' => Len(v.fed) <= BarsOf(v)')
    BY <2>1, <2>6, <2>7 DEF BarsOf
  <2>9. rows' \cap writing' = {}
    BY <1>2, <2>1, <2>4
  <2> QED
    BY <2>1, <2>8, <2>9 DEF FreshInv
<1>5. CASE Restart
  <2>1. /\ UNCHANGED <<log, rows, writing>> /\ epoch' = epoch + 1 /\ step' = "idle"
    BY <1>5 DEF Restart, outVars
  <2>2. \A v \in W : v.epoch \in 0..epoch' /\ v.epoch # epoch'
    BY <1>1, <1>2, <2>1
  <2> QED
    BY <1>2, <2>1, <2>2 DEF FreshInv
<1>6. CASE ~(UpdateIndicators \/ PublishOk \/ Restart)
  <2>1. UNCHANGED <<registry, epoch>>
    BY <1>6 DEF Next, vars, Run, Handle, Process, Tasks, stateVars, Produce, Tick, Poll, SkipRecord,
           SkipThrottled, Resend, PublishFailed, CommitOffset, CommitLost, InsertRow, InsertFails, Rejoin, Crash
  <2>2. step' # "publish" \/ (step = "publish" /\ UNCHANGED <<fv, pos>>)
    BY <1>6 DEF Next, vars, Run, Handle, Process, Tasks, stateVars, consumerVars, Produce, Tick, Poll,
           SkipRecord, SkipThrottled, Resend, PublishFailed, CommitOffset, CommitLost, InsertRow,
           InsertFails, Rejoin, Crash
  <2>3. rows' \cup writing' \subseteq W
    BY <1>6, RowSteps
  <2>4. rows' \cap writing' = {}
    <3>1. \/ UNCHANGED <<rows, writing>>
          \/ rows' = rows /\ writing' \subseteq writing
          \/ \E v \in writing : rows' = rows \cup {v} /\ writing' = writing \ {v}
      BY <1>6 DEF Next, vars, Run, Handle, Process, Tasks, outVars, Produce, Tick, Poll, SkipRecord,
           SkipThrottled, Resend, PublishFailed, CommitOffset, CommitLost, InsertRow, InsertFails, Rejoin, Crash
    <3> QED
      BY <1>2, <3>1
  <2>5. \A v \in W : v.epoch = epoch => Len(v.fed) <= BarsOf(v)'
    BY <1>1, <2>1 DEF FreshInv, BarsOf
  <2>6. step' = "publish" => step = "publish" /\ Record' = Record
    <3> SUFFICES ASSUME step' = "publish" PROVE step = "publish" /\ Record' = Record
      OBVIOUS
    <3>1. step = "publish" /\ pos' = pos
      BY <2>2
    <3>2. pos \in 1..Len(log)
      BY <3>1, RecordOk
    <3> QED
      BY <3>1, <3>2, LogGrows DEF Record
  <2>7. step' = "publish" =>
           /\ fv'.offset = pos' /\ fv'.epoch = epoch'
           /\ fv'.fed = registry'[Record'.symbol].fed
           /\ \A v \in rows' \cup writing' :
                  v.epoch = epoch' /\ log'[v.offset].symbol = Record'.symbol
                      => Len(v.fed) < Len(fv'.fed)
    BY <1>1, <2>1, <2>2, <2>3, <2>6 DEF FreshInv
  <2>8. \A v \in rows' \cup writing' :
           v.epoch \in 0..epoch' /\ (v.epoch = epoch' => Len(v.fed) <= BarsOf(v)')
    BY <1>1, <2>1, <2>3, <2>5 DEF FreshInv
  <2> QED
    BY <2>4, <2>7, <2>8 DEF FreshInv
<1> QED
  BY <1>3, <1>4, <1>5, <1>6

(* Every variable of the engine keeps its type; in particular no vector    *)
(* that is about to be written to ClickHouse has been written before.      *)
THEOREM TypeCorrect == Spec => []TypeOK
<1>1. IInv /\ TypeInv /\ KnownInv /\ FreshInv => TypeOK
  <2> SUFFICES ASSUME IInv, TypeInv, KnownInv, FreshInv PROVE TypeOK
    OBVIOUS
  <2>1. registry \in [Symbols -> IndicatorStates]
    <3>1. registry \in [Symbols -> States]
      BY DEF IInv, StateInv
    <3>2. \A s \in Symbols : registry[s] \in IndicatorStates
      BY <3>1 DEF KnownInv, FedOk, States, IndicatorStates
    <3> QED
      BY <3>1, <3>2
  <2>2. \A p \in {topic[i] : i \in 1..Len(topic)} : p.vector.offset \in 1..Len(log)
    BY DEF KnownInv, VectorKnown
  <2> QED
    BY <2>1, <2>2 DEF TypeOK, IInv, PlaceInv, TypeInv, FreshInv, Steps
<1>2. Init => AckInv /\ FreshInv
  BY DEF Init, AckInv, FreshInv
<1> QED
  BY <1>1, <1>2, InitType, TypeStep, InitKnown, KnownStep, AckStep, FreshStep, EngineInvariant, PTL
     DEF Spec

------------------------------------------------------------------------------
(* What a repeated vector is charged to.                                   *)

Offsets == {topic[i].vector.offset : i \in 1..Len(topic)}
UpTo(S, n) == {o \in S : o <= n}

(* The last record of this round that will not be handled again in it. *)
Done == IF step \in {"handle", "publish"} THEN pos - 1 ELSE pos

(* A record may be handled again without a further error only if its       *)
(* offset is to be committed yet, or the process is to be started yet.     *)
Late == IF step \in {"commit", "down"} THEN 1 ELSE 0

ChargeInv ==
    /\ faults \in Nat
    /\ committed <= pos
    /\ step = "publish" => fv.offset = pos
    /\ Len(topic) <= Cardinality(UpTo(Offsets, Done)) + faults + epoch
    /\ committed # NoOffset =>
           Len(topic) <= Cardinality(UpTo(Offsets, committed)) + faults + epoch + Late

LEMMA UpToMonotone ==
    ASSUME NEW S, NEW T, IsFiniteSet(T), T \subseteq Nat, S \subseteq T,
           NEW m \in Int, NEW n \in Int, m <= n
    PROVE  /\ Cardinality(UpTo(S, m)) \in Nat /\ Cardinality(UpTo(T, n)) \in Nat
           /\ Cardinality(UpTo(S, m)) <= Cardinality(UpTo(T, n))
<1>1. UpTo(T, n) \in SUBSET T
  BY DEF UpTo
<1>2. IsFiniteSet(UpTo(T, n))
  BY <1>1, FS_Subset
<1>3. UpTo(S, m) \in SUBSET UpTo(T, n)
  <2> SUFFICES ASSUME NEW o \in UpTo(S, m) PROVE o \in UpTo(T, n)
    OBVIOUS
  <2>1. o \in T /\ o \in Nat /\ o <= m
    BY DEF UpTo
  <2>2. o <= n
    BY <2>1
  <2> QED
    BY <2>1, <2>2 DEF UpTo
<1> QED
  BY <1>2, <1>3, FS_Subset, FS_CardinalityType

LEMMA UpToNext ==
    ASSUME NEW S, IsFiniteSet(S), S \subseteq Nat, NEW k \in Nat
    PROVE  /\ Cardinality(UpTo(S, k - 1)) \in Nat /\ Cardinality(UpTo(S \cup {k}, k)) \in Nat
           /\ Cardinality(UpTo(S \cup {k}, k)) = Cardinality(UpTo(S, k - 1)) + 1
<1> DEFINE U == UpTo(S, k - 1)
<1>1. U \in SUBSET S
  BY DEF UpTo
<1>2. IsFiniteSet(U) /\ k \notin U
  <2>1. IsFiniteSet(U)
    BY <1>1, FS_Subset
  <2>2. k \notin U
    BY DEF UpTo
  <2> QED
    BY <2>1, <2>2
<1>3. UpTo(S \cup {k}, k) = U \cup {k}
  <2>1. \A o \in S : o \in Nat /\ (o <= k <=> o <= k - 1 \/ o = k)
    OBVIOUS
  <2>2. \A o : o \in UpTo(S \cup {k}, k) <=> (o \in S /\ o <= k) \/ o = k
    BY DEF UpTo
  <2>3. \A o : o \in U \cup {k} <=> (o \in S /\ o <= k - 1) \/ o = k
    BY DEF UpTo
  <2>4. \A o : o \in UpTo(S \cup {k}, k) <=> o \in U \cup {k}
    BY <2>1, <2>2, <2>3
  <2> QED
    BY <2>4
<1> HIDE DEF U
<1>4. Cardinality(U \cup {k}) = Cardinality(U) + 1 /\ IsFiniteSet(U \cup {k})
  BY <1>2, FS_AddElement
<1>5. Cardinality(U) \in Nat
  BY <1>2, FS_CardinalityType
<1>6. UpTo(S, k - 1) = U
  BY DEF U
<1>7. Cardinality(U) + 1 \in Nat
  BY <1>5
<1> QED
  BY <1>3, <1>4, <1>5, <1>6, <1>7, Zenon

LEMMA OffsetsType ==
    ASSUME IInv, KnownInv
    PROVE  IsFiniteSet(Offsets) /\ Offsets \subseteq 1..Len(log) /\ Offsets \subseteq Nat
<1>1. Len(log) \in Nat /\ Offsets \subseteq 1..Len(log)
  BY DEF KnownInv, VectorKnown, Offsets, IInv, PlaceInv
<1>2. IsFiniteSet(1..Len(log)) /\ Offsets \in SUBSET (1..Len(log))
  BY <1>1, FS_Interval
<1>3. IsFiniteSet(Offsets)
  BY <1>2, FS_Subset
<1>4. 1..Len(log) \subseteq Nat
  BY <1>1
<1> QED
  BY <1>1, <1>3, <1>4

LEMMA InitCharge == Init => ChargeInv
<1> SUFFICES ASSUME Init PROVE ChargeInv
  OBVIOUS
<1>1. faults = 0 /\ epoch = 0 /\ Len(topic) = 0 /\ committed = NoOffset /\ pos = 0 /\ step = "idle"
      /\ NoOffset = -1
  BY DEF Init, NoOffset
<1>2. Offsets = {}
  BY DEF Init, Offsets
<1>3. UpTo(Offsets, Done) = {}
  BY <1>2 DEF UpTo
<1>4. Cardinality(UpTo(Offsets, Done)) = 0
  BY <1>3, FS_EmptySet
<1> QED
  BY <1>1, <1>4 DEF ChargeInv

(* The topic as it is, or longer by a vector of the current record.        *)
LEMMA OffsetsGrow ==
    ASSUME IInv, ChargeInv, [Next]_vars
    PROVE  \/ topic' = topic /\ Offsets' = Offsets
           \/ /\ step = "publish" /\ Len(topic') = Len(topic) + 1
              /\ Offsets' = Offsets \cup {pos}
<1>1. /\ \/ topic' = topic
         \/ step = "publish" /\ \E a \in BOOLEAN : topic' = Append(topic, Publication(a))
      /\ topic \in Seq(Publications)
  BY TopicSteps
<1>2. CASE topic' = topic
  BY <1>2 DEF Offsets
<1>3. CASE step = "publish" /\ \E a \in BOOLEAN : topic' = Append(topic, Publication(a))
  <2>1. PICK a \in BOOLEAN : topic' = Append(topic, Publication(a))
    BY <1>3
  <2> DEFINE p == Publication(a)
  <2>2. p.vector.offset = pos
    BY <1>3 DEF ChargeInv, Publication
  <2>3. topic' = Append(topic, p)
    BY <2>1
  <2> HIDE DEF p
  <2>4. /\ Len(topic) \in Nat /\ Len(topic') = Len(topic) + 1
        /\ \A i \in 1..Len(topic) : topic'[i] = topic[i]
        /\ topic'[Len(topic) + 1] = p
    BY <1>1, <2>3
  <2>5. Offsets' = Offsets \cup {pos}
    BY <2>2, <2>4 DEF Offsets
  <2> QED
    BY <1>3, <2>4, <2>5
<1> QED
  BY <1>1, <1>2, <1>3

(* Each case of the step, over the numbers alone. *)
LEMMA ChargeStep == IInv /\ IInv' /\ KnownInv /\ KnownInv' /\ ChargeInv /\ [Next]_vars => ChargeInv'
<1> SUFFICES ASSUME IInv, IInv', KnownInv, KnownInv', ChargeInv, [Next]_vars PROVE ChargeInv'
  OBVIOUS
<1> DEFINE S == Offsets
           T == Offsets'
           C(X, n) == Cardinality(UpTo(X, n))
<1>1. IsFiniteSet(S) /\ S \subseteq Nat /\ IsFiniteSet(T) /\ T \subseteq Nat
  <2>1. IsFiniteSet(S) /\ S \subseteq Nat
    BY OffsetsType
  <2>2. pos \in Nat
    BY DEF IInv, PlaceInv
  <2>3. IsFiniteSet(S \cup {pos}) /\ S \cup {pos} \subseteq Nat
    BY <2>1, <2>2, FS_AddElement
  <2>4. T = S \/ T = S \cup {pos}
    BY OffsetsGrow
  <2> QED
    BY <2>1, <2>3, <2>4
<1>2. /\ pos \in Nat /\ epoch \in Nat /\ faults \in Nat /\ committed \in Int /\ Len(log) \in Nat
      /\ pos <= Len(log) /\ committed <= pos
      /\ FirstFetch = IF committed = NoOffset THEN Len(log) ELSE committed
      /\ Len(topic) \in Nat /\ NoOffset = -1
  BY TopicSteps DEF IInv, PlaceInv, ChargeInv, NoOffset, FirstFetch
<1>3. /\ Len(topic) <= C(S, Done) + faults + epoch
      /\ committed # NoOffset => Len(topic) <= C(S, committed) + faults + epoch + Late
  BY DEF ChargeInv
<1>4. S \subseteq T /\ Done \in Int /\ Late \in {0, 1}
  BY <1>2, OffsetsGrow DEF Done, Late
<1>5. \A m, n \in Int : m <= n =>
          /\ C(S, m) \in Nat /\ C(T, n) \in Nat /\ C(S, n) \in Nat
          /\ C(S, m) <= C(T, n) /\ C(S, m) <= C(S, n)
  BY <1>1, <1>4, UpToMonotone
<1>5a. /\ C(S, committed) \in Nat /\ C(T, committed) \in Nat
      /\ C(S, committed) <= C(T, committed)
  <2>1. committed \in Int /\ committed <= committed
    BY <1>2
  <2> QED
    BY <1>1, <1>4, <2>1, UpToMonotone
<1>6. Len(topic') = Len(topic) + 1 => C(T, pos) = C(S, pos - 1) + 1 /\ step = "publish"
  <2>1. S \subseteq Nat /\ IsFiniteSet(S)
    BY <1>1
  <2> SUFFICES ASSUME Len(topic') = Len(topic) + 1 PROVE C(T, pos) = C(S, pos - 1) + 1 /\ step = "publish"
    OBVIOUS
  <2>2. T = S \cup {pos} /\ step = "publish"
    BY <1>2, OffsetsGrow
  <2> QED
    BY <1>2, <2>1, <2>2, UpToNext
<1>7. topic' = topic => T = S
  BY DEF Offsets
<1> HIDE DEF C, S, T
<1>8. step' = "publish" => fv'.offset = pos'
  <2>1. CASE UpdateIndicators
    BY <2>1, UpdateFed DEF UpdateIndicators, consumerVars
  <2>2. CASE ~UpdateIndicators
    <3>1. step' # "publish" \/ (step = "publish" /\ UNCHANGED <<fv, pos>>)
      BY <2>2 DEF Next, vars, Run, Handle, Process, Tasks, stateVars, consumerVars, Produce, Tick,
           Poll, SkipRecord, SkipThrottled, PublishOk, Resend, PublishFailed, CommitOffset, CommitLost,
           InsertRow, InsertFails, Rejoin, Crash, Restart
    <3> QED
      BY <3>1 DEF ChargeInv
  <2> QED
    BY <2>1, <2>2
<1> SUFFICES /\ faults' \in Nat /\ committed' <= pos'
             /\ Len(topic') <= C(T, Done') + faults' + epoch'
             /\ committed' # NoOffset => Len(topic') <= C(T, committed') + faults' + epoch' + Late'
  BY <1>8 DEF ChargeInv, C, T
<1>9. CASE PublishOk
  <2>1. /\ topic' = Append(topic, Publication(TRUE)) /\ UNCHANGED <<faults, epoch, pos, committed>>
        /\ step = "publish" /\ step' = "commit"
    BY <1>9 DEF PublishOk, consumerVars
  <2>2. Len(topic') = Len(topic) + 1
    BY <2>1, TopicSteps
  <2>3. Done = pos - 1 /\ Done' = pos /\ Late' = 1 /\ Late = 0
    BY <2>1 DEF Done, Late
  <2>4. C(T, pos) = C(S, pos - 1) + 1 /\ C(S, pos - 1) \in Nat
    BY <1>2, <1>5, <1>6, <2>2
  <2>5. Len(topic') <= C(T, Done') + faults' + epoch'
    BY <1>2, <1>3, <2>1, <2>2, <2>3, <2>4
  <2>6. committed # NoOffset => Len(topic') <= C(T, committed') + faults' + epoch' + Late'
    BY <1>2, <1>3, <1>5a, <2>1, <2>2, <2>3
  <2> QED
    BY <1>2, <2>1, <2>5, <2>6
<1>10. CASE PublishFailed
  <2>1. /\ UNCHANGED <<epoch, pos, committed>> /\ faults' = faults + 1
        /\ step = "publish" /\ step' \in {"handle", "commit"}
    BY <1>10 DEF PublishFailed, Fault
  <2>2. Len(topic') \in {Len(topic), Len(topic) + 1}
    BY <1>2, OffsetsGrow
  <2>3. Done = pos - 1 /\ Done' \in {pos - 1, pos} /\ Late' \in {0, 1} /\ Late = 0
    BY <2>1 DEF Done, Late
  <2>4. C(S, pos - 1) <= C(T, Done') /\ C(S, pos - 1) \in Nat /\ C(T, Done') \in Nat
    <3>1. pos - 1 \in Int /\ Done' \in Int /\ pos - 1 <= Done'
      BY <1>2, <2>3
    <3> QED
      BY <1>5, <3>1
  <2>5. Len(topic') <= C(T, Done') + faults' + epoch'
    BY <1>2, <1>3, <2>1, <2>2, <2>3, <2>4
  <2>6. ASSUME committed # NoOffset
        PROVE  Len(topic') <= C(T, committed') + faults' + epoch' + Late'
    <3>1. Len(topic) <= C(S, committed) + faults + epoch
      BY <1>2, <1>3, <1>5a, <2>3, <2>6
    <3>2. Len(topic') <= C(T, committed) + (faults + 1) + epoch
      BY <1>2, <1>5a, <2>2, <3>1
    <3> QED
      BY <1>2, <1>5a, <2>1, <2>3, <3>2
  <2> QED
    BY <1>2, <2>1, <2>5, <2>6
<1>11. CASE CommitOffset
  <2>1. /\ UNCHANGED <<epoch, pos, faults, topic>> /\ committed' = pos
        /\ step = "commit" /\ step' = "idle"
    BY <1>11 DEF CommitOffset, consumerVars, outVars
  <2>2. Done = pos /\ Done' = pos /\ Late' = 0 /\ T = S
    BY <1>7, <2>1 DEF Done, Late
  <2>3. C(S, pos) \in Nat
    BY <1>2, <1>5
  <2> QED
    BY <1>2, <1>3, <2>1, <2>2, <2>3
<1>12. CASE Restart \/ Rejoin
  <2>1. /\ UNCHANGED <<topic, committed>> /\ pos' = FirstFetch /\ step' = "idle"
        /\ \/ epoch' = epoch + 1 /\ faults' = faults
           \/ epoch' = epoch /\ faults' = faults + 1 /\ step = "idle"
    BY <1>12 DEF Restart, Rejoin, outVars, Fault
  <2>2. Done' = FirstFetch /\ Late' = 0 /\ T = S /\ (step = "idle" => Late = 0)
    BY <1>7, <2>1 DEF Done, Late
  <2>3. CASE committed = NoOffset
    <3>1. Done <= Len(log)
      BY <1>2 DEF Done
    <3>2. C(S, Done) <= C(S, Len(log)) /\ C(S, Len(log)) \in Nat /\ C(S, Done) \in Nat
      BY <1>2, <1>4, <1>5, <3>1
    <3> QED
      BY <1>2, <1>3, <2>1, <2>2, <2>3, <3>2
  <2>4. CASE committed # NoOffset
    <3>2. FirstFetch = committed
      BY <1>2, <2>4
    <3>3. Len(topic') <= C(S, committed) + faults' + epoch'
      BY <1>2, <1>3, <1>4, <1>5a, <2>1, <2>2, <2>4
    <3>4. C(T, Done') = C(S, committed) /\ C(T, committed') = C(S, committed)
      BY <2>1, <2>2, <3>2
    <3>5. Len(topic') <= C(T, Done') + faults' + epoch'
      BY <3>3, <3>4
    <3>6. Len(topic') <= C(T, committed') + faults' + epoch' + Late'
      BY <1>2, <1>5a, <2>1, <2>2, <3>3, <3>4
    <3> QED
      BY <1>2, <2>1, <3>2, <3>5, <3>6
  <2> QED
    BY <2>3, <2>4
<1>13. CASE Poll
  <2>1. /\ UNCHANGED <<topic, committed, epoch, faults>> /\ pos' = pos + 1 /\ step = "idle"
        /\ step' = "handle"
    BY <1>13 DEF Poll, outVars
  <2>2. Done' = pos /\ Done = pos /\ Late' = 0 /\ Late = 0 /\ T = S
    BY <1>2, <1>7, <2>1 DEF Done, Late
  <2> QED
    BY <1>2, <1>3, <2>1, <2>2
<1>14. CASE Resend
  <2>1. /\ UNCHANGED <<epoch, pos, committed>> /\ faults' = faults + 1
        /\ step = "publish" /\ step' = "publish"
    BY <1>14 DEF Resend, Fault, consumerVars
  <2>2. Len(topic') \in {Len(topic), Len(topic) + 1}
    BY <1>2, OffsetsGrow
  <2>3. Done = pos - 1 /\ Done' = Done /\ Late' = 0 /\ Late = 0
    BY <2>1 DEF Done, Late
  <2>4. C(S, Done) <= C(T, Done) /\ C(S, Done) \in Nat /\ C(T, Done) \in Nat
    <3>1. Done \in Int /\ Done <= Done
      BY <1>4
    <3> QED
      BY <1>5, <3>1
  <2>5. Len(topic') <= C(T, Done') + faults' + epoch'
    BY <1>2, <1>3, <2>1, <2>2, <2>3, <2>4
  <2>6. ASSUME committed # NoOffset
        PROVE  Len(topic') <= C(T, committed') + faults' + epoch' + Late'
    <3>1. Len(topic) <= C(S, committed) + faults + epoch
      BY <1>2, <1>3, <1>5a, <2>3, <2>6
    <3>2. Len(topic') <= C(T, committed) + (faults + 1) + epoch
      BY <1>2, <1>5a, <2>2, <3>1
    <3> QED
      BY <1>2, <1>5a, <2>1, <2>3, <3>2
  <2> QED
    BY <1>2, <2>1, <2>5, <2>6
<1>15. CASE ~(PublishOk \/ Resend \/ PublishFailed \/ CommitOffset \/ Restart \/ Rejoin \/ Poll)
  <2>1. /\ UNCHANGED <<topic, committed, epoch, pos>> /\ (faults' = faults \/ faults' = faults + 1)
        /\ \/ step' = step
           \/ step = "handle" /\ step' \in {"publish", "commit"}
           \/ step = "commit" /\ step' = "idle" /\ faults' = faults + 1
           \/ step' = "down"
    BY <1>15 DEF Next, vars, Run, Handle, Process, Tasks, consumerVars, outVars, Produce, Tick,
         SkipRecord, SkipThrottled, UpdateIndicators, CommitLost, InsertRow, InsertFails, Crash, Fault
  <2>2. T = S /\ Done <= Done' /\ Done' \in Int
    BY <1>2, <1>7, <2>1 DEF Done
  <2>3. /\ Late' \in {0, 1}
        /\ \/ Late <= Late'
           \/ Late = 1 /\ faults' = faults + 1
    BY <2>1 DEF Late
  <2>4. C(S, Done) <= C(S, Done') /\ C(S, Done) \in Nat /\ C(S, Done') \in Nat
    BY <1>4, <1>5, <2>2
  <2>5. Len(topic') <= C(T, Done') + faults' + epoch'
    BY <1>2, <1>3, <2>1, <2>2, <2>4
  <2>6. committed # NoOffset => Len(topic') <= C(T, committed') + faults' + epoch' + Late'
    BY <1>2, <1>3, <1>4, <1>5a, <2>1, <2>2, <2>3
  <2> QED
    BY <1>2, <2>1, <2>5, <2>6
<1> QED
  BY <1>9, <1>10, <1>11, <1>12, <1>13, <1>14, <1>15

(* Each vector more than one for a record takes a fault of its own - a     *)
(* failed call, a rewind, an acknowledgement lost inside a send - or a     *)
(* crash, and ClickHouse has no vector that Kafka has not acknowledged.    *)
THEOREM VectorsCharged == Spec => []VectorsAreCharged
<1>1. IInv /\ KnownInv /\ AckInv /\ ChargeInv => VectorsAreCharged
  <2> SUFFICES ASSUME IInv, KnownInv, AckInv, ChargeInv PROVE VectorsAreCharged
    OBVIOUS
  <2>1. Cardinality(UpTo(Offsets, Done)) <= Cardinality(Offsets)
        /\ Cardinality(UpTo(Offsets, Done)) \in Nat /\ Cardinality(Offsets) \in Nat
    <3>1. UpTo(Offsets, Done) \in SUBSET Offsets
      BY DEF UpTo
    <3> QED
      BY <3>1, OffsetsType, FS_Subset, FS_CardinalityType
  <2>2. Len(topic) <= Cardinality(UpTo(Offsets, Done)) + faults + epoch
    BY DEF ChargeInv
  <2>3. faults \in Nat /\ epoch \in Nat /\ Len(topic) \in Nat
    BY DEF ChargeInv, IInv, PlaceInv, VectorInv
  <2>4. Len(topic) <= Cardinality(Offsets) + faults + epoch
    BY <2>1, <2>2, <2>3
  <2> QED
    BY <2>4 DEF VectorsAreCharged, AckInv, Acked, Offsets
<1>2. Init => AckInv
  BY DEF Init, AckInv
<1> QED
  BY <1>1, <1>2, InitKnown, KnownStep, AckStep, InitCharge, ChargeStep, EngineInvariant, PTL DEF Spec
=============================================================================
