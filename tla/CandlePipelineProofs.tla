------------------------ MODULE CandlePipelineProofs ------------------------
(***************************************************************************)
(* Theorems about CandlePipeline, for every number of workers and candles, *)
(* all capacities and every value of the bounds.                           *)
(***************************************************************************)
EXTENDS CandlePipeline, FiniteSetTheorems, SequenceTheorems, TLAPS

(* The sink: a batch under way is not empty and one being collected not    *)
(* full; the workers are counted from their connection to its end.         *)
Counted == {w \in Workers : conn[w] # "down"}

SinkInv ==
    /\ sink = "recv" => Len(batch) < BatchSize
    /\ sink = "insert" => Len(batch) > 0
    /\ sink # "send" => sent = 0
    /\ connected = Cardinality(Counted)
    /\ ~up => \A w \in Workers : conn[w] = "down"

(* The cache holds the last candles the worker accepted, and all of this   *)
(* incarnation as long as it is not full.                                  *)
Acceptances == [c : Candles, epoch : Nat]

Tracks(s, a) ==
    /\ Len(s) <= Len(a)
    /\ \A i \in 1..Len(s) : s[i] = a[Len(a) - Len(s) + i].c

Remembers(s, a, e) ==
    Len(s) < DedupeCapacity => \A j \in 1..(Len(a) - Len(s)) : a[j].epoch # e

NotAfter(a, e) == \A j \in 1..Len(a) : a[j].epoch <= e

Apart(a) ==
    \A i, j \in 1..Len(a) :
        i < j /\ a[i].c = a[j].c => a[i].epoch # a[j].epoch \/ j - i > DedupeCapacity

CacheInv ==
    \A w \in Workers :
        /\ Tracks(seen[w], accepted[w])
        /\ NotAfter(accepted[w], epoch)
        /\ up => Remembers(seen[w], accepted[w], epoch)

(* Topic, rest of the batch, channel and the worker's own hand follow each *)
(* other in the order of acceptance; only what is being sent may be on the *)
(* topic already, by an attempt whose acknowledgement was lost.            *)
Before(x, y) == x[1] = y[1] => x[2] < y[2]
Upto(x, y)   == x[1] = y[1] => x[2] <= y[2]

OrderInv ==
    /\ \A p, q \in 1..Len(topic) : p < q => Upto(topic[p], topic[q])
    /\ \A p, q \in 1..Len(batch) : p < q => Before(batch[p], batch[q])
    /\ \A p, q \in 1..Len(channel) : p < q => Before(channel[p], channel[q])
    /\ \A p \in 1..Len(topic), q \in (sent + 1)..Len(batch) :
           /\ Upto(topic[p], batch[q])
           /\ (sink = "send" /\ q = sent + 1) \/ Before(topic[p], batch[q])
    /\ \A p \in 1..Len(topic), q \in 1..Len(channel) : Before(topic[p], channel[q])
    /\ \A p \in 1..Len(batch), q \in 1..Len(channel) : Before(batch[p], channel[q])

(* Only what was accepted is on its way, and what a worker is sending is   *)
(* not yet.                                                                *)
Accepted(x, a, cn) ==
    /\ x[1] \in Workers
    /\ x[2] <= Len(a[x[1]])
    /\ cn[x[1]] = "sending" => x[2] < Len(a[x[1]])

WayInv ==
    /\ \A p \in 1..Len(topic) : Accepted(topic[p], accepted, conn)
    /\ \A p \in 1..Len(batch) : Accepted(batch[p], accepted, conn)
    /\ \A p \in 1..Len(channel) : Accepted(channel[p], accepted, conn)
    /\ \A w \in Workers : conn[w] = "sending" => Len(accepted[w]) > 0

(* A batch being sent is in the table, its sent part on the topic.         *)
BatchInv ==
    sink = "send" => /\ Range(batch) \subseteq Range(rows)
                     /\ \A p \in 1..sent : batch[p] \in Range(topic)

IInv == /\ TypeOK
        /\ SinkInv
        /\ CacheInv
        /\ AcceptedOncePerWindow
        /\ OrderInv
        /\ WayInv
        /\ BatchInv
        /\ AcceptedIsKept


------------------------------------------------------------------------------
(* Sequences.                                                              *)

LEMMA RangeSet ==
    ASSUME NEW S, NEW s \in Seq(S)
    PROVE  Range(s) = {s[i] : i \in 1..Len(s)}
<1>1. DOMAIN s = 1..Len(s)
  OBVIOUS
<1> QED
  BY <1>1 DEF Range

LEMMA RangeAppend ==
    ASSUME NEW S, NEW s \in Seq(S), NEW x \in S
    PROVE  Range(Append(s, x)) = Range(s) \cup {x}
<1>1. Len(Append(s, x)) = Len(s) + 1 /\ Append(s, x)[Len(s) + 1] = x
  OBVIOUS
<1>2. \A i \in 1..Len(s) : Append(s, x)[i] = s[i]
  OBVIOUS
<1> QED
  BY <1>1, <1>2 DEF Range

LEMMA RangeTail ==
    ASSUME NEW S, NEW s \in Seq(S), s # <<>>
    PROVE  Range(s) = {Head(s)} \cup Range(Tail(s))
<1>1. Len(Tail(s)) = Len(s) - 1 /\ Head(s) = s[1] /\ Len(s) \in Nat \ {0}
  OBVIOUS
<1>2. \A i \in 1..Len(Tail(s)) : Tail(s)[i] = s[i + 1]
  BY HeadTailProperties
<1>3. \A i \in 1..Len(s) : i = 1 \/ (i - 1 \in 1..Len(Tail(s)) /\ Tail(s)[i - 1] = s[i])
  BY <1>1, <1>2
<1>4. Tail(s) \in Seq(S)
  OBVIOUS
<1>5. Range(s) = {s[i] : i \in 1..Len(s)} /\ Range(Tail(s)) = {Tail(s)[i] : i \in 1..Len(Tail(s))}
  BY <1>4, RangeSet
<1>6. ASSUME NEW x \in Range(s) PROVE x = Head(s) \/ x \in Range(Tail(s))
  <2>1. PICK i \in 1..Len(s) : x = s[i]
    BY <1>5, <1>6
  <2>2. CASE i = 1
    BY <2>1, <2>2, <1>1
  <2>3. CASE i # 1
    <3>1. i - 1 \in 1..Len(Tail(s)) /\ Tail(s)[i - 1] = x
      BY <2>1, <2>3, <1>3
    <3> QED
      BY <3>1, <1>5
  <2> QED
    BY <2>2, <2>3
<1>7. ASSUME NEW x \in Range(Tail(s)) PROVE x \in Range(s)
  <2>1. PICK i \in 1..Len(Tail(s)) : x = Tail(s)[i]
    BY <1>5, <1>7
  <2> QED
    BY <2>1, <1>1, <1>2, <1>5
<1>8. Head(s) \in Range(s)
  BY <1>1, <1>5
<1> QED
  BY <1>6, <1>7, <1>8

LEMMA RangeConcat ==
    ASSUME NEW S, NEW s \in Seq(S), NEW t \in Seq(S)
    PROVE  Range(s \o t) = Range(s) \cup Range(t)
<1>1. Len(s \o t) = Len(s) + Len(t) /\ Len(s) \in Nat /\ Len(t) \in Nat /\ s \o t \in Seq(S)
  OBVIOUS
<1>2. \A i \in 1..Len(s) : (s \o t)[i] = s[i]
  BY ConcatProperties, <1>1
<1>3. \A i \in 1..Len(t) : (s \o t)[Len(s) + i] = t[i]
  BY ConcatProperties, <1>1
<1>4. \A i \in 1..Len(s \o t) : (i \in 1..Len(s)) \/ (i - Len(s) \in 1..Len(t) /\ (s \o t)[i] = t[i - Len(s)])
  BY ConcatProperties, <1>1
<1>5. /\ Range(s) = {s[i] : i \in 1..Len(s)}
      /\ Range(t) = {t[i] : i \in 1..Len(t)}
      /\ Range(s \o t) = {(s \o t)[i] : i \in 1..Len(s \o t)}
  BY <1>1 DEF Range
<1>6. ASSUME NEW x \in Range(s \o t) PROVE x \in Range(s) \cup Range(t)
  <2>1. PICK i \in 1..Len(s \o t) : x = (s \o t)[i]
    BY <1>5, <1>6
  <2> QED
    BY <2>1, <1>2, <1>4, <1>5
<1>7. ASSUME NEW x \in Range(t) PROVE x \in Range(s \o t)
  <2>1. PICK i \in 1..Len(t) : x = t[i]
    BY <1>5, <1>7
  <2>2. Len(s) + i \in 1..Len(s \o t)
    BY <1>1
  <2> QED
    BY <2>1, <2>2, <1>3, <1>5
<1>8. ASSUME NEW x \in Range(s) PROVE x \in Range(s \o t)
  <2>1. PICK i \in 1..Len(s) : x = s[i]
    BY <1>5, <1>8
  <2>2. i \in 1..Len(s \o t)
    BY <1>1
  <2> QED
    BY <2>1, <2>2, <1>2, <1>5
<1> QED
  BY <1>6, <1>7, <1>8

------------------------------------------------------------------------------
(* What a step leaves alone stays true.                                    *)

LEMMA BeforeUpto ==
    ASSUME NEW x \in Items, NEW y \in Items, Before(x, y)
    PROVE  Upto(x, y)
BY DEF Before, Upto, Items

LEMMA CacheKept ==
    ASSUME CacheInv, AcceptedOncePerWindow, UNCHANGED <<seen, accepted, epoch, up>>
    PROVE  CacheInv' /\ AcceptedOncePerWindow'
BY DEF CacheInv, AcceptedOncePerWindow

LEMMA OrderKept ==
    ASSUME OrderInv, UNCHANGED <<topic, batch, channel, sent>>, sink = "send" => sink' = "send"
    PROVE  OrderInv'
BY DEF OrderInv, Before, Upto

LEMMA WayKept ==
    ASSUME WayInv, UNCHANGED <<topic, batch, channel, accepted>>,
           \A w \in Workers : conn'[w] = "sending" => conn[w] = "sending"
    PROVE  WayInv'
BY DEF WayInv, Accepted

LEMMA BatchKept ==
    ASSUME BatchInv, UNCHANGED <<batch, rows, sent, topic>>,
           sink' = "send" => sink = "send"
    PROVE  BatchInv'
BY DEF BatchInv

LEMMA KeptKept ==
    ASSUME AcceptedIsKept, UNCHANGED <<up, accepted, epoch, channel, batch, rows, topic>>,
           sink' # "ended" => sink # "ended",
           \A w \in Workers : conn'[w] = "sending" <=> conn[w] = "sending"
    PROVE  AcceptedIsKept'
BY DEF AcceptedIsKept, InFlight, Item

LEMMA CountKept ==
    ASSUME conn \in [Workers -> {"down", "open", "sending", "gone"}],
           conn' \in [Workers -> {"down", "open", "sending", "gone"}],
           \A w \in Workers : conn'[w] = "down" <=> conn[w] = "down"
    PROVE  Counted' = Counted
BY DEF Counted

LEMMA CountedFinite == IsFiniteSet(Counted) /\ Cardinality(Counted) \in Nat
<1>1. IsFiniteSet(Counted)
  BY FS_Subset, PipelineAssumption DEF Counted
<1> QED
  BY <1>1, FS_CardinalityType

------------------------------------------------------------------------------
THEOREM InitIInv == Init => IInv
<1> SUFFICES ASSUME Init PROVE IInv
  OBVIOUS
<1> USE PipelineAssumption
<1>1. up \in BOOLEAN /\ ready \in BOOLEAN /\ spawned \in BOOLEAN
  BY DEF Init
<1>2. TypeOK
  BY <1>1 DEF Init, TypeOK
<1>3. Counted = {}
  BY DEF Init, Counted
<1>4. SinkInv
  BY <1>3, FS_EmptySet DEF Init, SinkInv
<1>5. CacheInv /\ AcceptedOncePerWindow
  BY DEF Init, CacheInv, Tracks, Remembers, NotAfter, AcceptedOncePerWindow
<1>6. OrderInv /\ WayInv /\ BatchInv
  BY DEF Init, OrderInv, WayInv, BatchInv
<1>7. AcceptedIsKept
  BY DEF Init, AcceptedIsKept
<1> QED
  BY <1>2, <1>4, <1>5, <1>6, <1>7 DEF IInv

(* Steps that touch only the sockets. *)
LEMMA SocketStep ==
    ASSUME IInv, closed' \subseteq Candles, repeats' \in Nat, inbox' \in [Workers -> Seq(Messages)],
           UNCHANGED <<faults, procVars, conn, seen, accepted, connected, sinkVars, readyVars, outVars>>
    PROVE  IInv'
<1> USE DEF procVars, sinkVars, readyVars, outVars
<1>1. up' \in BOOLEAN /\ ready' \in BOOLEAN /\ spawned' \in BOOLEAN
  BY DEF IInv, TypeOK
<1>2. TypeOK'
  BY <1>1 DEF IInv, TypeOK
<1>3. SinkInv'
  <2>1. Counted' = Counted
    BY DEF Counted
  <2> QED
    BY <2>1 DEF IInv, SinkInv
<1>4. CacheInv' /\ AcceptedOncePerWindow'
  BY CacheKept DEF IInv
<1>5. OrderInv' /\ WayInv' /\ BatchInv' /\ AcceptedIsKept'
  BY OrderKept, WayKept, BatchKept, KeptKept DEF IInv
<1> QED
  BY <1>2, <1>3, <1>4, <1>5 DEF IInv

LEMMA FeedStep == IInv /\ Feed => IInv'
<1> SUFFICES ASSUME IInv, NEW c \in Candles, NEW valid \in BOOLEAN, Repeat(c) \/ Close(c, valid)
             PROVE  IInv'
  BY DEF Feed
<1>1. Owner[c] \in Workers /\ inbox[Owner[c]] \in Seq(Messages)
  BY PipelineAssumption DEF IInv, TypeOK
<1>2. /\ Append(inbox[Owner[c]], [c |-> c, valid |-> TRUE]) \in Seq(Messages)
      /\ Append(inbox[Owner[c]], [c |-> c, valid |-> valid]) \in Seq(Messages)
  BY <1>1 DEF Messages
<1>3. inbox' \in [Workers -> Seq(Messages)]
  BY <1>1, <1>2 DEF Repeat, Close, IInv, TypeOK
<1>4. closed' \subseteq Candles /\ repeats' \in Nat
  BY DEF Repeat, Close, IInv, TypeOK
<1> QED
  BY <1>3, <1>4, SocketStep DEF Repeat, Close

LEMMA SkipStep ==
    ASSUME IInv, NEW w \in Workers, SkipMessage(w)
    PROVE  IInv'
<1>1. Tail(inbox[w]) \in Seq(Messages)
  BY DEF IInv, TypeOK, SkipMessage
<1>2. inbox' \in [Workers -> Seq(Messages)]
  BY <1>1 DEF IInv, TypeOK, SkipMessage
<1>3. closed' \subseteq Candles /\ repeats' \in Nat
  BY DEF IInv, TypeOK, SkipMessage, feedVars
<1> QED
  BY <1>2, <1>3, SocketStep DEF SkipMessage

(* A connection is made or lost. *)
LEMMA ConnectionStep ==
    ASSUME IInv, NEW w \in Workers, Connect(w) \/ Disconnect(w)
    PROVE  IInv'
<1> USE DEF feedVars, procVars, sinkVars, readyVars, outVars
<1>1. up' \in BOOLEAN /\ ready' \in BOOLEAN /\ spawned' \in BOOLEAN
  BY DEF IInv, TypeOK, Connect, Disconnect
<1>2. conn' \in [Workers -> {"down", "open", "sending", "gone"}] /\ inbox' \in [Workers -> Seq(Messages)]
  <2>1. conn \in [Workers -> {"down", "open", "sending", "gone"}] /\ inbox \in [Workers -> Seq(Messages)]
    BY DEF IInv, TypeOK
  <2>2. conn' = [conn EXCEPT ![w] = "open"] \/ conn' = [conn EXCEPT ![w] = "down"]
    BY DEF Connect, Disconnect
  <2>3. inbox' = inbox \/ inbox' = [inbox EXCEPT ![w] = <<>>]
    BY DEF Connect, Disconnect
  <2>4. <<>> \in Seq(Messages)
    OBVIOUS
  <2>5. conn' \in [Workers -> {"down", "open", "sending", "gone"}]
    BY <2>1, <2>2
  <2>6. inbox' \in [Workers -> Seq(Messages)]
    BY <2>1, <2>3, <2>4
  <2> QED
    BY <2>5, <2>6
<1>3. faults' \in Nat
  BY DEF IInv, TypeOK, Connect, Disconnect, Fault
<1>4. connected \in Nat /\ connected = Cardinality(Counted)
  BY DEF IInv, TypeOK, SinkInv
<1>5. connected' \in Nat /\ connected' = Cardinality(Counted')
  <2>1. CASE Connect(w)
    <3>1. Counted' = Counted \cup {w} /\ w \notin Counted
      BY <2>1 DEF Connect, Counted, IInv, TypeOK
    <3>2. Cardinality(Counted') = Cardinality(Counted) + 1
      BY <3>1, CountedFinite, FS_AddElement
    <3> QED
      BY <2>1, <3>2, <1>4 DEF Connect
  <2>2. CASE Disconnect(w)
    <3>1. Counted' = Counted \ {w} /\ w \in Counted
      BY <2>2 DEF Disconnect, Counted, IInv, TypeOK
    <3>2. Cardinality(Counted') = Cardinality(Counted) - 1 /\ IsFiniteSet(Counted')
      BY <3>1, CountedFinite, FS_RemoveElement
    <3>3. Cardinality(Counted') \in Nat
      BY <3>2, FS_CardinalityType
    <3> QED
      BY <2>2, <3>2, <3>3, <1>4 DEF Disconnect
  <2> QED
    BY <2>1, <2>2
<1>6. TypeOK'
  BY <1>1, <1>2, <1>3, <1>5 DEF IInv, TypeOK, Connect, Disconnect
<1>7. SinkInv'
  BY <1>5 DEF IInv, TypeOK, SinkInv, Connect, Disconnect
<1>8. \A v \in Workers : conn'[v] = "sending" <=> conn[v] = "sending"
  BY DEF IInv, TypeOK, Connect, Disconnect
<1>9. CacheInv' /\ AcceptedOncePerWindow' /\ OrderInv' /\ BatchInv'
  BY CacheKept, OrderKept, BatchKept DEF IInv, Connect, Disconnect
<1>10. WayInv' /\ AcceptedIsKept'
  BY <1>8, WayKept, KeptKept DEF IInv, Connect, Disconnect
<1> QED
  BY <1>6, <1>7, <1>9, <1>10 DEF IInv

(* The tickers, and the flag of readiness. *)
LEMMA TickStep ==
    ASSUME IInv, FlushTick \/ EmptyTick \/ MarkReady
    PROVE  IInv'
<1> USE DEF feedVars, procVars, workerVars, sinkVars, readyVars, outVars
<1>1. up' \in BOOLEAN /\ ready' \in BOOLEAN /\ spawned' \in BOOLEAN
  <2>1. (connected > 0) \in BOOLEAN
    OBVIOUS
  <2> QED
    BY <2>1 DEF IInv, TypeOK, FlushTick, EmptyTick, MarkReady, RefreshReadiness
<1>2. sink' = sink \/ (sink = "recv" /\ sink' = "insert" /\ batch # <<>>)
  BY DEF FlushTick, EmptyTick, MarkReady
<1>3. UNCHANGED <<feedVars, faults, procVars, workerVars, channel, batch, sent, outVars>>
  BY DEF FlushTick, EmptyTick, MarkReady
<1>4. TypeOK'
  BY <1>1, <1>2, <1>3 DEF IInv, TypeOK
<1>5. SinkInv'
  <2>1. Counted' = Counted
    BY <1>3 DEF Counted
  <2>2. batch # <<>> => Len(batch) > 0
    BY DEF IInv, TypeOK
  <2> QED
    BY <2>1, <2>2, <1>2, <1>3 DEF IInv, SinkInv
<1>6. CacheInv' /\ AcceptedOncePerWindow' /\ OrderInv' /\ WayInv'
  BY <1>2, <1>3, CacheKept, OrderKept, WayKept DEF IInv
<1>7. BatchInv' /\ AcceptedIsKept'
  BY <1>2, <1>3, BatchKept, KeptKept DEF IInv
<1> QED
  BY <1>4, <1>5, <1>6, <1>7 DEF IInv

(* A new candle: the cache either still holds every candle of this         *)
(* incarnation, or is full.                                                *)
LEMMA InsertTracks ==
    ASSUME NEW s \in Seq(Candles), NEW a \in Seq(Acceptances), NEW x \in Acceptances,
           Len(s) <= DedupeCapacity, Tracks(s, a)
    PROVE  /\ Insert(s, x.c) \in Seq(Candles)
           /\ Len(Insert(s, x.c)) = IF Len(s) < DedupeCapacity THEN Len(s) + 1 ELSE Len(s)
           /\ Len(s) <= Len(a) /\ Len(a) \in Nat /\ Len(s) \in Nat
           /\ Tracks(Insert(s, x.c), Append(a, x))
<1> DEFINE k == Len(s)
           n == Len(a)
           b == Append(a, x)
<1>1. k \in Nat /\ n \in Nat /\ k <= n /\ k <= DedupeCapacity /\ DedupeCapacity \in Nat \ {0} /\ x.c \in Candles
  BY PipelineAssumption DEF Tracks, Acceptances
<1>2. Len(b) = n + 1 /\ b[n + 1] = x /\ \A i \in 1..n : b[i] = a[i]
  OBVIOUS
<1>3. \A i \in 1..k : s[i] = a[n - k + i].c
  BY DEF Tracks
<1>4. CASE k < DedupeCapacity
  <2> DEFINE t == Append(s, x.c)
  <2>1. Insert(s, x.c) = t
    BY <1>4 DEF Insert
  <2>2. t \in Seq(Candles) /\ Len(t) = k + 1 /\ t[k + 1] = x.c /\ \A i \in 1..k : t[i] = s[i]
    BY <1>1
  <2> HIDE DEF t, k, n, b
  <2>3. ASSUME NEW i \in 1..(k + 1) PROVE t[i] = b[(n + 1) - (k + 1) + i].c
    <3>1. CASE i = k + 1
      <4>1. (n + 1) - (k + 1) + i = n + 1
        BY <3>1, <1>1
      <4> QED
        BY <4>1, <3>1, <1>2, <2>2
    <3>2. CASE i # k + 1
      <4>1. i \in 1..k /\ (n + 1) - (k + 1) + i = n - k + i /\ n - k + i \in 1..n
        BY <3>2, <1>1
      <4> QED
        BY <4>1, <1>2, <1>3, <2>2
    <3> QED
      BY <3>1, <3>2
  <2>4. Tracks(t, b)
    BY <2>2, <2>3, <1>1, <1>2 DEF Tracks
  <2> QED
    BY <2>1, <2>2, <2>4, <1>1, <1>4 DEF k, n, b
<1>5. CASE ~(k < DedupeCapacity)
  <2> DEFINE r == Tail(s)
             t == Append(r, x.c)
  <2>1. Insert(s, x.c) = t
    BY <1>5 DEF Insert
  <2>2. k > 0 /\ s # <<>>
    BY <1>1, <1>5
  <2>3. r \in Seq(Candles) /\ Len(r) = k - 1 /\ \A i \in 1..(k - 1) : r[i] = s[i + 1]
    BY <2>2, HeadTailProperties
  <2> HIDE DEF r, k
  <2>4. t \in Seq(Candles) /\ Len(t) = k /\ t[k] = x.c /\ \A i \in 1..(k - 1) : t[i] = r[i]
    <3>1. Len(r) + 1 = k
      BY <2>3, <1>1
    <3>2. t \in Seq(Candles) /\ Len(t) = Len(r) + 1 /\ t[Len(r) + 1] = x.c /\ \A i \in 1..Len(r) : t[i] = r[i]
      BY <2>3, <1>1
    <3> QED
      BY <3>1, <3>2, <2>3
  <2> HIDE DEF t, n, b
  <2>5. ASSUME NEW i \in 1..k PROVE t[i] = b[(n + 1) - k + i].c
    <3>1. CASE i = k
      <4>1. (n + 1) - k + i = n + 1
        BY <3>1, <1>1
      <4> QED
        BY <4>1, <3>1, <1>2, <2>4
    <3>2. CASE i # k
      <4>1. /\ i \in 1..(k - 1) /\ i + 1 \in 1..k
            /\ (n + 1) - k + i = n - k + (i + 1) /\ n - k + (i + 1) \in 1..n
        BY <3>2, <1>1
      <4>2. t[i] = s[i + 1]
        BY <4>1, <2>3, <2>4
      <4>3. s[i + 1] = a[n - k + (i + 1)].c
        BY <4>1, <1>3
      <4> QED
        BY <4>1, <4>2, <4>3, <1>2
    <3> QED
      BY <3>1, <3>2
  <2>6. Tracks(t, b)
    BY <2>4, <2>5, <1>1, <1>2 DEF Tracks
  <2> QED
    BY <2>1, <2>4, <2>6, <1>1, <1>5 DEF k, n, b
<1> QED
  BY <1>4, <1>5

LEMMA InsertApart ==
    ASSUME NEW s \in Seq(Candles), NEW a \in Seq(Acceptances), NEW x \in Acceptances,
           Len(s) <= DedupeCapacity, Tracks(s, a), Remembers(s, a, x.epoch), Apart(a),
           x.c \notin Range(s)
    PROVE  Apart(Append(a, x))
<1> DEFINE k == Len(s)
           n == Len(a)
           b == Append(a, x)
<1>1. k \in Nat /\ n \in Nat /\ k <= n /\ k <= DedupeCapacity /\ DedupeCapacity \in Nat \ {0}
  BY PipelineAssumption DEF Tracks
<1>2. Len(b) = n + 1 /\ b[n + 1] = x /\ \A i \in 1..n : b[i] = a[i]
  OBVIOUS
<1>3. \A i \in 1..k : s[i] = a[n - k + i].c /\ s[i] # x.c
  BY RangeSet DEF Tracks
<1>4. k < DedupeCapacity => \A j \in 1..(n - k) : a[j].epoch # x.epoch
  BY DEF Remembers
<1> HIDE DEF k, n, b
<1> SUFFICES ASSUME NEW i \in 1..(n + 1), NEW j \in 1..(n + 1), i < j, b[i].c = b[j].c, b[i].epoch = b[j].epoch
             PROVE  j - i > DedupeCapacity
  BY <1>2 DEF Apart, b
<1>5. i \in 1..n /\ b[i] = a[i]
  BY <1>1, <1>2
<1>6. CASE j = n + 1
  <2>1. a[i].c = x.c /\ a[i].epoch = x.epoch
    BY <1>2, <1>5, <1>6
  <2>2. i <= n - k
    <3> SUFFICES ASSUME i > n - k PROVE FALSE
      BY <1>1
    <3>1. i - (n - k) \in 1..k /\ n - k + (i - (n - k)) = i
      BY <1>1, <1>5
    <3> QED
      BY <3>1, <2>1, <1>3
  <2>3. i \in 1..(n - k)
    BY <2>2, <1>1
  <2>4. ~(k < DedupeCapacity)
    BY <2>1, <2>3, <1>4
  <2> QED
    BY <2>2, <2>4, <1>1, <1>6
<1>7. CASE j # n + 1
  <2>1. j \in 1..n /\ b[j] = a[j]
    BY <1>1, <1>2, <1>7
  <2> QED
    BY <2>1, <1>5 DEF Apart, n
<1> QED
  BY <1>6, <1>7

LEMMA CacheStep ==
    ASSUME IInv, NEW w \in Workers, AcceptCandle(w)
    PROVE  /\ CacheInv' /\ AcceptedOncePerWindow'
           /\ seen' \in [Workers -> Seq(Candles)]
           /\ \A v \in Workers : Len(seen'[v]) <= DedupeCapacity
           /\ accepted' \in [Workers -> Seq(Acceptances)]
<1> DEFINE s == seen[w]
           a == accepted[w]
           c == Head(inbox[w]).c
           x == [c |-> c, epoch |-> epoch]
<1>1. /\ seen \in [Workers -> Seq(Candles)] /\ accepted \in [Workers -> Seq(Acceptances)]
      /\ \A v \in Workers : Len(seen[v]) <= DedupeCapacity
      /\ epoch \in Nat
  BY DEF IInv, TypeOK, Acceptances
<1>2. c \in Candles
  <2>1. inbox[w] \in Seq(Messages) /\ inbox[w] # <<>>
    BY DEF AcceptCandle, IInv, TypeOK
  <2>2. Head(inbox[w]) \in Messages
    BY <2>1
  <2> QED
    BY <2>2 DEF Messages
<1>3. x \in Acceptances /\ x.c = c /\ x.epoch = epoch
  BY <1>1, <1>2 DEF Acceptances
<1>4. Tracks(s, a) /\ NotAfter(a, epoch) /\ Remembers(s, a, epoch)
  BY DEF AcceptCandle, IInv, SinkInv, CacheInv
<1>5. Apart(a)
  BY DEF IInv, AcceptedOncePerWindow, Apart
<1>6. c \notin Range(s)
  BY DEF AcceptCandle, Seen
<1>7. seen' = [seen EXCEPT ![w] = Insert(s, c)] /\ accepted' = [accepted EXCEPT ![w] = Append(a, x)]
  BY DEF AcceptCandle
<1>8. epoch' = epoch /\ up' = up
  BY DEF AcceptCandle, procVars
<1> HIDE DEF c, x
<1>9. /\ Insert(s, c) \in Seq(Candles) /\ Tracks(Insert(s, c), Append(a, x))
      /\ Len(Insert(s, c)) = IF Len(s) < DedupeCapacity THEN Len(s) + 1 ELSE Len(s)
      /\ Len(s) <= Len(a) /\ Len(a) \in Nat /\ Len(s) \in Nat
  BY <1>1, <1>3, <1>4, InsertTracks
<1>10. Apart(Append(a, x))
  BY <1>1, <1>3, <1>4, <1>5, <1>6, InsertApart
<1>11. Append(a, x) \in Seq(Acceptances) /\ Len(Append(a, x)) = Len(a) + 1
       /\ Append(a, x)[Len(a) + 1] = x /\ \A i \in 1..Len(a) : Append(a, x)[i] = a[i]
  BY <1>1, <1>3
<1>12. NotAfter(Append(a, x), epoch)
  BY <1>1, <1>3, <1>4, <1>9, <1>11 DEF NotAfter
<1>13. Remembers(Insert(s, c), Append(a, x), epoch)
  <2> SUFFICES ASSUME Len(Insert(s, c)) < DedupeCapacity, NEW j \in 1..(Len(Append(a, x)) - Len(Insert(s, c)))
               PROVE  Append(a, x)[j].epoch # epoch
    BY DEF Remembers
  <2>1. Len(s) < DedupeCapacity /\ Len(Append(a, x)) - Len(Insert(s, c)) = Len(a) - Len(s)
    BY <1>1, <1>9, <1>11
  <2>2. j \in 1..(Len(a) - Len(s)) /\ j \in 1..Len(a)
    BY <2>1, <1>9
  <2> QED
    BY <2>1, <2>2, <1>4, <1>11 DEF Remembers
<1>14. CacheInv'
  <2> SUFFICES ASSUME NEW v \in Workers
               PROVE  /\ Tracks(seen'[v], accepted'[v]) /\ NotAfter(accepted'[v], epoch)
                      /\ up => Remembers(seen'[v], accepted'[v], epoch)
    BY <1>8 DEF CacheInv, Tracks, NotAfter, Remembers
  <2>1. CASE v = w
    BY <2>1, <1>1, <1>7, <1>9, <1>12, <1>13
  <2>2. CASE v # w
    <3>1. seen'[v] = seen[v] /\ accepted'[v] = accepted[v]
      BY <2>2, <1>1, <1>7
    <3> QED
      BY <3>1 DEF IInv, CacheInv
  <2> QED
    BY <2>1, <2>2
<1>15. AcceptedOncePerWindow'
  <2>1. ASSUME NEW v \in Workers PROVE Apart(accepted'[v])
    <3>1. CASE v = w
      BY <3>1, <1>1, <1>7, <1>10
    <3>2. CASE v # w
      <4>1. accepted'[v] = accepted[v]
        BY <3>2, <1>1, <1>7
      <4>2. Apart(accepted[v])
        BY DEF IInv, AcceptedOncePerWindow, Apart
      <4> QED
        BY <4>1, <4>2
    <3> QED
      BY <3>1, <3>2
  <2> QED
    BY <2>1 DEF AcceptedOncePerWindow, Apart
<1> HIDE DEF s, a
<1>16. seen' \in [Workers -> Seq(Candles)] /\ accepted' \in [Workers -> Seq(Acceptances)]
  BY <1>1, <1>7, <1>9, <1>11
<1>17. \A v \in Workers : Len(seen'[v]) <= DedupeCapacity
  <2> SUFFICES ASSUME NEW v \in Workers PROVE Len(seen'[v]) <= DedupeCapacity
    OBVIOUS
  <2>1. DedupeCapacity \in Nat /\ Len(s) <= DedupeCapacity
    BY <1>1, PipelineAssumption DEF s
  <2>2. Len(Insert(s, c)) <= DedupeCapacity
    BY <2>1, <1>9
  <2> QED
    BY <2>2, <1>1, <1>7
<1> QED
  BY <1>14, <1>15, <1>16, <1>17

LEMMA AcceptGrows ==
    ASSUME IInv, NEW w \in Workers, AcceptCandle(w)
    PROVE  /\ \A v \in Workers : Len(accepted[v]) \in Nat
           /\ \A v \in Workers : v # w => accepted'[v] = accepted[v] /\ conn'[v] = conn[v]
           /\ Len(accepted'[w]) = Len(accepted[w]) + 1 /\ conn'[w] = "sending"
           /\ \A i \in 1..Len(accepted[w]) : accepted'[w][i] = accepted[w][i]
           /\ accepted'[w][Len(accepted'[w])].epoch = epoch
           /\ \A x \in Items : Accepted(x, accepted, conn) => Accepted(x, accepted', conn')
<1> DEFINE a == [c |-> Head(inbox[w]).c, epoch |-> epoch]
           h == accepted[w]
<1>1. /\ accepted \in [Workers -> Seq(Acceptances)] /\ h \in Seq(Acceptances)
      /\ conn \in [Workers -> {"down", "open", "sending", "gone"}]
  BY DEF IInv, TypeOK, Acceptances
<1>2. /\ accepted' = [accepted EXCEPT ![w] = Append(h, a)]
      /\ conn' = [conn EXCEPT ![w] = "sending"] /\ a.epoch = epoch
  BY DEF AcceptCandle
<1>3. \A v \in Workers : v # w => accepted'[v] = accepted[v] /\ conn'[v] = conn[v]
  BY <1>1, <1>2
<1>4. accepted'[w] = Append(h, a) /\ conn'[w] = "sending"
  BY <1>1, <1>2
<1>5. \A v \in Workers : Len(accepted[v]) \in Nat
  BY <1>1
<1> HIDE DEF a, h
<1>6. /\ Len(accepted'[w]) = Len(h) + 1 /\ accepted'[w][Len(h) + 1] = a
      /\ \A i \in 1..Len(h) : accepted'[w][i] = h[i]
  BY <1>1, <1>4
<1>7. accepted'[w][Len(accepted'[w])].epoch = epoch
  BY <1>2, <1>6
<1>8. ASSUME NEW x \in Items, Accepted(x, accepted, conn) PROVE Accepted(x, accepted', conn')
  <2>1. x[1] \in Workers /\ x[2] \in Nat
    BY DEF Items
  <2> QED
    BY <2>1, <1>3, <1>4, <1>5, <1>6, <1>8 DEF Accepted, h
<1> QED
  BY <1>3, <1>4, <1>5, <1>6, <1>7, <1>8 DEF h

LEMMA AcceptStep ==
    ASSUME IInv, NEW w \in Workers, AcceptCandle(w)
    PROVE  IInv'
<1> USE DEF feedVars, procVars, sinkVars, readyVars, outVars
<1>1. UNCHANGED <<feedVars, faults, procVars, connected, sinkVars, readyVars, outVars>>
  BY DEF AcceptCandle
<1>2. up' \in BOOLEAN /\ ready' \in BOOLEAN /\ spawned' \in BOOLEAN
  BY <1>1 DEF IInv, TypeOK
<1>3. conn' \in [Workers -> {"down", "open", "sending", "gone"}] /\ conn[w] = "open"
      /\ conn' = [conn EXCEPT ![w] = "sending"]
  BY DEF IInv, TypeOK, AcceptCandle
<1>4. inbox' \in [Workers -> Seq(Messages)]
  <2>1. Tail(inbox[w]) \in Seq(Messages)
    BY DEF IInv, TypeOK, AcceptCandle
  <2> QED
    BY <2>1 DEF IInv, TypeOK, AcceptCandle
<1>5. CacheInv' /\ AcceptedOncePerWindow' /\ seen' \in [Workers -> Seq(Candles)]
      /\ (\A v \in Workers : Len(seen'[v]) <= DedupeCapacity)
      /\ accepted' \in [Workers -> Seq([c: Candles, epoch: Nat])]
  BY CacheStep DEF Acceptances
<1>6. TypeOK'
  BY <1>1, <1>2, <1>3, <1>4, <1>5 DEF IInv, TypeOK
<1>7. SinkInv'
  <2>1. Counted' = Counted
    BY <1>3, CountKept DEF IInv, TypeOK
  <2> QED
    BY <2>1, <1>1, <1>3 DEF IInv, SinkInv
<1>8. OrderInv' /\ BatchInv'
  BY <1>1, OrderKept, BatchKept DEF IInv
<1>9. /\ \A v \in Workers : Len(accepted[v]) \in Nat
      /\ \A v \in Workers : v # w => accepted'[v] = accepted[v] /\ conn'[v] = conn[v]
      /\ Len(accepted'[w]) = Len(accepted[w]) + 1 /\ conn'[w] = "sending"
      /\ \A i \in 1..Len(accepted[w]) : accepted'[w][i] = accepted[w][i]
  BY AcceptGrows
<1>10. \A x \in Items : Accepted(x, accepted, conn) => Accepted(x, accepted', conn')
  BY AcceptGrows
<1>11. WayInv'
  <2>1. channel \in Seq(Items) /\ batch \in Seq(Items) /\ topic \in Seq(Items)
    BY DEF IInv, TypeOK
  <2>2. \A p \in 1..Len(topic) : Accepted(topic[p], accepted', conn')
    BY <2>1, <1>10 DEF IInv, WayInv
  <2>3. \A p \in 1..Len(batch) : Accepted(batch[p], accepted', conn')
    BY <2>1, <1>10 DEF IInv, WayInv
  <2>4. \A p \in 1..Len(channel) : Accepted(channel[p], accepted', conn')
    BY <2>1, <1>10 DEF IInv, WayInv
  <2>5. \A v \in Workers : conn'[v] = "sending" => Len(accepted'[v]) > 0
    BY <1>9 DEF IInv, WayInv
  <2> QED
    BY <1>1, <2>2, <2>3, <2>4, <2>5 DEF WayInv
<1>12. AcceptedIsKept'
  <2> SUFFICES ASSUME up', sink' # "ended", NEW v \in Workers, NEW i \in 1..Len(accepted'[v]), accepted'[v][i].epoch = epoch'
               PROVE  <<v, i>> \in InFlight(v)' \cup (Range(rows) \cap Range(topic))'
    BY DEF AcceptedIsKept
  <2>1. CASE v # w
    <3>1. <<v, i>> \in InFlight(v) \cup (Range(rows) \cap Range(topic))
      BY <1>1, <1>9, <2>1 DEF IInv, AcceptedIsKept
    <3> QED
      BY <3>1, <1>1, <1>9, <2>1 DEF InFlight, Item
  <2>2. CASE v = w /\ i = Len(accepted[w]) + 1
    BY <2>2, <1>9 DEF InFlight, Item
  <2>3. CASE v = w /\ i # Len(accepted[w]) + 1
    <3>1. i \in 1..Len(accepted[w])
      BY <2>3, <1>9
    <3>2. accepted[w][i].epoch = epoch
      BY <3>1, <2>3, <1>1, <1>9
    <3>3. <<w, i>> \in InFlight(w) \cup (Range(rows) \cap Range(topic))
      BY <3>1, <3>2, <1>1 DEF IInv, AcceptedIsKept
    <3> QED
      BY <3>3, <2>3, <1>1, <1>3 DEF InFlight, Item
  <2> QED
    BY <2>1, <2>2, <2>3
<1> QED
  BY <1>5, <1>6, <1>7, <1>8, <1>11, <1>12 DEF IInv

(* The channel takes what the worker has in its hand. *)
LEMMA SendStep ==
    ASSUME IInv, NEW w \in Workers, Send(w)
    PROVE  IInv'
<1> USE DEF feedVars, procVars, readyVars, outVars
<1> DEFINE x == Item(w)
<1>1. UNCHANGED <<feedVars, faults, procVars, inbox, seen, accepted, connected, sink, batch, sent, readyVars, outVars>>
  BY DEF Send
<1>2. up' \in BOOLEAN /\ ready' \in BOOLEAN /\ spawned' \in BOOLEAN
  BY <1>1 DEF IInv, TypeOK
<1>3. /\ conn' \in [Workers -> {"down", "open", "sending", "gone"}] /\ conn[w] = "sending"
      /\ conn' = [conn EXCEPT ![w] = "open"]
  BY DEF IInv, TypeOK, Send
<1>4. /\ channel \in Seq(Items) /\ batch \in Seq(Items) /\ topic \in Seq(Items)
      /\ Len(accepted[w]) \in Nat /\ sent \in Nat
  BY DEF IInv, TypeOK
<1>5. x \in Items /\ x[1] = w /\ x[2] = Len(accepted[w])
  BY <1>4 DEF Items, Item
<1> HIDE DEF x
<1>6. channel' = Append(channel, x) /\ Len(channel) < ChannelCapacity
  BY DEF Send, x
<1>7. /\ channel' \in Seq(Items) /\ Len(channel') = Len(channel) + 1 /\ channel'[Len(channel) + 1] = x
      /\ \A p \in 1..Len(channel) : channel'[p] = channel[p]
      /\ Len(channel) \in Nat /\ Len(channel') <= ChannelCapacity
  BY <1>4, <1>5, <1>6, PipelineAssumption
<1>8. TypeOK'
  BY <1>1, <1>2, <1>3, <1>7 DEF IInv, TypeOK
<1>9. SinkInv'
  <2>1. Counted' = Counted
    BY <1>3, CountKept DEF IInv, TypeOK
  <2>2. \A v \in Workers : conn[v] = "down" => conn'[v] = "down"
    BY <1>3 DEF IInv, TypeOK
  <2>3. up
    BY <1>3 DEF IInv, SinkInv
  <2> QED
    BY <2>1, <2>2, <2>3, <1>1 DEF IInv, SinkInv
<1>10. ASSUME NEW y \in Items, Accepted(y, accepted, conn) PROVE Before(y, x)
  BY <1>3, <1>5, <1>10 DEF Accepted, Before
<1>11. OrderInv'
  <2>1. \A p \in 1..Len(channel') : (p \in 1..Len(channel) /\ channel'[p] = channel[p]) \/ (p = Len(channel) + 1 /\ channel'[p] = x)
    BY <1>7
  <2>2. /\ \A p \in 1..Len(channel) : Before(channel[p], x)
        /\ \A p \in 1..Len(batch) : Before(batch[p], x)
        /\ \A p \in 1..Len(topic) : Before(topic[p], x)
    BY <1>4, <1>10 DEF IInv, WayInv
  <2>3. ASSUME NEW p \in 1..Len(channel'), NEW q \in 1..Len(channel'), p < q PROVE Before(channel'[p], channel'[q])
    <3>1. p \in 1..Len(channel) /\ channel'[p] = channel[p]
      BY <2>3, <1>7
    <3> QED
      BY <3>1, <2>1, <2>2, <2>3 DEF IInv, OrderInv
  <2>4. ASSUME NEW p \in 1..Len(topic), NEW q \in 1..Len(channel') PROVE Before(topic[p], channel'[q])
    BY <2>1, <2>2 DEF IInv, OrderInv
  <2>5. ASSUME NEW p \in 1..Len(batch), NEW q \in 1..Len(channel') PROVE Before(batch[p], channel'[q])
    BY <2>1, <2>2 DEF IInv, OrderInv
  <2> QED
    BY <1>1, <2>3, <2>4, <2>5 DEF IInv, OrderInv, Before, Upto
<1>12. ASSUME NEW y \in Items, Accepted(y, accepted, conn) PROVE Accepted(y, accepted', conn')
  BY <1>1, <1>3, <1>12 DEF Accepted, Items, IInv, TypeOK
<1>13. Accepted(x, accepted', conn')
  BY <1>1, <1>3, <1>4, <1>5 DEF Accepted, IInv, TypeOK
<1>14. WayInv'
  <2>1. \A p \in 1..Len(topic) : Accepted(topic[p], accepted', conn')
    BY <1>4, <1>12 DEF IInv, WayInv
  <2>2. \A p \in 1..Len(batch) : Accepted(batch[p], accepted', conn')
    BY <1>4, <1>12 DEF IInv, WayInv
  <2>3. ASSUME NEW p \in 1..Len(channel') PROVE Accepted(channel'[p], accepted', conn')
    <3>1. CASE p = Len(channel) + 1
      <4>1. channel'[p] = x
        BY <3>1, <1>7
      <4> QED
        BY <4>1, <1>13
    <3>2. CASE p # Len(channel) + 1
      <4>1. p \in 1..Len(channel) /\ channel'[p] = channel[p]
        BY <3>2, <1>7
      <4>2. Accepted(channel[p], accepted, conn) /\ channel[p] \in Items
        BY <4>1, <1>4 DEF IInv, WayInv
      <4> QED
        BY <4>1, <4>2, <1>12
    <3> QED
      BY <3>1, <3>2
  <2>4. \A v \in Workers : conn'[v] = "sending" => Len(accepted'[v]) > 0
    BY <1>1, <1>3 DEF IInv, TypeOK, WayInv
  <2> QED
    BY <1>1, <2>1, <2>2, <2>3, <2>4 DEF WayInv
<1>15. BatchInv'
  BY <1>1, BatchKept DEF IInv
<1>16. AcceptedIsKept'
  <2> SUFFICES ASSUME up', sink' # "ended", NEW v \in Workers, NEW i \in 1..Len(accepted'[v]), accepted'[v][i].epoch = epoch'
               PROVE  <<v, i>> \in InFlight(v)' \cup (Range(rows) \cap Range(topic))'
    BY DEF AcceptedIsKept
  <2>1. <<v, i>> \in InFlight(v) \cup (Range(rows) \cap Range(topic))
    BY <1>1 DEF IInv, AcceptedIsKept
  <2>2. Range(channel') = Range(channel) \cup {x}
    BY <1>4, <1>5, <1>6, RangeAppend
  <2>3. v # w => conn'[v] = conn[v]
    BY <1>3 DEF IInv, TypeOK
  <2> QED
    BY <2>1, <2>2, <2>3, <1>1 DEF InFlight, Item, x
<1>17. CacheInv' /\ AcceptedOncePerWindow'
  BY <1>1, CacheKept DEF IInv
<1> QED
  BY <1>8, <1>9, <1>11, <1>14, <1>15, <1>16, <1>17 DEF IInv

LEMMA BailStep ==
    ASSUME IInv, NEW w \in Workers, Bail(w)
    PROVE  IInv'
<1> USE DEF feedVars, procVars, sinkVars, readyVars, outVars
<1>1. UNCHANGED <<feedVars, faults, procVars, seen, accepted, connected, sinkVars, readyVars, outVars>>
  BY DEF Bail
<1>2. up' \in BOOLEAN /\ ready' \in BOOLEAN /\ spawned' \in BOOLEAN
  BY <1>1 DEF IInv, TypeOK
<1>3. /\ conn' \in [Workers -> {"down", "open", "sending", "gone"}]
      /\ conn[w] = "sending" /\ conn' = [conn EXCEPT ![w] = "gone"]
  BY DEF IInv, TypeOK, Bail
<1>4. inbox' \in [Workers -> Seq(Messages)]
  <2>1. <<>> \in Seq(Messages)
    OBVIOUS
  <2> QED
    BY <2>1 DEF IInv, TypeOK, Bail
<1>5. TypeOK'
  BY <1>1, <1>2, <1>3, <1>4 DEF IInv, TypeOK
<1>6. SinkInv'
  <2>1. Counted' = Counted
    BY <1>3, CountKept DEF IInv, TypeOK
  <2>2. \A v \in Workers : conn[v] = "down" => conn'[v] = "down"
    BY <1>3 DEF IInv, TypeOK
  <2>3. up
    BY <1>3 DEF IInv, SinkInv
  <2> QED
    BY <2>1, <2>2, <2>3, <1>1 DEF IInv, SinkInv
<1>7. CacheInv' /\ AcceptedOncePerWindow' /\ OrderInv' /\ BatchInv'
  BY <1>1, CacheKept, OrderKept, BatchKept DEF IInv
<1>8. WayInv'
  <2>1. \A v \in Workers : conn'[v] = "sending" => conn[v] = "sending"
    BY <1>3 DEF IInv, TypeOK
  <2> QED
    BY <2>1, <1>1, WayKept DEF IInv
<1>9. AcceptedIsKept'
  BY <1>1 DEF Bail, AcceptedIsKept
<1> QED
  BY <1>5, <1>6, <1>7, <1>8, <1>9 DEF IInv

------------------------------------------------------------------------------
(* The sink.                                                               *)

LEMMA RecvStep ==
    ASSUME IInv, Recv
    PROVE  IInv'
<1> USE DEF feedVars, procVars, workerVars, readyVars, outVars
<1> DEFINE x == Head(channel)
           m == Len(batch)
<1>1. UNCHANGED <<feedVars, faults, procVars, workerVars, sent, readyVars, outVars>>
  BY DEF Recv
<1>2. up' \in BOOLEAN /\ ready' \in BOOLEAN /\ spawned' \in BOOLEAN
  BY <1>1 DEF IInv, TypeOK
<1>3. /\ channel \in Seq(Items) /\ batch \in Seq(Items) /\ topic \in Seq(Items)
      /\ m \in Nat /\ m < BatchSize /\ sent = 0 /\ channel # <<>> /\ BatchSize \in Nat
  BY PipelineAssumption DEF Recv, IInv, TypeOK, SinkInv
<1>4. /\ x \in Items /\ x = channel[1] /\ 1 \in 1..Len(channel) /\ Len(channel) \in Nat
      /\ channel' \in Seq(Items) /\ Len(channel') = Len(channel) - 1
      /\ \A p \in 1..Len(channel') : channel'[p] = channel[p + 1] /\ p + 1 \in 1..Len(channel)
  <2>1. channel' = Tail(channel)
    BY DEF Recv
  <2>2. /\ Tail(channel) \in Seq(Items) /\ Len(Tail(channel)) = Len(channel) - 1
        /\ \A p \in 1..Len(Tail(channel)) : Tail(channel)[p] = channel[p + 1]
    BY <1>3, HeadTailProperties
  <2>3. x \in Items /\ x = channel[1] /\ Len(channel) \in Nat /\ Len(channel) > 0
    BY <1>3
  <2>4. \A p \in 1..(Len(channel) - 1) : p + 1 \in 1..Len(channel)
    BY <2>3
  <2> QED
    BY <2>1, <2>2, <2>3, <2>4
<1> HIDE DEF x
<1>5. batch' = Append(batch, x)
  BY DEF Recv, x
<1>6. /\ batch' \in Seq(Items) /\ Len(batch') = m + 1 /\ batch'[m + 1] = x
      /\ \A p \in 1..m : batch'[p] = batch[p]
  BY <1>3, <1>4, <1>5
<1>7. sink = "recv" /\ sink' \in {"recv", "insert"} /\ (sink' = "recv" => m + 1 < BatchSize)
  BY <1>3 DEF Recv
<1>8. TypeOK'
  <2>1. Len(channel') <= ChannelCapacity /\ Len(batch') <= BatchSize
    BY <1>3, <1>4, <1>6, PipelineAssumption DEF IInv, TypeOK
  <2> QED
    BY <2>1, <1>1, <1>2, <1>4, <1>6, <1>7 DEF IInv, TypeOK
<1>9. SinkInv'
  <2>1. Counted' = Counted
    BY <1>1 DEF Counted
  <2> QED
    BY <2>1, <1>1, <1>3, <1>6, <1>7 DEF IInv, SinkInv
<1>10. CacheInv' /\ AcceptedOncePerWindow'
  BY <1>1, CacheKept DEF IInv
<1> HIDE DEF m
<1>11. OrderInv'
  <2>1. \A p \in 1..Len(batch') : (p \in 1..m /\ batch'[p] = batch[p]) \/ (p = m + 1 /\ batch'[p] = x)
    BY <1>3, <1>6
  <2>2. /\ \A p \in 1..Len(topic) : Before(topic[p], x)
        /\ \A p \in 1..m : Before(batch[p], x)
        /\ \A p \in 1..Len(channel') : Before(x, channel'[p])
    <3>1. \A p \in 1..Len(channel') : 1 < p + 1
      OBVIOUS
    <3> QED
      BY <3>1, <1>4 DEF IInv, OrderInv, m
  <2>3. ASSUME NEW p \in 1..Len(batch'), NEW q \in 1..Len(batch'), p < q PROVE Before(batch'[p], batch'[q])
    <3>1. p \in 1..m /\ batch'[p] = batch[p]
      BY <2>3, <1>3, <1>6
    <3> QED
      BY <3>1, <2>1, <2>2, <2>3 DEF IInv, OrderInv, m
  <2>4. ASSUME NEW p \in 1..Len(channel'), NEW q \in 1..Len(channel'), p < q PROVE Before(channel'[p], channel'[q])
    <3>1. p + 1 < q + 1
      BY <2>4
    <3> QED
      BY <3>1, <1>4 DEF IInv, OrderInv
  <2>5. ASSUME NEW p \in 1..Len(topic), NEW q \in 1..Len(batch')
        PROVE  Before(topic[p], batch'[q]) /\ Upto(topic[p], batch'[q])
    <3>1. \A r \in 1..m : Before(topic[p], batch[r])
      BY <1>3, <1>7 DEF IInv, OrderInv, m
    <3>2. Before(topic[p], batch'[q])
      BY <3>1, <2>1, <2>2
    <3>3. topic[p] \in Items /\ batch'[q] \in Items
      BY <1>3, <1>6
    <3> QED
      BY <3>2, <3>3, BeforeUpto
  <2>6. ASSUME NEW p \in 1..Len(topic), NEW q \in 1..Len(channel') PROVE Before(topic[p], channel'[q])
    BY <1>4 DEF IInv, OrderInv
  <2>7. ASSUME NEW p \in 1..Len(batch'), NEW q \in 1..Len(channel') PROVE Before(batch'[p], channel'[q])
    <3>1. \A r \in 1..m : Before(batch[r], channel'[q])
      BY <1>4 DEF IInv, OrderInv, m
    <3> QED
      BY <3>1, <2>1, <2>2
  <2>8. \A p, q \in 1..Len(topic) : p < q => Upto(topic[p], topic[q])
    BY DEF IInv, OrderInv
  <2>9. topic' = topic /\ sent' = 0
    BY <1>1, <1>3
  <2> QED
    BY <2>3, <2>4, <2>5, <2>6, <2>7, <2>8, <2>9 DEF OrderInv, Before, Upto
<1>12. WayInv'
  <2>1. \A p \in 1..Len(batch') : Accepted(batch'[p], accepted, conn)
    <3>1. \A p \in 1..Len(batch') : (p \in 1..m /\ batch'[p] = batch[p]) \/ batch'[p] = x
      BY <1>3, <1>6
    <3> QED
      BY <3>1, <1>4 DEF IInv, WayInv, m
  <2>2. \A p \in 1..Len(channel') : Accepted(channel'[p], accepted, conn)
    BY <1>4 DEF IInv, WayInv
  <2> QED
    BY <2>1, <2>2, <1>1 DEF IInv, WayInv
<1>13. BatchInv'
  BY <1>7 DEF BatchInv
<1>14. AcceptedIsKept'
  <2>1. Range(batch') = Range(batch) \cup {x}
    BY <1>3, <1>4, <1>5, RangeAppend
  <2>2. Range(channel) = {x} \cup Range(channel')
    <3>1. channel' = Tail(channel)
      BY DEF Recv
    <3> QED
      BY <3>1, <1>3, RangeTail DEF x
  <2>3. \A v \in Workers : InFlight(v)' = InFlight(v)
    BY <2>1, <2>2, <1>1 DEF InFlight, Item
  <2>4. ASSUME up', sink' # "ended", NEW v \in Workers, NEW i \in 1..Len(accepted'[v]), accepted'[v][i].epoch = epoch'
        PROVE  <<v, i>> \in InFlight(v)' \cup (Range(rows) \cap Range(topic))'
    <3>1. <<v, i>> \in InFlight(v) \cup (Range(rows) \cap Range(topic))
      BY <2>4, <1>1, <1>7 DEF IInv, AcceptedIsKept
    <3> QED
      BY <3>1, <2>3, <1>1
  <2> QED
    BY <2>4 DEF AcceptedIsKept
<1> QED
  BY <1>8, <1>9, <1>10, <1>11, <1>12, <1>13, <1>14 DEF IInv

LEMMA InsertStep ==
    ASSUME IInv, InsertBatch
    PROVE  IInv'
<1> USE DEF feedVars, procVars, workerVars, readyVars
<1>1. /\ UNCHANGED <<feedVars, faults, procVars, workerVars, channel, batch, sent, readyVars, topic>>
      /\ sink = "insert" /\ sink' = "send" /\ rows' = rows \o batch
  BY DEF InsertBatch
<1>2. up' \in BOOLEAN /\ ready' \in BOOLEAN /\ spawned' \in BOOLEAN
  BY <1>1 DEF IInv, TypeOK
<1>3. rows \in Seq(Items) /\ batch \in Seq(Items) /\ Len(batch) > 0 /\ sent = 0
  BY <1>1 DEF IInv, TypeOK, SinkInv
<1>4. rows' \in Seq(Items) /\ Range(rows') = Range(rows) \cup Range(batch)
  BY <1>1, <1>3, ConcatProperties, RangeConcat
<1>5. TypeOK'
  BY <1>1, <1>2, <1>3, <1>4 DEF IInv, TypeOK
<1>6. SinkInv'
  <2>1. Counted' = Counted
    BY <1>1 DEF Counted
  <2> QED
    BY <2>1, <1>1 DEF IInv, SinkInv
<1>7. CacheInv' /\ AcceptedOncePerWindow' /\ OrderInv' /\ WayInv'
  BY <1>1, CacheKept, OrderKept, WayKept DEF IInv
<1>8. BatchInv'
  BY <1>1, <1>3, <1>4 DEF BatchInv
<1>9. AcceptedIsKept'
  <2> SUFFICES ASSUME up', sink' # "ended", NEW v \in Workers, NEW i \in 1..Len(accepted'[v]), accepted'[v][i].epoch = epoch'
               PROVE  <<v, i>> \in InFlight(v)' \cup (Range(rows) \cap Range(topic))'
    BY DEF AcceptedIsKept
  <2>1. <<v, i>> \in InFlight(v) \cup (Range(rows) \cap Range(topic))
    BY <1>1 DEF IInv, AcceptedIsKept
  <2> QED
    BY <2>1, <1>1, <1>4 DEF InFlight, Item
<1> QED
  BY <1>5, <1>6, <1>7, <1>8, <1>9 DEF IInv

(* What Kafka is given next, and the topic with it. *)
LEMMA NextOfBatch ==
    ASSUME IInv, sink = "send"
    PROVE  LET x == batch[sent + 1]
               t == Append(topic, x)
           IN  /\ sent \in Nat /\ sent + 1 \in 1..Len(batch) /\ Len(batch) \in Nat
               /\ x \in Items /\ Accepted(x, accepted, conn) /\ x \in Range(batch)
               /\ batch \in Seq(Items) /\ topic \in Seq(Items)
               /\ t \in Seq(Items) /\ Range(t) = Range(topic) \cup {x}
               /\ \A p \in 1..Len(t) : Accepted(t[p], accepted, conn)
               /\ \A p, q \in 1..Len(t) : p < q => Upto(t[p], t[q])
               /\ \A p \in 1..Len(t), q \in 1..Len(channel) : Before(t[p], channel[q])
               /\ \A p \in 1..Len(t), q \in (sent + 2)..Len(batch) : Before(t[p], batch[q])
               /\ \A p \in 1..Len(t), q \in (sent + 1)..Len(batch) : Upto(t[p], batch[q])
<1> DEFINE x == batch[sent + 1]
           t == Append(topic, x)
           n == Len(topic)
<1>1. /\ sent \in Nat /\ Len(batch) \in Nat /\ sent < Len(batch)
      /\ batch \in Seq(Items) /\ topic \in Seq(Items) /\ n \in Nat
  BY DEF IInv, TypeOK
<1>2. sent + 1 \in 1..Len(batch) /\ sent + 1 \in (sent + 1)..Len(batch)
  BY <1>1
<1>3. x \in Items /\ x \in Range(batch)
  BY <1>1, <1>2, RangeSet
<1>4. Accepted(x, accepted, conn)
  BY <1>2 DEF IInv, WayInv
<1>5. /\ \A p \in 1..n : Upto(topic[p], x)
      /\ \A q \in 1..Len(channel) : Before(x, channel[q])
  BY <1>2 DEF IInv, OrderInv
<1>6. \A q \in (sent + 2)..Len(batch) : q \in 1..Len(batch) /\ sent + 1 < q /\ q \in (sent + 1)..Len(batch)
  BY <1>1
<1>7. \A q \in (sent + 2)..Len(batch) : Before(x, batch[q])
  BY <1>2, <1>6 DEF IInv, OrderInv
<1> HIDE DEF x
<1>8. t \in Seq(Items) /\ Len(t) = n + 1 /\ t[n + 1] = x /\ \A p \in 1..n : t[p] = topic[p]
  BY <1>1, <1>3
<1>9. Range(t) = Range(topic) \cup {x}
  BY <1>1, <1>3, RangeAppend
<1> HIDE DEF t, n
<1>10. \A p \in 1..Len(t) : (p \in 1..n /\ t[p] = topic[p]) \/ (p = n + 1 /\ t[p] = x)
  BY <1>1, <1>8
<1>11. \A p \in 1..Len(t) : Accepted(t[p], accepted, conn)
  BY <1>4, <1>10 DEF IInv, WayInv, n
<1>12. ASSUME NEW p \in 1..Len(t), NEW q \in 1..Len(t), p < q PROVE Upto(t[p], t[q])
  <2>1. p \in 1..n /\ t[p] = topic[p]
    BY <1>1, <1>8, <1>12
  <2> QED
    BY <2>1, <1>5, <1>10, <1>12 DEF IInv, OrderInv, n
<1>13. \A p \in 1..Len(t), q \in 1..Len(channel) : Before(t[p], channel[q])
  BY <1>5, <1>10 DEF IInv, OrderInv, n
<1>14. \A p \in 1..Len(t), q \in (sent + 2)..Len(batch) : Before(t[p], batch[q])
  <2>1. \A q \in (sent + 2)..Len(batch) : q # sent + 1
    BY <1>1
  <2> QED
    BY <2>1, <1>6, <1>7, <1>10 DEF IInv, OrderInv, n
<1>15. ASSUME NEW p \in 1..Len(t), NEW q \in (sent + 1)..Len(batch) PROVE Upto(t[p], batch[q])
  <2>1. CASE q = sent + 1
    <3>1. Upto(x, x)
      BY <1>3 DEF Upto, Items
    <3> QED
      BY <2>1, <3>1, <1>5, <1>10 DEF x
  <2>2. CASE q # sent + 1
    <3>1. q \in (sent + 2)..Len(batch)
      BY <2>2, <1>1
    <3>2. Before(t[p], batch[q]) /\ t[p] \in Items /\ batch[q] \in Items
      BY <3>1, <1>1, <1>6, <1>8, <1>14
    <3> QED
      BY <3>2, BeforeUpto
  <2> QED
    BY <2>1, <2>2
<1> QED
  BY <1>1, <1>2, <1>3, <1>4, <1>8, <1>9, <1>11, <1>12, <1>13, <1>14, <1>15 DEF x, t

(* The sink ends, and what it had not sent is gone. *)
LEMMA SinkFails ==
    ASSUME IInv, InsertFailed \/ SendFailed
    PROVE  IInv'
<1> USE DEF feedVars, procVars, workerVars, readyVars, SinkEnds
<1>1. /\ UNCHANGED <<feedVars, procVars, workerVars, readyVars>>
      /\ sink' = "ended" /\ channel' = <<>> /\ batch' = <<>> /\ sent' = 0
  BY DEF InsertFailed, SendFailed
<1>2. up' \in BOOLEAN /\ ready' \in BOOLEAN /\ spawned' \in BOOLEAN
  BY <1>1 DEF IInv, TypeOK
<1>3. faults' \in Nat
  BY DEF InsertFailed, SendFailed, Fault, IInv, TypeOK
<1>4. rows' \in Seq(Items)
  <2>1. rows \in Seq(Items) /\ batch \in Seq(Items)
    BY DEF IInv, TypeOK
  <2>2. rows \o batch \in Seq(Items)
    BY <2>1, ConcatProperties
  <2> QED
    BY <2>1, <2>2 DEF InsertFailed, SendFailed
<1>5. /\ topic' \in Seq(Items)
      /\ \A p \in 1..Len(topic') : Accepted(topic'[p], accepted, conn)
      /\ \A p, q \in 1..Len(topic') : p < q => Upto(topic'[p], topic'[q])
  <2>1. CASE topic' = topic
    BY <2>1 DEF IInv, TypeOK, WayInv, OrderInv
  <2>2. CASE sink = "send" /\ topic' = Append(topic, batch[sent + 1])
    BY <2>2, NextOfBatch
  <2> QED
    BY <2>1, <2>2 DEF InsertFailed, SendFailed
<1>6. <<>> \in Seq(Items) /\ Len(<<>>) = 0
  OBVIOUS
<1>7. TypeOK'
  <2>1. Len(channel') <= ChannelCapacity /\ Len(batch') <= BatchSize
    BY <1>1, <1>6, PipelineAssumption
  <2> QED
    BY <2>1, <1>1, <1>2, <1>3, <1>4, <1>5, <1>6 DEF IInv, TypeOK
<1>8. SinkInv'
  <2>1. Counted' = Counted
    BY <1>1 DEF Counted
  <2> QED
    BY <2>1, <1>1 DEF IInv, SinkInv
<1>9. CacheInv' /\ AcceptedOncePerWindow'
  BY <1>1, CacheKept DEF IInv
<1>10. OrderInv'
  BY <1>1, <1>5, <1>6 DEF OrderInv, Before, Upto
<1>11. WayInv'
  BY <1>1, <1>5, <1>6 DEF IInv, WayInv
<1>12. BatchInv' /\ AcceptedIsKept'
  BY <1>1 DEF BatchInv, AcceptedIsKept
<1> QED
  BY <1>7, <1>8, <1>9, <1>10, <1>11, <1>12 DEF IInv

LEMMA SendCandleStep ==
    ASSUME IInv, SendCandle
    PROVE  IInv'
<1> USE DEF feedVars, procVars, workerVars, readyVars
<1> DEFINE x == batch[sent + 1]
           last == sent + 1 = Len(batch)
<1>1. /\ UNCHANGED <<feedVars, faults, procVars, workerVars, channel, rows>>
      /\ sink = "send" /\ topic' = Append(topic, x)
  BY DEF SendCandle
<1>2. /\ last => sink' = "recv" /\ batch' = <<>> /\ sent' = 0
      /\ ~last => sink' = sink /\ batch' = batch /\ sent' = sent + 1
  BY DEF SendCandle
<1>3. up' \in BOOLEAN /\ ready' \in BOOLEAN /\ spawned' \in BOOLEAN
  <2>1. (connected > 0) \in BOOLEAN
    OBVIOUS
  <2> QED
    BY <2>1 DEF SendCandle, RefreshReadiness, IInv, TypeOK
<1>4. /\ sent \in Nat /\ sent + 1 \in 1..Len(batch) /\ Len(batch) \in Nat
      /\ x \in Range(batch) /\ batch \in Seq(Items) /\ topic \in Seq(Items) /\ topic' \in Seq(Items)
      /\ Range(topic') = Range(topic) \cup {x}
      /\ \A p \in 1..Len(topic') : Accepted(topic'[p], accepted, conn)
      /\ \A p, q \in 1..Len(topic') : p < q => Upto(topic'[p], topic'[q])
      /\ \A p \in 1..Len(topic'), q \in 1..Len(channel) : Before(topic'[p], channel[q])
      /\ \A p \in 1..Len(topic'), q \in (sent + 2)..Len(batch) : Before(topic'[p], batch[q])
      /\ \A p \in 1..Len(topic'), q \in (sent + 1)..Len(batch) : Upto(topic'[p], batch[q])
  BY <1>1, NextOfBatch
<1>5. <<>> \in Seq(Items) /\ Len(<<>>) = 0
  OBVIOUS
<1>6. TypeOK'
  <2>1. sent' \in Nat /\ (sink' = "send" => sent' < Len(batch'))
    BY <1>1, <1>2, <1>4
  <2>2. batch' \in Seq(Items) /\ Len(batch') <= BatchSize
    <3>1. BatchSize \in Nat /\ Len(batch) <= BatchSize
      BY PipelineAssumption DEF IInv, TypeOK
    <3>2. CASE last
      BY <3>1, <3>2, <1>2, <1>5
    <3>3. CASE ~last
      BY <3>1, <3>3, <1>2, <1>4
    <3> QED
      BY <3>2, <3>3
  <2> QED
    BY <2>1, <2>2, <1>1, <1>2, <1>3, <1>4 DEF IInv, TypeOK
<1>7. SinkInv'
  <2>1. Counted' = Counted
    BY <1>1 DEF Counted
  <2> QED
    BY <2>1, <1>1, <1>2, <1>5, PipelineAssumption DEF IInv, SinkInv
<1>8. CacheInv' /\ AcceptedOncePerWindow'
  BY <1>1, CacheKept DEF IInv
<1>9. /\ \A p \in 1..Len(batch') : p \in 1..Len(batch) /\ batch'[p] = batch[p]
      /\ \A q \in (sent' + 1)..Len(batch') :
             q \in (sent + 2)..Len(batch) /\ q \in (sent + 1)..Len(batch) /\ batch'[q] = batch[q]
  <2>1. CASE last
    BY <2>1, <1>2, <1>5
  <2>2. CASE ~last
    BY <2>2, <1>2, <1>4
  <2> QED
    BY <2>1, <2>2
<1>10. OrderInv'
  <2>1. \A p, q \in 1..Len(batch') : p < q => Before(batch'[p], batch'[q])
    BY <1>9 DEF IInv, OrderInv
  <2>2. \A p \in 1..Len(topic'), q \in (sent' + 1)..Len(batch') :
            Before(topic'[p], batch'[q]) /\ Upto(topic'[p], batch'[q])
    BY <1>4, <1>9
  <2>3. \A p \in 1..Len(batch'), q \in 1..Len(channel) : Before(batch'[p], channel[q])
    BY <1>9 DEF IInv, OrderInv
  <2>4. \A p, q \in 1..Len(channel) : p < q => Before(channel[p], channel[q])
    BY DEF IInv, OrderInv
  <2>5. channel' = channel
    BY <1>1
  <2> QED
    BY <2>1, <2>2, <2>3, <2>4, <2>5, <1>4 DEF OrderInv, Before, Upto
<1>11. WayInv'
  <2>1. \A p \in 1..Len(batch') : Accepted(batch'[p], accepted, conn)
    BY <1>9 DEF IInv, WayInv
  <2> QED
    BY <2>1, <1>1, <1>4 DEF IInv, WayInv
<1>12. \A p \in 1..(sent + 1) : batch[p] \in Range(topic')
  <2>1. \A p \in 1..(sent + 1) : p \in 1..sent \/ p = sent + 1
    BY <1>4
  <2> QED
    BY <2>1, <1>1, <1>4 DEF IInv, BatchInv
<1>13. BatchInv'
  <2>1. CASE last
    BY <2>1, <1>2 DEF BatchInv
  <2>2. CASE ~last
    BY <2>2, <1>1, <1>2, <1>12 DEF IInv, BatchInv
  <2> QED
    BY <2>1, <2>2
<1>14. AcceptedIsKept'
  <2> SUFFICES ASSUME up', sink' # "ended", NEW v \in Workers, NEW i \in 1..Len(accepted'[v]), accepted'[v][i].epoch = epoch'
               PROVE  <<v, i>> \in InFlight(v)' \cup (Range(rows) \cap Range(topic))'
    BY DEF AcceptedIsKept
  <2>1. <<v, i>> \in InFlight(v) \cup (Range(rows) \cap Range(topic))
    BY <1>1 DEF IInv, AcceptedIsKept
  <2>2. CASE last
    <3>1. \A y \in Range(batch) : y \in Range(topic')
      <4>1. Range(batch) = {batch[p] : p \in 1..(sent + 1)}
        BY <2>2, <1>4, RangeSet
      <4> QED
        BY <4>1, <1>12
    <3>2. Range(batch) \subseteq Range(rows)
      BY <1>1 DEF IInv, BatchInv
    <3> QED
      BY <2>1, <3>1, <3>2, <1>1, <1>4 DEF InFlight, Item
  <2>3. CASE ~last
    BY <2>1, <2>3, <1>1, <1>2, <1>4 DEF InFlight, Item
  <2> QED
    BY <2>2, <2>3
<1> QED
  BY <1>6, <1>7, <1>8, <1>10, <1>11, <1>13, <1>14 DEF IInv

(* The same candle once more: it stays the one that is being sent.         *)
LEMMA ResendStep ==
    ASSUME IInv, Resend
    PROVE  IInv'
<1> USE DEF feedVars, procVars, workerVars, sinkVars, readyVars
<1> DEFINE x == batch[sent + 1]
<1>1. /\ UNCHANGED <<feedVars, procVars, workerVars, sinkVars, readyVars, rows>>
      /\ sink = "send" /\ topic' = Append(topic, x)
  BY DEF Resend
<1>2. up' \in BOOLEAN /\ ready' \in BOOLEAN /\ spawned' \in BOOLEAN
  BY <1>1 DEF IInv, TypeOK
<1>3. faults' \in Nat
  BY DEF Resend, Fault, IInv, TypeOK
<1>4. /\ topic' \in Seq(Items) /\ Range(topic') = Range(topic) \cup {x}
      /\ sent \in Nat /\ Len(batch) \in Nat
      /\ \A p \in 1..Len(topic') : Accepted(topic'[p], accepted, conn)
      /\ \A p, q \in 1..Len(topic') : p < q => Upto(topic'[p], topic'[q])
      /\ \A p \in 1..Len(topic'), q \in 1..Len(channel) : Before(topic'[p], channel[q])
      /\ \A p \in 1..Len(topic'), q \in (sent + 2)..Len(batch) : Before(topic'[p], batch[q])
      /\ \A p \in 1..Len(topic'), q \in (sent + 1)..Len(batch) : Upto(topic'[p], batch[q])
  BY <1>1, NextOfBatch
<1>5. TypeOK'
  BY <1>1, <1>2, <1>3, <1>4 DEF IInv, TypeOK
<1>6. SinkInv'
  <2>1. Counted' = Counted
    BY <1>1 DEF Counted
  <2> QED
    BY <2>1, <1>1 DEF IInv, SinkInv
<1>7. CacheInv' /\ AcceptedOncePerWindow'
  BY <1>1, CacheKept DEF IInv
<1>8. OrderInv'
  <2>1. \A q \in (sent + 1)..Len(batch) : q = sent + 1 \/ q \in (sent + 2)..Len(batch)
    BY <1>4
  <2>2. \A p \in 1..Len(topic'), q \in (sent + 1)..Len(batch) :
            Upto(topic'[p], batch[q]) /\ (q = sent + 1 \/ Before(topic'[p], batch[q]))
    BY <2>1, <1>4
  <2>3. /\ \A p, q \in 1..Len(batch) : p < q => Before(batch[p], batch[q])
        /\ \A p, q \in 1..Len(channel) : p < q => Before(channel[p], channel[q])
        /\ \A p \in 1..Len(batch), q \in 1..Len(channel) : Before(batch[p], channel[q])
    BY DEF IInv, OrderInv
  <2>4. UNCHANGED <<batch, channel, sent, sink>>
    BY <1>1
  <2> QED
    BY <2>2, <2>3, <2>4, <1>1, <1>4 DEF OrderInv, Before, Upto
<1>9. WayInv'
  BY <1>1, <1>4 DEF IInv, WayInv
<1>10. BatchInv'
  BY <1>1, <1>4 DEF IInv, BatchInv
<1>11. AcceptedIsKept'
  <2>1. \A v \in Workers : InFlight(v)' = InFlight(v)
    BY <1>1 DEF InFlight, Item
  <2> QED
    BY <2>1, <1>1, <1>4 DEF IInv, AcceptedIsKept
<1> QED
  BY <1>5, <1>6, <1>7, <1>8, <1>9, <1>10, <1>11 DEF IInv

------------------------------------------------------------------------------
(* The process.                                                            *)

LEMMA StopStep ==
    ASSUME IInv, Crash \/ Exit
    PROVE  IInv'
<1> USE DEF feedVars, outVars
<1>1. /\ up' = FALSE /\ sink' = "recv" /\ connected' = 0
      /\ conn' = [w \in Workers |-> "down"]
      /\ inbox' = [w \in Workers |-> <<>>] /\ seen' = [w \in Workers |-> <<>>]
      /\ channel' = <<>> /\ batch' = <<>> /\ sent' = 0
      /\ ready' = FALSE /\ spawned' = FALSE
      /\ UNCHANGED <<feedVars, faults, epoch, accepted, outVars>>
  BY DEF Crash, Exit, Stop
<1>2. up' \in BOOLEAN /\ ready' \in BOOLEAN /\ spawned' \in BOOLEAN /\ ~up'
  BY <1>1
<1>3. <<>> \in Seq(Items) /\ <<>> \in Seq(Candles) /\ <<>> \in Seq(Messages) /\ Len(<<>>) = 0
  OBVIOUS
<1>4. conn' \in [Workers -> {"down", "open", "sending", "gone"}]
  BY <1>1
<1>5. inbox' \in [Workers -> Seq(Messages)] /\ seen' \in [Workers -> Seq(Candles)]
  BY <1>1, <1>3
<1>6. /\ \A w \in Workers : Len(seen'[w]) = 0 /\ seen'[w] = <<>>
      /\ Len(channel') = 0 /\ Len(batch') = 0
      /\ \A w \in Workers : Len(accepted[w]) \in Nat
  BY <1>1, <1>3 DEF IInv, TypeOK
<1>7. TypeOK'
  <2>1. /\ \A w \in Workers : Len(seen'[w]) <= DedupeCapacity
        /\ Len(channel') <= ChannelCapacity /\ Len(batch') <= BatchSize
    BY <1>6, PipelineAssumption
  <2> QED
    BY <2>1, <1>1, <1>2, <1>3, <1>4, <1>5 DEF IInv, TypeOK
<1>8. SinkInv'
  <2>1. Counted' = {}
    BY <1>1 DEF Counted
  <2> QED
    BY <2>1, <1>1, <1>6, FS_EmptySet, PipelineAssumption DEF SinkInv
<1>9. CacheInv'
  <2> SUFFICES ASSUME NEW w \in Workers
               PROVE  Tracks(seen'[w], accepted[w]) /\ NotAfter(accepted[w], epoch)
    BY <1>1, <1>2 DEF CacheInv, Tracks, NotAfter
  <2>1. Tracks(seen'[w], accepted[w])
    <3>1. Len(seen'[w]) = 0 /\ Len(accepted[w]) \in Nat
      BY <1>6
    <3>2. \A i \in 1..Len(seen'[w]) : FALSE
      BY <3>1
    <3>3. Len(seen'[w]) <= Len(accepted[w])
      BY <3>1
    <3> QED
      BY <3>2, <3>3 DEF Tracks
  <2>2. NotAfter(accepted[w], epoch)
    BY DEF IInv, CacheInv
  <2> QED
    BY <2>1, <2>2
<1>10. AcceptedOncePerWindow'
  BY <1>1 DEF IInv, AcceptedOncePerWindow
<1>11. OrderInv'
  <2>1. \A p, q \in 1..Len(topic) : p < q => Upto(topic[p], topic[q])
    BY DEF IInv, OrderInv
  <2> QED
    BY <2>1, <1>1, <1>3 DEF OrderInv, Before, Upto
<1>12. WayInv'
  <2>1. ASSUME NEW p \in 1..Len(topic) PROVE Accepted(topic[p], accepted, conn')
    <3>1. Accepted(topic[p], accepted, conn)
      BY DEF IInv, WayInv
    <3> QED
      BY <3>1, <1>1 DEF Accepted
  <2> QED
    BY <2>1, <1>1, <1>3 DEF WayInv
<1>13. BatchInv' /\ AcceptedIsKept'
  BY <1>1 DEF BatchInv, AcceptedIsKept
<1> QED
  BY <1>7, <1>8, <1>9, <1>10, <1>11, <1>12, <1>13 DEF IInv

LEMMA RestartStep ==
    ASSUME IInv, Restart
    PROVE  IInv'
<1> USE DEF feedVars, workerVars, sinkVars, readyVars, outVars
<1>1. /\ epoch' = epoch + 1 /\ up' = TRUE
      /\ UNCHANGED <<feedVars, faults, workerVars, sinkVars, readyVars, outVars>>
  BY DEF Restart
<1>2. up' \in BOOLEAN /\ ready' \in BOOLEAN /\ spawned' \in BOOLEAN
  BY <1>1 DEF IInv, TypeOK
<1>3. TypeOK'
  <2>1. epoch' \in Nat
    BY <1>1 DEF IInv, TypeOK
  <2>2. UNCHANGED <<closed, repeats, faults, conn, inbox, seen, accepted, connected>>
    BY <1>1
  <2>3. UNCHANGED <<channel, sink, batch, sent, ready, spawned, rows, topic>>
    BY <1>1
  <2> HIDE DEF feedVars, workerVars, sinkVars, readyVars, outVars
  <2> QED
    BY <1>2, <2>1, <2>2, <2>3 DEF IInv, TypeOK
<1>4. SinkInv'
  <2>1. Counted' = Counted
    BY <1>1 DEF Counted
  <2> QED
    BY <2>1, <1>1 DEF IInv, SinkInv
<1>5. \A w \in Workers : \A j \in 1..Len(accepted[w]) : accepted[w][j].epoch \in Nat /\ accepted[w][j].epoch <= epoch
  <2> SUFFICES ASSUME NEW w \in Workers, NEW j \in 1..Len(accepted[w])
               PROVE  accepted[w][j].epoch \in Nat /\ accepted[w][j].epoch <= epoch
    OBVIOUS
  <2>1. accepted[w][j] \in Acceptances
    <3>1. accepted[w] \in Seq(Acceptances)
      BY DEF IInv, TypeOK, Acceptances
    <3> QED
      BY <3>1, ElementOfSeq
  <2> QED
    BY <2>1 DEF IInv, CacheInv, NotAfter, Acceptances
<1>6. \A w \in Workers : \A j \in 1..Len(accepted[w]) :
          accepted[w][j].epoch <= epoch + 1 /\ accepted[w][j].epoch # epoch + 1
  <2>1. epoch \in Nat
    BY DEF IInv, TypeOK
  <2>2. \A e \in Nat : e <= epoch => e <= epoch + 1 /\ e # epoch + 1
    BY <2>1
  <2> QED
    BY <1>5, <2>2
<1>7. CacheInv'
  <2> SUFFICES ASSUME NEW w \in Workers
               PROVE  /\ Tracks(seen[w], accepted[w]) /\ NotAfter(accepted[w], epoch + 1)
                      /\ Remembers(seen[w], accepted[w], epoch + 1)
    BY <1>1 DEF CacheInv, Tracks, NotAfter, Remembers
  <2>1. Tracks(seen[w], accepted[w])
    BY DEF IInv, CacheInv
  <2>2. NotAfter(accepted[w], epoch + 1)
    BY <1>6 DEF NotAfter
  <2>3. \A j \in 1..(Len(accepted[w]) - Len(seen[w])) : j \in 1..Len(accepted[w])
    BY DEF IInv, TypeOK
  <2>4. Remembers(seen[w], accepted[w], epoch + 1)
    BY <2>3, <1>6 DEF Remembers
  <2> QED
    BY <2>1, <2>2, <2>4
<1>8. AcceptedOncePerWindow'
  BY <1>1 DEF IInv, AcceptedOncePerWindow
<1>9. OrderInv' /\ WayInv' /\ BatchInv'
  BY <1>1, OrderKept, WayKept, BatchKept DEF IInv
<1>10. AcceptedIsKept'
  BY <1>1, <1>6 DEF AcceptedIsKept
<1> QED
  BY <1>3, <1>4, <1>7, <1>8, <1>9, <1>10 DEF IInv

------------------------------------------------------------------------------
(* The inductive invariant holds in every behaviour of the pipeline.       *)
THEOREM PipelineInvariant == Spec => []IInv
<1>1. IInv /\ [Next]_vars => IInv'
  <2> SUFFICES ASSUME IInv, [Next]_vars PROVE IInv'
    OBVIOUS
  <2>1. CASE Feed
    BY <2>1, FeedStep
  <2>2. ASSUME NEW w \in Workers, Worker(w) PROVE IInv'
    BY <2>2, ConnectionStep, SkipStep, AcceptStep, SendStep, BailStep DEF Worker, Read
  <2>3. CASE Task
    BY <2>3, RecvStep, TickStep, InsertStep, SinkFails, SendCandleStep, ResendStep DEF Task, Sink, Flush
  <2>4. CASE MarkReady
    BY <2>4, TickStep
  <2>5. CASE Crash \/ Exit
    BY <2>5, StopStep
  <2>6. CASE Restart
    BY <2>6, RestartStep
  <2>7. CASE UNCHANGED vars
    <3>1. /\ closed' \subseteq Candles /\ repeats' \in Nat /\ inbox' \in [Workers -> Seq(Messages)]
      BY <2>7 DEF vars, feedVars, workerVars, IInv, TypeOK
    <3>2. UNCHANGED <<faults, procVars, conn, seen, accepted, connected, sinkVars, readyVars, outVars>>
      BY <2>7 DEF vars, workerVars
    <3> QED
      BY <3>1, <3>2, SocketStep
  <2> QED
    BY <2>1, <2>2, <2>3, <2>4, <2>5, <2>6, <2>7 DEF Next
<1> QED
  BY InitIInv, <1>1, PTL DEF Spec

(* Every variable keeps its type, and the cache, the channel and the batch *)
(* their capacities (candle.rs).                                           *)
THEOREM TypeCorrect == Spec => []TypeOK
<1>1. IInv => TypeOK
  BY DEF IInv
<1> QED
  BY <1>1, PipelineInvariant, PTL

(* insert_if_new finds a candle new twice only in two incarnations, or     *)
(* more than DedupeCapacity acceptances apart.                             *)
THEOREM AcceptedOnce == Spec => []AcceptedOncePerWindow
<1>1. IInv => AcceptedOncePerWindow
  BY DEF IInv
<1> QED
  BY <1>1, PipelineInvariant, PTL

(* While sink_loop runs, what a worker accepted is in its hand, in the     *)
(* channel, in the batch or in both stores.                                *)
THEOREM NothingLeaks == Spec => []AcceptedIsKept
<1>1. IInv => AcceptedIsKept
  BY DEF IInv
<1> QED
  BY <1>1, PipelineInvariant, PTL

(* flush_batch publishes the candles of a worker in the order in which the *)
(* worker accepted them, over reconnections, failures and restarts, and    *)
(* what librdkafka sends again stays next to its first copy.               *)
THEOREM InOrder == Spec => []PublishedInOrder
<1>1. IInv => PublishedInOrder
  BY DEF IInv, OrderInv, Upto, PublishedInOrder
<1> QED
  BY <1>1, PipelineInvariant, PTL

(* flush_batch writes ClickHouse first: what is on the topic is in the     *)
(* table, whatever failed or was killed in between.                        *)
StoredBefore == Range(topic) \subseteq Range(rows)

THEOREM TableBeforeTopic == Spec => []StoredBefore
<1>1. Init => StoredBefore
  BY DEF Init, StoredBefore, Range
<1>2. IInv /\ StoredBefore /\ [Next]_vars => StoredBefore'
  <2> SUFFICES ASSUME IInv, StoredBefore, [Next]_vars PROVE StoredBefore'
    OBVIOUS
  <2>1. rows \in Seq(Items) /\ batch \in Seq(Items)
    BY DEF IInv, TypeOK
  <2>2. Range(rows \o batch) = Range(rows) \cup Range(batch)
    BY <2>1, RangeConcat
  <2>3. CASE SendCandle \/ Resend
    <3>1. sink = "send" /\ topic' = Append(topic, batch[sent + 1]) /\ rows' = rows
      BY <2>3 DEF SendCandle, Resend
    <3> QED
      BY <3>1, NextOfBatch DEF IInv, BatchInv, StoredBefore
  <2>4. CASE SendFailed
    <3>1. sink = "send" /\ topic' \in {topic, Append(topic, batch[sent + 1])} /\ rows' = rows
      BY <2>4 DEF SendFailed
    <3> QED
      BY <3>1, NextOfBatch DEF IInv, BatchInv, StoredBefore
  <2>5. CASE InsertBatch \/ InsertFailed
    <3>1. topic' = topic /\ rows' \in {rows, rows \o batch}
      BY <2>5 DEF InsertBatch, InsertFailed
    <3> QED
      BY <3>1, <2>2 DEF StoredBefore
  <2>6. CASE Feed
    BY <2>6 DEF Feed, Repeat, Close, outVars, StoredBefore
  <2>7. ASSUME NEW w \in Workers, Worker(w) PROVE StoredBefore'
    BY <2>7 DEF Worker, Read, Connect, Disconnect, SkipMessage, AcceptCandle, Send, Bail, outVars, StoredBefore
  <2>8. CASE Recv \/ FlushTick \/ EmptyTick \/ MarkReady \/ Crash \/ Exit \/ Restart \/ UNCHANGED vars
    BY <2>8 DEF Recv, FlushTick, EmptyTick, MarkReady, Crash, Exit, Stop, Restart, vars, outVars, StoredBefore
  <2> QED
    BY <2>3, <2>4, <2>5, <2>6, <2>7, <2>8 DEF Next, Task, Sink, Flush
<1> QED
  BY <1>1, <1>2, PipelineInvariant, PTL DEF Spec

------------------------------------------------------------------------------
(* The table and the topic: what an incarnation leaves behind.             *)

(* An index of a's history, and the incarnation it belongs to.             *)
Placed(x, a)  == x[2] \in 1..Len(a[x[1]])
EpochIn(x, a) == a[x[1]][x[2]].epoch

(* What is on its way was accepted by this process.                        *)
FreshInv ==
    /\ \A x \in Range(channel) \cup Range(batch) : Placed(x, accepted) /\ EpochIn(x, accepted) = epoch
    /\ \A w \in Workers : conn[w] = "sending" => accepted[w][Len(accepted[w])].epoch = epoch
    /\ \A x \in Range(rows) : Placed(x, accepted)
    /\ ~up => batch = <<>> /\ channel = <<>> /\ sink = "recv"

(* An item enters the table once: when it does, it is in the batch, and    *)
(* what is in the batch or behind it is not in the table.                  *)
RowsInv ==
    /\ IsInjective(rows)
    /\ sink # "send" => Range(rows) \cap Range(batch) = {}
    /\ Range(rows) \cap Range(channel) = {}
    /\ \A x \in Range(rows) : Accepted(x, accepted, conn)

(* In the table and not on the topic: of this incarnation, what is left of *)
(* the batch under way.                                                    *)
Unsent(e) == {x \in Range(rows) \ Range(topic) : EpochIn(x, accepted) = e}

UnsentInv ==
    /\ \A e \in Nat : IsFiniteSet(Unsent(e)) /\ Cardinality(Unsent(e)) <= BatchSize
    /\ up /\ sink \in {"recv", "insert"} => Unsent(epoch) = {}
    /\ sink = "send" => Unsent(epoch) \subseteq {batch[q] : q \in (sent + 1)..Len(batch)}

(* A step of the rest moves nothing between the stores.                    *)
Idle ==
    /\ UNCHANGED <<rows, topic, batch, channel, sent, accepted, epoch, up>>
    /\ sink' = sink \/ (sink = "recv" /\ batch # <<>> /\ sink' = "insert")
    /\ \A w \in Workers : conn'[w] = "sending" => conn[w] = "sending"

LEMMA SinkSteps ==
    ASSUME IInv, [Next]_vars
    PROVE  \/ Idle
           \/ \E w \in Workers : AcceptCandle(w) \/ Send(w)
           \/ Recv \/ InsertBatch \/ InsertFailed \/ SendCandle \/ Resend \/ SendFailed
           \/ Crash \/ Exit \/ Restart
<1>1. conn \in [Workers -> {"down", "open", "sending", "gone"}]
  BY DEF IInv, TypeOK
<1>2. ASSUME NEW w \in Workers, Connect(w) \/ Disconnect(w) \/ SkipMessage(w) \/ Bail(w) PROVE Idle
  BY <1>1, <1>2 DEF Idle, Connect, Disconnect, SkipMessage, Bail, procVars, sinkVars, outVars
<1>3. CASE Feed
  BY <1>3 DEF Feed, Repeat, Close, Idle, procVars, sinkVars, outVars
<1>4. CASE FlushTick \/ EmptyTick \/ MarkReady
  BY <1>4 DEF FlushTick, EmptyTick, MarkReady, Idle, procVars, workerVars, sinkVars, outVars
<1>5. CASE UNCHANGED vars
  BY <1>5 DEF Idle, vars, procVars, workerVars, sinkVars, outVars
<1> QED
  BY <1>2, <1>3, <1>4, <1>5 DEF Next, Worker, Read, Task, Sink, Flush

LEMMA SinkTypes ==
    ASSUME IInv
    PROVE  /\ rows \in Seq(Items) /\ topic \in Seq(Items) /\ batch \in Seq(Items) /\ channel \in Seq(Items)
           /\ Range(rows) \subseteq Items /\ Range(topic) \subseteq Items
           /\ Range(batch) \subseteq Items /\ Range(channel) \subseteq Items
           /\ epoch \in Nat /\ sent \in Nat /\ Len(batch) \in Nat /\ Len(batch) <= BatchSize
           /\ BatchSize \in Nat \ {0} /\ \A x \in Items : x[1] \in Workers /\ x[2] \in Nat
<1>1. rows \in Seq(Items) /\ topic \in Seq(Items) /\ batch \in Seq(Items) /\ channel \in Seq(Items)
  BY DEF IInv, TypeOK
<1>2. \A s \in Seq(Items) : Range(s) \subseteq Items
  <2> SUFFICES ASSUME NEW s \in Seq(Items) PROVE Range(s) \subseteq Items
    OBVIOUS
  <2>1. Range(s) = {s[i] : i \in 1..Len(s)}
    BY RangeSet
  <2> QED
    BY <2>1
<1>3. epoch \in Nat /\ sent \in Nat /\ Len(batch) <= BatchSize /\ BatchSize \in Nat \ {0}
  BY PipelineAssumption DEF IInv, TypeOK
<1>4. Len(batch) \in Nat
  BY <1>1
<1>5. \A x \in Items : x[1] \in Workers /\ x[2] \in Nat
  BY DEF Items
<1>6. /\ Range(rows) \subseteq Items /\ Range(topic) \subseteq Items
      /\ Range(batch) \subseteq Items /\ Range(channel) \subseteq Items
  BY <1>1, <1>2
<1> QED
  BY <1>1, <1>3, <1>4, <1>5, <1>6

(* The history grows, and what it says of an item stays.                   *)
LEMMA HistoryStays ==
    ASSUME IInv, [Next]_vars
    PROVE  /\ \A x \in Items : Placed(x, accepted) =>
                  Placed(x, accepted') /\ EpochIn(x, accepted') = EpochIn(x, accepted)
           /\ \A x \in Items : Accepted(x, accepted, conn) => Accepted(x, accepted', conn')
<1>1. \A x \in Items : x[1] \in Workers /\ x[2] \in Nat
  BY SinkTypes
<1>2. ASSUME NEW w \in Workers, AcceptCandle(w)
      PROVE  /\ \A x \in Items : Placed(x, accepted) =>
                    Placed(x, accepted') /\ EpochIn(x, accepted') = EpochIn(x, accepted)
             /\ \A x \in Items : Accepted(x, accepted, conn) => Accepted(x, accepted', conn')
  <2>1. /\ \A v \in Workers : Len(accepted[v]) \in Nat
        /\ \A v \in Workers : v # w => accepted'[v] = accepted[v] /\ conn'[v] = conn[v]
        /\ Len(accepted'[w]) = Len(accepted[w]) + 1
        /\ \A i \in 1..Len(accepted[w]) : accepted'[w][i] = accepted[w][i]
        /\ \A x \in Items : Accepted(x, accepted, conn) => Accepted(x, accepted', conn')
    BY <1>2, AcceptGrows
  <2>2. ASSUME NEW x \in Items, Placed(x, accepted)
        PROVE  Placed(x, accepted') /\ EpochIn(x, accepted') = EpochIn(x, accepted)
    <3>1. CASE x[1] = w
      BY <1>1, <2>1, <2>2, <3>1 DEF Placed, EpochIn
    <3>2. CASE x[1] # w
      BY <1>1, <2>1, <2>2, <3>2 DEF Placed, EpochIn
    <3> QED
      BY <3>1, <3>2
  <2> QED
    BY <2>1, <2>2
<1>3. CASE /\ accepted' = accepted
           /\ \A w \in Workers : conn'[w] = "sending" => conn[w] = "sending"
  BY <1>1, <1>3 DEF Placed, EpochIn, Accepted
<1>4. CASE ~\E w \in Workers : AcceptCandle(w)
  <2>1. conn \in [Workers -> {"down", "open", "sending", "gone"}]
    BY DEF IInv, TypeOK
  <2> QED
    BY <1>3, <1>4, <2>1, SinkSteps
    DEF Idle, Send, Recv, InsertBatch, InsertFailed, SendCandle, Resend, SendFailed, Crash, Exit, Stop,
        Restart, workerVars
<1> QED
  BY <1>2, <1>4

LEMMA FreshStep == IInv /\ FreshInv /\ [Next]_vars => FreshInv'
<1> SUFFICES ASSUME IInv, FreshInv, [Next]_vars PROVE FreshInv'
  OBVIOUS
<1>1. /\ rows \in Seq(Items) /\ topic \in Seq(Items) /\ batch \in Seq(Items) /\ channel \in Seq(Items)
      /\ Range(rows) \subseteq Items /\ Range(batch) \subseteq Items /\ Range(channel) \subseteq Items
  BY SinkTypes
<1>2. \A x \in Items : Placed(x, accepted) =>
          Placed(x, accepted') /\ EpochIn(x, accepted') = EpochIn(x, accepted)
  BY HistoryStays
<1>3. Range(<<>>) = {}
  BY DEF Range
<1>4. /\ \A x \in Range(channel) \cup Range(batch) : Placed(x, accepted') /\ EpochIn(x, accepted') = epoch
      /\ \A x \in Range(rows) : Placed(x, accepted')
  BY <1>1, <1>2 DEF FreshInv
<1>5. ~up => batch = <<>> /\ channel = <<>> /\ sink = "recv" /\ \A w \in Workers : conn[w] = "down"
  BY DEF FreshInv, IInv, SinkInv
<1>6. CASE Idle
  <2>1. /\ UNCHANGED <<rows, batch, channel, accepted, epoch, up>>
        /\ sink' = sink \/ (sink = "recv" /\ batch # <<>> /\ sink' = "insert")
        /\ \A w \in Workers : conn'[w] = "sending" => conn[w] = "sending"
    BY <1>6 DEF Idle
  <2>2. ~up' => batch' = <<>> /\ channel' = <<>> /\ sink' = "recv"
    BY <1>5, <1>6 DEF Idle
  <2> QED
    BY <1>4, <2>1, <2>2 DEF FreshInv
<1>7. ASSUME NEW w \in Workers, AcceptCandle(w) PROVE FreshInv'
  <2>1. /\ \A v \in Workers : v # w => accepted'[v] = accepted[v] /\ conn'[v] = conn[v]
        /\ accepted'[w][Len(accepted'[w])].epoch = epoch
    BY <1>7, AcceptGrows
  <2>2. UNCHANGED <<rows, batch, channel, sink, epoch, up>> /\ up
    BY <1>5, <1>7 DEF AcceptCandle, procVars, sinkVars, outVars
  <2> QED
    BY <1>4, <2>1, <2>2 DEF FreshInv
<1>8. ASSUME NEW w \in Workers, Send(w) PROVE FreshInv'
  <2> DEFINE x == Item(w)
  <2>1. /\ conn \in [Workers -> {"down", "open", "sending", "gone"}] /\ conn[w] = "sending"
        /\ conn' = [conn EXCEPT ![w] = "open"] /\ Len(accepted[w]) \in Nat /\ Len(accepted[w]) > 0
    BY <1>8 DEF Send, IInv, TypeOK, WayInv
  <2>2. x \in Items /\ Placed(x, accepted) /\ EpochIn(x, accepted) = epoch
    BY <2>1 DEF Item, Items, Placed, EpochIn, FreshInv
  <2>3. /\ UNCHANGED <<rows, batch, sink, epoch, up, accepted>> /\ up
        /\ channel' = Append(channel, x)
    BY <1>5, <1>8, <2>1 DEF Send, procVars, outVars
  <2> HIDE DEF x
  <2>4. Range(channel') = Range(channel) \cup {x}
    BY <1>1, <2>2, <2>3, RangeAppend
  <2>5. \A v \in Workers : conn'[v] = "sending" => conn[v] = "sending"
    BY <2>1
  <2> QED
    BY <2>2, <2>3, <2>4, <2>5 DEF FreshInv
<1>9. CASE Recv
  <2> DEFINE x == Head(channel)
  <2>1. /\ channel # <<>> /\ batch' = Append(batch, x) /\ channel' = Tail(channel)
        /\ UNCHANGED <<rows, epoch, up, accepted, conn>>
    BY <1>9 DEF Recv, procVars, workerVars, outVars
  <2>2. x \in Items
    BY <1>1, <2>1
  <2>3. Range(batch') = Range(batch) \cup {x} /\ Range(channel) = {x} \cup Range(channel')
    BY <1>1, <2>1, <2>2, RangeAppend, RangeTail
  <2> QED
    BY <1>5, <2>1, <2>3 DEF FreshInv
<1>10. CASE InsertBatch \/ InsertFailed
  <2>1. /\ rows' \in {rows, rows \o batch} /\ UNCHANGED <<epoch, up, accepted, conn>> /\ sink = "insert"
        /\ UNCHANGED <<batch, channel>> \/ (batch' = <<>> /\ channel' = <<>>)
    BY <1>10 DEF InsertBatch, InsertFailed, SinkEnds, procVars, workerVars
  <2>2. Range(rows \o batch) = Range(rows) \cup Range(batch)
    BY <1>1, RangeConcat
  <2>3. \A x \in Range(rows') : Placed(x, accepted')
    BY <1>4, <2>1, <2>2
  <2> QED
    BY <1>3, <1>4, <1>5, <2>1, <2>3 DEF FreshInv
<1>11. CASE SendCandle \/ Resend \/ SendFailed
  <2>1. /\ UNCHANGED <<rows, epoch, up, accepted, conn>> /\ sink = "send"
        /\ batch' \in {batch, <<>>} /\ channel' \in {channel, <<>>}
    BY <1>11 DEF SendCandle, Resend, SendFailed, SinkEnds, procVars, workerVars, sinkVars
  <2> QED
    BY <1>3, <1>4, <1>5, <2>1 DEF FreshInv
<1>12. CASE Crash \/ Exit
  <2>1. /\ channel' = <<>> /\ batch' = <<>> /\ sink' = "recv" /\ rows' = rows
        /\ \A w \in Workers : conn'[w] # "sending"
    BY <1>12 DEF Crash, Exit, Stop, outVars
  <2> QED
    BY <1>3, <1>4, <2>1 DEF FreshInv
<1>13. CASE Restart
  <2>1. UNCHANGED <<channel, batch, rows, conn, accepted>> /\ ~up /\ up'
    BY <1>13 DEF Restart, workerVars, sinkVars, outVars
  <2> QED
    BY <1>3, <1>4, <1>5, <2>1 DEF FreshInv
<1> QED
  BY <1>6, <1>7, <1>8, <1>9, <1>10, <1>11, <1>12, <1>13, SinkSteps


LEMMA DistinctItems ==
    ASSUME NEW s \in Seq(Items), \A p, q \in 1..Len(s) : p < q => Before(s[p], s[q])
    PROVE  IsInjective(s)
<1>1. DOMAIN s = 1..Len(s) /\ Len(s) \in Nat
  OBVIOUS
<1>2. ASSUME NEW p \in 1..Len(s), NEW q \in 1..Len(s), p < q PROVE s[p] # s[q]
  <2>1. s[p] \in Items /\ Before(s[p], s[q])
    BY <1>2
  <2>2. s[p][2] \in Nat
    BY <2>1 DEF Items
  <2> QED
    BY <2>1, <2>2 DEF Before
<1>3. ASSUME NEW p \in 1..Len(s), NEW q \in 1..Len(s), s[p] = s[q] PROVE p = q
  <2>1. p < q \/ q < p \/ p = q
    BY <1>1
  <2> QED
    BY <1>2, <1>3, <2>1
<1> QED
  BY <1>1, <1>3 DEF IsInjective

(* What all of a sequence is before is not in it. *)
LEMMA NotBehind ==
    ASSUME NEW s \in Seq(Items), NEW x, \A p \in 1..Len(s) : Before(s[p], x)
    PROVE  x \notin Range(s)
<1> SUFFICES ASSUME x \in Range(s) PROVE FALSE
  OBVIOUS
<1>1. PICK p \in 1..Len(s) : x = s[p]
  BY RangeSet
<1>2. x \in Items /\ Before(x, x)
  BY <1>1
<1> QED
  BY <1>2 DEF Before, Items

LEMMA InjectiveConcat ==
    ASSUME NEW s \in Seq(Items), NEW t \in Seq(Items), IsInjective(s), IsInjective(t),
           Range(s) \cap Range(t) = {}
    PROVE  IsInjective(s \o t)
<1> DEFINE u == s \o t
           n == Len(s)
<1>1. /\ Len(s) \in Nat /\ Len(t) \in Nat /\ u \in Seq(Items) /\ Len(u) = Len(s) + Len(t)
      /\ DOMAIN s = 1..Len(s) /\ DOMAIN t = 1..Len(t) /\ DOMAIN u = 1..Len(u)
  OBVIOUS
<1>2. \A i \in 1..Len(s) : u[i] = s[i] /\ s[i] \in Range(s)
  BY <1>1, ConcatProperties DEF Range
<1>3. \A i \in 1..Len(u) : i \in 1..n \/ (i - n \in 1..Len(t) /\ u[i] = t[i - n] /\ t[i - n] \in Range(t))
  BY <1>1, ConcatProperties DEF Range
<1> HIDE DEF u
<1>4. /\ \A p, q \in 1..Len(s) : s[p] = s[q] => p = q
      /\ \A p, q \in 1..Len(t) : t[p] = t[q] => p = q
  BY <1>1 DEF IsInjective
<1> HIDE DEF n
<1>5. n \in Nat /\ 1..n = 1..Len(s)
  BY <1>1 DEF n
<1>6. ASSUME NEW p \in 1..Len(u), NEW q \in 1..Len(u), u[p] = u[q] PROVE p = q
  <2>1. CASE p \in 1..n /\ q \in 1..n
    BY <1>2, <1>4, <1>5, <1>6, <2>1
  <2>2. CASE p \in 1..n /\ q \notin 1..n
    BY <1>2, <1>3, <1>5, <1>6, <2>2
  <2>3. CASE p \notin 1..n /\ q \in 1..n
    BY <1>2, <1>3, <1>5, <1>6, <2>3
  <2>4. CASE p \notin 1..n /\ q \notin 1..n
    <3>1. p - n \in 1..Len(t) /\ q - n \in 1..Len(t) /\ t[p - n] = t[q - n]
      BY <1>3, <1>6, <2>4
    <3>2. p - n = q - n
      BY <1>4, <3>1
    <3>3. p \in Nat /\ q \in Nat
      BY <1>1
    <3> QED
      BY <1>5, <3>2, <3>3
  <2> QED
    BY <2>1, <2>2, <2>3, <2>4
<1> QED
  BY <1>1, <1>6 DEF IsInjective, u

(* Batch and channel hold an item once, and no item is in both.            *)
LEMMA ApartOnTheWay ==
    ASSUME IInv
    PROVE  /\ IsInjective(batch) /\ IsInjective(channel)
           /\ Range(batch) \cap Range(channel) = {}
<1>1. batch \in Seq(Items) /\ channel \in Seq(Items)
  BY SinkTypes
<1>2. IsInjective(batch) /\ IsInjective(channel)
  BY <1>1, DistinctItems DEF IInv, OrderInv
<1>3. ASSUME NEW p \in 1..Len(batch), NEW q \in 1..Len(channel) PROVE batch[p] # channel[q]
  <2>1. batch[p][2] \in Nat /\ Before(batch[p], channel[q])
    BY <1>1 DEF IInv, OrderInv, Items
  <2> QED
    BY <2>1 DEF Before
<1>4. Range(batch) = {batch[i] : i \in 1..Len(batch)} /\ Range(channel) = {channel[i] : i \in 1..Len(channel)}
  BY <1>1, RangeSet
<1> QED
  BY <1>2, <1>3, <1>4

LEMMA RowsStep == IInv /\ IInv' /\ RowsInv /\ [Next]_vars => RowsInv'
<1> SUFFICES ASSUME IInv, IInv', RowsInv, [Next]_vars PROVE RowsInv'
  OBVIOUS
<1>1. /\ rows \in Seq(Items) /\ batch \in Seq(Items) /\ channel \in Seq(Items)
      /\ Range(rows) \subseteq Items /\ Range(batch) \subseteq Items
  BY SinkTypes
<1>2. \A x \in Items : Accepted(x, accepted, conn) => Accepted(x, accepted', conn')
  BY HistoryStays
<1>3. Range(<<>>) = {}
  BY DEF Range
<1>4. \A x \in Range(rows) : Accepted(x, accepted', conn')
  BY <1>1, <1>2 DEF RowsInv
<1>5. CASE Idle
  BY <1>4, <1>5 DEF Idle, RowsInv
<1>6. ASSUME NEW w \in Workers, AcceptCandle(w) PROVE RowsInv'
  BY <1>4, <1>6 DEF AcceptCandle, RowsInv, sinkVars, outVars
<1>7. ASSUME NEW w \in Workers, Send(w) PROVE RowsInv'
  <2> DEFINE x == Item(w)
  <2>1. conn[w] = "sending" /\ Len(accepted[w]) \in Nat
    BY <1>7 DEF Send, IInv, TypeOK
  <2>2. x \in Items /\ x[1] = w /\ x[2] = Len(accepted[w])
    BY <2>1 DEF Item, Items
  <2>3. UNCHANGED <<rows, batch, sink>> /\ channel' = Append(channel, x)
    BY <1>7 DEF Send, outVars
  <2> HIDE DEF x
  <2>4. Range(channel') = Range(channel) \cup {x}
    BY <1>1, <2>2, <2>3, RangeAppend
  <2>5. x \notin Range(rows)
    BY <2>1, <2>2 DEF RowsInv, Accepted
  <2> QED
    BY <1>4, <2>3, <2>4, <2>5 DEF RowsInv
<1>8. CASE Recv
  <2> DEFINE x == Head(channel)
  <2>1. /\ channel # <<>> /\ batch' = Append(batch, x) /\ channel' = Tail(channel)
        /\ rows' = rows /\ sink = "recv"
    BY <1>8 DEF Recv, outVars
  <2>2. x \in Items
    BY <1>1, <2>1
  <2>3. Range(batch') = Range(batch) \cup {x} /\ Range(channel) = {x} \cup Range(channel')
    BY <1>1, <2>1, <2>2, RangeAppend, RangeTail
  <2> QED
    BY <1>4, <2>1, <2>3 DEF RowsInv
<1>9. CASE InsertBatch \/ InsertFailed
  <2>1. /\ rows' \in {rows, rows \o batch} /\ sink = "insert"
        /\ \/ sink' = "send" /\ UNCHANGED <<batch, channel>>
           \/ batch' = <<>> /\ channel' = <<>>
        /\ UNCHANGED <<accepted, conn>>
    BY <1>9 DEF InsertBatch, InsertFailed, SinkEnds, workerVars
  <2>2. Range(rows \o batch) = Range(rows) \cup Range(batch)
    BY <1>1, RangeConcat
  <2>3. Range(rows) \cap Range(batch) = {} /\ Range(rows) \cap Range(channel) = {}
        /\ Range(batch) \cap Range(channel) = {} /\ IsInjective(rows) /\ IsInjective(batch)
    BY <2>1, ApartOnTheWay DEF RowsInv
  <2>4. IsInjective(rows')
    BY <1>1, <2>1, <2>3, InjectiveConcat
  <2>5. \A x \in Range(batch) : Accepted(x, accepted, conn)
    BY <1>1, RangeSet DEF IInv, WayInv
  <2>6. \A x \in Range(rows') : Accepted(x, accepted', conn')
    BY <1>4, <2>1, <2>2, <2>5
  <2>7. Range(rows') \cap Range(channel') = {}
    BY <1>3, <2>1, <2>2, <2>3
  <2>8. sink' # "send" => Range(rows') \cap Range(batch') = {}
    BY <1>3, <2>1
  <2> QED
    BY <2>4, <2>6, <2>7, <2>8 DEF RowsInv
<1>10. CASE SendCandle \/ Resend \/ SendFailed
  <2>1. rows' = rows /\ channel' \in {channel, <<>>} /\ (sink' = "send" \/ batch' = <<>>)
    BY <1>10 DEF SendCandle, Resend, SendFailed, SinkEnds, sinkVars
  <2> QED
    BY <1>3, <1>4, <2>1 DEF RowsInv
<1>11. CASE Crash \/ Exit
  <2>1. rows' = rows /\ channel' = <<>> /\ batch' = <<>>
    BY <1>11 DEF Crash, Exit, Stop, outVars
  <2> QED
    BY <1>3, <1>4, <2>1 DEF RowsInv
<1>12. CASE Restart
  BY <1>4, <1>12 DEF Restart, sinkVars, outVars, RowsInv
<1> QED
  BY <1>5, <1>6, <1>7, <1>8, <1>9, <1>10, <1>11, <1>12, SinkSteps


LEMMA SmallSubset ==
    ASSUME NEW S, IsFiniteSet(S), NEW T \in SUBSET S, NEW b \in Nat, Cardinality(S) <= b
    PROVE  IsFiniteSet(T) /\ Cardinality(T) <= b
<1>1. IsFiniteSet(T) /\ Cardinality(T) <= Cardinality(S)
  BY FS_Subset
<1>2. Cardinality(T) \in Nat /\ Cardinality(S) \in Nat
  BY <1>1, FS_CardinalityType
<1> QED
  BY <1>1, <1>2

LEMMA SmallBatch ==
    ASSUME IInv
    PROVE  IsFiniteSet(Range(batch)) /\ Cardinality(Range(batch)) <= BatchSize
<1>1. batch \in Seq(Items) /\ Len(batch) \in Nat /\ Len(batch) <= BatchSize /\ BatchSize \in Nat
  BY SinkTypes
<1> DEFINE D == 1..Len(batch)
           R == Range(batch)
<1>2. IsFiniteSet(D) /\ Cardinality(D) = Len(batch)
  <2>1. 1 \in Int /\ Len(batch) \in Int
    BY <1>1
  <2>2. IsFiniteSet(D) /\ Cardinality(D) = IF 1 > Len(batch) THEN 0 ELSE Len(batch) - 1 + 1
    BY <2>1, FS_Interval
  <2> QED
    BY <1>1, <2>2
<1>3. R = {batch[i] : i \in D}
  BY <1>1, RangeSet
<1>4. batch \in Surjection(D, R)
  BY <1>1, <1>3 DEF Surjection
<1> HIDE DEF D, R
<1>5. IsFiniteSet(R) /\ Cardinality(R) <= Cardinality(D)
  BY <1>2, <1>4, FS_Surjection
<1>6. Cardinality(R) \in Nat
  BY <1>5, FS_CardinalityType
<1> QED
  BY <1>1, <1>2, <1>5, <1>6 DEF R

LEMMA UnsentStep == IInv /\ IInv' /\ FreshInv /\ UnsentInv /\ [Next]_vars => UnsentInv'
<1> SUFFICES ASSUME IInv, IInv', FreshInv, UnsentInv, [Next]_vars PROVE UnsentInv'
  OBVIOUS
<1>1. /\ rows \in Seq(Items) /\ topic \in Seq(Items) /\ batch \in Seq(Items)
      /\ Range(rows) \subseteq Items /\ Range(batch) \subseteq Items
      /\ epoch \in Nat /\ sent \in Nat /\ Len(batch) \in Nat /\ BatchSize \in Nat
  BY SinkTypes
<1>2. \A x \in Range(rows) \cup Range(batch) \cup Range(channel) : EpochIn(x, accepted') = EpochIn(x, accepted)
  <2>1. Range(channel) \subseteq Items
    BY SinkTypes
  <2> QED
    BY <1>1, <2>1, HistoryStays DEF FreshInv
<1>3. ~up => sink = "recv"
  BY DEF FreshInv
(* Nothing is left over where nothing was inserted. *)
<1>4. ASSUME rows' = rows, Range(topic) \subseteq Range(topic')
      PROVE  \A e \in Nat : Unsent(e)' \in SUBSET Unsent(e)
  BY <1>2, <1>4 DEF Unsent
<1>5. ASSUME \A e \in Nat : Unsent(e)' \in SUBSET Unsent(e)
      PROVE  \A e \in Nat : IsFiniteSet(Unsent(e)') /\ Cardinality(Unsent(e)') <= BatchSize
  BY <1>1, <1>5, SmallSubset DEF UnsentInv
<1>6. ASSUME UNCHANGED <<rows, topic, sent, epoch, up>>, batch' = batch \/ sink = "recv",
             sink' = sink \/ {sink, sink'} \subseteq {"recv", "insert"}
      PROVE  UnsentInv'
  <2>1. \A e \in Nat : Unsent(e)' \in SUBSET Unsent(e)
    BY <1>4, <1>6
  <2>2. Unsent(epoch)' \in SUBSET Unsent(epoch)
    BY <1>2, <1>6 DEF Unsent
  <2>3. up' /\ sink' \in {"recv", "insert"} => Unsent(epoch)' = {}
    BY <1>6, <2>2 DEF UnsentInv
  <2>4. sink' = "send" => Unsent(epoch)' \subseteq {batch'[q] : q \in (sent' + 1)..Len(batch')}
    BY <1>6, <2>2 DEF UnsentInv
  <2> QED
    BY <1>5, <2>1, <2>3, <2>4 DEF UnsentInv
<1>7. CASE Idle
  BY <1>6, <1>7 DEF Idle
<1>8. ASSUME NEW w \in Workers, AcceptCandle(w) \/ Send(w) PROVE UnsentInv'
  BY <1>6, <1>8 DEF AcceptCandle, Send, procVars, sinkVars, outVars
<1>9. CASE Recv
  BY <1>6, <1>9 DEF Recv, procVars, outVars
<1>10. CASE InsertBatch \/ InsertFailed
  <2>1. /\ sink = "insert" /\ up /\ rows' \in {rows, rows \o batch} /\ topic' = topic
        /\ UNCHANGED <<epoch, up>> /\ sent = 0
        /\ \/ sink' = "send" /\ UNCHANGED <<batch, sent>>
           \/ sink' = "ended"
    BY <1>3, <1>10 DEF InsertBatch, InsertFailed, SinkEnds, procVars, IInv, SinkInv
  <2>2. Range(rows \o batch) = Range(rows) \cup Range(batch)
    BY <1>1, RangeConcat
  <2>3. Unsent(epoch) = {}
    BY <2>1 DEF UnsentInv
  <2>4. Range(rows') \subseteq Range(rows) \cup Range(batch)
    BY <2>1, <2>2
  <2>5. ASSUME NEW e \in Nat, NEW x \in Unsent(e)' PROVE x \in Unsent(e) \/ (e = epoch /\ x \in Range(batch))
    <3>1. x \in Range(rows) \cup Range(batch) /\ x \notin Range(topic) /\ EpochIn(x, accepted) = e
      BY <1>2, <2>1, <2>4, <2>5 DEF Unsent
    <3> QED
      BY <3>1 DEF Unsent, FreshInv
  <2>6. \A e \in Nat : e # epoch => Unsent(e)' \in SUBSET Unsent(e)
    BY <2>5
  <2>7. Unsent(epoch)' \in SUBSET Range(batch)
    BY <1>1, <2>1, <2>3, <2>5
  <2>8. \A e \in Nat : IsFiniteSet(Unsent(e)') /\ Cardinality(Unsent(e)') <= BatchSize
    <3> SUFFICES ASSUME NEW e \in Nat PROVE IsFiniteSet(Unsent(e)') /\ Cardinality(Unsent(e)') <= BatchSize
      OBVIOUS
    <3>1. CASE e = epoch
      <4>1. Unsent(e)' \in SUBSET Range(batch)
        BY <1>1, <2>3, <2>5, <3>1
      <4> QED
        BY <1>1, <4>1, SmallBatch, SmallSubset
    <3>2. CASE e # epoch
      BY <1>1, <2>6, <3>2, SmallSubset DEF UnsentInv
    <3> QED
      BY <3>1, <3>2
  <2>9. Range(batch) = {batch[q] : q \in (0 + 1)..Len(batch)}
    BY <1>1, RangeSet
  <2>10. sink' = "send" => Unsent(epoch)' \subseteq {batch'[q] : q \in (sent' + 1)..Len(batch')}
    BY <2>1, <2>7, <2>9
  <2> QED
    BY <2>1, <2>8, <2>10 DEF UnsentInv
<1>11. CASE SendCandle
  <2> DEFINE x == batch[sent + 1]
             last == sent + 1 = Len(batch)
  <2>1. /\ sink = "send" /\ rows' = rows /\ topic' = Append(topic, x) /\ UNCHANGED <<epoch, up>>
        /\ last => sink' = "recv"
        /\ ~last => sink' = "send" /\ batch' = batch /\ sent' = sent + 1
    BY <1>11 DEF SendCandle, procVars
  <2>2. Range(topic') = Range(topic) \cup {x}
    BY <2>1, NextOfBatch
  <2>3. \A e \in Nat : Unsent(e)' \in SUBSET Unsent(e)
    BY <1>4, <2>1, <2>2
  <2>4. Unsent(epoch)' \subseteq {batch[q] : q \in (sent + 2)..Len(batch)}
    <3> SUFFICES ASSUME NEW y \in Unsent(epoch)' PROVE y \in {batch[q] : q \in (sent + 2)..Len(batch)}
      OBVIOUS
    <3>1. y \in Unsent(epoch) /\ y # x
      BY <1>2, <2>1, <2>2 DEF Unsent
    <3>2. PICK q \in (sent + 1)..Len(batch) : y = batch[q]
      BY <2>1, <3>1 DEF UnsentInv
    <3>3. q # sent + 1
      BY <3>1, <3>2
    <3>4. q \in (sent + 2)..Len(batch)
      BY <1>1, <3>3
    <3> QED
      BY <3>2, <3>4
  <2>5. last => (sent + 2)..Len(batch) = {}
    BY <1>1
  <2>6. ~last => sent' + 1 = sent + 2
    BY <1>1, <2>1
  <2>7. up' /\ sink' \in {"recv", "insert"} => Unsent(epoch)' = {}
    BY <2>1, <2>4, <2>5
  <2>8. sink' = "send" => Unsent(epoch)' \subseteq {batch'[q] : q \in (sent' + 1)..Len(batch')}
    BY <2>1, <2>4, <2>6
  <2> QED
    BY <1>5, <2>3, <2>7, <2>8 DEF UnsentInv
<1>12. CASE SendFailed
  <2>1. sink = "send" /\ rows' = rows /\ topic' \in {topic, Append(topic, batch[sent + 1])} /\ sink' = "ended"
    BY <1>12 DEF SendFailed, SinkEnds
  <2>2. Range(topic) \subseteq Range(topic')
    BY <2>1, NextOfBatch
  <2> QED
    BY <1>4, <1>5, <2>1, <2>2 DEF UnsentInv
<1>13. CASE Crash \/ Exit
  <2>1. rows' = rows /\ topic' = topic /\ ~up' /\ sink' = "recv"
    BY <1>13 DEF Crash, Exit, Stop, outVars
  <2> QED
    BY <1>4, <1>5, <2>1 DEF UnsentInv
<1>14. CASE Restart
  <2>1. rows' = rows /\ topic' = topic /\ epoch' = epoch + 1 /\ sink' = "recv" /\ accepted' = accepted
    BY <1>3, <1>14 DEF Restart, outVars, sinkVars, workerVars
  <2>2. Unsent(epoch)' = {}
    <3> SUFFICES ASSUME NEW x \in Unsent(epoch)' PROVE FALSE
      OBVIOUS
    <3>1. x \in Range(rows) /\ EpochIn(x, accepted) = epoch + 1
      BY <2>1 DEF Unsent
    <3>2. x[1] \in Workers /\ Placed(x, accepted)
      BY <1>1, <3>1, SinkTypes DEF FreshInv
    <3>3. EpochIn(x, accepted) <= epoch
      BY <3>2 DEF IInv, CacheInv, NotAfter, Placed, EpochIn
    <3> QED
      BY <1>1, <3>1, <3>3
  <2> QED
    BY <1>4, <1>5, <2>1, <2>2 DEF UnsentInv
<1>15. CASE Resend
  <2>1. /\ sink = "send" /\ rows' = rows /\ topic' = Append(topic, batch[sent + 1])
        /\ UNCHANGED <<epoch, up, sink, batch, sent>>
    BY <1>15 DEF Resend, procVars, sinkVars
  <2>2. Range(topic) \subseteq Range(topic')
    BY <2>1, NextOfBatch
  <2>3. \A e \in Nat : Unsent(e)' \in SUBSET Unsent(e)
    BY <1>4, <2>1, <2>2
  <2>4. Unsent(epoch)' \subseteq Unsent(epoch)
    BY <1>2, <2>1, <2>2 DEF Unsent
  <2>5. sink' = "send" => Unsent(epoch)' \subseteq {batch'[q] : q \in (sent' + 1)..Len(batch')}
    BY <2>1, <2>4 DEF UnsentInv
  <2> QED
    BY <1>5, <2>1, <2>3, <2>5 DEF UnsentInv
<1> QED
  BY <1>7, <1>8, <1>9, <1>10, <1>11, <1>12, <1>13, <1>14, <1>15, SinkSteps

(* Every message on the topic is the first of its acceptance or is covered *)
(* by a fault; one that may follow the loss of an acknowledgement is       *)
(* covered before it is sent.                                              *)
Doubt == IF sink = "send" /\ batch[sent + 1] \in Range(topic) THEN 1 ELSE 0

ChargeInv ==
    /\ IsFiniteSet(Range(topic))
    /\ Len(topic) + Doubt <= Cardinality(Range(topic)) + faults

LEMMA FaultsGrow ==
    ASSUME IInv, [Next]_vars
    PROVE  faults \in Nat /\ faults' \in Nat /\ faults' >= faults
<1>1. faults \in Nat
  BY DEF IInv, TypeOK
<1>2. CASE Fault
  BY <1>1, <1>2 DEF Fault
<1>3. CASE faults' = faults
  BY <1>1, <1>3
<1>4. CASE Feed
  BY <1>3, <1>4 DEF Feed, Repeat, Close
<1>5. ASSUME NEW w \in Workers, Worker(w) PROVE Fault \/ faults' = faults
  BY <1>5 DEF Worker, Read, Connect, Disconnect, SkipMessage, AcceptCandle, Send, Bail
<1>6. CASE Task
  BY <1>2, <1>3, <1>6
  DEF Task, Sink, Flush, Recv, FlushTick, InsertBatch, InsertFailed, SendCandle, Resend, SendFailed, EmptyTick
<1>7. CASE MarkReady \/ Crash \/ Exit \/ Restart \/ UNCHANGED vars
  BY <1>3, <1>7 DEF MarkReady, Crash, Exit, Stop, Restart, vars
<1> QED
  BY <1>2, <1>3, <1>4, <1>5, <1>6, <1>7 DEF Next

(* One message more: the set of what is on the topic grows, or held it.    *)
LEMMA OneMore ==
    ASSUME NEW S, IsFiniteSet(S), NEW x
    PROVE  /\ IsFiniteSet(S \cup {x}) /\ Cardinality(S) \in Nat
           /\ x \in S => Cardinality(S \cup {x}) = Cardinality(S)
           /\ x \notin S => Cardinality(S \cup {x}) = Cardinality(S) + 1
<1>1. Cardinality(S) \in Nat
  BY FS_CardinalityType
<1>2. IsFiniteSet(S \cup {x})
  BY FS_AddElement
<1>3. CASE x \in S
  <2>1. S \cup {x} = S
    BY <1>3
  <2> QED
    BY <1>1, <1>2, <1>3, <2>1
<1>4. CASE x \notin S
  <2>1. Cardinality(S \cup {x}) = Cardinality(S) + 1
    BY <1>4, FS_AddElement
  <2> QED
    BY <1>1, <1>2, <1>4, <2>1
<1> QED
  BY <1>3, <1>4

LEMMA ChargeStep == IInv /\ IInv' /\ ChargeInv /\ [Next]_vars => ChargeInv'
<1> SUFFICES ASSUME IInv, IInv', ChargeInv, [Next]_vars PROVE ChargeInv'
  OBVIOUS
<1> DEFINE R == Range(topic)
           x == batch[sent + 1]
<1>1. /\ topic \in Seq(Items) /\ batch \in Seq(Items) /\ Len(topic) \in Nat
      /\ sent \in Nat /\ Len(batch) \in Nat
  BY SinkTypes
<1>2. faults \in Nat /\ faults' \in Nat /\ faults' >= faults
  BY FaultsGrow
<1>3. IsFiniteSet(R) /\ Cardinality(R) \in Nat
  BY FS_CardinalityType DEF ChargeInv
<1>4. Len(topic) + Doubt <= Cardinality(R) + faults /\ Doubt \in {0, 1}
  BY DEF ChargeInv, Doubt
(* Nothing reaches the topic, and nothing new is in doubt. *)
<1>5. ASSUME topic' = topic, Doubt' = Doubt \/ Doubt' = 0 PROVE ChargeInv'
  <2>1. Len(topic) + Doubt' <= Cardinality(R) + faults'
    BY <1>1, <1>2, <1>3, <1>4, <1>5
  <2> QED
    BY <1>3, <1>5, <2>1 DEF ChargeInv
<1>6. ASSUME topic' = topic, sink' # "send" \/ UNCHANGED <<sink, batch, sent>> PROVE ChargeInv'
  <2>1. Doubt' = Doubt \/ Doubt' = 0
    BY <1>6 DEF Doubt
  <2> QED
    BY <1>5, <1>6, <2>1
<1>7. CASE Idle
  <2>1. sink' # "send" \/ UNCHANGED <<sink, batch, sent>>
    BY <1>7 DEF Idle
  <2> QED
    BY <1>6, <1>7, <2>1 DEF Idle
<1>8. ASSUME NEW w \in Workers, AcceptCandle(w) \/ Send(w) PROVE ChargeInv'
  BY <1>6, <1>8 DEF AcceptCandle, Send, sinkVars, outVars
<1>9. CASE Recv \/ InsertFailed \/ Crash \/ Exit \/ Restart
  BY <1>6, <1>9 DEF Recv, InsertFailed, SinkEnds, Crash, Exit, Stop, Restart, sinkVars, outVars
<1>10. CASE InsertBatch
  <2>1. /\ topic' = topic /\ sink = "insert" /\ UNCHANGED <<batch, sent>>
        /\ sent = 0 /\ Len(batch) > 0
    BY <1>10 DEF InsertBatch, IInv, SinkInv
  <2>2. 1 \in (sent + 1)..Len(batch) /\ sent + 1 = 1
    BY <1>1, <2>1
  <2>3. \A p \in 1..Len(topic) : Before(topic[p], batch[1])
    BY <2>1, <2>2 DEF IInv, OrderInv
  <2>4. batch[1] \notin R
    BY <1>1, <2>3, NotBehind
  <2>5. Doubt' = 0
    BY <2>1, <2>2, <2>4 DEF Doubt
  <2> QED
    BY <1>5, <2>1, <2>5
<1>11. ASSUME sink = "send", topic' = Append(topic, x)
       PROVE  /\ IsFiniteSet(Range(topic')) /\ Cardinality(Range(topic')) \in Nat
              /\ Len(topic') = Len(topic) + 1
              /\ Len(topic') <= Cardinality(Range(topic')) + faults
  <2>1. Range(topic') = R \cup {x} /\ x \in Items
    BY <1>11, NextOfBatch
  <2>2. Len(topic') = Len(topic) + 1
    BY <1>1, <1>11, <2>1
  <2>3. /\ IsFiniteSet(R \cup {x})
        /\ x \in R => Cardinality(R \cup {x}) = Cardinality(R)
        /\ x \notin R => Cardinality(R \cup {x}) = Cardinality(R) + 1
    BY <1>3, OneMore
  <2>4. Doubt = IF x \in R THEN 1 ELSE 0
    BY <1>11 DEF Doubt
  <2> HIDE DEF R, x
  <2>5. CASE x \in R
    BY <1>1, <1>2, <1>3, <1>4, <2>1, <2>2, <2>3, <2>4, <2>5
  <2>6. CASE x \notin R
    BY <1>1, <1>2, <1>3, <1>4, <2>1, <2>2, <2>3, <2>4, <2>6
  <2> QED
    BY <2>5, <2>6
<1>12. CASE SendCandle
  <2>1. /\ sink = "send" /\ topic' = Append(topic, x) /\ faults' = faults
        /\ sent + 1 = Len(batch) => sink' = "recv"
        /\ sent + 1 # Len(batch) => batch' = batch /\ sent' = sent + 1
    BY <1>12 DEF SendCandle
  <2>2. Doubt' = 0
    <3>1. CASE sent + 1 = Len(batch)
      BY <2>1, <3>1 DEF Doubt
    <3>2. CASE sent + 1 # Len(batch)
      <4>1. sent + 2 \in (sent + 2)..Len(batch) /\ sent' + 1 = sent + 2
        <5>1. sent + 1 \in 1..Len(batch)
          BY <2>1, NextOfBatch
        <5> QED
          BY <1>1, <2>1, <3>2, <5>1
      <4>2. \A p \in 1..Len(topic') : Before(topic'[p], batch[sent + 2])
        BY <2>1, <4>1, NextOfBatch
      <4>3. topic' \in Seq(Items)
        BY <2>1, NextOfBatch
      <4>4. batch[sent + 2] \notin Range(topic')
        BY <4>2, <4>3, NotBehind
      <4> QED
        BY <2>1, <3>2, <4>1, <4>4 DEF Doubt
    <3> QED
      BY <3>1, <3>2
  <2> QED
    BY <1>2, <1>11, <2>1, <2>2 DEF ChargeInv
<1>13. CASE Resend \/ SendFailed
  <2>1. /\ sink = "send" /\ faults' = faults + 1
        /\ topic' = Append(topic, x) \/ (topic' = topic /\ sink' # "send")
    BY <1>13 DEF Resend, SendFailed, SinkEnds, Fault
  <2>2. CASE topic' = Append(topic, x)
    <3>1. /\ IsFiniteSet(Range(topic')) /\ Cardinality(Range(topic')) \in Nat
          /\ Len(topic') \in Nat /\ Len(topic') <= Cardinality(Range(topic')) + faults
      BY <1>1, <1>11, <2>1, <2>2
    <3>2. Doubt' \in {0, 1}
      BY DEF Doubt
    <3> HIDE DEF R, x
    <3>3. Len(topic') + Doubt' <= Cardinality(Range(topic')) + faults'
      BY <1>2, <2>1, <3>1, <3>2
    <3> QED
      BY <3>1, <3>3 DEF ChargeInv
  <2>3. CASE topic' = topic /\ sink' # "send"
    BY <1>6, <2>3
  <2> QED
    BY <2>1, <2>2, <2>3
<1> QED
  BY <1>7, <1>8, <1>9, <1>10, <1>12, <1>13, SinkSteps

(* flush_batch writes ClickHouse first and a batch once: an incarnation    *)
(* leaves at most a batch in the table that is not on the topic, no        *)
(* acceptance of a candle makes two rows, and each further message of one  *)
(* takes a fault, an acknowledgement lost inside a send.                   *)
THEOREM RowsThenMessages == Spec => []StoredFirst
<1>1. Init => FreshInv /\ RowsInv /\ UnsentInv /\ ChargeInv
  <2> SUFFICES ASSUME Init PROVE FreshInv /\ RowsInv /\ UnsentInv /\ ChargeInv
    OBVIOUS
  <2>1. /\ rows = <<>> /\ batch = <<>> /\ channel = <<>> /\ sink = "recv" /\ up
        /\ \A w \in Workers : conn[w] = "down"
    BY DEF Init
  <2>2. Range(<<>>) = {} /\ IsInjective(<<>>)
    BY DEF Range, IsInjective
  <2>3. \A e \in Nat : Unsent(e) = {}
    BY <2>1, <2>2 DEF Unsent
  <2>4. IsFiniteSet({}) /\ Cardinality({}) = 0
    BY FS_EmptySet
  <2>5. Unsent(epoch) = {}
    BY <2>1, <2>2 DEF Unsent
  <2>6. FreshInv
    BY <2>1, <2>2 DEF FreshInv
  <2>7. RowsInv
    BY <2>1, <2>2 DEF RowsInv
  <2>8. UnsentInv
    <3>1. 0 <= BatchSize
      BY PipelineAssumption
    <3>2. \A e \in Nat : IsFiniteSet(Unsent(e)) /\ Cardinality(Unsent(e)) <= BatchSize
      BY <2>3, <2>4, <3>1, Zenon
    <3> QED
      BY <2>1, <2>5, <3>2 DEF UnsentInv
  <2>9. ChargeInv
    <3>1. topic = <<>> /\ Len(topic) = 0 /\ faults = 0 /\ Doubt = 0
      BY DEF Init, Doubt
    <3> QED
      BY <2>2, <2>4, <3>1 DEF ChargeInv
  <2> QED
    BY <2>6, <2>7, <2>8, <2>9
<1>2. IInv /\ RowsInv /\ UnsentInv /\ ChargeInv /\ StoredBefore => StoredFirst
  <2> SUFFICES ASSUME IInv, RowsInv, UnsentInv, ChargeInv, StoredBefore PROVE StoredFirst
    OBVIOUS
  <2>1. \A e \in 0..epoch : Unsent(e) = {item \in Range(rows) \ Range(topic) : EpochOf(item) = e}
    BY DEF Unsent, EpochIn, EpochOf
  <2>2. \A e \in 0..epoch : Cardinality(Unsent(e)) <= BatchSize
    BY SinkTypes DEF UnsentInv
  <2>3. IsInjective(rows)
    BY DEF RowsInv
  <2>4. Len(topic) <= Cardinality(Range(topic)) + faults
    <3>1. /\ Len(topic) \in Nat /\ Cardinality(Range(topic)) \in Nat /\ faults \in Nat
          /\ Doubt \in {0, 1}
      BY SinkTypes, FS_CardinalityType DEF ChargeInv, Doubt, IInv, TypeOK
    <3> QED
      BY <3>1 DEF ChargeInv
  <2> QED
    BY <2>1, <2>2, <2>3, <2>4 DEF StoredFirst, StoredBefore
<1> QED
  BY <1>1, <1>2, FreshStep, RowsStep, UnsentStep, ChargeStep, PipelineInvariant, TableBeforeTopic, PTL DEF Spec
=============================================================================
