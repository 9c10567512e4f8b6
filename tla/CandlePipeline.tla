---------------------------- MODULE CandlePipeline ----------------------------
(***************************************************************************)
(* services/marketdata_ingestor/src/candle.rs: WebSocket workers, one per  *)
(* chunk of symbols, parse closed candles, drop the ones their dedupe      *)
(* cache remembers and send the others down one bounded channel. The sink  *)
(* collects them into batches, writes each batch to ClickHouse and then    *)
(* its candles one by one to Kafka. An error of the sink ends it, which    *)
(* closes the channel; each worker ends at its next candle, and when all   *)
(* tasks have ended the process exits and is started again.                *)
(*                                                                         *)
(* A candle is its key: symbol, interval and open time. Prices, back-off   *)
(* times and the timestamps behind the readiness flag are left out: whether*)
(* they are recent is a free choice. An item is one acceptance of a candle:*)
(* a worker and the index of the acceptance in its history.                *)
(***************************************************************************)
EXTENDS Integers, Sequences, FiniteSets, SequencesExt

CONSTANTS
    Workers,
    Candles,            \* keys of closed candles
    Owner,              \* the worker whose chunk a candle's symbol is in
    DedupeCapacity,     \* DEDUPE_CAPACITY_PER_WORKER
    ChannelCapacity,    \* PIPELINE_CHANNEL_CAPACITY
    BatchSize,          \* CH_BATCH_SIZE
    MaxRepeats,         \* bound: messages the exchange sends again
    MaxFaults,          \* bound: failed calls, lost acknowledgements of the
                        \* broker and broken connections
    MaxCrashes          \* bound: incarnations of the process, less one

ASSUME PipelineAssumption ==
    /\ IsFiniteSet(Workers)
    /\ Owner \in [Candles -> Workers]
    /\ DedupeCapacity \in Nat \ {0}
    /\ ChannelCapacity \in Nat \ {0}
    /\ BatchSize \in Nat \ {0}
    /\ MaxRepeats \in Nat /\ MaxFaults \in Nat /\ MaxCrashes \in Nat

VARIABLES
    closed,     \* candles that have closed at the exchange
    repeats,    \* messages sent again so far
    faults,     \* failed calls, lost acknowledgements and broken connections
                \* so far
    up,         \* the process runs
    epoch,      \* incarnations of the process so far, less one
    conn,       \* worker: down, open, sending (in pipeline_tx.send), gone
    inbox,      \* messages of the worker's socket it has not read
    seen,       \* DedupeCache.order, oldest first; its keys are in seen
    accepted,   \* every candle the worker found new, in order
    connected,  \* CandleWorkerMetrics.connected_workers
    channel,    \* items in the mpsc channel
    sink,       \* sink_loop: recv, insert, send or ended
    batch,      \* items of the sink's batch
    sent,       \* items of the batch that Kafka has acknowledged
    ready,      \* CandleAppState.ready
    spawned,    \* all tasks have been spawned
    rows,       \* ClickHouse
    topic       \* TOPIC_CANDLES

feedVars   == <<closed, repeats>>
procVars   == <<up, epoch>>
workerVars == <<conn, inbox, seen, accepted, connected>>
sinkVars   == <<channel, sink, batch, sent>>
readyVars  == <<ready, spawned>>
outVars    == <<rows, topic>>
vars == <<feedVars, faults, procVars, workerVars, sinkVars, readyVars, outVars>>

Messages == [c: Candles, valid: BOOLEAN]

Init ==
    /\ closed = {} /\ repeats = 0 /\ faults = 0
    /\ up = TRUE /\ epoch = 0
    /\ conn = [w \in Workers |-> "down"]
    /\ inbox = [w \in Workers |-> <<>>]
    /\ seen = [w \in Workers |-> <<>>]
    /\ accepted = [w \in Workers |-> <<>>]
    /\ connected = 0
    /\ channel = <<>> /\ sink = "recv" /\ batch = <<>> /\ sent = 0
    /\ ready = FALSE /\ spawned = FALSE
    /\ rows = <<>> /\ topic = <<>>

Fault == faults < MaxFaults /\ faults' = faults + 1

------------------------------------------------------------------------------
(* The exchange.                                                           *)

Connected(w) == conn[w] \in {"open", "sending"}

(* A candle closes: whoever is connected is told, perhaps with a number    *)
(* that does not parse; who is not connected never learns of it.           *)
Close(c, valid) ==
    /\ c \notin closed
    /\ closed' = closed \cup {c}
    /\ inbox' = IF Connected(Owner[c])
                THEN [inbox EXCEPT ![Owner[c]] = Append(@, [c |-> c, valid |-> valid])]
                ELSE inbox
    /\ UNCHANGED <<repeats, faults, procVars, conn, seen, accepted, connected, sinkVars, readyVars, outVars>>

Repeat(c) ==
    /\ c \in closed /\ Connected(Owner[c])
    /\ repeats < MaxRepeats
    /\ repeats' = repeats + 1
    /\ inbox' = [inbox EXCEPT ![Owner[c]] = Append(@, [c |-> c, valid |-> TRUE])]
    /\ UNCHANGED <<closed, faults, procVars, conn, seen, accepted, connected, sinkVars, readyVars, outVars>>

------------------------------------------------------------------------------
(* run_candle_ws_worker.                                                   *)

Connect(w) ==
    /\ up /\ conn[w] = "down"
    /\ conn' = [conn EXCEPT ![w] = "open"]
    /\ connected' = connected + 1
    /\ UNCHANGED <<feedVars, faults, procVars, inbox, seen, accepted, sinkVars, readyVars, outVars>>

(* Fault model: the cache belongs to the connection, not to the worker.    *)
DisconnectForgets(w) ==
    /\ conn[w] = "open"
    /\ Fault
    /\ conn' = [conn EXCEPT ![w] = "down"]
    /\ inbox' = [inbox EXCEPT ![w] = <<>>]
    /\ seen' = [seen EXCEPT ![w] = <<>>]
    /\ connected' = connected - 1
    /\ UNCHANGED <<feedVars, procVars, accepted, sinkVars, readyVars, outVars>>

(* A read error, a close frame, the end of the stream or the stale timeout *)
(* ends the connection, and with it what it had not delivered.             *)
Disconnect(w) ==
    /\ conn[w] = "open"
    /\ Fault
    /\ conn' = [conn EXCEPT ![w] = "down"]
    /\ inbox' = [inbox EXCEPT ![w] = <<>>]
    /\ connected' = connected - 1
    /\ UNCHANGED <<feedVars, procVars, seen, accepted, sinkVars, readyVars, outVars>>

(* insert_if_new: the oldest key goes once the capacity is exceeded.       *)
Insert(s, c) == IF Len(s) < DedupeCapacity THEN Append(s, c) ELSE Append(Tail(s), c)

Seen(w, c) == c \in Range(seen[w])

(* Unparsable and duplicate messages are counted and skipped. *)
SkipMessage(w) ==
    /\ conn[w] = "open" /\ inbox[w] # <<>>
    /\ ~Head(inbox[w]).valid \/ Seen(w, Head(inbox[w]).c)
    /\ inbox' = [inbox EXCEPT ![w] = Tail(@)]
    /\ UNCHANGED <<feedVars, faults, procVars, conn, seen, accepted, connected, sinkVars, readyVars, outVars>>

(* A new candle enters the cache before it is sent. *)
AcceptCandle(w) ==
    LET c == Head(inbox[w]).c IN
    /\ conn[w] = "open" /\ inbox[w] # <<>>
    /\ Head(inbox[w]).valid /\ ~Seen(w, c)
    /\ inbox' = [inbox EXCEPT ![w] = Tail(@)]
    /\ seen' = [seen EXCEPT ![w] = Insert(@, c)]
    /\ accepted' = [accepted EXCEPT ![w] = Append(@, [c |-> c, epoch |-> epoch])]
    /\ conn' = [conn EXCEPT ![w] = "sending"]
    /\ UNCHANGED <<feedVars, faults, procVars, connected, sinkVars, readyVars, outVars>>

Item(w) == <<w, Len(accepted[w])>>

(* Fault model: try_send, whose error on a full channel is ignored.        *)
TrySend(w) ==
    /\ conn[w] = "sending" /\ sink # "ended"
    /\ channel' = IF Len(channel) < ChannelCapacity THEN Append(channel, Item(w)) ELSE channel
    /\ conn' = [conn EXCEPT ![w] = "open"]
    /\ UNCHANGED <<feedVars, faults, procVars, inbox, seen, accepted, connected,
                   sink, batch, sent, readyVars, outVars>>

(* send waits for room in the channel ... *)
Send(w) ==
    /\ conn[w] = "sending" /\ sink # "ended"
    /\ Len(channel) < ChannelCapacity
    /\ channel' = Append(channel, Item(w))
    /\ conn' = [conn EXCEPT ![w] = "open"]
    /\ UNCHANGED <<feedVars, faults, procVars, inbox, seen, accepted, connected,
                   sink, batch, sent, readyVars, outVars>>

(* ... and fails when the receiver is gone: the worker ends, still counted *)
(* as connected.                                                           *)
Bail(w) ==
    /\ conn[w] = "sending" /\ sink = "ended"
    /\ conn' = [conn EXCEPT ![w] = "gone"]
    /\ inbox' = [inbox EXCEPT ![w] = <<>>]
    /\ UNCHANGED <<feedVars, faults, procVars, seen, accepted, connected, sinkVars, readyVars, outVars>>

------------------------------------------------------------------------------
(* sink_loop and flush_batch.                                              *)

(* Fault model: the size of the batch is left to the ticker.               *)
RecvNoFlush ==
    /\ sink = "recv" /\ channel # <<>>
    /\ batch' = Append(batch, Head(channel))
    /\ channel' = Tail(channel)
    /\ UNCHANGED <<feedVars, faults, procVars, workerVars, sink, sent, readyVars, outVars>>

Recv ==
    /\ sink = "recv" /\ channel # <<>>
    /\ batch' = Append(batch, Head(channel))
    /\ channel' = Tail(channel)
    /\ sink' = IF Len(batch) + 1 >= BatchSize THEN "insert" ELSE "recv"
    /\ UNCHANGED <<feedVars, faults, procVars, workerVars, sent, readyVars, outVars>>

(* Fault model: the ticker, too, flushes a full batch only.                *)
FlushTickFull ==
    /\ sink = "recv" /\ Len(batch) >= BatchSize
    /\ sink' = "insert"
    /\ UNCHANGED <<feedVars, faults, procVars, workerVars, channel, batch, sent, readyVars, outVars>>

(* refresh_readiness: a worker is connected and the last message and the   *)
(* last success of each store are recent.                                  *)
RefreshReadiness == ready' \in {FALSE, connected > 0} /\ spawned' = spawned

FlushTick ==
    /\ sink = "recv" /\ batch # <<>>
    /\ sink' = "insert"
    /\ UNCHANGED <<feedVars, faults, procVars, workerVars, channel, batch, sent, readyVars, outVars>>

EmptyTick ==
    /\ up /\ sink = "recv" /\ batch = <<>>
    /\ RefreshReadiness
    /\ UNCHANGED <<feedVars, faults, procVars, workerVars, sinkVars, outVars>>

InsertBatch ==
    /\ sink = "insert"
    /\ rows' = rows \o batch
    /\ sink' = "send"
    /\ UNCHANGED <<feedVars, faults, procVars, workerVars, channel, batch, sent, readyVars, topic>>

(* The error leaves sink_loop: the receiver is dropped with what is in it. *)
SinkEnds == sink' = "ended" /\ channel' = <<>> /\ batch' = <<>> /\ sent' = 0

(* Fault model: the error is logged and the batch goes on to Kafka.        *)
InsertErrorIgnored ==
    /\ sink = "insert"
    /\ Fault
    /\ sink' = "send"
    /\ UNCHANGED <<feedVars, procVars, workerVars, channel, batch, sent, readyVars, outVars>>

(* The insert fails, or ClickHouse has the rows and the answer is lost.    *)
InsertFailed ==
    /\ sink = "insert"
    /\ Fault
    /\ rows' \in {rows, rows \o batch}
    /\ SinkEnds
    /\ UNCHANGED <<feedVars, procVars, workerVars, readyVars, topic>>

(* Fault model: the batch is emptied from its end.                         *)
SendLastFirst ==
    /\ sink = "send"
    /\ topic' = Append(topic, batch[Len(batch) - sent])
    /\ IF sent + 1 = Len(batch)
       THEN sink' = "recv" /\ batch' = <<>> /\ sent' = 0 /\ RefreshReadiness
       ELSE sent' = sent + 1 /\ UNCHANGED <<sink, batch, readyVars>>
    /\ UNCHANGED <<feedVars, faults, procVars, workerVars, channel, rows>>

SendCandle ==
    /\ sink = "send"
    /\ topic' = Append(topic, batch[sent + 1])
    /\ IF sent + 1 = Len(batch)
       THEN sink' = "recv" /\ batch' = <<>> /\ sent' = 0 /\ RefreshReadiness
       ELSE sent' = sent + 1 /\ UNCHANGED <<sink, batch, readyVars>>
    /\ UNCHANGED <<feedVars, faults, procVars, workerVars, channel, rows>>

(* The broker has the candle and its acknowledgement is lost: inside the   *)
(* same send, librdkafka sends it again. The producer is not idempotent.   *)
Resend ==
    /\ sink = "send"
    /\ Fault
    /\ topic' = Append(topic, batch[sent + 1])
    /\ UNCHANGED <<feedVars, procVars, workerVars, sinkVars, readyVars, rows>>

(* The send fails, or the broker has the candle and the answer is lost.    *)
SendFailed ==
    /\ sink = "send"
    /\ Fault
    /\ topic' \in {topic, Append(topic, batch[sent + 1])}
    /\ SinkEnds
    /\ UNCHANGED <<feedVars, procVars, workerVars, readyVars, rows>>

------------------------------------------------------------------------------
(* The process.                                                            *)

(* The last task is spawned: ready before any of them has done anything.   *)
MarkReady ==
    /\ up /\ ~spawned
    /\ ready' = TRUE /\ spawned' = TRUE
    /\ UNCHANGED <<feedVars, faults, procVars, workerVars, sinkVars, outVars>>

(* All memory goes; the history of what was accepted is no part of it.     *)
Stop ==
    /\ up /\ epoch < MaxCrashes
    /\ up' = FALSE
    /\ conn' = [w \in Workers |-> "down"]
    /\ inbox' = [w \in Workers |-> <<>>]
    /\ seen' = [w \in Workers |-> <<>>]
    /\ connected' = 0
    /\ channel' = <<>> /\ batch' = <<>> /\ sent' = 0
    /\ ready' = FALSE /\ spawned' = FALSE
    /\ UNCHANGED <<feedVars, faults, epoch, accepted, outVars>>

Crash == Stop /\ sink' = "recv"

(* run_candle_pipeline returns once every task has ended, and main ends.   *)
Exit ==
    /\ spawned /\ sink = "ended" /\ \A w \in Workers : conn[w] = "gone"
    /\ Stop
    /\ sink' = "recv"

Restart ==
    /\ ~up
    /\ up' = TRUE
    /\ epoch' = epoch + 1
    /\ UNCHANGED <<feedVars, faults, workerVars, sinkVars, readyVars, outVars>>

Read(w)   == SkipMessage(w) \/ AcceptCandle(w) \/ Send(w) \/ Bail(w)
Worker(w) == Connect(w) \/ Disconnect(w) \/ Read(w)
Flush     == InsertBatch \/ InsertFailed \/ SendCandle \/ Resend \/ SendFailed
Sink      == Recv \/ FlushTick \/ Flush
Task      == Sink \/ EmptyTick
Feed      == \E c \in Candles : Repeat(c) \/ \E valid \in BOOLEAN : Close(c, valid)

Next ==
    \/ Feed
    \/ \E w \in Workers : Worker(w)
    \/ Task
    \/ MarkReady \/ Crash \/ Exit \/ Restart

Spec == Init /\ [][Next]_vars

(* Every task is polled, every call of the sink returns, the process ends  *)
(* with its last task and is started again. Connecting is up to the        *)
(* exchange.                                                               *)
FairSpec ==
    /\ Spec
    /\ WF_vars(Sink) /\ \A w \in Workers : WF_vars(Read(w))
    /\ WF_vars(MarkReady) /\ WF_vars(Exit) /\ WF_vars(Restart)

------------------------------------------------------------------------------
(* Properties.                                                             *)

Items == Workers \X Nat

(* Every variable holds a value of its kind, and the cache, the channel    *)
(* and the batch keep to their capacities.                                 *)
TypeOK ==
    /\ closed \subseteq Candles
    /\ repeats \in Nat /\ faults \in Nat /\ epoch \in Nat /\ up \in BOOLEAN
    /\ conn \in [Workers -> {"down", "open", "sending", "gone"}]
    /\ inbox \in [Workers -> Seq(Messages)]
    /\ seen \in [Workers -> Seq(Candles)]
    /\ \A w \in Workers : Len(seen[w]) <= DedupeCapacity
    /\ accepted \in [Workers -> Seq([c: Candles, epoch: Nat])]
    /\ connected \in Nat
    /\ channel \in Seq(Items) /\ Len(channel) <= ChannelCapacity
    /\ sink \in {"recv", "insert", "send", "ended"}
    /\ batch \in Seq(Items) /\ Len(batch) <= BatchSize
    /\ sent \in Nat /\ (sink = "send" => sent < Len(batch))
    /\ ready \in BOOLEAN /\ spawned \in BOOLEAN
    /\ rows \in Seq(Items) /\ topic \in Seq(Items)

CandleOf(item) == accepted[item[1]][item[2]].c
EpochOf(item)  == accepted[item[1]][item[2]].epoch

(* Two acceptances of one candle lie in different incarnations, or at      *)
(* least DedupeCapacity other candles of the worker apart: what the FIFO   *)
(* cache forgets is what it was too small for, not what a repeat, a        *)
(* reconnection or an eviction in between made it forget.                  *)
AcceptedOncePerWindow ==
    \A w \in Workers : \A i, j \in 1..Len(accepted[w]) :
        i < j /\ accepted[w][i].c = accepted[w][j].c
            => \/ accepted[w][i].epoch # accepted[w][j].epoch
               \/ j - i > DedupeCapacity

(* flush_batch writes ClickHouse first: a reader of the topic finds the    *)
(* candle in the table, and each incarnation leaves at most one batch that *)
(* is in the table and not on the topic. Materialized views add volumes    *)
(* up: no acceptance of a candle may put two rows there, whatever the      *)
(* sink's calls answer. On the topic a second message of an acceptance is  *)
(* never the sink's doing: each one takes a fault, an acknowledgement lost *)
(* inside a send.                                                          *)
StoredFirst ==
    LET unsent(e) == {item \in Range(rows) \ Range(topic) : EpochOf(item) = e}
    IN  /\ Range(topic) \subseteq Range(rows)
        /\ \A e \in 0..epoch : Cardinality(unsent(e)) <= BatchSize
        /\ IsInjective(rows)
        /\ Len(topic) <= Cardinality(Range(topic)) + faults

InFlight(w) ==
    Range(channel) \cup Range(batch) \cup (IF conn[w] = "sending" THEN {Item(w)} ELSE {})

(* While the sink lives, a candle that entered the dedupe cache, and would *)
(* be dropped if it came again, is on its way or in both stores: no        *)
(* reconnection, full channel or flush loses it.                           *)
AcceptedIsKept ==
    up /\ sink # "ended" =>
        \A w \in Workers : \A i \in 1..Len(accepted[w]) :
            accepted[w][i].epoch = epoch =>
                <<w, i>> \in InFlight(w) \cup (Range(rows) \cap Range(topic))

(* Candles of one worker reach the topic in the order it read them, over   *)
(* reconnections and restarts; the copies of one that was sent again are   *)
(* next to each other.                                                     *)
PublishedInOrder ==
    \A p, q \in 1..Len(topic) :
        p < q /\ topic[p][1] = topic[q][1] => topic[p][2] <= topic[q][2]

(* Every accepted candle is published in the end, unless the sink fails or *)
(* the process stops: the bounded channel, the batch and the ticker never  *)
(* wait for each other.                                                    *)
EveryCandlePublished ==
    \A w \in Workers : \A i \in 1..2 :
        (Len(accepted[w]) >= i)
            ~> (<<w, i>> \in Range(topic) \/ sink = "ended" \/ epoch > 0 \/ ~up)
=============================================================================
