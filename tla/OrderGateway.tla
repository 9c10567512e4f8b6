---------------------------- MODULE OrderGateway ----------------------------
(***************************************************************************)
(* services/api_gateway, routes/orders.rs and mq.rs, in front of           *)
(* risk_guard and execution_router: the handlers that place, close and     *)
(* cancel orders, the rows of table orders they read, and TOPIC_ORDERS     *)
(* where their commands go.                                                *)
(*                                                                         *)
(* Every request is a task of its own; between its read of the table and   *)
(* its sends the router goes on.  A request that is answered with an error *)
(* before it sends anything changes no state and is no action; neither is  *)
(* a handler that only reads.                                              *)
(***************************************************************************)
EXTENDS ExecutionRouter

CONSTANTS
    Tasks,      \* requests the server works on at once
    MaxInbox,   \* bound: records the gateway publishes
    Listed      \* bound: the LIMIT of cancel_all (1000 in the code)

ASSUME GatewayAssumption == MaxInbox \in Nat /\ Listed \in Nat

VARIABLES
    producer,   \* the gateway has a Kafka producer (KAFKA_BROKERS is set)
    readable,   \* orders.exchange_order_id has the type OrderRow asks for
    issued,     \* client order ids handed to clients
    inbox,      \* TOPIC_ORDERS, not yet read by risk_guard
    work,       \* the cancels each request has yet to send, with the row it read
    asked       \* every cancel that was sent, with the row its request had read

gatewayVars == <<producer, readable, issued, work, asked>>
allVars == <<vars, gatewayVars, inbox>>

Open == {"NEW", "PARTIALLY_FILLED"}

------------------------------------------------------------------------------
(* OrderProducer.                                                          *)

(* Fault model: the command leaves without its client order id.            *)
SubmitAnonymously(c) ==
    /\ inbox' = IF producer THEN Append(inbox, [c EXCEPT !.o = NoId]) ELSE inbox
    /\ UNCHANGED faults

(* submit_order answers Ok: the broker has the record, or there is no      *)
(* producer and the command is only logged.                                *)
Submitted(c) ==
    /\ inbox' = IF producer THEN Append(inbox, c) ELSE inbox
    /\ UNCHANGED faults

(* It answers Err: the send failed, or the broker's answer was lost.       *)
SubmitFailed(c) ==
    /\ Fault
    /\ producer
    /\ inbox' \in {inbox, Append(inbox, c)}

Submits(c) ==
    /\ Len(inbox) + Len(log) < MaxInbox
    /\ \/ Submitted(c)
       \/ SubmitFailed(c)

------------------------------------------------------------------------------
(* The handlers.                                                           *)

(* A market order needs a quantity and both levels, an exit its quantity.  *)
Valid(d) ==
    /\ d.type = "MARKET"
    /\ d.qty > 0
    /\ d.reduceOnly \/ (d.stop > 0 /\ d.tp > 0)
    /\ d.reduceOnly <=> d.exitKind # "NONE"

(* handle_place_market_order and handle_place_exit_order: each request     *)
(* gets an id of its own, whatever becomes of the send.                    *)
PlaceOrder(o) ==
    /\ o \notin issued
    /\ Valid(Details[o])
    /\ issued' = issued \cup {o}
    /\ Submits([o |-> o, action |-> "CREATE"])
    /\ UNCHANGED <<queueVars, procVars, callVars, dbVars, placed, topic,
                   producer, readable, work, asked>>

(* get_order_by_id and list_orders decode whole rows: the router always    *)
(* writes an exchange order id, so one row it wrote fails the query where  *)
(* the column's type is not the one the gateway expects.                   *)
Decodes(rows) == readable \/ rows = {}
Stored(S) == {o \in S : orders[o] # NoRow}

ToCancel(S) == {[o |-> o, seen |-> orders[o]] : o \in S}

(* Fault model: the status is compared in capitals.                        *)
RefusesNothing(status) == FALSE

(* The three statuses handle_cancel_order answers with BAD_REQUEST.        *)
Refuses(status) == status \in {"FILLED", "CANCELED", "REJECTED"}

(* Fault model: an order that is not found is cancelled all the same.      *)
FetchUnchecked(t, o) ==
    /\ o \in issued
    /\ work[t] = {}
    /\ Decodes(Stored({o}))
    /\ ~Refuses(orders[o].status)
    /\ work' = [work EXCEPT ![t] = ToCancel({o})]
    /\ UNCHANGED <<vars, producer, readable, issued, inbox, asked>>

(* handle_cancel_order, to its await of the send. *)
FetchOrder(t, o) ==
    /\ work[t] = {}
    /\ Decodes(Stored({o}))
    /\ o \in Stored(Orders)
    /\ ~Refuses(orders[o].status)
    /\ work' = [work EXCEPT ![t] = ToCancel({o})]
    /\ UNCHANGED <<vars, producer, readable, issued, inbox, asked>>

(* list_orders: the rows that pass the filter, as far as the LIMIT goes.   *)
Filters == {Orders} \cup {{o \in Orders : Details[o].symbol = s} : s \in Symbols}

Pages(F) ==
    LET n == Cardinality(Stored(F))
    IN  {S \in SUBSET Stored(F) : Cardinality(S) = IF n <= Listed THEN n ELSE Listed}

(* handle_cancel_all_orders, to its first send: the name of the partially  *)
(* filled status is spelled in two ways, so only NEW orders are cancelled. *)
FetchAll(t, F) ==
    /\ work[t] = {}
    /\ \E S \in Pages(F) :
           /\ Decodes(S)
           /\ work' = [work EXCEPT ![t] = ToCancel({o \in S : orders[o].status = "NEW"})]
    /\ UNCHANGED <<vars, producer, readable, issued, inbox, asked>>

(* One send of a cancel; an error is the end of one cancel, never of the   *)
(* rest of cancel_all.                                                     *)
SendCancel(t, c) ==
    /\ Submits([o |-> c.o, action |-> "CANCEL"])
    /\ work' = [work EXCEPT ![t] = @ \ {c}]
    /\ asked' = asked \cup {c}
    /\ UNCHANGED <<queueVars, procVars, callVars, dbVars, placed, topic,
                   producer, readable, issued>>

(* The client goes away, or the gateway is restarted: the task is dropped  *)
(* at its await.                                                           *)
Disconnect(t) ==
    /\ work[t] # {}
    /\ work' = [work EXCEPT ![t] = {}]
    /\ UNCHANGED <<vars, producer, readable, issued, inbox, asked>>

------------------------------------------------------------------------------
(* risk_guard: a command passes its gates and is forwarded, or ends there. *)

Forward ==
    /\ inbox # <<>>
    /\ log' = Append(log, Head(inbox))
    /\ inbox' = Tail(inbox)
    /\ UNCHANGED <<offset, committed, procVars, callVars, dbVars, placed, topic,
                   faults, gatewayVars>>

Refuse ==
    /\ inbox # <<>>
    /\ inbox' = Tail(inbox)
    /\ UNCHANGED <<vars, gatewayVars>>

------------------------------------------------------------------------------
GatewayInit ==
    /\ Init
    /\ producer \in BOOLEAN /\ readable \in BOOLEAN
    /\ issued = {} /\ inbox = <<>> /\ asked = {}
    /\ work = [t \in Tasks |-> {}]

Gateway ==
    \/ \E o \in Orders : PlaceOrder(o)
    \/ \E t \in Tasks, o \in Orders : FetchOrder(t, o)
    \/ \E t \in Tasks, F \in Filters : FetchAll(t, F)
    \/ \E t \in Tasks : \E c \in work[t] : SendCancel(t, c)
    \/ \E t \in Tasks : Disconnect(t)

Router ==
    /\ Process \/ Tick \/ AutoCommit \/ Rebalance \/ Crash \/ Restart
    /\ UNCHANGED <<gatewayVars, inbox>>

GatewayNext == Gateway \/ Forward \/ Refuse \/ Router

GatewaySpec == GatewayInit /\ [][GatewayNext]_allVars

------------------------------------------------------------------------------
Cancels == [o: Orders, seen: Rows]

(* Every variable holds a value of its kind: what the gateway publishes    *)
(* is a command the router can decode, under an id it has handed out.      *)
GatewayTypeOK ==
    /\ TypeOK
    /\ producer \in BOOLEAN /\ readable \in BOOLEAN
    /\ issued \subseteq Orders
    /\ inbox \in Seq([o: issued, action: {"CREATE", "CANCEL"}])
    /\ work \in [Tasks -> SUBSET Cancels]
    /\ asked \subseteq Cancels

(* handle_cancel_order reads the row, and sends the CANCEL under the       *)
(* order's own id (orders.rs:443): a CANCEL the router executes follows a  *)
(* CREATE it executed, and never in the window in which the dedup cache    *)
(* still holds that id - whatever crashes, rewinds and refusals of         *)
(* risk_guard lie between the row and the router.                          *)
CancelFollowsCreate ==
    \A m \in 1..Len(handled) :
        handled[m].action = "CANCEL" =>
            /\ \E n \in 1..(m - 1) : handled[n].o = handled[m].o
                                     /\ handled[n].action = "CREATE"
            /\ \A n \in 1..(m - 1) : handled[n].o = handled[m].o => Apart(n, m)

(* build_cancel overwrites the row whatever it was: a FILLED order becomes *)
(* CANCELED only by a cancel whose request read the row while the order    *)
(* was open, in a window the router has forgotten since.                   *)
FilledLostToStaleCancel ==
    [][\A o \in Orders :
           orders[o].status = "FILLED" /\ orders'[o].status = "CANCELED" =>
               \E c \in asked : /\ c.o = o
                                /\ c.seen.status \in Open
                                /\ Apart(c.seen.at, Len(handled))]_allVars
=============================================================================
