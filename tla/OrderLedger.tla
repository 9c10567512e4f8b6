----------------------------- MODULE OrderLedger -----------------------------
(***************************************************************************)
(* What the OMS promises of an order (task-plan.md T7: an order is         *)
(* upserted by client_order_id, replaying a message changes nothing, its   *)
(* status transitions are valid): each order goes once through its life,   *)
(* and every quantity it fills moves its position once.                    *)
(***************************************************************************)
EXTENDS Integers

CONSTANTS Orders, Symbols, Details

VARIABLES status, filled, position

vars == <<status, filled, position>>

Init ==
    /\ status = [o \in Orders |-> "NONE"]
    /\ filled = [o \in Orders |-> 0]
    /\ position = [s \in Symbols |-> 0]

Become(o, from, to) ==
    /\ status[o] \in from
    /\ status' = [status EXCEPT ![o] = to]

(* The order is answered without a fill: its first and, unless it is NEW,  *)
(* its last status.                                                        *)
Answer(o, to) ==
    /\ Become(o, {"NONE"}, to)
    /\ UNCHANGED <<filled, position>>

(* The order fills up to a total of q, which moves the position by what it *)
(* had not filled before.                                                  *)
FillTo(o, q, to) ==
    LET more == q - filled[o]
        signed == IF Details[o].side = "BUY" THEN more ELSE -more
    IN  /\ Become(o, {"NEW", "PARTIALLY_FILLED"}, to)
        /\ more > 0
        /\ filled' = [filled EXCEPT ![o] = q]
        /\ position' = [position EXCEPT ![Details[o].symbol] = @ + signed]

Next ==
    \E o \in Orders :
        \/ \E to \in {"NEW", "REJECTED", "CANCELED"} : Answer(o, to)
        \/ \E q \in 1..(Details[o].qty - 1) : FillTo(o, q, "PARTIALLY_FILLED")
        \/ FillTo(o, Details[o].qty, "FILLED")

Spec == Init /\ [][Next]_vars
=============================================================================
