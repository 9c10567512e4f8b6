----------------------------- MODULE AtLeastOnce -----------------------------
(***************************************************************************)
(* What a consumer group promises of a partition: no record is given up    *)
(* before the records ahead of it, and the committed offset, wherever it   *)
(* moves, has only settled records behind it: a consumer that starts from  *)
(* it misses nothing.                                                      *)
(***************************************************************************)
EXTENDS Integers

VARIABLES
    produced,   \* records on the partition
    settled,    \* records that were handled, or given up for good
    committed   \* records behind the committed offset

vars == <<produced, settled, committed>>

Init == produced = 0 /\ settled = {} /\ committed = 0

Produce == produced' = produced + 1 /\ UNCHANGED <<settled, committed>>

Settle(i) ==
    /\ i <= produced
    /\ 1..(i - 1) \subseteq settled
    /\ settled' = settled \cup {i}
    /\ UNCHANGED <<produced, committed>>

Commit(c) ==
    /\ 1..c \subseteq settled
    /\ committed' = c
    /\ UNCHANGED <<produced, settled>>

Next ==
    \/ Produce
    \/ \E i \in 1..produced : Settle(i)
    \/ \E c \in 0..produced : Commit(c)

Spec == Init /\ [][Next]_vars
=============================================================================
