----------------------------- MODULE MqConsumer -----------------------------
(***************************************************************************)
(* libs/rust/hft_mq: KafkaConsumer::run, the loop that polls a record,     *)
(* runs the handler with retries, sends what no retry could save to the    *)
(* dead-letter topic, and commits the offset, one record at a time.        *)
(*                                                                         *)
(* Several members of a group share one partition, which the broker takes  *)
(* from one and gives to another at any time, also while a record is being *)
(* handled: the loop never looks whether it still owns the partition.      *)
(* commit_offset only enqueues (CommitMode::Async): the broker receives it *)
(* later, or never, and from a member that has lost the partition it may   *)
(* accept it or not.                                                       *)
(***************************************************************************)
EXTENDS Integers, Sequences

CONSTANTS
    Members,        \* processes that run the loop in one group
    Nobody,         \* not a member: the partition is unassigned
    MaxRetries,     \* retry.max_retries
    HasDlq,         \* with_dlq was called
    HaltOnFailure,  \* dlq.halt_on_failure
    MaxLog,         \* bound: records on the partition
    MaxMoves,       \* bound: times the partition is taken from its owner
    MaxFaults       \* bound: calls to the broker that fail

ASSUME MqAssumption ==
    /\ Nobody \notin Members
    /\ MaxRetries \in Nat
    /\ HasDlq \in BOOLEAN /\ HaltOnFailure \in BOOLEAN
    /\ MaxLog \in Nat /\ MaxMoves \in Nat /\ MaxFaults \in Nat

VARIABLES
    produced,   \* records on the partition
    committed,  \* records behind the group's committed offset
    owner,      \* the member the partition is assigned to
    moves,      \* times the partition was taken from its owner so far
    faults,     \* failed calls so far
    step,       \* of each member: down, idle, handle, dlq, commit
    pos,        \* of each member: records it has polled
    attempt,    \* of each member: retries of the current record
    pending,    \* of each member: commits enqueued and not yet received
    handled,    \* records some handler returned Ok for
    failed,     \* records whose retries were exhausted
    dlq         \* the dead-letter topic

brokerVars == <<produced, committed, owner, moves>>
memberVars == <<step, pos, attempt, pending>>
outVars    == <<handled, failed, dlq>>
vars == <<brokerVars, faults, memberVars, outVars>>

Init ==
    /\ produced = 0 /\ committed = 0 /\ owner = Nobody /\ moves = 0 /\ faults = 0
    /\ step = [m \in Members |-> "idle"]
    /\ pos = [m \in Members |-> 0]
    /\ attempt = [m \in Members |-> 0]
    /\ pending = [m \in Members |-> <<>>]
    /\ handled = {} /\ failed = {} /\ dlq = <<>>

Produce ==
    /\ produced < MaxLog
    /\ produced' = produced + 1
    /\ UNCHANGED <<committed, owner, moves, faults, memberVars, outVars>>

(* The group gives the free partition to m. The first fetch is at the      *)
(* committed offset (auto.offset.reset = earliest).                        *)
Assign(m) ==
    /\ step[m] = "idle" /\ owner = Nobody
    /\ owner' = m
    /\ pos' = [pos EXCEPT ![m] = committed]
    /\ UNCHANGED <<produced, committed, moves, faults, step, attempt, pending, outVars>>

(* A rebalance takes the partition from m, or its session times out: it    *)
(* goes on with its record, and the partition is free.                     *)
Revoke(m) ==
    /\ owner = m
    /\ moves < MaxMoves
    /\ owner' = Nobody
    /\ moves' = moves + 1
    /\ UNCHANGED <<produced, committed, faults, memberVars, outVars>>

------------------------------------------------------------------------------
(* KafkaConsumer::run.                                                     *)

Poll(m) ==
    /\ owner = m
    /\ step[m] = "idle" /\ pos[m] < produced
    /\ pos' = [pos EXCEPT ![m] = @ + 1]
    /\ attempt' = [attempt EXCEPT ![m] = 0]
    /\ step' = [step EXCEPT ![m] = "handle"]
    /\ UNCHANGED <<brokerVars, faults, pending, outVars>>

HandlerOk(m) ==
    /\ step[m] = "handle"
    /\ handled' = handled \cup {pos[m]}
    /\ step' = [step EXCEPT ![m] = "commit"]
    /\ UNCHANGED <<brokerVars, faults, pos, attempt, pending, failed, dlq>>

(* The handler returns an error: sleep and try again. *)
Retry(m) ==
    /\ step[m] = "handle"
    /\ attempt[m] < MaxRetries
    /\ attempt' = [attempt EXCEPT ![m] = @ + 1]
    /\ UNCHANGED <<brokerVars, faults, step, pos, pending, outVars>>

(* Fault model: the last error of the handler passes for a success.        *)
ExhaustedIsOk(m) ==
    /\ step[m] = "handle"
    /\ attempt[m] = MaxRetries
    /\ step' = [step EXCEPT ![m] = "commit"]
    /\ UNCHANGED <<brokerVars, faults, pos, attempt, pending, outVars>>

(* Fault model: the last error starts the retries over.                    *)
ExhaustedStartsOver(m) ==
    /\ step[m] = "handle"
    /\ attempt[m] = MaxRetries
    /\ attempt' = [attempt EXCEPT ![m] = 0]
    /\ UNCHANGED <<brokerVars, faults, step, pos, pending, outVars>>

(* The handler returns an error and the retries are used up. *)
Exhausted(m) ==
    /\ step[m] = "handle"
    /\ attempt[m] = MaxRetries
    /\ failed' = failed \cup {pos[m]}
    /\ step' = [step EXCEPT ![m] = IF HasDlq THEN "dlq" ELSE "commit"]
    /\ UNCHANGED <<brokerVars, faults, pos, attempt, pending, handled, dlq>>

DlqPublish(m) ==
    /\ step[m] = "dlq"
    /\ dlq' = Append(dlq, pos[m])
    /\ step' = [step EXCEPT ![m] = "commit"]
    /\ UNCHANGED <<brokerVars, faults, pos, attempt, pending, handled, failed>>

Fault == faults < MaxFaults /\ faults' = faults + 1

(* run returns an error: the process exits, its commits in flight are lost. *)
Leave(m) ==
    /\ step' = [step EXCEPT ![m] = "down"]
    /\ pending' = [pending EXCEPT ![m] = <<>>]
    /\ owner' = IF owner = m THEN Nobody ELSE owner
    /\ UNCHANGED <<produced, committed, moves, pos, attempt>>

(* Fault model: a failed publish is logged and no more, whatever the       *)
(* configuration says.                                                     *)
DlqErrorIgnored(m) ==
    /\ step[m] = "dlq"
    /\ Fault
    /\ step' = [step EXCEPT ![m] = "commit"]
    /\ UNCHANGED <<brokerVars, pos, attempt, pending, outVars>>

(* The publish fails, or the broker has the record and the answer is lost: *)
(* halt_on_failure stops the loop, else the offset is committed all the    *)
(* same.                                                                   *)
DlqFailed(m) ==
    /\ step[m] = "dlq"
    /\ Fault
    /\ dlq' \in {dlq, Append(dlq, pos[m])}
    /\ IF HaltOnFailure
       THEN Leave(m)
       ELSE /\ step' = [step EXCEPT ![m] = "commit"]
            /\ UNCHANGED <<brokerVars, pos, attempt, pending>>
    /\ UNCHANGED <<handled, failed>>

(* Fault model: offset + 1 counted from the record after.                  *)
CommitNext(m) ==
    /\ step[m] = "commit"
    /\ pending' = [pending EXCEPT ![m] = Append(@, pos[m] + 1)]
    /\ step' = [step EXCEPT ![m] = "idle"]
    /\ UNCHANGED <<brokerVars, faults, pos, attempt, outVars>>

(* commit_offset: offset + 1 of the record, the number of records polled.  *)
CommitOffset(m) ==
    /\ step[m] = "commit"
    /\ pending' = [pending EXCEPT ![m] = Append(@, pos[m])]
    /\ step' = [step EXCEPT ![m] = "idle"]
    /\ UNCHANGED <<brokerVars, faults, pos, attempt, outVars>>

(* The commit could not even be enqueued: fatal. *)
CommitFailed(m) ==
    /\ step[m] = "commit"
    /\ Fault
    /\ Leave(m)
    /\ UNCHANGED outVars

------------------------------------------------------------------------------
(* The broker and the processes.                                           *)

(* The broker receives a commit. It checks the member, not the partition:  *)
(* a commit that comes after a rebalance takes effect too.                 *)
ReceiveCommit(m) ==
    /\ pending[m] # <<>>
    /\ committed' = Head(pending[m])
    /\ pending' = [pending EXCEPT ![m] = Tail(@)]
    /\ UNCHANGED <<produced, owner, moves, faults, step, pos, attempt, outVars>>

(* The broker refuses a commit of a member that has lost the partition;    *)
(* nobody waits for the answer.                                            *)
RefuseCommit(m) ==
    /\ pending[m] # <<>> /\ owner # m
    /\ pending' = [pending EXCEPT ![m] = Tail(@)]
    /\ UNCHANGED <<brokerVars, faults, step, pos, attempt, outVars>>

Crash(m) ==
    /\ step[m] # "down"
    /\ Fault
    /\ Leave(m)
    /\ UNCHANGED outVars

Restart(m) ==
    /\ step[m] = "down"
    /\ step' = [step EXCEPT ![m] = "idle"]
    /\ UNCHANGED <<brokerVars, faults, pos, attempt, pending, outVars>>

Handle(m)  == HandlerOk(m) \/ Retry(m) \/ Exhausted(m)
Run(m)     == Poll(m) \/ Handle(m) \/ DlqPublish(m) \/ DlqFailed(m)
                  \/ CommitOffset(m) \/ CommitFailed(m)
Broker(m)  == Assign(m) \/ Revoke(m) \/ ReceiveCommit(m) \/ RefuseCommit(m)
Process(m) == Crash(m) \/ Restart(m)

Next == Produce \/ \E m \in Members : Run(m) \/ Broker(m) \/ Process(m)

Spec == Init /\ [][Next]_vars

(* Every handler returns, the broker assigns a free partition, receives    *)
(* what is sent to it, and a process that has exited is started again.     *)
FairSpec ==
    /\ Spec
    /\ \A m \in Members : WF_vars(Run(m)) /\ WF_vars(Restart(m)) /\ WF_vars(ReceiveCommit(m))
    /\ WF_vars(\E m \in Members : Assign(m))

------------------------------------------------------------------------------
(* Properties.                                                             *)

(* Every variable holds a value of its kind: offsets of the partition, the *)
(* states of the loop.                                                     *)
TypeOK ==
    /\ produced \in Nat /\ committed \in 0..produced
    /\ owner \in Members \cup {Nobody} /\ moves \in Nat /\ faults \in Nat
    /\ step \in [Members -> {"down", "idle", "handle", "dlq", "commit"}]
    /\ pos \in [Members -> 0..produced]
    /\ attempt \in [Members -> 0..MaxRetries]
    /\ pending \in [Members -> Seq(0..produced)]
    /\ handled \subseteq 1..produced /\ failed \subseteq 1..produced
    /\ dlq \in Seq(1..produced)

(* A record is settled once a handler has returned Ok for it or all of its *)
(* retries have been used up.                                              *)
Settled == handled \cup failed

(* A record behind the committed offset was handled, or is on the dead-    *)
(* letter topic: with a DLQ that halts on failure, run commits nothing     *)
(* that is kept nowhere, through rebalances, stale commits and crashes.    *)
NothingLost ==
    HasDlq /\ HaltOnFailure =>
        \A i \in 1..committed : i \in handled \/ \E k \in 1..Len(dlq) : dlq[k] = i

(* Every record is settled in the end, by whichever member gets it.        *)
EveryRecordSettled ==
    \A i \in 1..MaxLog : (produced >= i) ~> (i \in Settled)

(* The group, read as an AtLeastOnce. *)
Group == INSTANCE AtLeastOnce WITH settled <- Settled

(* run commits a record only behind the records ahead of it, all of them   *)
(* settled, so that a member that starts from the committed offset misses  *)
(* nothing: whatever is revoked, committed late, refused or lost.          *)
IsAtLeastOnce == Group!Spec
=============================================================================
