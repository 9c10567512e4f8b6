-------------------------- MODULE MqConsumerProofs --------------------------
(***************************************************************************)
(* Theorems about MqConsumer, for every set of members, every setting of   *)
(* the retries and of the dead-letter topic, and every bound.              *)
(***************************************************************************)
EXTENDS MqConsumer, TLAPS

Busy == {"handle", "dlq", "commit"}

(* A member in the loop has a record. *)
TInv == TypeOK /\ \A m \in Members : step[m] \in Busy => pos[m] > 0

------------------------------------------------------------------------------
(* Types.                                                                  *)

LEMMA InitType == Init => TInv
  BY MqAssumption DEF Init, TInv, TypeOK, Busy

LEMMA PendingType ==
    ASSUME NEW S, NEW p \in [Members -> Seq(S)], NEW m \in Members
    PROVE  /\ \A x \in S : [p EXCEPT ![m] = Append(@, x)] \in [Members -> Seq(S)]
           /\ [p EXCEPT ![m] = <<>>] \in [Members -> Seq(S)]
           /\ p[m] # <<>> => /\ Head(p[m]) \in S
                             /\ [p EXCEPT ![m] = Tail(@)] \in [Members -> Seq(S)]
<1>1. p[m] \in Seq(S)
  OBVIOUS
<1>2. \A x \in S : Append(p[m], x) \in Seq(S)
  BY <1>1
<1>3. p[m] # <<>> => Head(p[m]) \in S /\ Tail(p[m]) \in Seq(S)
  BY <1>1
<1> QED
  BY <1>2, <1>3

LEMMA ProduceType == TInv /\ Produce => TInv'
<1> SUFFICES ASSUME TInv, Produce PROVE TInv'
  OBVIOUS
<1> USE DEF TInv, TypeOK, Produce, memberVars, outVars
<1>1. 0..produced \subseteq 0..produced' /\ 1..produced \subseteq 1..produced' /\ produced' \in Nat
  OBVIOUS
<1>2. \A S, T : S \subseteq T => Seq(S) \subseteq Seq(T)
  OBVIOUS
<1>3. pending' \in [Members -> Seq(0..produced')] /\ dlq' \in Seq(1..produced')
  BY <1>1, <1>2
<1>4. committed' \in 0..produced' /\ pos' \in [Members -> 0..produced']
  BY <1>1
<1>5. handled' \subseteq 1..produced' /\ failed' \subseteq 1..produced'
  BY <1>1
<1> QED
  BY <1>1, <1>3, <1>4, <1>5

LEMMA LeaveType ==
    ASSUME TInv, NEW m \in Members, Leave(m), faults' \in Nat, dlq' \in Seq(1..produced),
           UNCHANGED <<handled, failed>>
    PROVE  TInv'
<1>1. pending' \in [Members -> Seq(0..produced)]
  BY PendingType DEF TInv, TypeOK, Leave
<1> QED
  BY <1>1 DEF TInv, TypeOK, Leave, Busy

LEMMA MemberType ==
    ASSUME TInv, NEW m \in Members, Run(m) \/ Broker(m) \/ Process(m)
    PROVE  TInv'
<1> USE MqAssumption DEF TInv, TypeOK, Busy, brokerVars, memberVars, outVars
<1>1. CASE Poll(m)
  BY <1>1 DEF Poll
<1>2. CASE HandlerOk(m)
  <2>1. pos[m] \in 1..produced
    BY <1>2 DEF HandlerOk
  <2>2. handled' \subseteq 1..produced
    BY <1>2, <2>1 DEF HandlerOk
  <2> QED
    BY <1>2, <2>2 DEF HandlerOk
<1>3. CASE Retry(m)
  BY <1>3 DEF Retry
<1>4. CASE Exhausted(m)
  <2>1. PICK s \in {"dlq", "commit"} : step' = [step EXCEPT ![m] = s]
    BY <1>4 DEF Exhausted
  <2>2. pos[m] \in 1..produced
    BY <1>4 DEF Exhausted
  <2>3. failed' \subseteq 1..produced
    BY <1>4, <2>2 DEF Exhausted
  <2> QED
    BY <1>4, <2>1, <2>3 DEF Exhausted
<1>5. CASE DlqPublish(m)
  <2>1. pos[m] \in 1..produced
    BY <1>5 DEF DlqPublish
  <2>2. dlq' \in Seq(1..produced)
    BY <1>5, <2>1 DEF DlqPublish
  <2> QED
    BY <1>5, <2>2 DEF DlqPublish
<1>6. CASE DlqFailed(m)
  <2>1. pos[m] \in 1..produced
    BY <1>6 DEF DlqFailed
  <2>2. dlq' \in Seq(1..produced)
    <3>1. Append(dlq, pos[m]) \in Seq(1..produced)
      BY <2>1
    <3> QED
      BY <1>6, <3>1 DEF DlqFailed
  <2>5. faults' \in Nat /\ UNCHANGED <<handled, failed>>
    BY <1>6 DEF DlqFailed, Fault
  <2>3. CASE HaltOnFailure
    BY <1>6, <2>2, <2>5, <2>3, LeaveType DEF DlqFailed
  <2>4. CASE ~HaltOnFailure
    BY <1>6, <2>2, <2>5, <2>4 DEF DlqFailed
  <2> QED
    BY <2>3, <2>4
<1>7. CASE CommitOffset(m)
  <2>1. pending' \in [Members -> Seq(0..produced)]
    BY <1>7, PendingType DEF CommitOffset
  <2> QED
    BY <1>7, <2>1 DEF CommitOffset
<1>8. CASE CommitFailed(m) \/ Crash(m)
  <2>1. Leave(m) /\ faults' \in Nat /\ UNCHANGED outVars
    BY <1>8 DEF CommitFailed, Crash, Fault
  <2> QED
    BY <2>1, LeaveType
<1>9. CASE Assign(m)
  BY <1>9 DEF Assign
<1>10. CASE Revoke(m)
  BY <1>10 DEF Revoke
<1>11. CASE ReceiveCommit(m)
  <2>1. committed' \in 0..produced /\ pending' \in [Members -> Seq(0..produced)]
    BY <1>11, PendingType DEF ReceiveCommit
  <2> QED
    BY <1>11, <2>1 DEF ReceiveCommit
<1>12. CASE RefuseCommit(m)
  <2>1. pending' \in [Members -> Seq(0..produced)]
    BY <1>12, PendingType DEF RefuseCommit
  <2> QED
    BY <1>12, <2>1 DEF RefuseCommit
<1>13. CASE Restart(m)
  BY <1>13 DEF Restart
<1> QED
  BY <1>1, <1>2, <1>3, <1>4, <1>5, <1>6, <1>7, <1>8, <1>9, <1>10, <1>11, <1>12, <1>13
     DEF Run, Handle, Broker, Process

LEMMA StepType == TInv /\ [Next]_vars => TInv'
<1>1. TInv /\ Next => TInv'
  BY ProduceType, MemberType DEF Next
<1>2. TInv /\ UNCHANGED vars => TInv'
  BY DEF TInv, TypeOK, vars, brokerVars, memberVars, outVars
<1> QED
  BY <1>1, <1>2

------------------------------------------------------------------------------
(* The inductive invariant.                                                *)

(* The records that are taken care of: settled, or, when a failed publish  *)
(* stops the loop, handled or on the dead-letter topic.                    *)
InDlq == {i \in 1..produced : \E k \in 1..Len(dlq) : dlq[k] = i}
Saved == IF HasDlq /\ HaltOnFailure THEN handled \cup InDlq ELSE Settled

SavedTo(n) == 1..n \subseteq Saved

(* What m knows of the records up to its position. *)
LoopInv(m) ==
    /\ SavedTo(pos[m] - 1)
    /\ step[m] = "commit" => SavedTo(pos[m])
    /\ step[m] = "dlq" => HasDlq /\ pos[m] \in failed
    /\ owner = m => step[m] # "down" /\ (step[m] = "idle" => SavedTo(pos[m]))

(* No commit on its way to the broker is ahead of the records. *)
PendingInv(m) == \A k \in 1..Len(pending[m]) : SavedTo(pending[m][k])

IInv == /\ TInv
        /\ InDlq \subseteq failed
        /\ SavedTo(committed)
        /\ \A m \in Members : LoopInv(m) /\ PendingInv(m)

LEMMA InitInv == Init => IInv
<1> SUFFICES ASSUME Init PROVE IInv
  OBVIOUS
<1>1. TInv
  BY InitType
<1>2. InDlq = {}
  BY DEF Init, InDlq
<1>3. SavedTo(0) /\ SavedTo(0 - 1)
  BY DEF SavedTo
<1>4. \A m \in Members : PendingInv(m)
  BY DEF Init, PendingInv
<1>5. \A m \in Members : LoopInv(m)
  BY <1>3, MqAssumption DEF Init, LoopInv
<1> QED
  BY <1>1, <1>2, <1>3, <1>4, <1>5 DEF Init, IInv

(* A step takes no record out of care. *)
DlqGrows == \A k \in 1..Len(dlq) : k \in 1..Len(dlq') /\ dlq'[k] = dlq[k]

LEMMA AppendGrows ==
    ASSUME NEW S, dlq \in Seq(S), NEW x \in S, dlq' = Append(dlq, x)
    PROVE  /\ DlqGrows
           /\ Len(dlq') = Len(dlq) + 1 /\ dlq'[Len(dlq) + 1] = x
  BY DEF DlqGrows

LEMMA AppendElement ==
    ASSUME NEW S, NEW s \in Seq(S), NEW x \in S
    PROVE  \A k \in 1..Len(Append(s, x)) :
               \/ Append(s, x)[k] = x
               \/ k \in 1..Len(s) /\ Append(s, x)[k] = s[k]
<1>1. Len(Append(s, x)) = Len(s) + 1 /\ Len(s) \in Nat
  OBVIOUS
<1>2. Append(s, x)[Len(s) + 1] = x
  OBVIOUS
<1>3. \A k \in 1..Len(s) : Append(s, x)[k] = s[k]
  OBVIOUS
<1>4. \A k \in 1..(Len(s) + 1) : k \in 1..Len(s) \/ k = Len(s) + 1
  BY <1>1
<1> QED
  BY <1>1, <1>2, <1>3, <1>4

LEMMA SeqElement ==
    ASSUME NEW S, NEW s \in Seq(S)
    PROVE  /\ \A k \in 1..Len(s) : s[k] \in S
           /\ s # <<>> => Head(s) \in S
  OBVIOUS

LEMMA TailElement ==
    ASSUME NEW S, NEW s \in Seq(S), s # <<>>
    PROVE  /\ 1 \in 1..Len(s) /\ Head(s) = s[1]
           /\ \A k \in 1..Len(Tail(s)) : k + 1 \in 1..Len(s) /\ Tail(s)[k] = s[k + 1]
  OBVIOUS

LEMMA InDlqGrows ==
    ASSUME DlqGrows, 1..produced \subseteq 1..produced'
    PROVE  InDlq \subseteq InDlq'
  BY DEF InDlq, DlqGrows

LEMMA SavedGrows ==
    ASSUME DlqGrows, 1..produced \subseteq 1..produced',
           handled \subseteq handled', failed \subseteq failed'
    PROVE  Saved \subseteq Saved'
<1>1. InDlq \subseteq InDlq'
  BY InDlqGrows
<1>2. CASE HasDlq /\ HaltOnFailure
  BY <1>1, <1>2 DEF Saved
<1>3. CASE ~(HasDlq /\ HaltOnFailure)
  BY <1>3 DEF Saved, Settled
<1> QED
  BY <1>2, <1>3

LEMMA SavedToGrows ==
    ASSUME Saved \subseteq Saved', NEW n, SavedTo(n)
    PROVE  1..n \subseteq Saved'
  BY DEF SavedTo

(* A step that leaves m alone, or only takes the partition from it.        *)
LEMMA LoopFrame ==
    ASSUME NEW m \in Members, LoopInv(m), Saved \subseteq Saved', failed \subseteq failed',
           step'[m] = step[m], pos'[m] = pos[m], owner' = m => owner = m
    PROVE  LoopInv(m)'
  BY DEF LoopInv, SavedTo

LEMMA PendingFrame ==
    ASSUME NEW m \in Members, PendingInv(m), Saved \subseteq Saved', pending'[m] = pending[m]
    PROVE  PendingInv(m)'
  BY DEF PendingInv, SavedTo

LEMMA NextSaved ==
    ASSUME NEW n \in Nat, n > 0, SavedTo(n - 1), n \in Saved
    PROVE  SavedTo(n)
<1>1. \A i \in 1..n : i \in 1..(n - 1) \/ i = n
  OBVIOUS
<1> QED
  BY <1>1 DEF SavedTo

(* What is left to show of a step of m. *)
LEMMA StepOf ==
    ASSUME NEW m \in Members, IInv, TInv',
           Saved \subseteq Saved', failed \subseteq failed',
           \A n \in Members \ {m} :
               /\ step'[n] = step[n] /\ pos'[n] = pos[n] /\ pending'[n] = pending[n]
               /\ owner' = n => owner = n,
           InDlq' \subseteq failed', SavedTo(committed)', LoopInv(m)', PendingInv(m)'
    PROVE  IInv'
<1>1. ASSUME NEW n \in Members \ {m} PROVE LoopInv(n)' /\ PendingInv(n)'
  <2>1. LoopInv(n) /\ PendingInv(n)
    BY DEF IInv
  <2> QED
    BY <2>1, LoopFrame, PendingFrame
<1> QED
  BY <1>1 DEF IInv

(* A step that leaves the log and the outcomes alone. *)
LEMMA SameSaved ==
    ASSUME IInv, UNCHANGED <<produced, handled, failed, dlq>>
    PROVE  Saved' = Saved /\ InDlq' = InDlq /\ failed' = failed /\ InDlq' \subseteq failed'
  BY DEF IInv, Saved, Settled, InDlq

------------------------------------------------------------------------------
(* Steps that keep the records as they are.                                *)

LEMMA PollInv ==
    ASSUME NEW m \in Members, IInv, TInv', Poll(m)
    PROVE  IInv'
<1> USE DEF Poll, brokerVars, outVars
<1>1. Saved' = Saved /\ failed' = failed /\ InDlq' \subseteq failed'
  BY SameSaved
<1>2. SavedTo(pos[m]) /\ pos[m] \in Nat /\ step[m] = "idle" /\ m \in DOMAIN pos
  BY DEF IInv, LoopInv, TInv, TypeOK
<1>3. pos'[m] = pos[m] + 1 /\ step'[m] = "handle"
  BY DEF IInv, TInv, TypeOK
<1>4. LoopInv(m)'
  <2>1. pos'[m] - 1 = pos[m]
    BY <1>2, <1>3
  <2> QED
    BY <1>1, <1>2, <1>3, <2>1 DEF LoopInv, SavedTo
<1>5. PendingInv(m)' /\ SavedTo(committed)'
  BY <1>1 DEF IInv, PendingInv, SavedTo
<1>6. \A n \in Members \ {m} :
          /\ step'[n] = step[n] /\ pos'[n] = pos[n] /\ pending'[n] = pending[n]
          /\ owner' = n => owner = n
  BY DEF IInv, TInv, TypeOK
<1> QED
  BY <1>1, <1>4, <1>5, <1>6, StepOf

LEMMA RetryInv ==
    ASSUME NEW m \in Members, IInv, TInv', Retry(m)
    PROVE  IInv'
<1> USE DEF Retry, brokerVars, outVars
<1>1. Saved' = Saved /\ failed' = failed /\ InDlq' \subseteq failed'
  BY SameSaved
<1>2. \A n \in Members : LoopInv(n)' /\ PendingInv(n)'
  BY <1>1, LoopFrame, PendingFrame DEF IInv
<1>3. SavedTo(committed)'
  BY <1>1 DEF IInv, SavedTo
<1> QED
  BY <1>1, <1>2, <1>3 DEF IInv

LEMMA LeaveInv ==
    ASSUME NEW m \in Members, IInv, TInv', Leave(m),
           Saved \subseteq Saved', failed \subseteq failed', InDlq' \subseteq failed'
    PROVE  IInv'
<1> USE DEF Leave
<1>1. step'[m] = "down" /\ pos' = pos /\ pending'[m] = <<>> /\ owner' # m
  BY MqAssumption DEF IInv, TInv, TypeOK
<1>2. LoopInv(m)'
  BY <1>1 DEF IInv, LoopInv, SavedTo
<1>3. PendingInv(m)' /\ SavedTo(committed)'
  BY <1>1 DEF IInv, PendingInv, SavedTo
<1>4. \A n \in Members \ {m} :
          /\ step'[n] = step[n] /\ pos'[n] = pos[n] /\ pending'[n] = pending[n]
          /\ owner' = n => owner = n
  BY MqAssumption DEF IInv, TInv, TypeOK
<1> QED
  BY <1>2, <1>3, <1>4, StepOf

LEMMA CommitOffsetInv ==
    ASSUME NEW m \in Members, IInv, TInv', CommitOffset(m)
    PROVE  IInv'
<1> USE DEF CommitOffset, brokerVars, outVars
<1>1. Saved' = Saved /\ failed' = failed /\ InDlq' \subseteq failed'
  BY SameSaved
<1>2. SavedTo(pos[m]) /\ pending[m] \in Seq(0..produced) /\ pos[m] \in 0..produced
  BY DEF IInv, LoopInv, TInv, TypeOK
<1>3. step'[m] = "idle" /\ pos' = pos /\ pending'[m] = Append(pending[m], pos[m])
  BY DEF IInv, TInv, TypeOK
<1>4. LoopInv(m)'
  BY <1>1, <1>2, <1>3 DEF IInv, LoopInv, SavedTo
<1>5. PendingInv(m)'
  <2>1. \A k \in 1..Len(pending'[m]) :
            \/ pending'[m][k] = pos[m]
            \/ k \in 1..Len(pending[m]) /\ pending'[m][k] = pending[m][k]
    BY <1>2, <1>3, AppendElement
  <2>2. PendingInv(m)
    BY DEF IInv
  <2> QED
    BY <1>1, <1>2, <2>1, <2>2 DEF PendingInv, SavedTo
<1>6. SavedTo(committed)'
  BY <1>1 DEF IInv, SavedTo
<1>7. \A n \in Members \ {m} :
          /\ step'[n] = step[n] /\ pos'[n] = pos[n] /\ pending'[n] = pending[n]
          /\ owner' = n => owner = n
  BY DEF IInv, TInv, TypeOK
<1> QED
  BY <1>1, <1>4, <1>5, <1>6, <1>7, StepOf

(* The first record a member fetches follows the committed offset.         *)
LEMMA AssignInv ==
    ASSUME NEW m \in Members, IInv, TInv', Assign(m)
    PROVE  IInv'
<1> USE DEF Assign, outVars
<1>1. Saved' = Saved /\ failed' = failed /\ InDlq' \subseteq failed'
  BY SameSaved
<1>2. pos'[m] = committed /\ step'[m] = "idle" /\ committed \in Nat
  BY DEF IInv, TInv, TypeOK
<1>3. SavedTo(committed) /\ 1..(committed - 1) \subseteq 1..committed
  BY <1>2 DEF IInv
<1>4. LoopInv(m)'
  BY <1>1, <1>2, <1>3 DEF LoopInv, SavedTo
<1>5. PendingInv(m)' /\ SavedTo(committed)'
  BY <1>1 DEF IInv, PendingInv, SavedTo
<1>6. \A n \in Members \ {m} :
          /\ step'[n] = step[n] /\ pos'[n] = pos[n] /\ pending'[n] = pending[n]
          /\ owner' = n => owner = n
  BY DEF IInv, TInv, TypeOK
<1> QED
  BY <1>1, <1>4, <1>5, <1>6, StepOf

(* Revoke, Restart and the end of a commit leave every position alone.     *)
LEMMA RevokeInv ==
    ASSUME NEW m \in Members, IInv, TInv', Revoke(m)
    PROVE  IInv'
<1> USE DEF Revoke, memberVars, outVars
<1>1. Saved' = Saved /\ failed' = failed /\ InDlq' \subseteq failed'
  BY SameSaved
<1>2. \A n \in Members : LoopInv(n)' /\ PendingInv(n)'
  BY <1>1, LoopFrame, PendingFrame, MqAssumption DEF IInv
<1>3. SavedTo(committed)'
  BY <1>1 DEF IInv, SavedTo
<1> QED
  BY <1>1, <1>2, <1>3 DEF IInv

LEMMA RestartInv ==
    ASSUME NEW m \in Members, IInv, TInv', Restart(m)
    PROVE  IInv'
<1> USE DEF Restart, brokerVars, outVars
<1>1. Saved' = Saved /\ failed' = failed /\ InDlq' \subseteq failed'
  BY SameSaved
<1>2. step'[m] = "idle" /\ owner' # m
  BY DEF IInv, LoopInv, TInv, TypeOK
<1>3. LoopInv(m)'
  BY <1>1, <1>2 DEF IInv, LoopInv, SavedTo
<1>4. PendingInv(m)' /\ SavedTo(committed)'
  BY <1>1 DEF IInv, PendingInv, SavedTo
<1>5. \A n \in Members \ {m} :
          /\ step'[n] = step[n] /\ pos'[n] = pos[n] /\ pending'[n] = pending[n]
          /\ owner' = n => owner = n
  BY DEF IInv, TInv, TypeOK
<1> QED
  BY <1>1, <1>3, <1>4, <1>5, StepOf

(* A commit that arrives, or is refused, came from the head of pending.    *)
LEMMA TailInv ==
    ASSUME NEW m \in Members, IInv, Saved' = Saved, pending[m] # <<>>,
           pending' = [pending EXCEPT ![m] = Tail(@)]
    PROVE  PendingInv(m)' /\ SavedTo(Head(pending[m]))
<1>1. pending[m] \in Seq(0..produced) /\ pending'[m] = Tail(pending[m])
  BY DEF IInv, TInv, TypeOK
<1>2. PendingInv(m)
  BY DEF IInv
<1>3. 1 \in 1..Len(pending[m]) /\ Head(pending[m]) = pending[m][1]
  BY <1>1, TailElement
<1>4. \A k \in 1..Len(Tail(pending[m])) :
          k + 1 \in 1..Len(pending[m]) /\ Tail(pending[m])[k] = pending[m][k + 1]
  BY <1>1, TailElement
<1> QED
  BY <1>1, <1>2, <1>3, <1>4 DEF PendingInv, SavedTo

LEMMA CommitInv ==
    ASSUME NEW m \in Members, IInv, TInv', ReceiveCommit(m) \/ RefuseCommit(m)
    PROVE  IInv'
<1> USE DEF ReceiveCommit, RefuseCommit, brokerVars, outVars
<1>1. Saved' = Saved /\ failed' = failed /\ InDlq' \subseteq failed'
  BY SameSaved
<1>2. PendingInv(m)' /\ SavedTo(Head(pending[m]))
  BY <1>1, TailInv
<1>3. SavedTo(committed)'
  BY <1>1, <1>2 DEF IInv, SavedTo
<1>4. LoopInv(m)'
  BY <1>1, LoopFrame DEF IInv
<1>5. \A n \in Members \ {m} :
          /\ step'[n] = step[n] /\ pos'[n] = pos[n] /\ pending'[n] = pending[n]
          /\ owner' = n => owner = n
  BY DEF IInv, TInv, TypeOK
<1> QED
  BY <1>1, <1>2, <1>3, <1>4, <1>5, StepOf

------------------------------------------------------------------------------
(* Steps that settle a record, or put it on the dead-letter topic.         *)

LEMMA SameDlq ==
    ASSUME UNCHANGED <<produced, dlq>>
    PROVE  DlqGrows /\ InDlq' = InDlq /\ 1..produced \subseteq 1..produced'
  BY DEF DlqGrows, InDlq

(* A step of m that leaves the loops and the commits of the others alone.  *)
LEMMA OutcomeInv ==
    ASSUME NEW m \in Members, IInv, TInv', NEW s,
           step' = [step EXCEPT ![m] = s],
           UNCHANGED <<committed, owner, pos, pending>>,
           Saved \subseteq Saved', failed \subseteq failed', InDlq' \subseteq failed',
           s \in {"dlq", "commit"},
           s = "commit" => pos[m] \in Saved',
           s = "dlq" => HasDlq /\ pos[m] \in failed',
           step[m] \in Busy
    PROVE  IInv'
<1>1. step'[m] = s /\ pos[m] \in Nat /\ pos[m] > 0
  BY DEF IInv, TInv, TypeOK
<1>2. SavedTo(pos[m] - 1)
  BY DEF IInv, LoopInv
<1>3. s = "commit" => 1..pos[m] \subseteq Saved'
  <2>1. \A i \in 1..pos[m] : i \in 1..(pos[m] - 1) \/ i = pos[m]
    BY <1>1
  <2> QED
    BY <1>2, <2>1 DEF SavedTo
<1>4. LoopInv(m)'
  BY <1>1, <1>2, <1>3 DEF LoopInv, SavedTo
<1>5. PendingInv(m)' /\ SavedTo(committed)'
  BY DEF IInv, PendingInv, SavedTo
<1>6. \A n \in Members \ {m} :
          /\ step'[n] = step[n] /\ pos'[n] = pos[n] /\ pending'[n] = pending[n]
          /\ owner' = n => owner = n
  BY DEF IInv, TInv, TypeOK
<1> QED
  BY <1>4, <1>5, <1>6, StepOf

LEMMA HandlerOkInv ==
    ASSUME NEW m \in Members, IInv, TInv', HandlerOk(m)
    PROVE  IInv'
<1> USE DEF HandlerOk, brokerVars
<1>1. DlqGrows /\ InDlq' = InDlq /\ 1..produced \subseteq 1..produced'
  BY SameDlq
<1>2. Saved \subseteq Saved' /\ InDlq' \subseteq failed'
  BY <1>1, SavedGrows DEF IInv
<1>3. pos[m] \in Saved'
  BY DEF Saved, Settled
<1> QED
  BY <1>2, <1>3, OutcomeInv DEF Busy

LEMMA ExhaustedInv ==
    ASSUME NEW m \in Members, IInv, TInv', Exhausted(m)
    PROVE  IInv'
<1> USE DEF Exhausted, brokerVars
<1>1. DlqGrows /\ InDlq' = InDlq /\ 1..produced \subseteq 1..produced'
  BY SameDlq
<1>2. Saved \subseteq Saved' /\ InDlq' \subseteq failed'
  BY <1>1, SavedGrows DEF IInv
<1>3. CASE HasDlq
  BY <1>2, <1>3, OutcomeInv DEF Busy
<1>4. CASE ~HasDlq
  <2>1. pos[m] \in Saved'
    BY <1>4 DEF Saved, Settled
  <2> QED
    BY <1>2, <1>4, <2>1, OutcomeInv DEF Busy
<1> QED
  BY <1>3, <1>4

(* The dead-letter topic gains the record of m, which has failed.          *)
LEMMA DlqGains ==
    ASSUME NEW m \in Members, IInv, step[m] = "dlq", dlq' = Append(dlq, pos[m]),
           UNCHANGED <<produced, handled, failed>>
    PROVE  /\ Saved \subseteq Saved'
           /\ InDlq' \subseteq failed'
           /\ pos[m] \in Saved'
<1>1. pos[m] \in 1..produced /\ pos[m] \in failed /\ dlq \in Seq(1..produced)
  BY DEF IInv, TInv, TypeOK, LoopInv, Busy
<1>2. /\ DlqGrows
      /\ Len(dlq') = Len(dlq) + 1 /\ dlq'[Len(dlq) + 1] = pos[m]
  BY <1>1, AppendGrows
<1>3. Saved \subseteq Saved'
  BY <1>2, SavedGrows
<1>4. \A k \in 1..Len(dlq') :
          \/ dlq'[k] = pos[m]
          \/ k \in 1..Len(dlq) /\ dlq'[k] = dlq[k]
  BY <1>1, AppendElement
<1>5. InDlq' \subseteq failed'
  BY <1>1, <1>4 DEF IInv, InDlq
<1>6. pos[m] \in InDlq'
  <2>1. Len(dlq) + 1 \in 1..Len(dlq')
    BY <1>1, <1>2
  <2> QED
    BY <1>1, <1>2, <2>1 DEF InDlq
<1>7. pos[m] \in Saved'
  BY <1>1, <1>6 DEF Saved, Settled
<1> QED
  BY <1>3, <1>5, <1>7

LEMMA DlqPublishInv ==
    ASSUME NEW m \in Members, IInv, TInv', DlqPublish(m)
    PROVE  IInv'
<1> USE DEF DlqPublish, brokerVars
<1>1. Saved \subseteq Saved' /\ InDlq' \subseteq failed' /\ pos[m] \in Saved'
  BY DlqGains
<1> QED
  BY <1>1, OutcomeInv DEF Busy

LEMMA DlqFailedInv ==
    ASSUME NEW m \in Members, IInv, TInv', DlqFailed(m)
    PROVE  IInv'
<1> USE DEF DlqFailed
<1>1. UNCHANGED <<produced, handled, failed>> /\ step[m] = "dlq"
  BY DEF Leave, brokerVars
<1>2. Saved \subseteq Saved' /\ InDlq' \subseteq failed'
  <2>1. CASE dlq' = dlq
    BY <1>1, <2>1, SameSaved
  <2>2. CASE dlq' = Append(dlq, pos[m])
    BY <1>1, <2>2, DlqGains
  <2> QED
    BY <2>1, <2>2
<1>3. CASE HaltOnFailure
  BY <1>1, <1>2, <1>3, LeaveInv
<1>4. CASE ~HaltOnFailure
  <2>1. pos[m] \in Saved'
    BY <1>1, <1>4 DEF IInv, LoopInv, Saved, Settled
  <2> QED
    BY <1>1, <1>2, <1>4, <2>1, OutcomeInv DEF Busy, brokerVars
<1> QED
  BY <1>3, <1>4

LEMMA StopInv ==
    ASSUME NEW m \in Members, IInv, TInv', CommitFailed(m) \/ Crash(m)
    PROVE  IInv'
<1>1. Leave(m) /\ UNCHANGED outVars /\ UNCHANGED produced
  BY DEF CommitFailed, Crash, Leave
<1>2. Saved' = Saved /\ failed' = failed /\ InDlq' \subseteq failed'
  BY <1>1, SameSaved DEF outVars
<1> QED
  BY <1>1, <1>2, LeaveInv

LEMMA ProduceInv ==
    ASSUME IInv, TInv', Produce
    PROVE  IInv'
<1> USE DEF Produce, memberVars, outVars
<1>1. 1..produced \subseteq 1..produced' /\ DlqGrows
  BY DEF IInv, TInv, TypeOK, DlqGrows
<1>2. Saved \subseteq Saved'
  BY <1>1, SavedGrows
<1>3. InDlq' \subseteq failed'
  <2>1. dlq \in Seq(1..produced)
    BY DEF IInv, TInv, TypeOK
  <2>2. \A k \in 1..Len(dlq) : dlq[k] \in 1..produced
    BY <2>1, SeqElement
  <2> QED
    BY <2>2 DEF IInv, InDlq
<1>4. \A n \in Members : LoopInv(n)' /\ PendingInv(n)'
  BY <1>2, LoopFrame, PendingFrame DEF IInv
<1>5. SavedTo(committed)'
  BY <1>2 DEF IInv, SavedTo
<1> QED
  BY <1>3, <1>4, <1>5 DEF IInv

------------------------------------------------------------------------------
(* The theorems.                                                           *)

LEMMA StepInv == IInv /\ [Next]_vars => IInv'
<1> SUFFICES ASSUME IInv, [Next]_vars PROVE IInv'
  OBVIOUS
<1>1. TInv'
  BY StepType DEF IInv
<1>2. CASE Produce
  BY <1>1, <1>2, ProduceInv
<1>3. ASSUME NEW m \in Members, Run(m) \/ Broker(m) \/ Process(m)
      PROVE  IInv'
  BY <1>1, <1>3, PollInv, HandlerOkInv, RetryInv, ExhaustedInv, DlqPublishInv, DlqFailedInv,
     CommitOffsetInv, StopInv, AssignInv, RevokeInv, CommitInv, RestartInv
     DEF Run, Handle, Broker, Process
<1>4. CASE UNCHANGED vars
  <2>1. Saved' = Saved /\ InDlq' \subseteq failed' /\ failed' = failed
    BY <1>4, SameSaved DEF vars, brokerVars, outVars
  <2>2. \A n \in Members : LoopInv(n)' /\ PendingInv(n)'
    BY <1>4, <2>1, LoopFrame, PendingFrame DEF IInv, vars, brokerVars, memberVars
  <2>3. SavedTo(committed)'
    BY <1>4, <2>1 DEF IInv, SavedTo, vars, brokerVars
  <2> QED
    BY <1>1, <2>1, <2>2, <2>3 DEF IInv
<1> QED
  BY <1>2, <1>3, <1>4 DEF Next

(* The committed offset, every commit under way and every member's         *)
(* position have only records behind them that are taken care of, in every *)
(* behaviour of KafkaConsumer::run and of the broker.                      *)
THEOREM ConsumerInvariant == Spec => []IInv
  BY InitInv, StepInv, PTL DEF Spec

(* Every variable of the consumer group keeps its type.                    *)
THEOREM TypeCorrect == Spec => []TypeOK
  BY ConsumerInvariant, PTL DEF IInv, TInv

LEMMA InvNothingLost == IInv => NothingLost
<1> SUFFICES ASSUME IInv, HasDlq, HaltOnFailure, NEW i \in 1..committed
             PROVE  i \in handled \/ \E k \in 1..Len(dlq) : dlq[k] = i
  BY DEF NothingLost
<1>1. i \in Saved
  BY DEF IInv, SavedTo
<1> QED
  BY <1>1 DEF Saved, InDlq

(* With a dead-letter topic that stops the loop when it fails, no record   *)
(* is ever behind the committed offset without having been handled or put  *)
(* on that topic.                                                          *)
THEOREM NoRecordLost == Spec => []NothingLost
  BY ConsumerInvariant, InvNothingLost, PTL

------------------------------------------------------------------------------
(* The refinement: every step is a step of AtLeastOnce or leaves it alone. *)

LEMMA SavedIsSettled == IInv => Saved \subseteq Settled
  BY DEF IInv, Saved, Settled

LEMMA InitRefines == Init => Group!Init
  BY DEF Init, Group!Init, Settled

LEMMA SettleRefines ==
    ASSUME IInv, NEW m \in Members, HandlerOk(m) \/ Exhausted(m)
    PROVE  Group!Settle(pos[m]) /\ pos[m] \in 1..produced
<1>1. pos[m] \in 1..produced
  BY DEF IInv, TInv, TypeOK, HandlerOk, Exhausted, Busy
<1>2. 1..(pos[m] - 1) \subseteq Settled
  BY SavedIsSettled DEF IInv, LoopInv, SavedTo
<1>3. Settled' = Settled \cup {pos[m]}
  BY DEF HandlerOk, Exhausted, Settled
<1>4. UNCHANGED <<produced, committed>>
  BY DEF HandlerOk, Exhausted, brokerVars
<1>5. pos[m] <= produced
  BY <1>1 DEF IInv, TInv, TypeOK
<1> QED
  BY <1>1, <1>2, <1>3, <1>4, <1>5 DEF Group!Settle

LEMMA CommitRefines ==
    ASSUME IInv, NEW m \in Members, ReceiveCommit(m)
    PROVE  Group!Commit(Head(pending[m])) /\ Head(pending[m]) \in 0..produced
<1>1. pending[m] \in Seq(0..produced) /\ pending[m] # <<>>
  BY DEF IInv, TInv, TypeOK, ReceiveCommit
<1>2. Head(pending[m]) \in 0..produced
  BY <1>1, SeqElement
<1>3. 1 \in 1..Len(pending[m]) /\ Head(pending[m]) = pending[m][1]
  BY <1>1, TailElement
<1>4. 1..Head(pending[m]) \subseteq Settled
  BY <1>3, SavedIsSettled DEF IInv, PendingInv, SavedTo
<1>5. Settled' = Settled /\ committed' = Head(pending[m]) /\ produced' = produced
  BY DEF ReceiveCommit, outVars, Settled
<1> QED
  BY <1>2, <1>4, <1>5 DEF Group!Commit

LEMMA StepRefines == IInv /\ [Next]_vars => [Group!Next]_Group!vars
<1> SUFFICES ASSUME IInv, [Next]_vars PROVE Group!Next \/ UNCHANGED Group!vars
  OBVIOUS
<1> USE DEF Group!vars, Settled
<1>1. CASE Produce
  BY <1>1 DEF Produce, outVars, Group!Next, Group!Produce
<1>2. CASE UNCHANGED vars
  BY <1>2 DEF vars, brokerVars, outVars
<1>3. ASSUME NEW m \in Members, HandlerOk(m) \/ Exhausted(m) PROVE Group!Next
  BY <1>3, SettleRefines DEF Group!Next
<1>4. ASSUME NEW m \in Members, ReceiveCommit(m) PROVE Group!Next
  BY <1>4, CommitRefines DEF Group!Next
<1>5. ASSUME NEW m \in Members,
             \/ Poll(m) \/ Retry(m) \/ DlqPublish(m) \/ DlqFailed(m)
             \/ CommitOffset(m) \/ CommitFailed(m) \/ Assign(m) \/ Revoke(m)
             \/ RefuseCommit(m) \/ Crash(m) \/ Restart(m)
      PROVE  UNCHANGED <<produced, Settled, committed>>
  BY <1>5 DEF Poll, Retry, DlqPublish, DlqFailed, CommitOffset, CommitFailed, Assign,
     Revoke, RefuseCommit, Crash, Restart, Leave, brokerVars, memberVars, outVars
<1> QED
  BY <1>1, <1>2, <1>3, <1>4, <1>5 DEF Next, Run, Handle, Broker, Process

(* The loop, with any number of members, implements AtLeastOnce: what it   *)
(* commits it has settled, in the order of the partition.                  *)
THEOREM Implements == Spec => IsAtLeastOnce
<1>1. Spec => []IInv
  BY ConsumerInvariant
<1> QED
  BY <1>1, InitRefines, StepRefines, PTL DEF Spec, IsAtLeastOnce, Group!Spec
=============================================================================
