--------------------------- MODULE PlanReviewProofs ---------------------------
(***************************************************************************)
(* Proofs about the life of policies and plans, for any number of          *)
(* overlapping requests, policies, plans, workloads and faults; the last   *)
(* section is about one request at a time, beside the collector and the    *)
(* executor.                                                               *)
(***************************************************************************)
EXTENDS PlanReview, FiniteSetTheorems, TLAPS

(* A request between two statements is about a plan or about a policy.      *)
OnTyped ==
    \A h \in Humans : /\ op[h] \in {"approve", "execute"} => on[h] \in Recs
                      /\ op[h] \in {"activate", "deactivate"} => on[h] \in Policies

(* The executor works on a plan.                                            *)
Works == stage # "checks" => exe # None

Typed == TypeOK /\ OnTyped /\ Works

-----------------------------------------------------------------------------
(* Types *)

LEMMA TypedInit == Init => Typed
<1> SUFFICES ASSUME Init
             PROVE  Typed
    OBVIOUS
<1> USE ReviewAssumption DEF Init
<1>1. reads \in BOOLEAN /\ stage \in {"checks", "inserted", "runs"}
    OBVIOUS
<1>2. /\ pol \in [Policies -> {"absent", "draft", "active", "superseded", "deleted"}]
      /\ ver \in [Policies -> 0 .. MaxVersion]
      /\ st \in [Recs -> Statuses]
      /\ op \in [Humans -> {"none", "approve", "execute", "activate", "deactivate"}]
    BY DEF Statuses
<1>3. /\ wl \in [Recs -> Workloads \cup {None}]
      /\ by \in [Recs -> Policies \cup {None}]
      /\ under \in [Recs -> 0 .. MaxVersion]
      /\ on \in [Humans -> Recs \cup Policies \cup {None}]
      /\ sees \in [Humans -> SUBSET Policies]
      /\ seen \in Policies \cup {None} /\ exe \in Recs \cup {None}
      /\ ran \subseteq Recs /\ faults \in 0 .. MaxFaults
    OBVIOUS
<1>4. /\ approvals \in [Recs -> Nat]
      /\ queued \in [Recs -> Nat]
      /\ pending \in [Recs -> Nat]
    OBVIOUS
<1>5. OnTyped /\ Works
    BY DEF OnTyped, Works
<1>6. TypeOK
    BY ONLY <1>1, <1>2, <1>3, <1>4 DEF TypeOK
<1>7. QED
    BY ONLY <1>5, <1>6 DEF Typed

LEMMA PolicyTyped ==
    ASSUME Typed,
           \/ \E p \in Policies, v \in 1 .. MaxVersion : SaveDraft(p, v)
           \/ \E p \in Policies : Delete(p)
    PROVE  Typed'
<1> USE ReviewAssumption DEF Typed, TypeOK, OnTyped, Works, Statuses, plans, requests,
                             collector, executor
<1>1. CASE \E p \in Policies, v \in 1 .. MaxVersion : SaveDraft(p, v)
    BY <1>1 DEF SaveDraft
<1>2. CASE \E p \in Policies : Delete(p)
    BY <1>2 DEF Delete
<1>3. QED
    BY <1>1, <1>2

LEMMA RequestTyped ==
    ASSUME Typed, NEW h \in Humans, PolicyRequest(h) \/ PlanRequest(h) \/ RequestFails(h)
    PROVE  Typed'
<1> USE ReviewAssumption DEF Typed, TypeOK, OnTyped, Works, Statuses, policies, plans,
                             collector, executor, Answer, Begin, Idle
<1>1. CASE \E p \in Policies : DeactivateCheck(h, p)
    BY <1>1 DEF DeactivateCheck
<1>2. CASE DeactivateCommit(h)
    BY <1>2 DEF DeactivateCommit, Expire
<1>3. CASE \E r \in Recs : ApproveRead(h, r)
    BY <1>3 DEF ApproveRead
<1>4. CASE \E r \in Recs : ExecuteMark(h, r)
    BY <1>4 DEF ExecuteMark
<1>5. CASE ApproveWrite(h)
    BY <1>5 DEF ApproveWrite
<1>6. CASE ExecuteEnqueue(h)
    BY <1>6 DEF ExecuteEnqueue
<1>7. CASE RequestFails(h)
    BY <1>7 DEF RequestFails, Fault
<1>8. CASE \E p \in Policies : ActivateRead(h, p)
    BY <1>8 DEF ActivateRead
<1>9. CASE ActivateCommit(h)
    <2>1. pol' \in [Policies -> {"absent", "draft", "active", "superseded", "deleted"}]
        BY <1>9 DEF ActivateCommit
    <2>2. st' \in [Recs -> Statuses]
        BY <1>9 DEF ActivateCommit, Expire
    <2>3. QED
        BY <1>9, <2>1, <2>2 DEF ActivateCommit
<1>10. QED
    BY <1>1, <1>2, <1>3, <1>4, <1>5, <1>6, <1>7, <1>8, <1>9 DEF PolicyRequest, PlanRequest

LEMMA WorkerTyped ==
    ASSUME Typed, Analyze \/ AnalyzeFails \/ Execute \/ ExecuteFails \/ Restore
    PROVE  Typed'
<1> USE ReviewAssumption DEF Typed, TypeOK, OnTyped, Works, Statuses, policies, plans,
                             requests, collector, executor
<1>1. CASE AnalyzeRead
    BY <1>1 DEF AnalyzeRead
<1>2. CASE \E new \in [Recs -> Workloads \cup {None}] : AnalyzeWrite(new)
    <2> PICK new \in [Recs -> Workloads \cup {None}] : AnalyzeWrite(new)
        BY <1>2
    <2>1. reads' \in BOOLEAN /\ seen' \in Policies \cup {None}
        BY DEF AnalyzeWrite
    <2>2. st' \in [Recs -> Statuses] /\ wl' \in [Recs -> Workloads \cup {None}]
        BY DEF AnalyzeWrite
    <2>3. \A r \in Recs : new[r] # None => seen \in Policies
        BY DEF AnalyzeWrite
    <2>4. by' \in [Recs -> Policies \cup {None}] /\ under' \in [Recs -> 0 .. MaxVersion]
        BY <2>3 DEF AnalyzeWrite
    <2>5. UNCHANGED <<policies, approvals, queued, pending, requests, executor, faults>>
        BY DEF AnalyzeWrite
    <2>6. TypeOK'
        BY <2>1, <2>2, <2>4, <2>5
    <2>7. QED
        BY <2>5, <2>6
<1>3. CASE AnalyzeFails
    <2>1. reads' \in BOOLEAN /\ seen' \in Policies \cup {None}
        BY <1>3 DEF AnalyzeFails
    <2>2. faults' \in 0 .. MaxFaults
        BY <1>3 DEF AnalyzeFails, Fault
    <2>3. UNCHANGED <<policies, st, plans, approvals, queued, pending, requests, executor>>
        BY <1>3 DEF AnalyzeFails
    <2>4. QED
        BY <2>1, <2>2, <2>3
<1>4. CASE Execute
    <2>1. /\ st' \in [Recs -> Statuses]
          /\ exe' \in Recs \cup {None} /\ stage' \in {"checks", "inserted", "runs"}
          /\ stage' # "checks" => exe' # None
        BY <1>4 DEF Execute, Run!Work, Run!Load, Run!Refuse, Run!Insert, Run!Mark, Run!End,
                    Run!Outcomes
    <2>2. pending' \in [Recs -> Nat] /\ ran' \subseteq Recs
        BY <1>4 DEF Execute, Run!Work, Run!Load, Run!Refuse, Run!Insert, Run!Mark, Run!End
    <2>3. UNCHANGED <<others, approvals, faults>>
        BY <1>4 DEF Execute, Run!Work, Run!Load, Run!Refuse, Run!Insert, Run!Mark, Run!End
    <2>4. QED
        BY <2>1, <2>2, <2>3 DEF others
<1>5. CASE ExecuteFails
    <2>1. /\ exe' \in Recs \cup {None} /\ stage' \in {"checks", "inserted", "runs"}
          /\ stage' # "checks" => exe' # None
          /\ ran' \subseteq Recs
        BY <1>5 DEF ExecuteFails, Run!Lost, Run!InsertUnheard, Run!MarkIgnored, Run!Abandon
    <2>2. faults' \in 0 .. MaxFaults
        BY <1>5 DEF ExecuteFails, Fault
    <2>3. UNCHANGED <<others, st, approvals, pending>>
        BY <1>5 DEF ExecuteFails, Run!Lost, Run!InsertUnheard, Run!MarkIgnored, Run!Abandon
    <2>4. QED
        BY <2>1, <2>2, <2>3 DEF others
<1>6. CASE Restore
    BY <1>6 DEF Restore, Run!Restore, others
<1>7. QED
    BY <1>1, <1>2, <1>3, <1>4, <1>5, <1>6 DEF Analyze

LEMMA TypedStep == Typed /\ [Next]_vars => Typed'
<1> SUFFICES ASSUME Typed, [Next]_vars
             PROVE  Typed'
    OBVIOUS
<1>1. CASE Next
    BY <1>1, PolicyTyped, RequestTyped, WorkerTyped DEF Next, OneStep
<1>2. CASE UNCHANGED vars
    BY <1>2 DEF vars, policies, plans, requests, collector, executor, Typed, TypeOK, OnTyped,
                Works
<1>3. QED
    BY <1>1, <1>2

LEMMA TypedInvariant == Spec => []Typed
BY TypedInit, TypedStep, PTL DEF Spec

(* Every variable stays in its type: no handler writes a status that the    *)
(* tables' CHECK constraints refuse.                                        *)
THEOREM TypesHold == Spec => []TypeOK
<1>1. Typed => TypeOK
    BY DEF Typed
<1>2. QED
    BY <1>1, TypedInvariant, PTL

-----------------------------------------------------------------------------
(* Approvals *)

(* The requests between their UPDATE to queued and their EnqueueJob.        *)
InHand(r) == {h \in Humans : op[h] = "execute" /\ on[h] = r}

(* Every job that waits, or is about to, was queued by a request.           *)
JobsQueued ==
    \A r \in Recs : /\ IsFiniteSet(InHand(r))
                    /\ pending[r] + Cardinality(InHand(r)) <= queued[r]

(* While a plan is approved, one of its approvals is not used.              *)
ApprovalsUsed ==
    \A r \in Recs : /\ queued[r] <= approvals[r]
                    /\ st[r] = "approved" => queued[r] < approvals[r]

(* What the executor has loaded was approved.                               *)
WorkApproved == exe # None => approvals[exe] > 0

Counts == JobsQueued /\ ApprovalsUsed
Kept == ApprovedPlansKept /\ WorkApproved

(* How a request changes the requests in hand.                              *)
LEMMA InHandBegin ==
    ASSUME Typed, NEW h \in Humans, NEW what, NEW x, Begin(h, what, x), NEW r \in Recs
    PROVE  InHand(r)' = IF what = "execute" /\ x = r THEN InHand(r) \cup {h} ELSE InHand(r)
BY DEF Begin, Idle, InHand, Typed, TypeOK

LEMMA InHandAnswer ==
    ASSUME Typed, NEW h \in Humans, Answer(h), NEW r \in Recs
    PROVE  InHand(r)' = InHand(r) \ {h}
BY DEF Answer, InHand, Typed, TypeOK

LEMMA CountsKept ==
    ASSUME Typed, Counts, UNCHANGED <<approvals, queued, requests>>,
           \A r \in Recs : pending'[r] \in Nat /\ pending'[r] <= pending[r],
           \A r \in Recs : st'[r] = "approved" => st[r] = "approved"
    PROVE  Counts'
<1>1. \A r \in Recs : InHand(r)' = InHand(r)
    BY DEF InHand, requests
<1>2. JobsQueued'
    <2> SUFFICES ASSUME NEW r \in Recs
                 PROVE  /\ IsFiniteSet(InHand(r))
                        /\ pending'[r] + Cardinality(InHand(r)) <= queued[r]
        BY <1>1 DEF JobsQueued
    <2>1. IsFiniteSet(InHand(r)) /\ pending[r] + Cardinality(InHand(r)) <= queued[r]
        BY DEF Counts, JobsQueued
    <2>2. Cardinality(InHand(r)) \in Nat
        BY <2>1, FS_CardinalityType
    <2>3. pending[r] \in Nat /\ queued[r] \in Nat /\ pending'[r] \in Nat /\ pending'[r] <= pending[r]
        BY DEF Typed, TypeOK
    <2>4. QED
        BY <2>1, <2>2, <2>3
<1>3. ApprovalsUsed'
    BY DEF Counts, ApprovalsUsed
<1>4. QED
    BY <1>2, <1>3 DEF Counts

LEMMA CountsMark ==
    ASSUME Typed, Counts, NEW h \in Humans, NEW r \in Recs, ExecuteMark(h, r)
    PROVE  Counts'
<1>1. /\ st[r] = "approved"
      /\ st' = [st EXCEPT ![r] = "queued"]
      /\ queued' = [queued EXCEPT ![r] = @ + 1]
      /\ UNCHANGED <<approvals, pending>>
      /\ Begin(h, "execute", r)
    BY DEF ExecuteMark
<1>2. \A q \in Recs : queued[q] \in Nat /\ approvals[q] \in Nat /\ pending[q] \in Nat
    BY DEF Typed, TypeOK
<1>3. queued'[r] = queued[r] + 1 /\ \A q \in Recs : q # r => queued'[q] = queued[q]
    BY <1>1 DEF Typed, TypeOK
<1>4. ApprovalsUsed'
    <2> SUFFICES ASSUME NEW q \in Recs
                 PROVE  /\ queued'[q] <= approvals[q]
                        /\ st'[q] = "approved" => queued'[q] < approvals[q]
        BY <1>1 DEF ApprovalsUsed
    <2>1. CASE q = r
        <3>1. st'[q] # "approved"
            BY <1>1, <2>1 DEF Typed, TypeOK
        <3>2. queued[r] < approvals[r]
            BY <1>1 DEF Counts, ApprovalsUsed
        <3>3. QED
            BY <1>2, <1>3, <2>1, <3>1, <3>2
    <2>2. CASE q # r
        BY <1>1, <1>3, <2>2 DEF Counts, ApprovalsUsed, Typed, TypeOK
    <2>3. QED
        BY <2>1, <2>2
<1>5. JobsQueued'
    <2> SUFFICES ASSUME NEW q \in Recs
                 PROVE  /\ IsFiniteSet(InHand(q)')
                        /\ pending[q] + Cardinality(InHand(q)') <= queued'[q]
        BY <1>1 DEF JobsQueued
    <2>1. /\ IsFiniteSet(InHand(q)) /\ Cardinality(InHand(q)) \in Nat
          /\ pending[q] + Cardinality(InHand(q)) <= queued[q]
        BY FS_CardinalityType DEF Counts, JobsQueued
    <2>2. CASE q = r
        <3>1. InHand(q)' = InHand(q) \cup {h}
            BY <1>1, <2>2, InHandBegin
        <3>2. /\ IsFiniteSet(InHand(q) \cup {h})
              /\ Cardinality(InHand(q) \cup {h}) <= Cardinality(InHand(q)) + 1
              /\ Cardinality(InHand(q) \cup {h}) \in Nat
            <4>1. /\ IsFiniteSet(InHand(q) \cup {h})
                  /\ Cardinality(InHand(q) \cup {h})
                       = IF h \in InHand(q) THEN Cardinality(InHand(q))
                                            ELSE Cardinality(InHand(q)) + 1
                BY <2>1, FS_AddElement
            <4>2. QED
                BY <2>1, <4>1, FS_CardinalityType
        <3>3. QED
            BY <1>2, <1>3, <2>1, <2>2, <3>1, <3>2
    <2>3. CASE q # r
        <3>1. InHand(q)' = InHand(q)
            BY <1>1, <2>3, InHandBegin
        <3>2. QED
            BY <1>3, <2>1, <2>3, <3>1
    <2>4. QED
        BY <2>2, <2>3
<1>6. QED
    BY <1>4, <1>5 DEF Counts

(* A request ends: its job is enqueued, or it fails before that, or it was  *)
(* an approval or about a policy.                                           *)
LEMMA CountsAnswer ==
    ASSUME Typed, Typed', Counts, NEW h \in Humans,
           \/ ExecuteEnqueue(h) \/ RequestFails(h) \/ ApproveWrite(h)
           \/ ActivateCommit(h) \/ DeactivateCommit(h)
    PROVE  Counts'
<1>1. Answer(h) /\ queued' = queued
    BY DEF ExecuteEnqueue, RequestFails, ApproveWrite, ActivateCommit,
           DeactivateCommit, Answer
<1>2. \A r \in Recs : InHand(r)' = InHand(r) \ {h}
    BY <1>1, InHandAnswer
<1>3. \A r \in Recs : /\ queued[r] \in Nat /\ approvals[r] \in Nat /\ approvals'[r] \in Nat
                      /\ pending[r] \in Nat /\ pending'[r] \in Nat
    BY DEF Typed, TypeOK
<1>4. JobsQueued'
    <2> SUFFICES ASSUME NEW r \in Recs
                 PROVE  /\ IsFiniteSet(InHand(r) \ {h})
                        /\ pending'[r] + Cardinality(InHand(r) \ {h}) <= queued[r]
        BY <1>1, <1>2 DEF JobsQueued
    <2>1. /\ IsFiniteSet(InHand(r)) /\ Cardinality(InHand(r)) \in Nat
          /\ pending[r] + Cardinality(InHand(r)) <= queued[r]
        BY FS_CardinalityType DEF Counts, JobsQueued
    <2>2. /\ IsFiniteSet(InHand(r) \ {h}) /\ Cardinality(InHand(r) \ {h}) \in Nat
          /\ Cardinality(InHand(r) \ {h})
               = IF h \in InHand(r) THEN Cardinality(InHand(r)) - 1 ELSE Cardinality(InHand(r))
        BY <2>1, FS_RemoveElement, FS_CardinalityType
    <2>3. \/ pending'[r] = pending[r]
          \/ pending'[r] = pending[r] + 1 /\ h \in InHand(r)
        BY DEF ExecuteEnqueue, RequestFails, ApproveWrite, ActivateCommit,
           DeactivateCommit, InHand, Typed, TypeOK
    <2>4. QED
        BY <1>3, <2>1, <2>2, <2>3
<1>5. ApprovalsUsed'
    <2> SUFFICES ASSUME NEW r \in Recs
                 PROVE  /\ queued[r] <= approvals'[r]
                        /\ st'[r] = "approved" => queued[r] < approvals'[r]
        BY <1>1 DEF ApprovalsUsed
    <2>1. /\ queued[r] <= approvals[r]
          /\ st[r] = "approved" => queued[r] < approvals[r]
        BY DEF Counts, ApprovalsUsed
    <2>2. \/ approvals'[r] = approvals[r] /\ (st'[r] = "approved" => st[r] = "approved")
          \/ approvals'[r] = approvals[r] + 1
        BY DEF ExecuteEnqueue, RequestFails, ApproveWrite, ActivateCommit,
           DeactivateCommit, Expire, Typed, TypeOK
    <2>3. QED
        BY <1>3, <2>1, <2>2
<1>6. QED
    BY <1>4, <1>5 DEF Counts

LEMMA CountsBegin ==
    ASSUME Typed, Counts, NEW h \in Humans, NEW x, NEW what, what # "execute",
           Begin(h, what, x), UNCHANGED <<st, approvals, queued, pending>>
    PROVE  Counts'
<1>1. \A r \in Recs : InHand(r)' = InHand(r)
    BY InHandBegin
<1>2. QED
    BY <1>1 DEF Counts, JobsQueued, ApprovalsUsed

LEMMA CountsStep == Typed /\ Typed' /\ Counts /\ [Next]_vars => Counts'
<1> SUFFICES ASSUME Typed, Typed', Counts, [Next]_vars
             PROVE  Counts'
    OBVIOUS
<1> USE DEF requests, policies, plans, collector, executor
<1>n. \A r \in Recs : pending[r] \in Nat /\ pending'[r] \in Nat
    BY DEF Typed, TypeOK
<1>1. CASE \E p \in Policies : OneStep(p)
    <2>1. UNCHANGED <<approvals, queued, requests, pending>>
        BY <1>1 DEF OneStep, SaveDraft, Delete
    <2>2. \A r \in Recs : st'[r] = "approved" => st[r] = "approved"
        BY <1>1 DEF OneStep, SaveDraft, Delete
    <2>3. QED
        BY <1>n, <2>1, <2>2, CountsKept
<1>2. CASE \E h \in Humans : PolicyRequest(h) \/ PlanRequest(h) \/ RequestFails(h)
    <2> PICK h \in Humans : PolicyRequest(h) \/ PlanRequest(h) \/ RequestFails(h)
        BY <1>2
    <2>1. CASE \E p \in Policies : DeactivateCheck(h, p)
        BY <2>1, CountsBegin DEF DeactivateCheck
    <2>2. CASE \E r \in Recs : ApproveRead(h, r)
        BY <2>2, CountsBegin DEF ApproveRead
    <2>3. CASE \E p \in Policies : ActivateRead(h, p)
        <3>1. \A r \in Recs : InHand(r)' = InHand(r)
            BY <2>3 DEF ActivateRead, Idle, InHand, Typed, TypeOK
        <3>2. QED
            BY <2>3, <3>1 DEF ActivateRead, Counts, JobsQueued, ApprovalsUsed
    <2>4. QED
        BY <2>1, <2>2, <2>3, CountsMark, CountsAnswer DEF PolicyRequest, PlanRequest
<1>3. CASE Analyze \/ AnalyzeFails
    <2>1. UNCHANGED <<approvals, queued, requests, pending>>
        BY <1>3 DEF Analyze, AnalyzeRead, AnalyzeWrite, AnalyzeFails
    <2>2. \A r \in Recs : st'[r] = "approved" => st[r] = "approved"
        BY <1>3 DEF Analyze, AnalyzeRead, AnalyzeWrite, AnalyzeFails
    <2>3. QED
        BY <1>n, <2>1, <2>2, CountsKept
<1>4. CASE Execute \/ ExecuteFails \/ Restore
    <2> USE DEF Execute, ExecuteFails, Restore, others, Run!Work, Run!Load, Run!Refuse,
                Run!Insert, Run!Mark, Run!End, Run!Lost, Run!InsertUnheard, Run!MarkIgnored,
                Run!Abandon, Run!Restore
    <2>1. UNCHANGED <<approvals, queued, requests>>
        BY <1>4
    <2>2. \A r \in Recs : st'[r] = "approved" => st[r] = "approved"
        BY <1>4 DEF Run!Outcomes, Typed, TypeOK
    <2>3. \A r \in Recs : pending'[r] <= pending[r]
        BY <1>4, <1>n DEF Typed, TypeOK
    <2>4. QED
        BY <1>n, <2>1, <2>2, <2>3, CountsKept
<1>5. CASE UNCHANGED vars
    BY <1>5, <1>n, CountsKept DEF vars
<1>6. QED
    BY <1>1, <1>2, <1>3, <1>4, <1>5 DEF Next

LEMMA CountsInit == Init => Counts
<1> SUFFICES ASSUME Init
             PROVE  Counts
    OBVIOUS
<1>1. \A r \in Recs : InHand(r) = {} /\ pending[r] = 0 /\ queued[r] = 0 /\ approvals[r] = 0
                      /\ st[r] = "free"
    BY DEF Init, InHand
<1>2. QED
    BY <1>1, FS_EmptySet DEF Counts, JobsQueued, ApprovalsUsed

(* Each approval lets a plan be queued once, whatever requests overlap.     *)
THEOREM QueuedOncePerApproval == Spec => []QueuedPerApproval
<1>1. Typed /\ Counts => QueuedPerApproval
    <2> SUFFICES ASSUME Typed, Counts, NEW r \in Recs
                 PROVE  pending[r] <= queued[r] /\ queued[r] <= approvals[r]
        BY DEF QueuedPerApproval
    <2>1. Cardinality(InHand(r)) \in Nat /\ pending[r] + Cardinality(InHand(r)) <= queued[r]
        BY FS_CardinalityType DEF Counts, JobsQueued
    <2>2. pending[r] \in Nat /\ queued[r] \in Nat
        BY DEF Typed, TypeOK
    <2>3. QED
        BY <2>1, <2>2 DEF Counts, ApprovalsUsed
<1>2. QED
    BY <1>1, CountsInit, CountsStep, TypedInvariant, PTL DEF Spec

-----------------------------------------------------------------------------
(* What is approved is not deleted *)

LEMMA KeptStep == Typed /\ Kept /\ [Next]_vars => Kept'
<1> SUFFICES ASSUME Typed, Kept, [Next]_vars
             PROVE  Kept'
    OBVIOUS
<1> USE ReviewAssumption DEF Kept, ApprovedPlansKept, WorkApproved, Typed, TypeOK, policies, plans, requests,
            collector, executor
<1>1. CASE \E p \in Policies : OneStep(p)
    BY <1>1 DEF OneStep, SaveDraft, Delete
<1>2. CASE \E h \in Humans : PolicyRequest(h) \/ RequestFails(h)
    BY <1>2 DEF PolicyRequest, ActivateRead, ActivateCommit, DeactivateCheck, DeactivateCommit,
                RequestFails, Expire
<1>3. CASE \E h \in Humans : \/ \E r \in Recs : ApproveRead(h, r) \/ ExecuteMark(h, r)
                             \/ ExecuteEnqueue(h)
    BY <1>3 DEF ApproveRead, ExecuteMark, ExecuteEnqueue
<1>4. CASE \E h \in Humans : ApproveWrite(h)
    <2> PICK h \in Humans : ApproveWrite(h)
        BY <1>4
    <2>1. on[h] \in Recs
        BY DEF ApproveWrite, OnTyped
    <2>2. QED
        BY <2>1 DEF ApproveWrite
<1>5. CASE Analyze \/ AnalyzeFails
    <2>1. CASE AnalyzeRead \/ AnalyzeFails
        BY <2>1 DEF AnalyzeRead, AnalyzeFails
    <2>2. CASE \E new \in [Recs -> Workloads \cup {None}] : AnalyzeWrite(new)
        BY <2>2 DEF AnalyzeWrite, Unused, Withdrawn
    <2>3. QED
        BY <1>5, <2>1, <2>2 DEF Analyze
<1>6. CASE Execute
    <2> USE DEF Execute, others
    <2>1. CASE \E r \in Recs : Run!Load(r)
        <3>1. UNCHANGED <<st, approvals, ran>> /\ exe' \in Recs \cup {None}
            BY <1>6, <2>1 DEF Run!Load
        <3>2. exe' # None => /\ approvals[exe'] > 0
                             /\ st[exe'] \in {"queued", "approved"}
            BY <2>1 DEF Run!Load, Run!Executable
        <3>3. QED
            BY <1>6, <3>1, <3>2
    <2>2. CASE Run!Refuse \/ Run!Insert \/ Run!Mark
        BY <1>6, <2>2 DEF Run!Refuse, Run!Insert, Run!Mark
    <2>3. CASE \E outcome \in Run!Outcomes : Run!End(outcome)
        BY <1>6, <2>3 DEF Run!End, Run!Outcomes
    <2>4. QED
        BY <1>6, <2>1, <2>2, <2>3 DEF Run!Work
<1>7. CASE ExecuteFails
    BY <1>7 DEF ExecuteFails, others, Run!Lost, Run!InsertUnheard, Run!MarkIgnored, Run!Abandon
<1>8. CASE Restore
    BY <1>8 DEF Restore, others, Run!Restore
<1>9. CASE UNCHANGED vars
    BY <1>9 DEF vars
<1>10. QED
    BY <1>1, <1>2, <1>3, <1>4, <1>5, <1>6, <1>7, <1>8, <1>9 DEF Next, PlanRequest

(* No analysis deletes a plan that has been approved, whatever requests it  *)
(* overlaps.                                                                *)
THEOREM ApprovedKept == Spec => []ApprovedPlansKept
<1>1. Init => Kept
    BY ReviewAssumption DEF Init, Kept, ApprovedPlansKept, WorkApproved
<1>2. Kept => ApprovedPlansKept
    BY DEF Kept
<1>3. QED
    BY <1>1, <1>2, KeptStep, TypedInvariant, PTL DEF Spec

-----------------------------------------------------------------------------
(* Policies *)

Deactivating(h) == op[h] = "deactivate"

(* The row lock lets one deactivation through at a time.                    *)
OneDeactivation == \A g, h \in Humans : Deactivating(g) /\ Deactivating(h) => g = h

Alone == OneDeactivation /\ OneActivePolicy

LEMMA AloneStep == Typed /\ Alone /\ [Next]_vars => Alone'
<1> SUFFICES ASSUME Typed, Alone, [Next]_vars
             PROVE  Alone'
    OBVIOUS
<1> USE DEF Alone, OneDeactivation, OneActivePolicy, Deactivating, Typed, TypeOK, OnTyped,
            policies, requests, Begin, Answer, Idle
<1>1. CASE \E p \in Policies : OneStep(p)
    BY <1>1 DEF OneStep, SaveDraft, Delete
<1>2. CASE \E h \in Humans, p \in Policies : DeactivateCheck(h, p)
    <2> PICK h \in Humans, p \in Policies : DeactivateCheck(h, p)
        BY <1>2
    <2>1. \A g \in Humans : op[g] # "deactivate"
        BY DEF DeactivateCheck, Locked
    <2>2. QED
        BY <2>1 DEF DeactivateCheck
<1>3. CASE \E h \in Humans : DeactivateCommit(h)
    BY <1>3 DEF DeactivateCommit
<1>4. CASE \E h \in Humans, p \in Policies : ActivateRead(h, p)
    BY <1>4 DEF ActivateRead
<1>5. CASE \E h \in Humans : ActivateCommit(h)
    <2> PICK h \in Humans : ActivateCommit(h)
        BY <1>5
    <2>1. \A g \in Humans : op'[g] = "deactivate" => op[g] = "deactivate" /\ on'[g] = on[g]
        BY DEF ActivateCommit
    <2>2. CASE Refused(h)
        BY <2>1, <2>2 DEF ActivateCommit
    <2>3. CASE ~Refused(h)
        <3>1. \A q \in Policies : pol[q] = "active" => Superseding(h, q)
            BY <2>3 DEF Refused, Superseding
        <3>2. \A q \in Policies : pol'[q] = "active" => q = on[h]
            BY <2>3, <3>1 DEF ActivateCommit
        <3>3. \A g \in Humans : op[g] # "deactivate"
            BY <3>1 DEF ActivateCommit, Locked
        <3>4. QED
            BY <2>1, <3>2, <3>3
    <2>4. QED
        BY <2>2, <2>3
<1>6. CASE \E h \in Humans : PlanRequest(h) \/ RequestFails(h)
    BY <1>6 DEF PlanRequest, ApproveRead, ExecuteMark, ApproveWrite, ExecuteEnqueue, RequestFails
<1>7. CASE Analyze \/ AnalyzeFails \/ Execute \/ ExecuteFails \/ Restore
    BY <1>7 DEF Analyze, AnalyzeRead, AnalyzeWrite, AnalyzeFails, Execute, ExecuteFails, Restore,
                others
<1>8. CASE UNCHANGED vars
    BY <1>8 DEF vars
<1>9. QED
    BY <1>1, <1>2, <1>3, <1>4, <1>5, <1>6, <1>7, <1>8 DEF Next, PolicyRequest

(* One policy at most is active, however activations and deactivations      *)
(* overlap: an activation supersedes what its snapshot saw active, the      *)
(* index refuses it when another policy became active since, and a          *)
(* deactivation keeps it waiting for the row.                               *)
THEOREM ActiveAlone == Spec => []OneActivePolicy
<1>1. Init => Alone
    BY ReviewAssumption DEF Init, Alone, OneDeactivation, Deactivating, OneActivePolicy
<1>2. Alone => OneActivePolicy
    BY DEF Alone
<1>3. QED
    BY <1>1, <1>2, AloneStep, TypedInvariant, PTL DEF Spec

-----------------------------------------------------------------------------
(* One request at a time *)

(* What becomes of a plan from the moment it is queued. *)
Past == {"queued", "executing", "succeeded", "rolled_back", "failed"}

(* A plan that was queued never has another status than those, and only a   *)
(* queued plan has a job or an execution.                                   *)
QueuedForGood ==
    \A r \in Recs : /\ queued[r] > 0 => st[r] \in Past
                    /\ r \in ran \/ exe = r \/ pending[r] > 0 => queued[r] > 0

(* Nobody takes the executor's plan away from it.                           *)
Undisturbed ==
    exe # None => st[exe] = "queued" \/ (stage = "runs" /\ st[exe] = "executing")

(* What a request read is still so when it writes, but for a proposal that  *)
(* an analysis withdraws.                                                   *)
ReadHolds ==
    \A h \in Humans : /\ op[h] = "approve" => st[on[h]] \in {"proposed", "free"}
                      /\ op[h] = "execute" => queued[on[h]] > 0

Serial == QueuedForGood /\ Undisturbed /\ ReadHolds

(* The executor and a restore move a plan among the statuses of Past, and   *)
(* put none in flight.                                                      *)
LEMMA RunMoves ==
    ASSUME Typed, Serial, Execute \/ ExecuteFails \/ Restore
    PROVE  /\ UNCHANGED others
           /\ \A r \in Recs : \/ st'[r] = st[r]
                              \/ /\ st[r] \in Past /\ st'[r] \in Past
                                 /\ st'[r] \in {"queued", "executing"}
                                    => st[r] \in {"queued", "executing"}
           /\ \A r \in Recs : r \in ran' \/ exe' = r \/ pending'[r] > 0
                              => r \in ran \/ exe = r \/ pending[r] > 0
           /\ Undisturbed'
<1> USE ReviewAssumption DEF Past, Undisturbed, Typed, TypeOK, Works
<1>1. CASE \E r \in Recs : Run!Load(r) /\ Execute
    <2> PICK r \in Recs : Run!Load(r) /\ UNCHANGED others
        BY <1>1 DEF Execute
    <2>1. /\ exe = None /\ pending[r] > 0
          /\ pending' = [pending EXCEPT ![r] = @ - 1]
          /\ \/ exe' = r /\ st[r] \in {"queued", "approved"}
             \/ exe' = None
          /\ UNCHANGED <<st, stage, ran>>
        BY DEF Run!Load, Run!Executable
    <2>2. st[r] \in Past
        BY <2>1 DEF Serial, QueuedForGood
    <2>3. \A q \in Recs : pending'[q] > 0 => pending[q] > 0
        BY <2>1
    <2>4. QED
        BY <2>1, <2>2, <2>3
<1>2. CASE Execute /\ (Run!Refuse \/ Run!Insert)
    BY <1>2 DEF Execute, Run!Refuse, Run!Insert, Serial
<1>3. CASE Execute /\ Run!Mark
    BY <1>3 DEF Execute, Run!Mark, Serial
<1>4. CASE \E outcome \in Run!Outcomes : Execute /\ Run!End(outcome)
    BY <1>4 DEF Execute, Run!End, Run!Outcomes, Serial
<1>5. CASE ExecuteFails
    BY <1>5 DEF ExecuteFails, Run!Lost, Run!InsertUnheard, Run!MarkIgnored, Run!Abandon, Serial
<1>6. CASE Restore
    <2> PICK r \in Recs : Run!Restore(r) /\ UNCHANGED others
        BY <1>6 DEF Restore
    <2>1. /\ exe = None /\ r \in ran
          /\ st' = [st EXCEPT ![r] = "rolled_back"]
          /\ UNCHANGED <<pending, exe, stage, ran>>
        BY DEF Run!Restore
    <2>2. st[r] \in Past
        BY <2>1 DEF Serial, QueuedForGood
    <2>3. QED
        BY <2>1, <2>2
<1>7. QED
    BY <1>1, <1>2, <1>3, <1>4, <1>5, <1>6 DEF Execute, Run!Work

LEMMA SerialRun ==
    ASSUME Typed, Serial, Execute \/ ExecuteFails \/ Restore
    PROVE  Serial'
<1>1. UNCHANGED <<pol, ver, wl, by, under, queued, op, on>>
    BY RunMoves DEF others, policies, plans, requests
<1>2. QueuedForGood'
    BY <1>1, RunMoves DEF Serial, QueuedForGood
<1>3. ReadHolds'
    <2> SUFFICES ASSUME NEW h \in Humans
                 PROVE  /\ op[h] = "approve" => st'[on[h]] \in {"proposed", "free"}
                        /\ op[h] = "execute" => queued[on[h]] > 0
        BY <1>1 DEF ReadHolds
    <2>1. op[h] = "approve" => st'[on[h]] \in {"proposed", "free"}
        BY RunMoves DEF Serial, ReadHolds, Past, Typed, OnTyped
    <2>2. QED
        BY <2>1 DEF Serial, ReadHolds
<1>4. QED
    BY <1>2, <1>3, RunMoves DEF Serial

LEMMA SerialAnalyze ==
    ASSUME Typed, Serial, Analyze \/ AnalyzeFails
    PROVE  Serial'
<1> USE DEF policies, plans, requests, collector, executor
<1>1. CASE AnalyzeRead \/ AnalyzeFails
    BY <1>1 DEF AnalyzeRead, AnalyzeFails, Serial, QueuedForGood, Undisturbed, ReadHolds
<1>2. CASE \E new \in [Recs -> Workloads \cup {None}] : AnalyzeWrite(new)
    <2> PICK new \in [Recs -> Workloads \cup {None}] : AnalyzeWrite(new)
        BY <1>2
    <2>1. /\ UNCHANGED <<pol, ver, queued, pending, op, on, exe, stage, ran>>
          /\ \A r \in Recs :
                \/ st'[r] = st[r] /\ under'[r] = under[r]
                \/ st[r] \in {"free", "proposed"} /\ st'[r] \in {"free", "proposed"}
        BY DEF AnalyzeWrite, Unused, Withdrawn
    <2>2. QueuedForGood'
        BY <2>1 DEF Serial, QueuedForGood, Past
    <2>3. Undisturbed'
        BY <2>1 DEF Serial, Undisturbed, Typed, TypeOK
    <2>4. ReadHolds'
        <3> SUFFICES ASSUME NEW h \in Humans
                     PROVE  /\ op[h] = "approve" => st'[on[h]] \in {"proposed", "free"}
                            /\ op[h] = "execute" => queued[on[h]] > 0
            BY <2>1 DEF ReadHolds
        <3>1. op[h] = "approve" => st'[on[h]] \in {"proposed", "free"}
            BY <2>1 DEF Serial, ReadHolds, Typed, OnTyped
        <3>2. QED
            BY <3>1 DEF Serial, ReadHolds
    <2>5. QED
        BY <2>2, <2>3, <2>4 DEF Serial
<1>3. QED
    BY <1>1, <1>2 DEF Analyze

(* Only now does it matter that a policy request waits for its turn. *)
LEMMA SerialPolicy ==
    ASSUME Typed, Serial, NEW h, Humans = {h}, \E p \in Policies : OneStep(p)
    PROVE  Serial'
<1>1. op[h] = "none"
    BY DEF OneStep, Idle
<1>2. UNCHANGED <<queued, pending, op, on, exe, stage, ran>>
      /\ \A r \in Recs : st'[r] = st[r] \/ st[r] \in {"proposed", "approved"}
    BY DEF OneStep, SaveDraft, Delete, requests, executor
<1>3. QueuedForGood'
    BY <1>2 DEF Serial, QueuedForGood, Past
<1>4. Undisturbed'
    BY <1>2 DEF Serial, Undisturbed, Typed, TypeOK
<1>5. ReadHolds'
    BY <1>1, <1>2 DEF ReadHolds
<1>6. QED
    BY <1>3, <1>4, <1>5 DEF Serial

LEMMA SerialRequest ==
    ASSUME Typed, Serial, NEW h, Humans = {h}, PolicyRequest(h) \/ PlanRequest(h) \/ RequestFails(h)
    PROVE  Serial'
<1> USE DEF Typed, TypeOK, policies, plans, executor
<1>1. CASE \/ \E p \in Policies : ActivateRead(h, p) \/ DeactivateCheck(h, p)
           \/ \E r \in Recs : ApproveRead(h, r)
    <2>1. UNCHANGED <<pol, ver, st, under, queued, pending, exe, stage, ran>>
        BY <1>1 DEF ActivateRead, DeactivateCheck, ApproveRead
    <2>2. /\ op'[h] = "approve" => st[on'[h]] = "proposed"
          /\ op'[h] # "execute"
        BY <1>1 DEF ActivateRead, DeactivateCheck, ApproveRead, Begin
    <2>3. ReadHolds'
        BY <2>1, <2>2 DEF ReadHolds
    <2>4. QED
        BY <2>1, <2>3 DEF Serial, QueuedForGood, Undisturbed
<1>2. CASE \E r \in Recs : ExecuteMark(h, r)
    <2> PICK r \in Recs : ExecuteMark(h, r)
        BY <1>2
    <2>1. /\ st[r] = "approved" /\ st' = [st EXCEPT ![r] = "queued"]
          /\ queued'[r] = queued[r] + 1 /\ \A q \in Recs : q # r => queued'[q] = queued[q]
          /\ op'[h] = "execute" /\ on'[h] = r
          /\ UNCHANGED <<pending, exe, stage, ran>>
        BY DEF ExecuteMark, Begin
    <2>2. queued'[r] > 0
        BY <2>1
    <2>3. QueuedForGood'
        BY <2>1, <2>2 DEF Serial, QueuedForGood, Past
    <2>4. Undisturbed'
        BY <2>1 DEF Serial, Undisturbed
    <2>5. ReadHolds'
        BY <2>1, <2>2 DEF ReadHolds
    <2>6. QED
        BY <2>3, <2>4, <2>5 DEF Serial
<1>3. CASE \/ ActivateCommit(h) \/ DeactivateCommit(h)
           \/ ApproveWrite(h) \/ ExecuteEnqueue(h) \/ RequestFails(h)
    <2>1. op'[h] = "none"
        BY <1>3 DEF ActivateCommit, DeactivateCommit, ApproveWrite, ExecuteEnqueue, RequestFails, Answer
    <2>2. /\ UNCHANGED <<queued, exe, stage, ran>>
          /\ \A r \in Recs : st'[r] = st[r] \/ st[r] \in {"proposed", "approved"}
        BY <1>3 DEF ActivateCommit, DeactivateCommit, ApproveWrite, ExecuteEnqueue, RequestFails, Expire, Serial,
                    ReadHolds, OnTyped
    <2>3. \A r \in Recs : pending'[r] > 0 => pending[r] > 0 \/ queued[r] > 0
        BY <1>3 DEF ActivateCommit, DeactivateCommit, ApproveWrite, ExecuteEnqueue, RequestFails, Serial,
                    ReadHolds, OnTyped
    <2>4. QueuedForGood'
        BY <2>2, <2>3 DEF Serial, QueuedForGood, Past
    <2>5. Undisturbed'
        BY <2>2 DEF Serial, Undisturbed
    <2>6. ReadHolds'
        BY <2>1 DEF ReadHolds
    <2>7. QED
        BY <2>4, <2>5, <2>6 DEF Serial
<1>4. QED
    BY <1>1, <1>2, <1>3 DEF PolicyRequest, PlanRequest

LEMMA SerialStep ==
    ASSUME NEW h, Humans = {h}
    PROVE  Typed /\ Serial /\ [Next]_vars => Serial'
<1> SUFFICES ASSUME Typed, Serial, [Next]_vars
             PROVE  Serial'
    OBVIOUS
<1>1. CASE Next
    BY <1>1, SerialRun, SerialAnalyze, SerialPolicy, SerialRequest DEF Next
<1>2. CASE UNCHANGED vars
    BY <1>2 DEF vars, policies, plans, requests, executor, Serial, QueuedForGood, Undisturbed,
                ReadHolds
<1>3. QED
    BY <1>1, <1>2

LEMMA SerialInvariant ==
    ASSUME NEW h, Humans = {h}
    PROVE  Spec => [](Typed /\ Serial)
<1>1. Init => Serial
    BY ReviewAssumption DEF Init, Serial, QueuedForGood, Undisturbed, ReadHolds
<1>2. Typed /\ Serial /\ [Next]_vars => Serial'
    BY SerialStep
<1>3. QED
    BY <1>1, <1>2, TypedInvariant, PTL DEF Spec

(* An expired plan stays expired, through analyses, executions and          *)
(* restores.                                                                *)
THEOREM ExpiredStays == ASSUME NEW human, Humans = {human} PROVE Spec => ExpiredIsFinal
<1>1. Spec => [](Typed /\ Serial)
    BY SerialInvariant
<1>2. Typed /\ Serial /\ [Next]_vars
      => [\A r \in Recs : st[r] = "expired" => st'[r] = "expired"]_vars
    <2> SUFFICES ASSUME Typed, Serial, Next, NEW r \in Recs, st[r] = "expired"
                 PROVE  st'[r] = "expired"
        OBVIOUS
    <2> USE DEF Typed, TypeOK
    <2>1. CASE Execute \/ ExecuteFails \/ Restore
        BY <2>1, RunMoves DEF Past
    <2>2. CASE Analyze \/ AnalyzeFails
        BY <2>2 DEF Analyze, AnalyzeRead, AnalyzeWrite, AnalyzeFails, Unused, Withdrawn
    <2>3. CASE \E p \in Policies : OneStep(p)
        BY <2>3 DEF OneStep, SaveDraft, Delete
    <2>4. CASE \E g \in Humans : PolicyRequest(g) \/ PlanRequest(g) \/ RequestFails(g)
        <3> PICK g \in Humans : PolicyRequest(g) \/ PlanRequest(g) \/ RequestFails(g)
            BY <2>4
        <3>1. op[g] = "approve" => on[g] # r
            BY DEF Serial, ReadHolds
        <3>2. QED
            BY <3>1 DEF PolicyRequest, PlanRequest, RequestFails, ActivateRead, ActivateCommit,
                        DeactivateCheck, DeactivateCommit,
                        ApproveRead, ExecuteMark, ApproveWrite, ExecuteEnqueue, Expire
    <2>5. QED
        BY <2>1, <2>2, <2>3, <2>4 DEF Next
<1>3. QED
    BY <1>1, <1>2, PTL DEF Spec, ExpiredIsFinal

(* Only an analysis opens a plan or says what it is about. *)
LEMMA NothingOpens ==
    ASSUME Typed, Serial, [Next]_vars, ~Analyze
    PROVE  wl' = wl /\ \A r \in Recs : Open(r)' => Open(r)
<1> USE DEF Typed, TypeOK, Open, plans
<1>1. CASE Execute \/ ExecuteFails \/ Restore
    BY <1>1, RunMoves DEF others, Past
<1>2. CASE AnalyzeFails
    BY <1>2 DEF AnalyzeFails
<1>3. CASE \E p \in Policies : OneStep(p)
    BY <1>3 DEF OneStep, SaveDraft, Delete
<1>4. CASE \E h \in Humans : PolicyRequest(h) \/ PlanRequest(h) \/ RequestFails(h)
    <2> PICK h \in Humans : PolicyRequest(h) \/ PlanRequest(h) \/ RequestFails(h)
        BY <1>4
    <2>1. op[h] = "approve" => on[h] \in Recs /\ st[on[h]] \in {"proposed", "free"}
        BY DEF Serial, ReadHolds, OnTyped
    <2>2. QED
        BY <2>1 DEF PolicyRequest, PlanRequest, RequestFails, ActivateRead, ActivateCommit,
                        DeactivateCheck, DeactivateCommit,
                    ApproveRead, ExecuteMark, ApproveWrite, ExecuteEnqueue, Expire
<1>5. CASE UNCHANGED vars
    BY <1>5 DEF vars
<1>6. QED
    BY <1>1, <1>2, <1>3, <1>4, <1>5 DEF Next

LEMMA OneOpenStep == Typed /\ Serial /\ OneOpenPlan /\ [Next]_vars => OneOpenPlan'
<1> SUFFICES ASSUME Typed, Serial, OneOpenPlan, [Next]_vars
             PROVE  OneOpenPlan'
    OBVIOUS
<1>1. CASE ~Analyze
    BY <1>1, NothingOpens DEF OneOpenPlan
<1>2. CASE AnalyzeRead
    BY <1>2 DEF AnalyzeRead, plans, OneOpenPlan, Open
<1>3. CASE \E new \in [Recs -> Workloads \cup {None}] : AnalyzeWrite(new)
    <2> PICK new \in [Recs -> Workloads \cup {None}] : AnalyzeWrite(new)
        BY <1>3
    <2> DEFINE Kin(r) == st[r] \in {"approved", "queued", "executing"}
    <2>1. \A r \in Recs : Open(r)' =>
             \/ new[r] # None /\ wl'[r] = new[r]
             \/ new[r] = None /\ wl'[r] = wl[r] /\ Kin(r)
        BY DEF AnalyzeWrite, Open, Withdrawn
    <2>2. \A r, s \in Recs : new[r] # None /\ Kin(s) => wl[s] # new[r]
        BY DEF AnalyzeWrite, Busy
    <2>3. \A r, s \in Recs : new[r] # None /\ new[r] = new[s] => r = s
        BY DEF AnalyzeWrite
    <2>4. \A r \in Recs : Kin(r) => Open(r)
        BY DEF Open
    <2>5. SUFFICES ASSUME NEW r \in Recs, NEW s \in Recs, Open(r)', Open(s)', wl'[r] = wl'[s]
                   PROVE  r = s
        BY DEF OneOpenPlan
    <2> HIDE DEF Kin
    <2>6. CASE new[r] # None /\ new[s] # None
        BY <2>1, <2>3, <2>5, <2>6
    <2>7. CASE new[r] # None /\ new[s] = None
        BY <2>1, <2>2, <2>5, <2>7
    <2>8. CASE new[r] = None /\ new[s] # None
        BY <2>1, <2>2, <2>5, <2>8
    <2>9. CASE new[r] = None /\ new[s] = None
        BY <2>1, <2>4, <2>5, <2>9 DEF OneOpenPlan
    <2>10. QED
        BY <2>6, <2>7, <2>8, <2>9
<1>4. QED
    BY <1>1, <1>2, <1>3 DEF Analyze

(* No analysis proposes a plan for a workload that already has an open one, *)
(* whatever was approved, queued or withdrawn between its statements.       *)
THEOREM OnePlanPerWorkload == ASSUME NEW human, Humans = {human} PROVE Spec => []OneOpenPlan
<1>1. Spec => [](Typed /\ Serial)
    BY SerialInvariant
<1>2. Init => OneOpenPlan
    BY DEF Init, OneOpenPlan, Open
<1>3. QED
    BY <1>1, <1>2, OneOpenStep, PTL DEF Spec
=============================================================================
