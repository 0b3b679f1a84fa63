----------------------------- MODULE PlanReview -----------------------------
(***************************************************************************)
(* The life of policies and recommendations between the API's handlers     *)
(* (internal/api/server.go), the collector (internal/worker/collector.go,  *)
(* internal/recommendation/engine.go) and the executor.                    *)
(*                                                                         *)
(* A handler that reads in one statement and writes in another is two      *)
(* steps, and requests overlap.  A transaction's writes are one step, the  *)
(* commit: until then its row locks keep the others from the rows it has   *)
(* written.  An answer of 4xx or 5xx that changes nothing is the action    *)
(* not being taken.  Rejected recommendations are left out: they    *)
(* cannot be approved and the next analysis deletes them.  What the        *)
(* executor does to the cluster is module Executor's; here it only moves   *)
(* the recommendation.                                                     *)
(***************************************************************************)
EXTENDS Naturals

CONSTANTS Humans,       \* API requests that may be in flight together
          Policies, Recs, Workloads,
          Seed,         \* the policy that migration 2 and 3 make active
          MaxVersion,   \* bound on versions; as many as policies is no restriction
          MaxFaults,    \* bound on failed statements and crashes
          None

ASSUME ReviewAssumption == /\ Seed \in Policies
                           /\ MaxVersion \in Nat \ {0}
                           /\ MaxFaults \in Nat
                           /\ None \notin Policies \cup Recs

VARIABLES pol,          \* pol[p] : policy_versions.status
          ver,          \* ver[p] : policy_versions.version
          st,           \* st[r] : recommendations.status, "free" without a row
          wl, by,       \* the workload it is about, the policy it was built under
          under,        \* under[r] : recommendations.policy_version
          approvals,    \* approvals[r] : how many approvals rows name r
          queued,       \* history: how often a request moved r to queued
          pending,      \* pending[r] : execute jobs of r that nobody claimed yet
          op, on,       \* the request of each human between two statements
          sees,         \* sees[h] : the policies its first UPDATE found active
          reads, seen,  \* whether the collector has read the policy, and which
          exe, stage,   \* the executor's plan, and what execute has written of it
          ran,          \* the recommendations that have an executions row
          faults

policies == <<pol, ver>>
plans == <<wl, by, under>>
requests == <<op, on, sees>>
collector == <<reads, seen>>
executor == <<exe, stage, ran>>
vars == <<policies, st, plans, approvals, queued, pending, requests, collector, executor,
          faults>>

Statuses == {"free", "proposed", "approved", "queued", "executing",
             "succeeded", "rolled_back", "failed", "expired"}

TypeOK ==
    /\ pol \in [Policies -> {"absent", "draft", "active", "superseded", "deleted"}]
    /\ ver \in [Policies -> 0 .. MaxVersion]
    /\ st \in [Recs -> Statuses]
    /\ wl \in [Recs -> Workloads \cup {None}]
    /\ by \in [Recs -> Policies \cup {None}]
    /\ under \in [Recs -> 0 .. MaxVersion]
    /\ approvals \in [Recs -> Nat]
    /\ queued \in [Recs -> Nat]
    /\ pending \in [Recs -> Nat]
    /\ op \in [Humans -> {"none", "approve", "execute", "activate", "deactivate"}]
    /\ on \in [Humans -> Recs \cup Policies \cup {None}]
    /\ sees \in [Humans -> SUBSET Policies]
    /\ reads \in BOOLEAN
    /\ seen \in Policies \cup {None}
    /\ exe \in Recs \cup {None}
    /\ stage \in {"checks", "inserted", "runs"}
    /\ ran \subseteq Recs
    /\ faults \in 0 .. MaxFaults

Init ==
    /\ pol = [p \in Policies |-> IF p = Seed THEN "active" ELSE "absent"]
    /\ ver = [p \in Policies |-> IF p = Seed THEN 1 ELSE 0]
    /\ st = [r \in Recs |-> "free"]
    /\ wl = [r \in Recs |-> None]
    /\ by = [r \in Recs |-> None]
    /\ under = [r \in Recs |-> 0]
    /\ approvals = [r \in Recs |-> 0]
    /\ queued = [r \in Recs |-> 0]
    /\ pending = [r \in Recs |-> 0]
    /\ op = [h \in Humans |-> "none"]
    /\ on = [h \in Humans |-> None]
    /\ sees = [h \in Humans |-> {}]
    /\ reads = FALSE
    /\ seen = None
    /\ exe = None
    /\ stage = "checks"
    /\ ran = {}
    /\ faults = 0

-----------------------------------------------------------------------------
Idle(h) == op[h] = "none"

Begin(h, what, x) == /\ Idle(h)
                     /\ op' = [op EXCEPT ![h] = what]
                     /\ on' = [on EXCEPT ![h] = x]
                     /\ UNCHANGED sees

Answer(h) == /\ op' = [op EXCEPT ![h] = "none"]
             /\ on' = [on EXCEPT ![h] = None]
             /\ sees' = [sees EXCEPT ![h] = {}]

Fault == faults < MaxFaults /\ faults' = faults + 1

\* A statement of the request fails, its client is gone or the server dies; an
\* open transaction is rolled back.
RequestFails(h) ==
    /\ ~Idle(h)
    /\ Fault
    /\ Answer(h)
    /\ UNCHANGED <<policies, st, plans, approvals, queued, pending, collector, executor>>

-----------------------------------------------------------------------------
(* Policies *)

Saved(p) == pol[p] \notin {"absent", "deleted"}

\* The version is the highest of those saved, plus one.  Two drafts that read
\* the same maximum collide on UNIQUE (tenant_id, version).
NewestPlusOne(v) == /\ \A p \in Policies : Saved(p) => ver[p] < v
                    /\ v = 1 \/ \E p \in Policies : Saved(p) /\ ver[p] = v - 1

SaveDraft(p, v) ==
    /\ pol[p] = "absent"
    /\ NewestPlusOne(v)
    /\ pol' = [pol EXCEPT ![p] = "draft"]
    /\ ver' = [ver EXCEPT ![p] = v]
    /\ UNCHANGED <<st, plans, approvals, queued, pending, requests, collector, executor, faults>>

\* SELECT ... FOR UPDATE: the transaction holds the row until it ends.
Locked(p) == \E h \in Humans : op[h] \in {"activate", "deactivate"} /\ on[h] = p

\* UPDATE recommendations SET status='expired' for the open plans among rs.
Expire(rs) == st' = [r \in Recs |-> IF r \in rs /\ st[r] \in {"proposed", "approved"}
                                    THEN "expired" ELSE st[r]]

\* The draft is locked, and UPDATE ... WHERE status='active' takes its snapshot.
\* It may then have to wait for a row that another transaction has locked.
ActivateRead(h, p) ==
    /\ pol[p] = "draft"
    /\ ~Locked(p)
    /\ Idle(h)
    /\ op' = [op EXCEPT ![h] = "activate"]
    /\ on' = [on EXCEPT ![h] = p]
    /\ sees' = [sees EXCEPT ![h] = {q \in Policies : pol[q] = "active"}]
    /\ UNCHANGED <<policies, st, plans, approvals, queued, pending, collector, executor, faults>>

\* Mutant: migration 3 creates no unique index.
NoIndex(h) == FALSE

\* policy_versions_one_active_per_tenant_idx: a policy that became active behind
\* the snapshot was not superseded, and the second UPDATE is refused.
Refused(h) == \E q \in Policies : pol[q] = "active" /\ q \notin sees[h]

\* The rows of the snapshot are read again under their locks.
Superseding(h, q) == q \in sees[h] /\ pol[q] = "active"

ActivateCommit(h) ==
    /\ op[h] = "activate"
    /\ \A q \in Policies : Superseding(h, q) => ~Locked(q)
    /\ IF Refused(h) THEN UNCHANGED <<pol, st>>
       ELSE /\ pol' = [q \in Policies |-> IF q = on[h] THEN "active"
                                          ELSE IF Superseding(h, q) THEN "superseded" ELSE pol[q]]
            /\ Expire(Recs)       \* whatever version they were built under
    /\ Answer(h)
    /\ UNCHANGED <<ver, plans, approvals, queued, pending, collector, executor, faults>>

InFlight(p) == \E r \in Recs : st[r] \in {"queued", "executing"} /\ under[r] = ver[p]

DeactivateCheck(h, p) ==
    /\ pol[p] = "active"
    /\ ~Locked(p)
    /\ ~InFlight(p)
    /\ Begin(h, "deactivate", p)
    /\ UNCHANGED <<policies, st, plans, approvals, queued, pending, collector, executor, faults>>

DeactivateCommit(h) ==
    /\ op[h] = "deactivate"
    /\ pol' = [pol EXCEPT ![on[h]] = "superseded"]
    /\ Expire({r \in Recs : under[r] = ver[on[h]]})
    /\ Answer(h)
    /\ UNCHANGED <<ver, plans, approvals, queued, pending, collector, executor, faults>>

Delete(p) ==
    /\ pol[p] \in {"draft", "superseded"}
    /\ ~Locked(p)
    /\ pol' = [pol EXCEPT ![p] = "deleted"]
    /\ UNCHANGED <<ver, st, plans, approvals, queued, pending, requests, collector, executor,
                   faults>>

-----------------------------------------------------------------------------
(* Approve and execute *)

\* Mutant: the status is not looked at.
ApproveAny(h, r) ==
    /\ st[r] # "free"
    /\ Begin(h, "approve", r)
    /\ UNCHANGED <<policies, st, plans, approvals, queued, pending, collector, executor, faults>>

ApproveRead(h, r) ==
    /\ st[r] = "proposed"
    /\ Begin(h, "approve", r)
    /\ UNCHANGED <<policies, st, plans, approvals, queued, pending, collector, executor, faults>>

\* The UPDATE does not look at the status again.  When an analysis has deleted
\* the row, the foreign key of approvals refuses the INSERT.
ApproveWrite(h) ==
    /\ op[h] = "approve"
    /\ LET r == on[h] IN
       IF st[r] = "free" THEN UNCHANGED <<st, approvals>>
       ELSE /\ approvals' = [approvals EXCEPT ![r] = @ + 1]
            /\ st' = [st EXCEPT ![r] = "approved"]
    /\ Answer(h)
    /\ UNCHANGED <<policies, plans, queued, pending, collector, executor, faults>>

\* Mutant: UPDATE ... WHERE id=$1 without AND status='approved'.
MarkAnyStatus(h, r) ==
    /\ st[r] \notin {"free", "proposed"}
    /\ queued[r] <= approvals[r]
    /\ Begin(h, "execute", r)
    /\ st' = [st EXCEPT ![r] = "queued"]
    /\ queued' = [queued EXCEPT ![r] = @ + 1]
    /\ UNCHANGED <<policies, plans, approvals, pending, collector, executor, faults>>

ExecuteMark(h, r) ==
    /\ st[r] = "approved"
    /\ Begin(h, "execute", r)
    /\ st' = [st EXCEPT ![r] = "queued"]
    /\ queued' = [queued EXCEPT ![r] = @ + 1]
    /\ UNCHANGED <<policies, plans, approvals, pending, collector, executor, faults>>

ExecuteEnqueue(h) ==
    /\ op[h] = "execute"
    /\ pending' = [pending EXCEPT ![on[h]] = @ + 1]
    /\ Answer(h)
    /\ UNCHANGED <<policies, st, plans, approvals, queued, collector, executor, faults>>

-----------------------------------------------------------------------------
(* The collector: collectAndAnalyze reads the active policy and later, in    *)
(* one transaction (ReplaceOpen), deletes the proposals and inserts new ones. *)

AnalyzeRead ==
    /\ ~reads
    /\ reads' = TRUE
    /\ \/ \E p \in Policies : pol[p] = "active" /\ seen' = p
       \/ (\A p \in Policies : pol[p] # "active") /\ seen' = None
    /\ UNCHANGED <<policies, st, plans, approvals, queued, pending, requests, executor, faults>>

\* Mutant: an approved plan does not keep its workload busy.
QueuedBusy(w) == \E r \in Recs : wl[r] = w /\ st[r] \in {"queued", "executing"}

Busy(w) == \E r \in Recs : wl[r] = w /\ st[r] \in {"approved", "queued", "executing"}

\* An id is new when no row has it and no request remembers it.
Unused(r) == st[r] = "free" /\ \A h \in Humans : on[h] # r

\* Mutant: only the rejected rows are deleted.
RejectedOnly(r) == FALSE

\* Mutant: approved rows are deleted too, and approvals has no foreign key.
WithdrawnOpen(r) == st[r] \in {"proposed", "approved"}

Withdrawn(r) == st[r] = "proposed"

\* A proposal for each workload of ws, the others being rejected, and none for
\* a busy workload; without a policy everything is rejected.
AnalyzeWrite(new) ==
    /\ reads
    /\ reads' = FALSE
    /\ seen' = None
    /\ seen = None => \A r \in Recs : new[r] = None
    /\ \A r \in Recs : new[r] # None => Unused(r) /\ ~Busy(new[r])
    /\ \A r, s \in Recs : new[r] # None /\ new[r] = new[s] => r = s
    /\ st' = [r \in Recs |-> IF new[r] # None THEN "proposed"
                             ELSE IF Withdrawn(r) THEN "free" ELSE st[r]]
    /\ wl' = [r \in Recs |-> IF new[r] # None THEN new[r]
                             ELSE IF Withdrawn(r) THEN None ELSE wl[r]]
    /\ by' = [r \in Recs |-> IF new[r] # None THEN seen
                             ELSE IF Withdrawn(r) THEN None ELSE by[r]]
    /\ under' = [r \in Recs |-> IF new[r] # None THEN ver[seen]
                                ELSE IF Withdrawn(r) THEN 0 ELSE under[r]]
    /\ UNCHANGED <<policies, approvals, queued, pending, requests, executor, faults>>

\* A statement fails or the collector dies; the transaction is rolled back.
AnalyzeFails ==
    /\ reads
    /\ Fault
    /\ reads' = FALSE
    /\ seen' = None
    /\ UNCHANGED <<policies, st, plans, approvals, queued, pending, requests, executor>>

-----------------------------------------------------------------------------
(* The executor (module PlanRun) and the restore jobs                        *)

Run == INSTANCE PlanRun

others == <<policies, plans, queued, requests, collector>>

Execute == Run!Work /\ UNCHANGED <<others, faults>>

ExecuteFails == Run!Lost /\ Fault /\ UNCHANGED others

Restore == (\E r \in Recs : Run!Restore(r)) /\ UNCHANGED <<others, faults>>

-----------------------------------------------------------------------------
PolicyRequest(h) == \/ \E p \in Policies : ActivateRead(h, p) \/ DeactivateCheck(h, p)
                    \/ ActivateCommit(h) \/ DeactivateCommit(h)

PlanRequest(h) == \/ \E r \in Recs : ApproveRead(h, r) \/ ExecuteMark(h, r)
                  \/ ApproveWrite(h) \/ ExecuteEnqueue(h)

\* The requests that are one step wait for a human who has none in flight.
OneStep(p) == /\ \E h \in Humans : Idle(h)
              /\ \/ \E v \in 1 .. MaxVersion : SaveDraft(p, v)
                 \/ Delete(p)

Analyze == \/ AnalyzeRead
           \/ \E new \in [Recs -> Workloads \cup {None}] : AnalyzeWrite(new)

Next == \/ \E h \in Humans : PolicyRequest(h) \/ PlanRequest(h) \/ RequestFails(h)
        \/ \E p \in Policies : OneStep(p)
        \/ Analyze \/ AnalyzeFails
        \/ Execute \/ ExecuteFails \/ Restore

Spec == Init /\ [][Next]_vars

\* The collector analyses on every tick, the executor polls, and a handler that
\* has begun goes on.
Fairness == /\ WF_vars(Analyze)
            /\ WF_vars(Execute)
            /\ \A h \in Humans : WF_vars(ActivateCommit(h) \/ DeactivateCommit(h)
                                         \/ ApproveWrite(h) \/ ExecuteEnqueue(h))

FairSpec == Spec /\ Fairness

-----------------------------------------------------------------------------
(* Properties *)

\* Each approval lets a plan be queued once: whatever requests overlap or are
\* repeated, a plan is queued no more often than somebody approved it, and the
\* jobs that wait are among those.
QueuedPerApproval ==
    \A r \in Recs : pending[r] <= queued[r] /\ queued[r] <= approvals[r]

\* What was approved is kept: no analysis deletes a plan that has an approval,
\* a job or an execution, though it decides by status alone.
ApprovedPlansKept ==
    \A r \in Recs : approvals[r] > 0 \/ exe = r => st[r] \notin {"free", "proposed"}

\* One policy at most is active, however activations and deactivations overlap,
\* and a deactivation that holds its row lock is about the active one.
OneActivePolicy ==
    /\ \A p, q \in Policies : pol[p] = "active" /\ pol[q] = "active" => p = q
    /\ \A h \in Humans : op[h] = "deactivate" => pol[on[h]] = "active"

\* A proposal whose policy is no longer active leaves the board: the next
\* analysis withdraws it, even when a racing analysis put it there.
StaleProposalsGo ==
    \A r \in Recs :
        (st[r] = "proposed" /\ \A p \in Policies : pol[p] = "active" => by[r] # p) ~> (st[r] # "proposed")

Open(r) == st[r] \in {"proposed", "approved", "queued", "executing"}

\* Two plans for one workload are never open together, while one request at a
\* time is handled: ReplaceOpen's EXISTS and the order of the statuses see to it.
OneOpenPlan ==
    \A r, s \in Recs : Open(r) /\ Open(s) /\ wl[r] = wl[s] => r = s

\* An expired plan stays expired, while one request at a time is handled.
ExpiredIsFinal == [][\A r \in Recs : st[r] = "expired" => st'[r] = "expired"]_vars

\* web/src/App.tsx:91 "Open recommendations under this policy will expire", and
\* approve answers 409 to what is not proposed: an expired plan is not approved.
NoApprovalOfExpired ==
    [][\A r \in Recs : st[r] = "expired" => st'[r] # "approved"]_vars

\* server.go:529 "wait for them to finish before deactivating": a queued plan
\* finishes.
QueuedPlansFinish == \A r \in Recs : (st[r] = "queued") ~> (st[r] # "queued")
=============================================================================
