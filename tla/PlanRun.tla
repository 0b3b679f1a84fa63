------------------------------ MODULE PlanRun ------------------------------
(***************************************************************************)
(* What a lone executor does to the plans (internal/worker/executor.go),   *)
(* without the cluster: it takes a queued plan's job, writes an executions *)
(* row before it marks the plan as executing, and ends it in one of three  *)
(* ways.  Nothing gives a plan a second job; a plan whose job is lost      *)
(* keeps the status it had.                                                *)
(*                                                                         *)
(* Executor implements this, statement by statement; PlanReview composes   *)
(* it with the API's requests and the collector.                           *)
(***************************************************************************)
EXTENDS Naturals

CONSTANTS Recs, None

VARIABLES st,           \* st[r] : recommendations.status, "free" without a row
          approvals,    \* approvals[r] : how many approvals rows name r
          pending,      \* pending[r] : execute jobs of r that nobody has read yet
          exe, stage,   \* the executor's plan, and what execute has written of it
          ran           \* the recommendations that have an executions row

vars == <<st, approvals, pending, exe, stage, ran>>

Init == /\ st = [r \in Recs |-> "free"]
        /\ approvals = [r \in Recs |-> 0]
        /\ pending = [r \in Recs |-> 0]
        /\ exe = None
        /\ stage = "checks"
        /\ ran = {}

\* The requests, when nothing overlaps them: one approval, one job.
Approve(r) == /\ st[r] = "free"
              /\ st' = [st EXCEPT ![r] = "approved"]
              /\ approvals' = [approvals EXCEPT ![r] = @ + 1]
              /\ UNCHANGED <<pending, exe, stage, ran>>

Queue(r) == /\ st[r] = "approved"
            /\ st' = [st EXCEPT ![r] = "queued"]
            /\ pending' = [pending EXCEPT ![r] = @ + 1]
            /\ UNCHANGED <<approvals, exe, stage, ran>>

-----------------------------------------------------------------------------
Executable(r) == st[r] \in {"queued", "approved"} /\ approvals[r] > 0

\* ClaimJob and the SELECTs of execute.  The job goes on with the plan or it
\* fails: the status, the kind or a SELECT is in the way.
Load(r) ==
    /\ exe = None
    /\ pending[r] > 0
    /\ pending' = [pending EXCEPT ![r] = @ - 1]
    /\ \/ Executable(r) /\ exe' = r
       \/ exe' = None
    /\ UNCHANGED <<st, approvals, stage, ran>>

\* The UID or the replica count is not what was approved, or a call fails: the
\* job fails and the status stays.
Refuse ==
    /\ exe # None
    /\ stage = "checks"
    /\ exe' = None
    /\ UNCHANGED <<st, approvals, pending, stage, ran>>

Insert ==
    /\ exe # None
    /\ stage = "checks"
    /\ stage' = "inserted"
    /\ ran' = ran \cup {exe}
    /\ UNCHANGED <<st, approvals, pending, exe>>

Mark ==
    /\ stage = "inserted"
    /\ stage' = "runs"
    /\ st' = [st EXCEPT ![exe] = "executing"]
    /\ UNCHANGED <<approvals, pending, exe, ran>>

\* Mutant: the words of jobs.status.
JobOutcomes == {"completed", "failed"}

Outcomes == {"succeeded", "rolled_back", "failed"}

End(outcome) ==
    /\ stage = "runs"
    /\ exe' = None
    /\ stage' = "checks"
    /\ st' = [st EXCEPT ![exe] = outcome]
    /\ UNCHANGED <<approvals, pending, ran>>

\* A restore job names any execution; its UPDATE does not look at the status.
Restore(r) ==
    /\ exe = None
    /\ r \in ran
    /\ st' = [st EXCEPT ![r] = "rolled_back"]
    /\ UNCHANGED <<approvals, pending, exe, stage, ran>>

-----------------------------------------------------------------------------
(* Lost statements and lost processes *)

\* The row is there and execute is told that it is not: the job fails.
InsertUnheard ==
    /\ exe # None
    /\ stage = "checks"
    /\ ran' = ran \cup {exe}
    /\ exe' = None
    /\ UNCHANGED <<st, approvals, pending, stage>>

\* The error of this UPDATE is ignored.
MarkIgnored ==
    /\ stage = "inserted"
    /\ stage' = "runs"
    /\ UNCHANGED <<st, approvals, pending, exe, ran>>

\* The rollback fails, the last UPDATE is lost or the process dies: the status
\* stays.
Abandon ==
    /\ exe # None
    /\ exe' = None
    /\ stage' = "checks"
    /\ UNCHANGED <<st, approvals, pending, ran>>

-----------------------------------------------------------------------------
Work == \/ \E r \in Recs : Load(r)
        \/ Refuse \/ Insert \/ Mark
        \/ \E outcome \in Outcomes : End(outcome)

Lost == InsertUnheard \/ MarkIgnored \/ Abandon

Next == \/ \E r \in Recs : Approve(r) \/ Queue(r) \/ Restore(r)
        \/ Work \/ Lost

Spec == Init /\ [][Next]_vars
=============================================================================
