------------------------------ MODULE Executor ------------------------------
(***************************************************************************)
(* The executor (internal/worker/executor.go) and the Deployment it        *)
(* scales, one statement or API call per step: claim a job, check the      *)
(* recommendation and the Deployment, write the execution row, scale,      *)
(* verify, roll back when verification fails, record, finish the job.      *)
(*                                                                         *)
(* One Deployment is modelled: all that two workloads share is the queue.  *)
(* execution_steps and audit_events rows are never read by a worker and    *)
(* are left out.                                                           *)
(***************************************************************************)
EXTENDS Naturals, FiniteSets

CONSTANTS Executors,
          Recs,
          MaxReplicas, MaxJobs,     \* bounds on replicas, on jobs and executions
          MaxFaults,                \* bound on crashes and failed calls
          MaxOwner,                 \* bound on changes by the workload's owner
          OwnerWaits,               \* the owner leaves the Deployment alone while
                                    \* a job is being handled
          Null

ASSUME ExecutorAssumption == /\ MaxReplicas \in Nat
                             /\ MaxJobs \in Nat
                             /\ MaxFaults \in Nat
                             /\ MaxOwner \in Nat
                             /\ OwnerWaits \in BOOLEAN

Ids == 1 .. MaxJobs
Replicas == 0 .. MaxReplicas
OtherUid == MaxOwner + 1            \* the uid of some StatefulSet
Kinds == {"Deployment", "StatefulSet"}
Min2(a, b) == IF a < b THEN a ELSE b

VARIABLES dep,          \* the Deployment in the cluster
          plan,         \* plan[r] : what recommendation r proposes
          recStatus,    \* recommendations.status
          job,          \* jobs rows of kind execute and restore, oldest first
          jobStatus, njobs,
          row,          \* executions rows, oldest first
          execStatus, nexecs,
          pc,           \* pc[x] : where executor x is in its loop
          cur, own,     \* the job and the execution row it works on
          mode,         \* what it is doing to the Deployment
          ok,           \* whether its handler returns nil
          fresh,        \* fresh[x] : the resourceVersion x has read is still current
          baseline,     \* history: the replica count last asked for by a human
          faults, owned

queue == <<job, jobStatus, njobs>>
plans == <<plan, recStatus>>
rows == <<row, execStatus, nexecs>>
hand == <<pc, cur, own, mode, ok>>
vars == <<dep, plans, queue, rows, hand, fresh, baseline, faults, owned>>

Plan == [kind : Kinds, uid : 0 .. OtherUid, current : Replicas, target : Replicas]
Job == [kind : {"execute", "restore"}, rec : Recs, row : 0 .. MaxJobs]
Row == [rec : Recs, prev : Replicas, target : Replicas]

ASSUME NullAssumption == Null \notin Job \cup Row \cup Recs

TypeOK ==
    /\ dep \in [uid : 0 .. MaxOwner, spec : Replicas, pods : Replicas,
                ready : Replicas, synced : BOOLEAN]
    /\ plan \in [Recs -> Plan]
    /\ recStatus \in [Recs -> {"none", "approved", "queued", "executing",
                               "succeeded", "rolled_back", "failed"}]
    /\ job \in [Ids -> Job \cup {Null}]
    /\ jobStatus \in [Ids -> {"none", "pending", "running", "completed", "failed"}]
    /\ njobs \in 0 .. MaxJobs
    /\ row \in [Ids -> Row \cup {Null}]
    /\ execStatus \in [Ids -> {"none", "executing", "succeeded", "rolled_back", "failed"}]
    /\ nexecs \in 0 .. MaxJobs
    /\ pc \in [Executors -> {"idle", "load", "preflight", "insert", "mark", "get", "put",
                             "wait", "record", "recordRec", "finish"}]
    /\ cur \in [Executors -> 0 .. MaxJobs]
    /\ own \in [Executors -> 0 .. MaxJobs]
    /\ mode \in [Executors -> {"squeeze", "rollback", "restore", "fail"}]
    /\ ok \in [Executors -> BOOLEAN]
    /\ fresh \in [Executors -> BOOLEAN]
    /\ baseline \in Replicas
    /\ faults \in 0 .. MaxFaults
    /\ owned \in 0 .. MaxOwner

Init ==
    /\ dep = [uid |-> 0, spec |-> MaxReplicas, pods |-> MaxReplicas,
              ready |-> MaxReplicas, synced |-> TRUE]
    /\ plan = [r \in Recs |-> [kind |-> "Deployment", uid |-> 0, current |-> 0, target |-> 0]]
    /\ recStatus = [r \in Recs |-> "none"]
    /\ job = [j \in Ids |-> Null]
    /\ jobStatus = [j \in Ids |-> "none"]
    /\ njobs = 0
    /\ row = [i \in Ids |-> Null]
    /\ execStatus = [i \in Ids |-> "none"]
    /\ nexecs = 0
    /\ pc = [x \in Executors |-> "idle"]
    /\ cur = [x \in Executors |-> 0]
    /\ own = [x \in Executors |-> 0]
    /\ mode = [x \in Executors |-> "squeeze"]
    /\ ok = [x \in Executors |-> TRUE]
    /\ fresh = [x \in Executors |-> FALSE]
    /\ baseline = MaxReplicas
    /\ faults = 0
    /\ owned = 0

-----------------------------------------------------------------------------
(* The API.  A plan is proposed for the Deployment as it is, and only while  *)
(* no other plan for the same object is approved, queued or executing        *)
(* (ReplaceOpen); a human approves it and queues it, once.  A restore names  *)
(* any execution there is.  No policy lets a StatefulSet be proposed (module *)
(* PlanEngine); the plan of one is here to try the executor's own check.     *)

Open(uid) == \E r \in Recs : /\ recStatus[r] \in {"approved", "queued", "executing"}
                             /\ plan[r].uid = uid

Enqueue(new) == /\ njobs < MaxJobs
                /\ njobs' = njobs + 1
                /\ job' = [job EXCEPT ![njobs + 1] = new]
                /\ jobStatus' = [jobStatus EXCEPT ![njobs + 1] = "pending"]

ApprovePlan(r, kind, target) ==
    LET uid == IF kind = "Deployment" THEN dep.uid ELSE OtherUid IN
    /\ recStatus[r] = "none"
    /\ ~Open(uid)
    /\ target < dep.spec
    /\ plan' = [plan EXCEPT ![r] = [kind |-> kind, uid |-> uid,
                                    current |-> dep.spec, target |-> target]]
    /\ recStatus' = [recStatus EXCEPT ![r] = "approved"]
    /\ UNCHANGED <<dep, queue, rows, hand, fresh, baseline, faults, owned>>

QueuePlan(r) ==
    /\ recStatus[r] = "approved"
    /\ recStatus' = [recStatus EXCEPT ![r] = "queued"]
    /\ Enqueue([kind |-> "execute", rec |-> r, row |-> 0])
    /\ UNCHANGED <<dep, plan, rows, hand, fresh, baseline, faults, owned>>

RequestRestore(i) ==
    /\ row[i] # Null
    /\ Enqueue([kind |-> "restore", rec |-> row[i].rec, row |-> i])
    /\ UNCHANGED <<dep, plans, rows, hand, fresh, baseline, faults, owned>>

-----------------------------------------------------------------------------
(* An executor's moves *)

At(x, p) == pc[x] = p
TheRec(x) == job[cur[x]].rec

GoTo(x, p) == pc' = [pc EXCEPT ![x] = p] /\ UNCHANGED <<cur, own, mode, ok>>

\* The handler returns, nil or an error.
Return(x, good) == /\ pc' = [pc EXCEPT ![x] = "finish"]
                   /\ ok' = [ok EXCEPT ![x] = good]
                   /\ UNCHANGED <<cur, own, mode>>

Turn(x, m, p) == /\ pc' = [pc EXCEPT ![x] = p]
                 /\ mode' = [mode EXCEPT ![x] = m]
                 /\ UNCHANGED <<cur, own, ok>>

Fault == faults < MaxFaults /\ faults' = faults + 1

\* ClaimJob (JobQueue shows how).  A lone executor takes the oldest job; beside
\* a locked row another one may take a later job.
Claim(x, j) ==
    /\ At(x, "idle")
    /\ jobStatus[j] = "pending"
    /\ (\E y \in Executors : y # x) \/ \A i \in 1 .. j - 1 : jobStatus[i] # "pending"
    /\ jobStatus' = [jobStatus EXCEPT ![j] = "running"]
    /\ pc' = [pc EXCEPT ![x] = "load"]
    /\ cur' = [cur EXCEPT ![x] = j]
    /\ own' = [own EXCEPT ![x] = job[j].row]
    /\ mode' = [mode EXCEPT ![x] = IF job[j].kind = "execute" THEN "squeeze" ELSE "restore"]
    /\ ok' = [ok EXCEPT ![x] = TRUE]
    /\ UNCHANGED <<dep, plans, job, njobs, rows, fresh, baseline, faults, owned>>

\* The approval's plan hash cannot differ from the plan's: no statement changes
\* a plan.  The status and the kind can stop the job.
Executable(r) == recStatus[r] \in {"queued", "approved"} /\ plan[r].kind = "Deployment"

Load(x) ==
    /\ At(x, "load")
    /\ \/ mode[x] = "restore" /\ GoTo(x, "get")
       \/ mode[x] = "squeeze" /\ Executable(TheRec(x)) /\ GoTo(x, "preflight")
       \/ mode[x] = "squeeze" /\ ~Executable(TheRec(x)) /\ Return(x, FALSE)
    /\ UNCHANGED <<dep, plans, queue, rows, fresh, baseline, faults, owned>>

AsApproved(r) == dep.uid = plan[r].uid /\ dep.spec = plan[r].current

\* Mutant: the plan is marked before its row is inserted.
MarkFirst(x) ==
    /\ At(x, "preflight")
    /\ IF AsApproved(TheRec(x)) THEN /\ recStatus' = [recStatus EXCEPT ![TheRec(x)] = "executing"]
                                     /\ GoTo(x, "insert")
                                ELSE Return(x, FALSE) /\ UNCHANGED recStatus
    /\ UNCHANGED <<dep, plan, queue, rows, fresh, baseline, faults, owned>>

Preflight(x) ==
    /\ At(x, "preflight")
    /\ IF AsApproved(TheRec(x)) THEN GoTo(x, "insert") ELSE Return(x, FALSE)
    /\ UNCHANGED <<dep, plans, queue, rows, fresh, baseline, faults, owned>>

\* Mutant: the INSERT's replica columns are swapped.
SwappedRow(r) == [rec |-> r, prev |-> plan[r].target, target |-> plan[r].current]

NewRow(r) == [rec |-> r, prev |-> plan[r].current, target |-> plan[r].target]

AddRow(x) == /\ At(x, "insert")
             /\ nexecs < MaxJobs
             /\ nexecs' = nexecs + 1
             /\ row' = [row EXCEPT ![nexecs + 1] = NewRow(TheRec(x))]
             /\ execStatus' = [execStatus EXCEPT ![nexecs + 1] = "executing"]
             /\ UNCHANGED <<dep, plans, queue, fresh, baseline, owned>>

Insert(x) == /\ AddRow(x)
             /\ pc' = [pc EXCEPT ![x] = "mark"]
             /\ own' = [own EXCEPT ![x] = nexecs + 1]
             /\ UNCHANGED <<cur, mode, ok, faults>>

\* The INSERT commits and its answer is lost.
InsertUnheard(x) == AddRow(x) /\ Return(x, FALSE) /\ Fault

Mark(x) ==
    /\ At(x, "mark")
    /\ recStatus' = [recStatus EXCEPT ![TheRec(x)] = "executing"]
    /\ GoTo(x, "get")
    /\ UNCHANGED <<dep, plan, queue, rows, fresh, baseline, faults, owned>>

-----------------------------------------------------------------------------
(* SetDeploymentReplicas: Get, then Update with the resourceVersion of the   *)
(* Get.  Any write to the object in between, the controller's status update  *)
(* included, makes the Update a conflict.                                    *)

Goal(x) == IF mode[x] = "squeeze" THEN plan[TheRec(x)].target ELSE row[own[x]].prev

\* Mutant: a rollback or restore goes on as if the call had succeeded.
SetFailsIgnored(x) == IF mode[x] = "squeeze" THEN Turn(x, "fail", "record")
                                             ELSE GoTo(x, "record")

\* The call returns an error: execute records a failed execution, rollback and
\* restore return it.
SetFails(x) == IF mode[x] = "squeeze" THEN Turn(x, "fail", "record")
                                      ELSE Return(x, FALSE)

Get(x) ==
    /\ At(x, "get")
    /\ fresh' = [fresh EXCEPT ![x] = TRUE]
    /\ GoTo(x, "put")
    /\ UNCHANGED <<dep, plans, queue, rows, baseline, faults, owned>>

\* Every write to the object makes the versions read before it stale.
Stale == fresh' = [x \in Executors |-> FALSE]

Scale(x) ==
    /\ At(x, "put")
    /\ fresh[x]
    /\ dep' = [dep EXCEPT !.spec = Goal(x), !.synced = FALSE]
    /\ baseline' = IF mode[x] = "restore" THEN Goal(x) ELSE baseline
    /\ Stale
    /\ UNCHANGED <<plans, queue, rows, owned>>

Put(x) == Scale(x) /\ GoTo(x, "wait") /\ UNCHANGED faults

\* The update is applied and its answer is lost.
PutUnheard(x) == Scale(x) /\ SetFails(x) /\ Fault

PutConflict(x) ==
    /\ At(x, "put")
    /\ ~fresh[x]
    /\ SetFails(x)
    /\ UNCHANGED <<dep, plans, queue, rows, fresh, baseline, faults, owned>>

SetError(x) ==
    /\ At(x, "get") \/ At(x, "put")
    /\ Fault
    /\ SetFails(x)
    /\ UNCHANGED <<dep, plans, queue, rows, fresh, baseline, owned>>

-----------------------------------------------------------------------------
(* WaitDeployment, and what follows it *)

Reached(n) == \/ n = 0 /\ dep.pods = 0
              \/ n > 0 /\ dep.synced /\ dep.ready >= n

WaitOk(x) ==
    /\ At(x, "wait")
    /\ Reached(Goal(x))
    /\ GoTo(x, "record")
    /\ UNCHANGED <<dep, plans, queue, rows, fresh, baseline, faults, owned>>

\* Mutant: WaitDeployment has no deadline; only the simulated check fails.
WaitFailsLate(x) ==
    /\ At(x, "wait")
    /\ Reached(Goal(x))
    /\ IF mode[x] = "squeeze" THEN Turn(x, "rollback", "get") ELSE Return(x, FALSE)
    /\ UNCHANGED <<dep, plans, queue, rows, fresh, baseline, faults, owned>>

\* The deadline passes, the Deployment cannot be read, or the simulated health
\* check fails: a squeeze is rolled back, a rollback or restore returns an error.
WaitFails(x) ==
    /\ At(x, "wait")
    /\ IF mode[x] = "squeeze" THEN Turn(x, "rollback", "get") ELSE Return(x, FALSE)
    /\ UNCHANGED <<dep, plans, queue, rows, fresh, baseline, faults, owned>>

\* Mutant: a status that the CHECK of recommendations does not know.
RestoredOutcome(m) == CASE m = "squeeze" -> "succeeded"
                        [] m = "fail"    -> "failed"
                        [] OTHER         -> "restored"

Outcome(m) == CASE m = "squeeze" -> "succeeded"
                [] m = "fail"    -> "failed"
                [] OTHER         -> "rolled_back"

Record(x) ==
    /\ At(x, "record")
    /\ execStatus' = [execStatus EXCEPT ![own[x]] = Outcome(mode[x])]
    /\ GoTo(x, "recordRec")
    /\ UNCHANGED <<dep, plans, queue, row, nexecs, fresh, baseline, faults, owned>>

RecordRec(x) ==
    /\ At(x, "recordRec")
    /\ recStatus' = [recStatus EXCEPT ![TheRec(x)] = Outcome(mode[x])]
    /\ Return(x, mode[x] # "fail")
    /\ UNCHANGED <<dep, plan, queue, rows, fresh, baseline, faults, owned>>

\* The error of these UPDATEs is ignored.
WriteIgnored(x) ==
    /\ \/ At(x, "mark") /\ GoTo(x, "get")
       \/ At(x, "record") /\ GoTo(x, "recordRec")
       \/ At(x, "recordRec") /\ Return(x, mode[x] # "fail")
    /\ Fault
    /\ UNCHANGED <<dep, plans, queue, rows, fresh, baseline, owned>>

\* A SELECT, the first Get or the INSERT fails and nothing has been changed.
ReadFails(x) ==
    /\ At(x, "load") \/ At(x, "preflight") \/ At(x, "insert")
    /\ Fault
    /\ Return(x, FALSE)
    /\ UNCHANGED <<dep, plans, queue, rows, fresh, baseline, owned>>

\* The loop starts over; what the handler knew is gone.
Rest(x) == /\ pc' = [pc EXCEPT ![x] = "idle"]
           /\ cur' = [cur EXCEPT ![x] = 0]
           /\ own' = [own EXCEPT ![x] = 0]
           /\ mode' = [mode EXCEPT ![x] = "squeeze"]
           /\ ok' = [ok EXCEPT ![x] = TRUE]
           /\ fresh' = [fresh EXCEPT ![x] = FALSE]

Finish(x) ==
    /\ At(x, "finish")
    /\ jobStatus' = [jobStatus EXCEPT ![cur[x]] = IF ok[x] THEN "completed" ELSE "failed"]
    /\ Rest(x)
    /\ UNCHANGED <<dep, plans, job, njobs, rows, baseline, faults, owned>>

\* Mutant: a crashed job is put back in the queue.
CrashRequeues(x) ==
    /\ ~At(x, "idle")
    /\ Fault
    /\ Rest(x)
    /\ jobStatus' = [jobStatus EXCEPT ![cur[x]] = "pending"]
    /\ UNCHANGED <<dep, plans, job, njobs, rows, baseline, owned>>

\* The process dies anywhere, or FinishJob fails: the loop starts over and the
\* job stays running.
Crash(x) ==
    /\ ~At(x, "idle")
    /\ Fault
    /\ Rest(x)
    /\ UNCHANGED <<dep, plans, queue, rows, baseline, owned>>

-----------------------------------------------------------------------------
(* The Deployment controller, and the people who own the workload *)

Sync ==
    /\ ~dep.synced
    /\ dep' = [dep EXCEPT !.pods = dep.spec, !.ready = Min2(dep.ready, dep.spec),
                          !.synced = TRUE]
    /\ Stale
    /\ UNCHANGED <<plans, queue, rows, hand, baseline, faults, owned>>

PodReady ==
    /\ dep.ready < dep.pods
    /\ dep' = [dep EXCEPT !.ready = @ + 1]
    /\ Stale
    /\ UNCHANGED <<plans, queue, rows, hand, baseline, faults, owned>>

OwnerActs(new) ==
    /\ owned < MaxOwner
    /\ OwnerWaits => \A x \in Executors : At(x, "idle")
    /\ owned' = owned + 1
    /\ dep' = new
    /\ baseline' = new.spec
    /\ Stale
    /\ UNCHANGED <<plans, queue, rows, hand, faults>>

OwnerScales(n) == n # dep.spec /\ OwnerActs([uid |-> dep.uid, spec |-> n, pods |-> dep.pods,
                                             ready |-> dep.ready, synced |-> FALSE])

OwnerRecreates(n) == OwnerActs([uid |-> dep.uid + 1, spec |-> n,
                                pods |-> 0, ready |-> 0, synced |-> FALSE])

-----------------------------------------------------------------------------
\* What the executor does when the calls it makes are answered.
Step(x) == \/ \E j \in Ids : Claim(x, j)
           \/ Load(x) \/ Preflight(x) \/ Insert(x) \/ Mark(x)
           \/ Get(x) \/ Put(x) \/ PutConflict(x)
           \/ WaitOk(x) \/ WaitFails(x)
           \/ Record(x) \/ RecordRec(x) \/ Finish(x)

Faulty(x) == \/ ReadFails(x) \/ InsertUnheard(x) \/ WriteIgnored(x)
             \/ SetError(x) \/ PutUnheard(x) \/ Crash(x)

Request == \/ \E r \in Recs : \/ \E kind \in Kinds, target \in Replicas :
                                    ApprovePlan(r, kind, target)
                              \/ QueuePlan(r)
           \/ \E i \in Ids : RequestRestore(i)

World == \/ Sync \/ PodReady
         \/ \E n \in Replicas : OwnerScales(n) \/ OwnerRecreates(n)

Next == \/ Request
        \/ \E x \in Executors : Step(x) \/ Faulty(x)
        \/ World

Spec == Init /\ [][Next]_vars

\* The loop polls and every call of the handlers returns or meets its deadline.
FairSpec == Spec /\ \A x \in Executors : WF_vars(Step(x))

-----------------------------------------------------------------------------
(* Properties *)

\* Whatever call fails and wherever the executor dies, the replica count the
\* humans last asked for is the Deployment's own or stands in an execution row
\* that a restore can name: the row is written before the cluster is touched.
\* (One executor, and an owner who leaves the Deployment alone meanwhile.)
OwnerCountRecoverable ==
    dep.spec = baseline
    \/ \E i \in Ids : /\ row[i] # Null
                      /\ row[i].prev = baseline
                      /\ plan[row[i].rec].uid = dep.uid

\* A recommendation that the API queues once is executed at most once, even after
\* a crash, a lost answer or a failed job: nothing puts it back and no job is
\* claimed twice.  (PlanReview shows how often the API queues it.)
OneExecutionPerPlan ==
    \A i, j \in Ids :
        row[i] # Null /\ row[j] # Null /\ row[i].rec = row[j].rec => i = j

\* internal/worker/executor.go:82 "resource UID changed after approval" and :89
\* "replica precondition changed from %d to %d": a squeeze changes the object that
\* was approved, at the replica count that was approved.  The check is made on one
\* Get, and SetDeploymentReplicas updates what another one returns.
SqueezeFromApprovedState ==
    [][\A x \in Executors :
          Scale(x) /\ mode[x] = "squeeze"
          => LET p == plan[TheRec(x)] IN dep.uid = p.uid /\ dep.spec = p.current]_vars

\* When an execution is recorded as succeeded or rolled_back, the Deployment
\* asks for its target or for its previous count: no failed call, conflict or
\* crash before the UPDATE makes the record false.
RecordsMatchCluster ==
    [][\A i \in Ids :
          execStatus'[i] # execStatus[i]
          => /\ execStatus'[i] = "succeeded" => dep.spec = row[i].target
             /\ execStatus'[i] = "rolled_back" => dep.spec = row[i].prev]_vars

\* A job that is being handled ends: no statement order, conflict or pod that
\* never becomes ready keeps the only executor from its next job.
HandledJobEnds == \A x \in Executors : ~At(x, "idle") ~> At(x, "idle")

\* The plans as PlanRun sees them: the execute jobs that nobody has read, and the
\* plan and the place of the executor that is about to change the Deployment.
Waits(r) == {j \in Ids : /\ job[j] # Null /\ job[j].kind = "execute" /\ job[j].rec = r
                         /\ \/ jobStatus[j] = "pending"
                            \/ \E x \in Executors : cur[x] = j /\ At(x, "load")}
Checks(x) == At(x, "preflight") \/ At(x, "insert")
Runs(x) == pc[x] \in {"get", "put", "wait", "record", "recordRec"} /\ mode[x] # "restore"
Executing == {x \in Executors : Checks(x) \/ At(x, "mark") \/ Runs(x)}

RunSt == [r \in Recs |-> IF recStatus[r] = "none" THEN "free" ELSE recStatus[r]]
RunApprovals == [r \in Recs |-> IF recStatus[r] = "none" THEN 0 ELSE 1]
RunPending == [r \in Recs |-> Cardinality(Waits(r))]
RunExe == IF Executing = {} THEN Null ELSE TheRec(CHOOSE x \in Executing : TRUE)
RunStage == IF \E x \in Executors : At(x, "mark") THEN "inserted"
            ELSE IF \E x \in Executors : Runs(x) THEN "runs" ELSE "checks"
RunRan == {r \in Recs : \E i \in Ids : row[i] # Null /\ row[i].rec = r}

Run == INSTANCE PlanRun WITH None <- Null, st <- RunSt, approvals <- RunApprovals,
                             pending <- RunPending, exe <- RunExe, stage <- RunStage,
                             ran <- RunRan

\* The executor's statements, with every failure and crash, do to the plans what
\* PlanRun says and PlanReview relies on: a plan is marked only after its row is
\* in the table, and after a lost statement it keeps the status it had.
\* (One executor.)
RunSpec == Run!Spec

\* docs/development.md:151 "The executor automatically restores its previous
\* replica count": a job that ended in rollback leaves the previous count.
RollbackRestores ==
    [][\A x \in Executors :
          Finish(x) /\ mode[x] = "rollback" => dep.spec = Goal(x)]_vars
=============================================================================
