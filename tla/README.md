# KubeSqueeze: specification, model checking and proofs

KubeSqueeze proposes smaller replica counts for Kubernetes Deployments, lets a
human approve a proposal, scales the Deployment, verifies it and restores it when
verification fails. This directory holds TLA+ modules of that code, TLC
configurations that check them on small instances, and TLAPS proofs of what
matters most for every instance.

1. Inventory of the system
2. Modules, and what they correspond to in the code
3. Runs: questions, bounds, results
4. Fairness
5. Proofs
6. What is not modelled
7. Plan

## 1. Inventory

Four processes run from one binary (`cmd/kubesqueeze`): the **API** with the
dashboard, the **collector**, the **executor** and a **migration** job. They share
one PostgreSQL database and never call each other; the `jobs` table is the only
channel between them, and polling is the only scheduling. Each uses READ COMMITTED
and, except where it says otherwise, one statement per transaction.

| Component | State | Operations | Other parties |
|---|---|---|---|
| Job queue (`database/helpers.go`) | `jobs` | EnqueueJob, ClaimJob, FinishJob | API and CLI post; collector and executor poll and claim |
| Executor (`worker/executor.go`) | `executions`, status of `recommendations`, the Deployment | execute, restore, rollback, failExecution, loop | Kubernetes API, Deployment controller, owners of workloads |
| Plan review (`api/server.go`) | `policy_versions`, `recommendations`, `approvals` | draft, activate, deactivate, delete; approve, execute, restore | overlapping HTTP requests, collector, executor |
| Collector (`worker/collector.go`) | `clusters`, snapshots, `recommendations` | collectAndAnalyze on a tick, at start and for `analyze` jobs | Kubernetes and Prometheus reads, plan engine |
| Plan engine (`recommendation/engine.go`, `policy/model.go`) | none (pure), then ReplaceOpen's transaction | Validate, BuildForPolicy | collector |
| Audit trail and stream (`helpers.go`, `server.go`, `App.tsx`) | `audit_events`, a cursor per connection | AddAudit, events, EventSource | every process writes, a page per browser reads |
| Kubernetes client (`kube/client.go`) | none | Discover, SetDeploymentReplicas, WaitDeployment | API server |
| Migrations (`database/database.go`) | `schema_migrations`, schema, seed rows | Migrate, WaitForMigrations | every process waits for its first file |
| Policy drafts (`server.go`, `llm/client.go`, `api.ts`) | a handler and a page per attempt, then `policy_versions` | streamed draft, save | LLM server, database, the page's connection |
| Others | none shared | Prometheus client, CLI, configuration, demo workload, dashboard views | |

**Hard behaviours.** A claim is two statements under a row lock, by processes that
overlap during a rolling update. The executor makes eight to twelve separate
statements and API calls per job, and may die, or lose an answer, at each; nothing
looks for jobs a dead process left. Most UPDATEs ignore their error. A Deployment
is read in one call and written in another, while its controller and its owner
write it too. A handler of the API reads a status in one statement and writes it in
another. The collector builds plans under a policy it read some time ago. Ids of
audit rows are given before the rows become visible. Server and collector start after
the first of three migration files, and the Job that migrates may run twice at a time.
A draft is saved before its page hears of it, over a connection that may break. `PROJECT.json` lists each
hazard at its line with the property that covers it, or why none does yet.

**What makes each part correct.**
*Queue:* a job has one holder; a job that was committed is claimed in the end; a
claim that fails gives its row back.
*Executor:* a plan is executed once; the change is made to the state that was
approved; the owner's replica count is never lost; records say what the cluster
has; a job ends.
*Review:* each approval is good for one execution; approved plans are not deleted;
one policy is active; expired plans stay expired; no two open plans per workload.
*Engine:* a proposal respects the policy, the HPA, exclusions, the disruption
budget and the headroom, and is not larger than it has to be.
*Stream:* a page receives each event once and in order.
*Start:* each file is applied once and in order; nothing that starts early does harm, and
the platform starts.
*Drafts:* what is shown as saved is saved; only a safe policy is saved; every attempt ends.

## 2. Modules

| Module | Models | Checked by |
|---|---|---|
| `JobBoard` | what the `jobs` table promises: posted, taken by at most one worker, closed by that worker | abstract specification of `JobQueue` |
| `JobQueue` | EnqueueJob, ClaimJob, FinishJob and the loops around them, statement by statement | `MCJobQueue`, `JobQueueProofs` |
| `Executor` | the executor's handlers and loop, the Deployment, its controller and its owner | `MCExecutor`, `ExecutorProofs`, `ExecutorRunProofs` |
| `PlanRun` | what a lone executor does to the plans, whatever it does to the cluster | abstract specification of `Executor`, part of `PlanReview` |
| `PlanReview` | policies and recommendations between overlapping requests, collector and executor | `MCPlanReview`, `PlanReviewProofs` |
| `Policy` | Validate | `MCDiscovery`, `MCMigrations` |
| `PlanEngine` | BuildForPolicy for one workload, under a stored policy that may be invalid | `MCDiscovery`, `PlanEngineProofs` |
| `Discovery` | Discover, the matching of HPAs and disruption budgets, the environment of a workload, then the engine | `MCDiscovery`, `PlanEngineProofs` |
| `AuditStream` | AddAudit, the event stream's handler, the page and its connections | `MCAuditStream`, `AuditStreamProofs` |
| `Migrations` | Migrate in several processes, and the drafts, activations and analyses that WaitForMigrations lets start beside it | `MCMigrations`, `MigrationsProofs` |
| `DraftStream` | the provider's stream, the handler that passes it on and saves, the connection, the page | `MCDraftStream`, `DraftStreamProofs` |

How they fit together: `Executor` takes its claim from `JobQueue` as one step
(`JobQueue` shows that a claim is exclusive, and `JobBoard` is what `Executor`
relies on); `Executor` implements `PlanRun`, which keeps of it only what it does to the
recommendations, their jobs and their executions, and `PlanReview` composes `PlanRun` with
the requests and the collector (`Execute`, `ExecuteFails`, `Restore` are steps of `PlanRun`
that leave the rest alone), so it relies on nothing about the executor that is not shown; `Policy` is
the check that `PlanEngine` and `Migrations` make of a stored policy; `PlanEngine` decides what `PlanReview`'s analysis may insert; `Discovery`
extends `PlanEngine` and feeds it what it makes of the cluster's objects; `Migrations` ends in the
state in which `PlanReview` begins (one active policy and the index that keeps it alone);
`DraftStream` is what happens before and around `PlanReview`'s `SaveDraft`.

**JobQueue.** `Select` is the snapshot of `SELECT ... FOR UPDATE SKIP LOCKED`,
`SkipRow` and `LockRow` walk it in `created_at` order, the second look at the status
included; `Commit` is the UPDATE and the COMMIT, which nobody can see apart because the
row is locked. `CommitUnheard` commits and loses its answer, `Abort` is the deferred
Rollback, `Crash` any death. `EnqueueStart` fixes `created_at`, `EnqueueCommit` makes
the row visible, so a younger job may show first.

**Executor.** `pc` walks through `execute`: `load`, `preflight`, `insert`, `mark`,
`get`, `put`, `wait`, `record`, `recordRec`, `finish`. `mode` says on whose behalf
`get`, `put` and `wait` run: `squeeze`, `rollback`, `restore`, or `fail` once
failExecution writes. `fresh` is whether the resourceVersion that was read is still
current; any write to the Deployment, the controller's status update included,
clears it, and `PutConflict` is the 409 that follows. A `...Unheard` action is a
write that took effect without its answer. `WaitFails` covers the deadline, an unreadable
Deployment and the simulated health check. SIGTERM cancels the context of every call,
which is a `Crash`. A call that is under way when the process dies is taken to have
reached the server or not before the next claim.

**PlanRun.** `stage` is what execute has written of its plan: nothing (`checks`), the row
(`inserted`), the row and, unless that UPDATE was lost, the status (`runs`). A claim and
the SELECTs after it are one step: `Load` when the plan is read. Under the refinement
mapping (`RunSt` to `RunRan` in `Executor`) a claimed job still counts as pending until then;
scaling, waiting, the record of the execution and most of a restore are stuttering steps.
`Approve` and `Queue` are the requests of somebody nobody overlaps; `PlanReview` has its own.

**PlanReview.** `ApproveRead`/`ApproveWrite`, `ExecuteMark`/`ExecuteEnqueue`,
`DeactivateCheck`/`DeactivateCommit` and `ActivateRead`/`ActivateCommit` are the handlers that
work in two steps; `SaveDraft` and `Delete` are one statement that changes a row each. A 4xx answer
is an action that is not taken. `ActivateRead` is the lock of the draft and the snapshot (`sees`) of
the UPDATE that supersedes what is active; `ActivateCommit` is the rest, once nobody else holds a
row of that snapshot (`Locked`), whose statuses it reads again (`Superseding`). Two activations
lock different drafts, so what keeps the second from leaving two active policies is no row lock
but the unique index (`Refused`). What a transaction writes is seen from its commit on, which is why its
UPDATEs are one step with it.
`AnalyzeRead` is activePolicy, `AnalyzeWrite` is ReplaceOpen. `Restore` sets
`rolled_back` without looking at the status. Versions are given again after a delete,
as `max(version)+1` does. A draft that a request saves after a slower one took the
same number fails on the UNIQUE constraint, and is no step.

**PlanEngine.** `Demands` is `math.Ceil(p95 / (perPod * 0.70))` with both results
the binary 0.70 can have when the quotient is whole. `Targets` is the switch of
BuildForPolicy, `Recommendation` the comparison and the disruption budget after it.

**Discovery.** A label selector is a set of requirements (matchLabels are requirements `In`
of one value), `Matches` what Kubernetes means by it. `Sample` is the set of labels that
selectorsOverlap makes up from the workload's selector, and the budget is tried on that
set and not on the pods. `MatchingPDB` takes the first budget that matches,
`DesiredHealthy` the count of its status or, when that is 0, of minAvailable. The
properties do not mention these operators: they speak of the budgets and HPAs in
the cluster and of the plan. A budget says minAvailable, maxUnavailable or neither; `Asks` is
what Kubernetes makes of that for a number of replicas, and `Wants` that or the status.

**AuditStream.** A row is `writing` from the moment the sequence gives its id to its
commit. `Query` needs an empty result, because the handler sends what it has before
it asks again. `Break` is a connection or server that goes away with what is on the
wire, `Connect` the browser's own reconnection with Last-Event-ID, `Reload` a new
page. `late` is a history variable: the rows that became visible behind the cursor.

**Migrations.** `pc` walks one file's transaction: `check` (SELECT EXISTS), `apply` (the
file's statements), for file 3 `update` (its UPDATE has begun and holds its table lock) and
`index` (the row is updated, CREATE INDEX waits for SHARE), `commit` (the version's INSERT
and COMMIT). `applied` counts what the database got of each file, `recorded` is
schema_migrations. An activation walks `locked` (FOR UPDATE of the draft), `update` (its UPDATE
has begun, with the snapshot `sees`), `superseded`, and `Commit`, which the index may refuse.
Locks are not variables: they follow from these steps. `DeadlockOfFiles` and
`DeadlockOfActivation` are PostgreSQL's deadlock detection: a victim of the two is rolled back; a
migrator's process then exits and its pod comes back. `Ready` is WaitForMigrations;
a process that gives up waiting exits, is started again and has changed nothing. The policies are
those of one tenant. `SeededBody` and `TypedBody` are what the collector decodes of the policy in
file 2 and in file 3, and `Analyze` needs `Valid` of the one it reads: Validate refuses the first,
which has no environments where the decoder looks, no coverage and neither of the flags.

**DraftStream.** An attempt is one press of the button: a handler (`srv`, `size`, `ver`), a
connection (`wire`, `conn`) and a page (`page`, `got`). Attempts overlap, because two
people draft, or because one who leaves the page leaves the request running. `closes` is after
how many deltas the first object of the answer is closed, 0 if that never happens or if the object
does not decode or does not pass Validate, chosen at the start. From there on the text can be
accepted wherever the stream ends (`Accept`); before, an object is cut and does not decode. `Reject` covers the provider's errors, its timeout, a cut stream and
an unsafe answer. `Break` and `Crash` cut a connection; either side notices at any time,
and what is on the wire may still be read. `StatementFails` covers a request whose context is
cancelled, with the INSERT committed or not.

## 3. Runs

| Run | Instance | Result |
|---|---|---|
| `queue` | two executors, a collector, three jobs of two kinds, one fault | holds |
| `executor` | one executor, two plans, three jobs and rows, two replicas, one fault, one owner's change | holds |
| `executor_owner` | the same without faults, and the owner may act during a job | `SqueezeFromApprovedState` violated |
| `executor_rollback` | the same without faults and owner | `RollbackRestores` violated |
| `review` | two overlapping requests, three policies, two plans for one workload, symmetry | holds |
| `review_serial` | one request at a time, three plans, one fault, fairness | holds |
| `review_expired`, `review_queued` | one or two requests, two plans, no fault | one property each, violated |
| `discovery` | selectors of every operator, up to two budgets, HPAs that share a name; every combination at and beside the engine's boundaries | holds |
| `audit` | five rows, LIMIT 2, two faults, fairness | holds |
| `startup` | two migrators, two activations, two drafts, one fault, fairness | holds |
| `drafts` | two attempts, answers of two deltas, three faults, fairness | holds |

**queue.** `ClaimedByOne`: no two holders, and what is held shows as running.
`BoardSpec`: the transaction implements `JobBoard`, so a job is taken at most once
whatever fails. `EveryJobClaimed`: a committed job is claimed. Two executors contend
for two jobs while a third is of a kind they must not take; three rows are what it
takes for a walk that skips one row and locks another.

**executor.** `OwnerCountRecoverable`: the count a human last asked for is in the
Deployment or in a row that a restore can name, because the row is written before the
cluster is touched. `OneExecutionPerPlan` and `RecordsMatchCluster` relate a plan, its rows and
the Deployment;
`HandledJobEnds` says that no job holds the executor for ever. `RunSpec`: with every failure
and crash, the statements implement `PlanRun`. With two plans and three jobs
a second plan can follow a restore, a failed first plan or a repeated restore, and a restore of the
first row can come after the second plan; two replicas give a partial squeeze and a scale
to zero. `OwnerCountRecoverable` and `RecordsMatchCluster` are about one executor, as
`deploy/platform` runs it, and an owner who leaves the Deployment alone while a job is handled
(`OwnerWaits`); what the opposite does to a squeeze is the next run. One of the plans may be for a
StatefulSet, which no policy lets through, to try the executor's own check.

**executor_owner.** `executor.go:82` and `:89` refuse a plan whose Deployment has another UID or
another count than was approved. They look at one Get, and SetDeploymentReplicas updates what a
second one returns: the run lets the owner scale the Deployment in between, and the squeeze
overwrites that count, which no row has. Recreating it does the same to an object nobody approved.

**executor_rollback.** `docs/development.md:151`: "The executor automatically restores
its previous replica count and records all four steps and the rollback reason." The
run squeezes, fails verification, and lets the controller write the Deployment between
the rollback's Get and Update: the Update is a conflict, the error is returned, the
squeezed count stays and the execution stays `executing`.

**review.** What overlapping handlers keep: `QueuedPerApproval` (a plan is queued no
more often than it was approved), `ApprovedPlansKept`, and `OneActivePolicy`, with activations
whose snapshots are taken before and whose commits come after each other's, beside deactivations.
Three policies make it possible that two drafts are activated while a third policy is active. No
statement fails in this run; failures are in `review_serial`, and the theorems have both.
**review_serial.** What holds with one request at a time beside collector and
executor: `OneOpenPlan`, `ExpiredIsFinal`, and `StaleProposalsGo`: a proposal made under a policy
that is no longer the one analyses use leaves that status in the end. Until the next analysis withdraws it,
somebody may approve it.
Two policies are enough for a version that is given again, two plans for a plan and
its successor, three when a proposal lies between. One workload is enough, since
nothing but the policy relates two.
**review_expired.** An approval that read `proposed` before a deactivation committed
approves the expired plan.
**review_queued.** A job that fails before its INSERT leaves its plan `queued`, and
`server.go:529` asks to wait for it for ever.

**discovery.** 4.5 million states from two families of clusters. `Deciding` has
every combination of what the engine compares: each environment, kind, exclusion (of a missing
label too), HPA, CPU request of zero, coverage 79 and 80, counts around the minimum and the
budget, and quotients below, at and above a whole number, under every stored policy,
invalid ones included. `ProposalIsSafe`, `HeadroomKept` and `NoSpareReplica` say that what is
proposed is safe, keeps the headroom and is not larger than it has to be; `TypesOK` that
Discover returns nothing the engine's theorems are not about. `Selecting` has every
combination of a Deployment or StatefulSet, its namespace, selector and pods, no, one or two budgets in either order (of its
namespace or another, a nil and an empty selector, a status that is not computed yet,
minAvailable and maxUnavailable, as a count or as a percentage), an HPA that targets it and one that only bears its name.
`HpaLeftAlone`: what an HPA targets is not proposed. `BudgetIsOurs`: the count that
restrains a plan comes from a budget that selects the workload's pods, when selectors are made of
labels. `BudgetKept`: nothing is proposed below what the namespace's only budget wants, for
pods with just the labels of their selector. Both are restricted to budgets that say minAvailable or
whose status is written (`Readable`). Outside these conditions neither holds:
the first of several budgets counts, a budget on another label of the pods is missed,
and `NotIn` of one value is taken for the value.

**audit.** `ReceivedInOrder`: rising ids, across reconnections. `MissedOnlyLate`: what a
page has passed without receiving is only what committed behind the cursor;
no LIMIT, gap or broken result loses a row. `EventsArrive`: the others arrive.
LIMIT 2 of five rows makes three queries necessary. That late rows are missed is what
the code does, and `late` names exactly them.

**startup.** `AppliedOnce`: however many processes migrate and wherever they die, a file's
effects are there once if it is recorded and not at all otherwise, and in order.
`OneActiveOnceIndexed`: two activations that began before the
index existed do not both commit beside it. `PlatformStarts`: all files get applied and an
analysis builds plans, although the body that file 2 leaves fails each analysis until file 3 is
applied. It has two premises, since neither is guaranteed: that at most one
policy is active (two activations that overlap before file 3 may leave two; then CREATE
UNIQUE INDEX fails until one is superseded), and that deadlocks do not go on for ever. Two
migrators and two activations reach each deadlock and the refusal of a second active
policy; the one fault is a death, a failed statement or a lost COMMIT.

**drafts.** `ShownIsSaved`: "Validated and saved as a draft" is true, of all the text that the
handler has, and under a version of its own. `RejectedNotSaved`: while nothing breaks,
"Draft rejected" is true as well, also for the one of two attempts that loses the version
both have read. `StreamEnds`: no page stays at "Generating" and no handler hangs.

Every property has a mutant, an operator marked `Mutant:` beside the definition it
changes, under which TLC finds the property violated. Deadlock is not checked where
a bound on jobs, rows or plans lets the system stop.

**Bounds.** `MaxFaults`, `MaxJobs`, `MaxOwner`, `MaxId`, `MaxVersion`, `MaxReplicas` and `Whole`
are bounds of the instances only; the proofs hold for all their values. One fault is
enough to reach each fault step; two faults in `audit` give a gap and a break in one
behaviour.

## 4. Fairness

`JobQueue`: weak fairness of each worker's claim and finish and of an INSERT's COMMIT:
loops poll on a ticker, handlers have deadlines. No request is ever forced.
`Executor`: weak fairness of `Step(x)`, the executor's own steps with answered calls.
No fairness for the controller or for pods, so `HandledJobEnds` does not rest on pods
becoming ready: WaitDeployment's deadline ends the wait.
`PlanReview`: weak fairness of the collector, of the executor and of the second half of a
handler that has begun; no human is forced. `Restore` has none.
`AuditStream`: the handler's ticker, the network's delivery and the browser's
reconnection.
`Migrations`: weak fairness of a migrator's steps (the Job starts its pod again) and of
the collector's ticker; strong fairness of the statements that wait for a lock, which
PostgreSQL serves in their order. No human is forced to activate anything; a transaction that
has begun goes on. The Job's backoffLimit of 10 is not modelled.
`DraftStream`: weak fairness of each handler (the provider's client has a timeout of 60 s)
and of each page, which reads on or is told of the broken connection.
`PlanEngine` and `Discovery` have no liveness property.

## 5. Proofs

`tlapm` checks every leaf with Z3, Zenon and LS4. The constants are unrestricted
but for the named assumptions in the modules (`QueueAssumption`, `ExecutorAssumption`,
`NullAssumption`, `ReviewAssumption`, `EngineAssumption`, `ClusterAssumption`,
`StreamAssumption`, `MigrationsAssumption`, `DraftAssumption`), which TLC evaluates for
its instances. Every invariant and action property of a run that passes is a theorem; a
theorem that needs more than the module's assumptions says so in an ASSUME of its own. Each
inductive invariant was checked on the runs' instances before it was proved.

**JobQueueProofs.** `TypesHold`, `ExclusiveClaims`, `ImplementsBoard`. `ClaimedByOne` is
not inductive: a worker between lock and commit is not handling yet. `IInv` adds that such a
worker has the lock of a pending row (`LockHeld`), that no lock outlives its claim and that
what is handled is running. The refinement has one lemma per kind of step.

**ExecutorProofs.** `ShapeInvariant` (tables fill from the bottom; a restore job names a
row of its recommendation; a busy executor holds a running job that nobody else
holds, and its mode, job and row fit), `TypesHold`, and `ExecutedOnce` =
`Spec => []OneExecutionPerPlan` for any number of executors and an owner who acts at
any time. `OneExecutionPerPlan` needs `Once`: a recommendation with a job or
a row has left `none` and `approved`, so it is not queued again; it has one execute job;
while that job is pending or short of its INSERT there is no row (`NoRowYet`).

**ExecutorRunProofs.** `ImplementsRun`: `Spec => RunSpec` when there is one executor. It
rests on `Shape` and `Once`: the job that is being read is among those counted as pending
(`WaitsRead`), and a plan whose status is written over has a row, so it was approved
(`StatusWritten`). One lemma per kind of step, and two for steps that `PlanRun` does not see
(`RunStutters`) or sees as the executor giving its plan up (`RunLeft`).

The other two theorems assume a lone executor (`Executors = {e}`) and `OwnerWaits`, as their
properties do; everything else may fail or die. `CountRecoverable` follows from the invariant
`Steady`; `RecordsTrue` adds `RowInHand`, the row the executor
records. `OwnerCountRecoverable` is not inductive: it does not say that
the count a squeeze or its rollback is about to replace is in a row. `Squeezed` says that from the Update of a squeeze to the end of
its rollback a row names the owner's count; for that row to say the truth, the Deployment must
still be the approved one when the row is written and when the Update is made (`ApprovalHolds`,
which SetDeploymentReplicas does not look at again), and a row must say what its plan says
(`RowsOfPlans`). `Applied` carries the goal from a successful Update through the wait to the
UPDATE that records it.

**PlanEngineProofs.** `ProposalsSafe`, `HeadroomHolds`, `SpareBounded` for all workloads
and policies; `Sound` is the invariant, `CeilCovers` and `TimesMonotone` the
arithmetic. For all clusters: `HpaRespected`, `BudgetRespected`, `RestraintIsOurs`, from the
invariant `Found` (the workload the engine sees is the one Discover makes of the object). They
rest on what the API server admits (`ClusterAssumption`: counts are not negative, a percentage is
at most 100, a budget does not say both minAvailable and maxUnavailable, an object's selector matches its own pods), on `PercentRoundsUp` (the
integer rounding is the least count that reaches the percentage), `SampleIsOfPod` (labels made
up from a selector of labels are the pods' own) and `HasLeast` (a list that matches somewhere has a
first match). `DiscoveredTypes` and `ClusterPlansSafe` join discovery and engine: for a set of
workloads that leaves out nothing a cluster can make (`Covering`, a hypothesis of these two; the
finite set TLC uses covers its own clusters), Discover stays inside it, and what is planned for an
object is as safe as the engine's theorems say.

**PlanReviewProofs.** `TypesHold`, `QueuedOncePerApproval`, `ApprovedKept`, `ActiveAlone`, for
any number of requests, policies, plans and faults. `QueuedPerApproval` needs counters:
`JobsQueued` adds the handlers between the UPDATE and EnqueueJob, `ApprovalsUsed` says
that a plan that is approved now has an approval left over. `ApprovedPlansKept` needs
that what the executor has loaded was approved (`WorkApproved`). `ActiveAlone` is about activations
whose snapshot is as old as it may be: an activation that commits has every active policy in its
snapshot, or it is refused. It needs `OneDeactivation`: the row lock lets one deactivation at a time
between its count and its COMMIT.
`OnePlanPerWorkload` and `ExpiredStays` are about one request at a time
(`Humans = {h}`), as their properties are: two overlapping requests break both, and
`review_expired` shows one way. Collector and executor run beside the request, and the invariant
`Serial` is about them: what a request has read is still so when it writes, but for a proposal
that an analysis withdraws (`ReadHolds`); a plan that was queued never again has a status that could be
approved, queued, expired or deleted (`QueuedForGood`, which keeps Restore, an UPDATE that does not
look at the status, from reviving an expired plan); nobody takes the executor's plan away
(`Undisturbed`). `RunMoves` says what the executor may do to a plan, `NothingOpens` that only an
analysis opens one.

**AuditStreamProofs.** `TypesHold`, `NothingElseMissed`, `RisingIds`. `MissedOnlyLate`
needs to know where each row between the last event received and the cursor is (`SentCovered`:
on the wire or late), that a query's result has no holes (`RowsCovered`, from
`FirstOfIsBelow`: LIMIT keeps all that lies below what it keeps) and that the wire
rises (`Order`).

**MigrationsProofs.** `TypesHold`, `FilesAppliedOnce`, `OneActive`, for any number
of migrators, activations, drafts and faults. `AppliedOnce` needs to know that whoever is at a
file has seen the files before it recorded (`InOrder`). `OneActiveOnceIndexed` needs
`IndexHeld`: from CREATE INDEX to the COMMIT that makes it visible the table lock keeps every
activation from writing, and `ActiveFinite`, without which counting the active policies says nothing.

**DraftStreamProofs.** `TypesHold`, `SavedIsShown`, `RejectedIsNotSaved`, for any
number of attempts, length of the answer and faults. A page knows only what it has read, so
the invariant says what is on the wire: all of the answer and how it ended, all of it so far, or
the part that was sent before the break (`Carried`); that the handler has a safe policy in its text
before it writes (`Handled`), and no two rows one version (`OwnVersions`); and that until something breaks an error is sent only by a handler
without a row (`Honest`). `OneMoreDelta`, `EndAdded` and `TailKeepsDeltas` are the facts about
sequences.

**Only model-checked:** everything under fairness (`EveryJobClaimed`, `HandledJobEnds`,
`StaleProposalsGo`, `EventsArrive`, `PlatformStarts`, `StreamEnds`), since liveness and ENABLED
are beyond the prover. The properties of the runs that expect a violation do not hold.

## 6. Not modelled

- Of the start: policies of a second tenant, deletions and deactivations, the Job's
  back-off limit, the pings of Open.
- Of the drafts: the prompt, decoding but for where the first object closes, and a page that closes the tab (to the server a
  broken connection).
- `execution_steps`, snapshots and the dashboard's SELECTs: nothing that acts reads
  them. The audit page is one SELECT.
- Rejected recommendations: they cannot be approved and the next analysis deletes them.
- Texts, savings, the plan hash (no statement changes a plan, so it cannot differ),
  the policy's timezone.
- LLM, Prometheus, CLI, configuration, demo workload, manifests: no state of the
  platform; what they return is a parameter, and what they request is a request.
- More than one Deployment in `Executor`: two share nothing but the queue.
- Two collectors: the manifests run one, apart from the moment of a rolling update.

**Behaviour the models have and no property is about**, since nothing can be said of it but that
the code does it:

- `server.go:529` asks to wait for executions in flight before a policy is deactivated. A plan that
  `execute` queues between the count at `:523` and the commit at `:542` is in flight when the policy
  is deactivated (`DeactivateCheck`, `ExecuteMark`, `DeactivateCommit`).
- A budget that says maxUnavailable (`deploy/fixtures/workloads.yaml:465`) restrains nothing until
  its status is written: `client.go:190` works out minAvailable alone (`DesiredHealthy`), so 2 of 5
  replicas may be proposed under a budget that lets one be unavailable.
- `docs/development.md:208` says that a preview is stored only if "the completed response" passes. A
  provider's stream that just ends after the policy has closed is stored (`Accept`).
- `web/src/App.tsx:93` says under "Draft rejected" that the output was not saved. When the connection
  breaks around the INSERT, or its answer is lost, it was (`Break`, `StatementFails`).

## 7. Plan

Order of the modules, the most important behaviour first: (1) `JobBoard`,
`JobQueue`; (2) `Executor`; (3) `PlanRun`, `PlanReview`; (4) `PlanEngine`; (5) `AuditStream`; (6)
`Discovery`; (7) `Migrations`; (8) `DraftStream`; all of these are done. The safety properties
of the runs are proved for every instance. Next:

1. Theorems about what the runs' properties leave open: how many job rows and execution rows a
   crash can leave behind, and what of `Steady` remains when the owner acts during a job.
2. What overlapping requests keep of `OneOpenPlan` and `ExpiredIsFinal`: the statuses a plan can
   come back from, and through which statement.
3. Two collectors, as in a rolling update, which the interleaving at `engine.go:156` is about.
