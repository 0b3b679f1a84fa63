------------------------------ MODULE JobQueue ------------------------------
(***************************************************************************)
(* The jobs table and its claim transaction                                *)
(* (internal/database/helpers.go), as the collector and the executor use   *)
(* it: SELECT ... FOR UPDATE SKIP LOCKED LIMIT 1, UPDATE, COMMIT, handle,  *)
(* FinishJob.                                                              *)
(*                                                                         *)
(* PostgreSQL is READ COMMITTED: the SELECT works on the rows committed    *)
(* when it starts, walks them in created_at order, skips a row another     *)
(* transaction holds, and checks again that the row is still pending when  *)
(* it locks it.  The UPDATE and the COMMIT are one step: in between, the   *)
(* row is locked and no other session can see the new status.              *)
(***************************************************************************)
EXTENDS Naturals

CONSTANTS Jobs, Workers, Kinds,
          KindOf,       \* KindOf[j] : jobs.kind
          Handles,      \* Handles[w] : the kinds w passes to ClaimJob
          None,
          MaxFaults     \* bound on crashes and lost database answers

ASSUME QueueAssumption == /\ KindOf \in [Jobs -> Kinds]
                          /\ Handles \in [Workers -> SUBSET Kinds]
                          /\ None \notin Jobs \cup Workers
                          /\ MaxFaults \in Nat

VARIABLES status,   \* jobs.status as committed; "posting" while EnqueueJob runs
          at,       \* jobs.created_at
          clock,    \* the database's now()
          lock,     \* lock[j] : the worker whose transaction locks the row
          pc,       \* pc[w] : where worker w is in its loop
          held,     \* held[w] : the job it selected or is handling
          seen,     \* seen[w] : the rows of its SELECT it has not walked yet
          faults

vars == <<status, at, clock, lock, pc, held, seen, faults>>

Statuses == {"absent", "posting", "pending", "running", "completed", "failed"}
PCs == {"idle", "scan", "locked", "handle"}

TypeOK == /\ status \in [Jobs -> Statuses]
          /\ at \in [Jobs -> Nat]
          /\ clock \in Nat
          /\ lock \in [Jobs -> Workers \cup {None}]
          /\ pc \in [Workers -> PCs]
          /\ held \in [Workers -> Jobs \cup {None}]
          /\ seen \in [Workers -> SUBSET Jobs]
          /\ faults \in 0 .. MaxFaults

Init == /\ status = [j \in Jobs |-> "absent"]
        /\ at = [j \in Jobs |-> 0]
        /\ clock = 0
        /\ lock = [j \in Jobs |-> None]
        /\ pc = [w \in Workers |-> "idle"]
        /\ held = [w \in Workers |-> None]
        /\ seen = [w \in Workers |-> {}]
        /\ faults = 0

-----------------------------------------------------------------------------
(* EnqueueJob: created_at is the start of the INSERT, the row is visible   *)
(* when it commits, so a later job may become visible first.               *)

EnqueueStart(j) ==
    /\ status[j] = "absent"
    /\ status' = [status EXCEPT ![j] = "posting"]
    /\ clock' = clock + 1
    /\ at' = [at EXCEPT ![j] = clock + 1]
    /\ UNCHANGED <<lock, pc, held, seen, faults>>

EnqueueCommit(j) ==
    /\ status[j] = "posting"
    /\ status' = [status EXCEPT ![j] = "pending"]
    /\ UNCHANGED <<at, clock, lock, pc, held, seen, faults>>

EnqueueFail(j) ==
    /\ status[j] = "posting"
    /\ faults < MaxFaults
    /\ faults' = faults + 1
    /\ status' = [status EXCEPT ![j] = "absent"]
    /\ UNCHANGED <<at, clock, lock, pc, held, seen>>

-----------------------------------------------------------------------------
(* ClaimJob *)

Select(w) ==
    /\ pc[w] = "idle"
    /\ pc' = [pc EXCEPT ![w] = "scan"]
    /\ seen' = [seen EXCEPT ![w] = {j \in Jobs : /\ status[j] = "pending"
                                                /\ KindOf[j] \in Handles[w]}]
    /\ UNCHANGED <<status, at, clock, lock, held, faults>>

First(w, j) == j \in seen[w] /\ \A i \in seen[w] : at[j] <= at[i]

\* Mutant: SKIP LOCKED without a lock, so a row another claim holds is taken.
UnlockedFree(j) == status[j] = "pending"

\* Mutant: the row is taken as the snapshot showed it.
StaleFree(j) == lock[j] = None

Free(j) == status[j] = "pending" /\ lock[j] = None

LockRow(w, j) ==
    /\ pc[w] = "scan"
    /\ First(w, j)
    /\ Free(j)
    /\ lock' = [lock EXCEPT ![j] = w]
    /\ held' = [held EXCEPT ![w] = j]
    /\ seen' = [seen EXCEPT ![w] = {}]
    /\ pc' = [pc EXCEPT ![w] = "locked"]
    /\ UNCHANGED <<status, at, clock, faults>>

SkipRow(w, j) ==
    /\ pc[w] = "scan"
    /\ First(w, j)
    /\ ~Free(j)
    /\ seen' = [seen EXCEPT ![w] = @ \ {j}]
    /\ UNCHANGED <<status, at, clock, lock, pc, held, faults>>

NoRows(w) ==
    /\ pc[w] = "scan"
    /\ seen[w] = {}
    /\ pc' = [pc EXCEPT ![w] = "idle"]
    /\ UNCHANGED <<status, at, clock, lock, held, seen, faults>>

Commit(w) ==
    /\ pc[w] = "locked"
    /\ status' = [status EXCEPT ![held[w]] = "running"]
    /\ lock' = [lock EXCEPT ![held[w]] = None]
    /\ pc' = [pc EXCEPT ![w] = "handle"]
    /\ UNCHANGED <<at, clock, held, seen, faults>>

\* The transaction commits and its answer is lost: ClaimJob returns an error
\* and the job is running with nobody to run it.
CommitUnheard(w) ==
    /\ pc[w] = "locked"
    /\ faults < MaxFaults
    /\ faults' = faults + 1
    /\ status' = [status EXCEPT ![held[w]] = "running"]
    /\ lock' = [lock EXCEPT ![held[w]] = None]
    /\ pc' = [pc EXCEPT ![w] = "idle"]
    /\ held' = [held EXCEPT ![w] = None]
    /\ UNCHANGED <<at, clock, seen>>

\* Mutant: no deferred Rollback, so a failed claim leaves its row locked.
AbortWithoutRollback(w) ==
    /\ pc[w] = "locked"
    /\ faults < MaxFaults
    /\ faults' = faults + 1
    /\ pc' = [pc EXCEPT ![w] = "idle"]
    /\ held' = [held EXCEPT ![w] = None]
    /\ UNCHANGED <<status, at, clock, lock, seen>>

\* The payload, the UPDATE or the COMMIT fails: the deferred Rollback runs.
Abort(w) ==
    /\ pc[w] = "locked"
    /\ faults < MaxFaults
    /\ faults' = faults + 1
    /\ lock' = [lock EXCEPT ![held[w]] = None]
    /\ pc' = [pc EXCEPT ![w] = "idle"]
    /\ held' = [held EXCEPT ![w] = None]
    /\ UNCHANGED <<status, at, clock, seen>>

-----------------------------------------------------------------------------
(* The handler runs from the claim to FinishJob, whose error both callers  *)
(* ignore.                                                                 *)

\* Mutant: FinishJob writes the word that executions and recommendations use.
ExecutionOutcome(failed) == IF failed THEN "failed" ELSE "succeeded"

Outcome(failed) == IF failed THEN "failed" ELSE "completed"

FinishJob(w, failed) ==
    /\ pc[w] = "handle"
    /\ status' = [status EXCEPT ![held[w]] = Outcome(failed)]
    /\ pc' = [pc EXCEPT ![w] = "idle"]
    /\ held' = [held EXCEPT ![w] = None]
    /\ UNCHANGED <<at, clock, lock, seen, faults>>

\* FinishJob fails: the row stays running.
FinishLost(w) ==
    /\ pc[w] = "handle"
    /\ faults < MaxFaults
    /\ faults' = faults + 1
    /\ pc' = [pc EXCEPT ![w] = "idle"]
    /\ held' = [held EXCEPT ![w] = None]
    /\ UNCHANGED <<status, at, clock, lock, seen>>

\* The process dies; PostgreSQL rolls its transaction back and a new process
\* starts its loop.  Nothing looks for jobs the old one left running.
Crash(w) ==
    /\ pc[w] # "idle"
    /\ faults < MaxFaults
    /\ faults' = faults + 1
    /\ lock' = [j \in Jobs |-> IF lock[j] = w THEN None ELSE lock[j]]
    /\ pc' = [pc EXCEPT ![w] = "idle"]
    /\ held' = [held EXCEPT ![w] = None]
    /\ seen' = [seen EXCEPT ![w] = {}]
    /\ UNCHANGED <<status, at, clock>>

-----------------------------------------------------------------------------
Claim(w) == \/ Select(w)
            \/ \E j \in Jobs : LockRow(w, j) \/ SkipRow(w, j)
            \/ NoRows(w)
            \/ Commit(w)

Post(j) == EnqueueStart(j) \/ EnqueueCommit(j)

Finish(w) == \E failed \in BOOLEAN : FinishJob(w, failed)

Next == \/ \E j \in Jobs : Post(j) \/ EnqueueFail(j)
        \/ \E w \in Workers : \/ Claim(w)
                              \/ Finish(w)
                              \/ CommitUnheard(w)
                              \/ Abort(w)
                              \/ FinishLost(w)
                              \/ Crash(w)

Spec == Init /\ [][Next]_vars

\* A worker that is up polls on every tick, its statements return and its
\* handlers have deadlines.  An API client need never enqueue anything.
Fairness == /\ \A w \in Workers : /\ WF_vars(Claim(w))
                                  /\ WF_vars(Finish(w))
            /\ \A j \in Jobs : WF_vars(EnqueueCommit(j))

FairSpec == Spec /\ Fairness

-----------------------------------------------------------------------------
(* Properties *)

Handling(w, j) == pc[w] = "handle" /\ held[w] = j

\* A job is never in the hands of two workers, and no worker holds a job that
\* the table does not show as running: ClaimJob's row lock and its second look
\* at the status make the claim exclusive across rolling restarts.
ClaimedByOne ==
    \A j \in Jobs, v, w \in Workers :
        Handling(w, j) => status[j] = "running" /\ (Handling(v, j) => v = w)

\* The board that the table and the workers' positions show.
Posted == [j \in Jobs |-> IF status[j] = "posting" THEN "absent" ELSE status[j]]
Handlers == [j \in Jobs |-> {w \in Workers : Handling(w, j)}]
Board == INSTANCE JobBoard WITH status <- Posted, handlers <- Handlers
\* The claim protocol implements the jobs board: a job posted is taken at most
\* once, whatever statements fail or processes die.
BoardSpec == Board!Spec

\* A committed job is eventually claimed as long as some worker passes its kind
\* to ClaimJob: a failed or crashed claim gives its row back.
EveryJobClaimed ==
    \A j \in Jobs : (status[j] = "pending") ~> (status[j] # "pending")
=============================================================================
