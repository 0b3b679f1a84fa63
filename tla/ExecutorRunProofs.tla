-------------------------- MODULE ExecutorRunProofs --------------------------
(***************************************************************************)
(* Proofs about a lone executor, for any number of plans, jobs, faults and *)
(* changes by the owner, and any replica counts: it implements PlanRun,    *)
(* and, beside an owner who waits while a job is handled, what it writes   *)
(* to the Deployment and to its records agrees.                            *)
(***************************************************************************)
EXTENDS ExecutorProofs, FiniteSetTheorems

(* Where the only executor is shows which plan it works on.                 *)
Working(x) == Checks(x) \/ At(x, "mark") \/ Runs(x)

LEMMA LoneExecutor ==
    ASSUME NEW e, Executors = {e}
    PROVE  /\ RunExe = IF Working(e) THEN TheRec(e) ELSE Null
           /\ RunStage = IF At(e, "mark") THEN "inserted"
                         ELSE IF Runs(e) THEN "runs" ELSE "checks"
<1>1. CASE Working(e)
    <2>1. Executing = {e}
        BY <1>1 DEF Executing, Working
    <2>2. (CHOOSE x \in Executing : TRUE) = e
        BY <2>1
    <2>3. RunExe = TheRec(e)
        BY <2>1, <2>2 DEF RunExe
    <2>4. QED
        BY <1>1, <2>3 DEF RunStage
<1>2. CASE ~Working(e)
    <2>1. Executing = {}
        BY <1>2 DEF Executing, Working
    <2>2. RunExe = Null
        BY <2>1 DEF RunExe
    <2>3. QED
        BY <1>2, <2>2 DEF RunStage
<1>3. QED
    BY <1>1, <1>2

Shows(e) == /\ RunExe = IF Working(e) THEN TheRec(e) ELSE Null
            /\ RunStage = IF At(e, "mark") THEN "inserted"
                          ELSE IF Runs(e) THEN "runs" ELSE "checks"

LEMMA LoneExecutorNext ==
    ASSUME NEW e, Executors = {e}
    PROVE  Shows(e) /\ Shows(e)'
<1>1. Shows(e)
    BY LoneExecutor DEF Shows
<1>2. QED
    BY <1>1, PTL

LEMMA WorksOnPlan ==
    ASSUME Shape, NEW x \in Executors, ~At(x, "idle")
    PROVE  /\ cur[x] \in Ids /\ job[cur[x]] \in Job /\ TheRec(x) \in Recs
           /\ jobStatus[cur[x]] = "running"
           /\ TheRec(x) # Null
<1>1. cur[x] \in Ids /\ jobStatus[cur[x]] = "running"
    BY DEF Shape, HasJob
<1>2. job[cur[x]] \in Job
    BY <1>1 DEF Shape, TypeOK, TablesFilled
<1>3. QED
    BY <1>1, <1>2, NullAssumption DEF Job, TheRec

LEMMA WaitsFinite ==
    ASSUME NEW r
    PROVE  IsFiniteSet(Waits(r)) /\ Cardinality(Waits(r)) \in Nat
<1>1. IsFiniteSet(Ids)
    BY ExecutorAssumption, FS_Interval DEF Ids
<1>2. Waits(r) \subseteq Ids
    BY DEF Waits
<1>3. IsFiniteSet(Waits(r))
    BY <1>1, <1>2, FS_Subset
<1>4. QED
    BY <1>3, FS_CardinalityType
-----------------------------------------------------------------------------
(* The jobs that nobody has read *)

LEMMA WaitsKept ==
    ASSUME NEW e, Executors = {e},
           job' = job,
           \A j \in Ids : (jobStatus'[j] = "pending" \/ (cur'[e] = j /\ pc'[e] = "load"))
                         <=> (jobStatus[j] = "pending" \/ (cur[e] = j /\ pc[e] = "load"))
    PROVE  RunPending' = RunPending
<1>1. \A r \in Recs : Waits(r)' = Waits(r)
    <2> SUFFICES ASSUME NEW r \in Recs, NEW j \in Ids
                 PROVE  j \in Waits(r)' <=> j \in Waits(r)
        BY DEF Waits
    <2>1. QED
        BY DEF Waits, At
<1>2. QED
    BY <1>1 DEF RunPending

LEMMA WaitsRead ==
    ASSUME NEW e, Executors = {e}, Shape,
           At(e, "load"), mode[e] = "squeeze",
           UNCHANGED <<job, jobStatus>>, pc'[e] # "load"
    PROVE  /\ RunPending[TheRec(e)] > 0
           /\ RunPending' = [RunPending EXCEPT ![TheRec(e)] = @ - 1]
<1> DEFINE p == TheRec(e)
<1>1. /\ cur[e] \in Ids /\ job[cur[e]] \in Job /\ p \in Recs
      /\ jobStatus[cur[e]] = "running"
    BY WorksOnPlan DEF At
<1>2. job[cur[e]] # Null /\ job[cur[e]].kind = "execute"
    <2>1. job[cur[e]].kind # "restore"
        BY DEF Shape, HasMode, At
    <2>2. QED
        BY <1>1, <2>1, NullAssumption DEF Job
<1>3. cur[e] \in Waits(p)
    BY <1>1, <1>2 DEF Waits, TheRec
<1>4. \A r \in Recs : Waits(r)' = IF r = p THEN Waits(r) \ {cur[e]} ELSE Waits(r)
    <2> SUFFICES ASSUME NEW r \in Recs, NEW j \in Ids
                 PROVE  j \in Waits(r)' <=> j \in Waits(r) /\ ~(r = p /\ j = cur[e])
        BY DEF Waits
    <2>1. CASE j = cur[e]
        BY <1>1, <2>1 DEF Waits, At, TheRec
    <2>2. CASE j # cur[e]
        BY <2>2 DEF Waits, At
    <2>3. QED
        BY <2>1, <2>2
<1>5. Cardinality(Waits(p) \ {cur[e]}) = Cardinality(Waits(p)) - 1
    BY <1>3, WaitsFinite, FS_RemoveElement
<1>6. Cardinality(Waits(p)) > 0
    <2>1. Cardinality(Waits(p)) \in Nat /\ Cardinality(Waits(p) \ {cur[e]}) \in Nat
        <3>1. IsFiniteSet(Waits(p)) /\ IsFiniteSet(Waits(p) \ {cur[e]})
            BY <1>3, WaitsFinite, FS_RemoveElement
        <3>2. QED
            BY <3>1, FS_CardinalityType
    <2>2. QED
        BY <1>5, <2>1
<1>7. RunPending'[p] = RunPending[p] - 1
    BY <1>1, <1>4, <1>5 DEF RunPending
<1>8. \A r \in Recs : r # p => RunPending'[r] = RunPending[r]
    BY <1>4 DEF RunPending
<1>9. QED
    BY <1>1, <1>6, <1>7, <1>8 DEF RunPending

LEMMA WaitsQueued ==
    ASSUME NEW e, Executors = {e}, Shape, NEW r \in Recs, QueuePlan(r)
    PROVE  RunPending' = [RunPending EXCEPT ![r] = @ + 1]
<1> DEFINE n == njobs + 1
<1>1. /\ n \in Ids /\ job[n] = Null
      /\ job' = [job EXCEPT ![n] = [kind |-> "execute", rec |-> r, row |-> 0]]
      /\ jobStatus' = [jobStatus EXCEPT ![n] = "pending"]
      /\ UNCHANGED <<pc, cur>>
    BY ExecutorAssumption DEF QueuePlan, Enqueue, Shape, TypeOK, TablesFilled, Ids, hand
<1>2. /\ job'[n] = [kind |-> "execute", rec |-> r, row |-> 0]
      /\ jobStatus'[n] = "pending"
      /\ \A j \in Ids : j # n => job'[j] = job[j] /\ jobStatus'[j] = jobStatus[j]
      /\ job'[n] # Null
    <2>1. [kind |-> "execute", rec |-> r, row |-> 0] \in Job
        BY ExecutorAssumption DEF Job
    <2>2. QED
        BY <1>1, <2>1, NullAssumption DEF Shape, TypeOK
<1>3. \A q \in Recs : n \notin Waits(q)
    BY <1>1 DEF Waits
<1>4. \A q \in Recs : Waits(q)' = IF q = r THEN Waits(q) \cup {n} ELSE Waits(q)
    <2> SUFFICES ASSUME NEW q \in Recs, NEW j \in Ids
                 PROVE  j \in Waits(q)' <=> j \in Waits(q) \/ (q = r /\ j = n)
        BY <1>1 DEF Waits
    <2>1. CASE j = n
        BY <1>1, <1>2, <2>1 DEF Waits
    <2>2. CASE j # n
        BY <1>1, <1>2, <2>2 DEF Waits, At
    <2>3. QED
        BY <2>1, <2>2
<1>5. Cardinality(Waits(r) \cup {n}) = Cardinality(Waits(r)) + 1
    BY <1>3, WaitsFinite, FS_AddElement
<1>6. QED
    BY <1>4, <1>5 DEF RunPending

-----------------------------------------------------------------------------
(* Steps that change no plan, and steps by which the executor gives a plan up *)

SameTables == UNCHANGED <<job, row, recStatus>>

LEMMA TablesKept ==
    ASSUME SameTables
    PROVE  UNCHANGED <<RunSt, RunApprovals, RunRan>>
BY DEF SameTables, RunSt, RunApprovals, RunRan

LEMMA RunStutters ==
    ASSUME NEW e, Executors = {e}, SameTables, RunPending' = RunPending,
           Working(e)' <=> Working(e), Working(e) => cur'[e] = cur[e],
           At(e, "mark")' <=> At(e, "mark"), Runs(e)' <=> Runs(e)
    PROVE  UNCHANGED Run!vars
<1>1. RunExe' = RunExe /\ RunStage' = RunStage
    BY LoneExecutorNext DEF Shows, TheRec, SameTables
<1>2. QED
    BY <1>1, TablesKept DEF Run!vars

LEMMA RunLeft ==
    ASSUME NEW e, Executors = {e}, Shape, SameTables, RunPending' = RunPending,
           Working(e), ~Working(e)'
    PROVE  Run!Abandon
<1>1. RunExe # Null
    <2>1. ~At(e, "idle")
        BY DEF Working, Checks, Runs, At
    <2>2. QED
        BY <2>1, WorksOnPlan, LoneExecutorNext DEF Shows
<1>2. RunExe' = Null /\ RunStage' = "checks"
    BY LoneExecutorNext DEF Shows, Working
<1>3. QED
    BY <1>1, <1>2, TablesKept DEF Run!Abandon

LEMMA RunLoads ==
    ASSUME NEW e, Executors = {e}, Shape, SameTables,
           At(e, "load"), mode[e] = "squeeze", jobStatus' = jobStatus,
           \/ pc'[e] = "preflight" /\ cur'[e] = cur[e] /\ Executable(TheRec(e))
           \/ pc'[e] \in {"finish", "idle"}
    PROVE  Run!Load(TheRec(e))
<1>1. RunExe = Null /\ RunStage = "checks"
    BY LoneExecutorNext DEF Shows, Working, Checks, Runs, At
<1>2. /\ RunPending[TheRec(e)] > 0
      /\ RunPending' = [RunPending EXCEPT ![TheRec(e)] = @ - 1]
    BY WaitsRead DEF SameTables
<1>3. RunStage' = "checks"
    BY LoneExecutorNext DEF Shows, Runs, At
<1>4. \/ Run!Executable(TheRec(e)) /\ RunExe' = TheRec(e)
      \/ RunExe' = Null
    <2>1. CASE pc'[e] = "preflight" /\ cur'[e] = cur[e] /\ Executable(TheRec(e))
        <3>1. RunExe' = TheRec(e)
            BY <2>1, LoneExecutorNext DEF Shows, Working, Checks, At, TheRec, SameTables
        <3>2. TheRec(e) \in Recs
            BY WorksOnPlan DEF At
        <3>3. Run!Executable(TheRec(e))
            BY <2>1, <3>2 DEF Run!Executable, Executable, RunSt, RunApprovals
        <3>4. QED
            BY <3>1, <3>3
    <2>2. CASE pc'[e] \in {"finish", "idle"}
        BY <2>2, LoneExecutorNext DEF Shows, Working, Checks, Runs, At
    <2>3. QED
        BY <2>1, <2>2
<1>5. QED
    BY <1>1, <1>2, <1>3, <1>4, TablesKept DEF Run!Load

-----------------------------------------------------------------------------
(* Every step of Executor is a step of PlanRun, or none. *)

LEMMA RequestRuns ==
    ASSUME NEW e, Executors = {e}, Shape, Request
    PROVE  [Run!Next]_(Run!vars)
<1>1. ASSUME NEW r \in Recs, NEW kind \in Kinds, NEW target \in Replicas,
             ApprovePlan(r, kind, target)
      PROVE  [Run!Next]_(Run!vars)
    <2>1. /\ recStatus[r] = "none" /\ recStatus' = [recStatus EXCEPT ![r] = "approved"]
          /\ UNCHANGED <<job, jobStatus, row, pc, cur, mode>>
        BY <1>1 DEF ApprovePlan, queue, rows, hand
    <2>2. RunPending' = RunPending /\ RunRan' = RunRan
        BY <2>1, WaitsKept DEF RunRan
    <2>3. RunExe' = RunExe /\ RunStage' = RunStage
        BY <2>1, LoneExecutorNext DEF Shows, Working, Checks, Runs, At, TheRec
    <2>4. /\ RunSt[r] = "free" /\ RunSt' = [RunSt EXCEPT ![r] = "approved"]
        BY <2>1 DEF RunSt, Shape, TypeOK
    <2>5. RunApprovals' = [RunApprovals EXCEPT ![r] = @ + 1]
        <3>1. RunApprovals[r] = 0 /\ RunApprovals'[r] = 1
            BY <2>1 DEF RunApprovals, Shape, TypeOK
        <3>2. \A q \in Recs : q # r => RunApprovals'[q] = RunApprovals[q]
            BY <2>1 DEF RunApprovals, Shape, TypeOK
        <3>3. /\ RunApprovals = [q \in Recs |-> RunApprovals[q]]
              /\ RunApprovals' = [q \in Recs |-> RunApprovals'[q]]
            BY DEF RunApprovals
        <3>4. QED
            BY <3>1, <3>2, <3>3
    <2>6. Run!Approve(r)
        BY <2>2, <2>3, <2>4, <2>5 DEF Run!Approve
    <2>7. QED
        BY <2>6 DEF Run!Next
<1>2. ASSUME NEW r \in Recs, QueuePlan(r)
      PROVE  [Run!Next]_(Run!vars)
    <2>1. /\ recStatus[r] = "approved" /\ recStatus' = [recStatus EXCEPT ![r] = "queued"]
          /\ UNCHANGED <<row, pc, cur, mode>>
          /\ \A j \in Ids : j # njobs + 1 => job'[j] = job[j]
          /\ job[njobs + 1] = Null
        BY <1>2, ExecutorAssumption
           DEF QueuePlan, Enqueue, rows, hand, Shape, TypeOK, TablesFilled, Ids
    <2>2. RunPending' = [RunPending EXCEPT ![r] = @ + 1]
        BY <1>2, WaitsQueued
    <2>3. ~At(e, "idle") => TheRec(e)' = TheRec(e)
        BY <2>1, WorksOnPlan, NullAssumption DEF TheRec
    <2>4. RunExe' = RunExe /\ RunStage' = RunStage
        BY <2>1, <2>3, LoneExecutorNext DEF Shows, Working, Checks, Runs, At
    <2>5. /\ RunSt[r] = "approved" /\ RunSt' = [RunSt EXCEPT ![r] = "queued"]
          /\ RunApprovals' = RunApprovals /\ RunRan' = RunRan
        BY <2>1 DEF RunSt, RunApprovals, RunRan, Shape, TypeOK
    <2>6. Run!Queue(r)
        BY <2>2, <2>4, <2>5 DEF Run!Queue
    <2>7. QED
        BY <2>6 DEF Run!Next
<1>3. ASSUME NEW i \in Ids, RequestRestore(i)
      PROVE  [Run!Next]_(Run!vars)
    <2>1. /\ UNCHANGED <<recStatus, row, pc, cur, mode>>
          /\ \A j \in Ids : j # njobs + 1 => job'[j] = job[j] /\ jobStatus'[j] = jobStatus[j]
          /\ job[njobs + 1] = Null
          /\ njobs + 1 \in Ids => job'[njobs + 1].kind = "restore"
        BY <1>3, ExecutorAssumption
           DEF RequestRestore, Enqueue, plans, rows, hand, Shape, TypeOK, TablesFilled, Ids
    <2>2. RunPending' = RunPending
        <3>1. \A r \in Recs : Waits(r)' = Waits(r)
            <4> SUFFICES ASSUME NEW r \in Recs, NEW j \in Ids
                         PROVE  j \in Waits(r)' <=> j \in Waits(r)
                BY DEF Waits
            <4>1. CASE j = njobs + 1
                BY <2>1, <4>1 DEF Waits
            <4>2. CASE j # njobs + 1
                BY <2>1, <4>2 DEF Waits, At
            <4>3. QED
                BY <4>1, <4>2
        <3>2. QED
            BY <3>1 DEF RunPending
    <2>3. ~At(e, "idle") => TheRec(e)' = TheRec(e)
        BY <2>1, WorksOnPlan, NullAssumption DEF TheRec
    <2>4. RunExe' = RunExe /\ RunStage' = RunStage
        BY <2>1, <2>3, LoneExecutorNext DEF Shows, Working, Checks, Runs, At
    <2>5. UNCHANGED <<RunSt, RunApprovals, RunRan>>
        BY <2>1 DEF RunSt, RunApprovals, RunRan
    <2>6. QED
        BY <2>2, <2>4, <2>5 DEF Run!vars
<1>4. QED
    BY <1>1, <1>2, <1>3 DEF Request

LEMMA WorldRuns ==
    ASSUME NEW e, Executors = {e}, World
    PROVE  UNCHANGED Run!vars
<1>1. UNCHANGED <<job, jobStatus, row, recStatus, pc, cur, mode>>
    BY DEF World, Sync, PodReady, OwnerScales, OwnerRecreates, OwnerActs, plans, queue, rows, hand
<1>2. RunPending' = RunPending
    BY <1>1, WaitsKept
<1>3. QED
    BY <1>1, <1>2, RunStutters DEF SameTables, Working, Checks, Runs, At

LEMMA ClaimRuns ==
    ASSUME NEW e, Executors = {e}, Shape, NEW j \in Ids, Claim(e, j)
    PROVE  UNCHANGED Run!vars
<1>1. /\ SameTables
      /\ pc[e] = "idle" /\ pc'[e] = "load" /\ cur'[e] = j
      /\ jobStatus[j] = "pending"
      /\ jobStatus' = [jobStatus EXCEPT ![j] = "running"]
    BY DEF Claim, SameTables, plans, rows, At, Shape, TypeOK
<1>2. RunPending' = RunPending
    BY <1>1, WaitsKept DEF SameTables, Shape, TypeOK
<1>3. QED
    BY <1>1, <1>2, RunStutters DEF Working, Checks, Runs, At

(* The moves of the handlers that change no table that PlanRun knows.       *)
LEMMA MoveRuns ==
    ASSUME NEW e, Executors = {e}, Shape, SameTables, UNCHANGED <<jobStatus, cur>>,
           NEW p, NEW m, Move(e, p, m), Moves(e, p, m), ~At(e, "load"),
           p \in {"preflight", "insert"} => Checks(e),
           Checks(e) => p \in {"preflight", "insert", "finish"},
           At(e, "mark") => p = "finish"
    PROVE  [Run!Next]_(Run!vars)
<1>1. pc'[e] = p /\ mode'[e] = m /\ p # "load" /\ p # "mark"
    BY DEF Move, Moves, Shape, TypeOK
<1>2. RunPending' = RunPending
    BY <1>1, WaitsKept DEF SameTables, At
<1>3. CASE Working(e) /\ p = "finish"
    <2>1. ~Working(e)'
        BY <1>1, <1>3 DEF Working, Checks, Runs, At
    <2>2. Run!Abandon
        BY <1>2, <1>3, <2>1, RunLeft
    <2>3. QED
        BY <2>2 DEF Run!Next, Run!Lost
<1>4. CASE Checks(e) /\ p # "finish"
    <2>1. /\ Checks(e)' /\ ~At(e, "mark") /\ ~At(e, "mark")' /\ ~Runs(e) /\ ~Runs(e)'
        BY <1>1, <1>4 DEF Checks, Runs, At
    <2>2. QED
        BY <1>2, <1>4, <2>1, RunStutters DEF Working
<1>5. CASE ~Checks(e) /\ ~(Working(e) /\ p = "finish")
    <2>1. ~Checks(e)' /\ ~At(e, "mark") /\ ~At(e, "mark")'
        BY <1>1, <1>5 DEF Checks, Working, At
    <2>2. Runs(e)' <=> Runs(e)
        BY <1>1, <1>5, <2>1 DEF Runs, Working, Checks, At, Moves, RowPCs
    <2>3. QED
        BY <1>2, <1>5, <2>1, <2>2, RunStutters DEF Working
<1>6. QED
    BY <1>3, <1>4, <1>5 DEF Working

LEMMA MovesRun ==
    ASSUME NEW e, Executors = {e}, Shape, ~At(e, "load"),
           \/ Preflight(e) \/ WaitOk(e) \/ WaitFails(e) \/ Get(e) \/ Put(e) \/ PutUnheard(e)
           \/ PutConflict(e) \/ ReadFails(e) \/ SetError(e) \/ Record(e)
           \/ (WriteIgnored(e) /\ ~At(e, "mark"))
    PROVE  [Run!Next]_(Run!vars)
<1> USE DEF Shape, TypeOK, At, GoTo, Return, Turn, SetFails, plans, queue, rows
<1>1. SameTables /\ UNCHANGED <<jobStatus, cur>>
    BY DEF SameTables, Preflight, WaitOk, WaitFails, Get, Put, PutUnheard, Scale, PutConflict,
           ReadFails, SetError, Record, WriteIgnored
<1>2. PICK p, m : /\ Move(e, p, m) /\ Moves(e, p, m)
                  /\ p \in {"preflight", "insert"} => Checks(e)
                  /\ Checks(e) => p \in {"preflight", "insert", "finish"}
                  /\ ~At(e, "mark")
    <2> USE DEF HasMode, Move, Moves, RowPCs, Checks
    <2>1. CASE Preflight(e) \/ ReadFails(e)
        BY <2>1 DEF Preflight, ReadFails
    <2>2. CASE WaitOk(e) \/ WaitFails(e)
        BY <2>2 DEF WaitOk, WaitFails
    <2>3. CASE Get(e) \/ PutConflict(e) \/ SetError(e)
        BY <2>3 DEF Get, PutConflict, SetError
    <2>4. CASE Put(e) \/ PutUnheard(e)
        BY <2>4 DEF Put, PutUnheard, Scale
    <2>5. CASE Record(e) \/ (WriteIgnored(e) /\ ~At(e, "mark"))
        BY <2>5 DEF Record, WriteIgnored
    <2>6. QED
        BY <2>1, <2>2, <2>3, <2>4, <2>5
<1>3. QED
    BY ONLY <1>1, <1>2, MoveRuns, Executors = {e}, Shape, ~At(e, "load")

LEMMA LoadRuns ==
    ASSUME NEW e, Executors = {e}, Shape, At(e, "load"), Load(e) \/ ReadFails(e) \/ Crash(e)
    PROVE  [Run!Next]_(Run!vars)
<1>1. SameTables /\ jobStatus' = jobStatus
    BY DEF SameTables, Load, ReadFails, Crash, plans, queue, rows
<1>2. TheRec(e) \in Recs /\ mode[e] \in {"squeeze", "restore"}
    BY WorksOnPlan DEF Shape, HasMode, At
<1>3. CASE mode[e] = "squeeze"
    <2>1. \/ pc'[e] = "preflight" /\ cur'[e] = cur[e] /\ Executable(TheRec(e))
          \/ pc'[e] \in {"finish", "idle"}
        BY <1>3 DEF Load, ReadFails, Crash, Rest, GoTo, Return, Shape, TypeOK
    <2>2. Run!Load(TheRec(e))
        BY <1>1, <1>3, <2>1, RunLoads
    <2>3. QED
        BY <1>2, <2>2 DEF Run!Next, Run!Work
<1>4. CASE mode[e] = "restore"
    <2>1. (pc'[e] = "get" /\ mode'[e] = "restore") \/ pc'[e] \in {"finish", "idle"}
        BY <1>4 DEF Load, ReadFails, Crash, Rest, GoTo, Return, Shape, TypeOK
    <2>2. ~Working(e) /\ ~Working(e)'
        BY <2>1 DEF Working, Checks, Runs, At
    <2>3. RunPending' = RunPending
        <3>1. job[cur[e]].kind = "restore"
            BY <1>4 DEF Shape, HasMode, At
        <3>2. \A r \in Recs : Waits(r)' = Waits(r)
            BY <1>1, <2>1, <3>1 DEF SameTables, Waits, At
        <3>3. QED
            BY <3>2 DEF RunPending
    <2>4. QED
        BY <1>1, <2>2, <2>3, RunStutters DEF Working
<1>5. QED
    BY <1>2, <1>3, <1>4

LEMMA InsertRuns ==
    ASSUME NEW e, Executors = {e}, Shape, Insert(e) \/ InsertUnheard(e)
    PROVE  [Run!Next]_(Run!vars)
<1>1. /\ pc[e] = "insert" /\ UNCHANGED <<job, jobStatus, recStatus, cur>>
      /\ nexecs + 1 \in Ids /\ row[nexecs + 1] = Null
      /\ row' = [row EXCEPT ![nexecs + 1] = NewRow(TheRec(e))]
    BY ExecutorAssumption
       DEF Insert, InsertUnheard, AddRow, Return, At, plans, queue, Shape, TypeOK, TablesFilled, Ids
<1>2. TheRec(e) \in Recs /\ TheRec(e) # Null /\ NewRow(TheRec(e)) # Null
    <2>1. TheRec(e) \in Recs /\ TheRec(e) # Null
        BY <1>1, WorksOnPlan DEF At
    <2>2. NewRow(TheRec(e)) \in Row
        BY <2>1 DEF NewRow, Row, Plan, Shape, TypeOK
    <2>3. QED
        BY <2>1, <2>2, NullAssumption
<1>3. RunRan' = RunRan \cup {TheRec(e)}
    BY <1>1, <1>2 DEF RunRan, NewRow, Shape, TypeOK
<1>4. RunExe = TheRec(e) /\ RunStage = "checks"
    BY <1>1, LoneExecutorNext DEF Shows, Working, Checks, Runs, At
<1>5. UNCHANGED <<RunSt, RunApprovals>>
    BY <1>1 DEF RunSt, RunApprovals
<1>6. CASE Insert(e)
    <2>1. pc'[e] = "mark"
        BY <1>6 DEF Insert, Shape, TypeOK
    <2>2. RunPending' = RunPending
        BY <1>1, <2>1, WaitsKept
    <2>3. RunExe' = TheRec(e) /\ RunStage' = "inserted"
        BY <1>1, <2>1, LoneExecutorNext DEF Shows, Working, At, TheRec
    <2>4. Run!Insert
        BY <1>2, <1>3, <1>4, <1>5, <2>2, <2>3 DEF Run!Insert
    <2>5. QED
        BY <2>4 DEF Run!Next, Run!Work
<1>7. CASE InsertUnheard(e)
    <2>1. pc'[e] = "finish"
        BY <1>7 DEF InsertUnheard, Return, Shape, TypeOK
    <2>2. RunPending' = RunPending
        BY <1>1, <2>1, WaitsKept
    <2>3. RunExe' = Null /\ RunStage' = "checks"
        BY <2>1, LoneExecutorNext DEF Shows, Working, Checks, Runs, At
    <2>4. Run!InsertUnheard
        BY <1>2, <1>3, <1>4, <1>5, <2>2, <2>3 DEF Run!InsertUnheard
    <2>5. QED
        BY <2>4 DEF Run!Next, Run!Lost
<1>8. QED
    BY <1>6, <1>7

(* A plan with a row is past its approval, so a status that is written over *)
(* another one leaves its approvals as they are.                            *)
LEMMA StatusWritten ==
    ASSUME Shape, Once, NEW x \in Executors, NEW word, word # "none",
           pc[x] \in {"mark", "recordRec"},
           recStatus' = [recStatus EXCEPT ![TheRec(x)] = word],
           UNCHANGED <<job, row>>
    PROVE  /\ RunSt' = [RunSt EXCEPT ![TheRec(x)] = word]
           /\ UNCHANGED <<RunApprovals, RunRan>>
           /\ TheRec(x) \in RunRan /\ TheRec(x) # Null
<1>1. TheRec(x) \in Recs /\ TheRec(x) # Null
    BY WorksOnPlan DEF At
<1>2. own[x] \in Ids /\ row[own[x]] # Null /\ row[own[x]].rec = TheRec(x)
    BY DEF Shape, HasRow, RowPCs
<1>3. recStatus[TheRec(x)] # "none"
    BY <1>2 DEF Once, RowsArePast, Unqueued
<1>4. RunSt' = [RunSt EXCEPT ![TheRec(x)] = word]
    BY <1>1 DEF RunSt, Shape, TypeOK
<1>5. RunApprovals' = RunApprovals
    BY <1>1, <1>3 DEF RunApprovals, Shape, TypeOK
<1>6. RunRan' = RunRan /\ TheRec(x) \in RunRan
    BY <1>1, <1>2 DEF RunRan
<1>7. QED
    BY <1>1, <1>4, <1>5, <1>6

LEMMA MarkRuns ==
    ASSUME NEW e, Executors = {e}, Shape, Once,
           Mark(e) \/ (WriteIgnored(e) /\ At(e, "mark"))
    PROVE  [Run!Next]_(Run!vars)
<1>1. /\ pc[e] = "mark" /\ pc'[e] = "get" /\ mode[e] = "squeeze"
      /\ UNCHANGED <<job, jobStatus, row, cur, mode>>
    BY DEF Mark, WriteIgnored, GoTo, Shape, TypeOK, HasMode, At, plans, queue, rows
<1>2. RunPending' = RunPending
    BY <1>1, WaitsKept
<1>3. /\ RunExe = TheRec(e) /\ RunStage = "inserted"
      /\ RunExe' = TheRec(e) /\ RunStage' = "runs"
    BY <1>1, LoneExecutorNext DEF Shows, Working, Checks, Runs, At, TheRec
<1>4. CASE Mark(e)
    <2>1. /\ RunSt' = [RunSt EXCEPT ![TheRec(e)] = "executing"]
          /\ UNCHANGED <<RunApprovals, RunRan>>
        BY <1>1, <1>4, StatusWritten DEF Mark
    <2>2. Run!Mark
        BY <1>2, <1>3, <2>1 DEF Run!Mark
    <2>3. QED
        BY <2>2 DEF Run!Next, Run!Work
<1>5. CASE WriteIgnored(e) /\ At(e, "mark")
    <2>1. UNCHANGED <<RunSt, RunApprovals, RunRan>>
        BY <1>5, TablesKept DEF WriteIgnored, SameTables, plans, queue, rows
    <2>2. Run!MarkIgnored
        BY <1>2, <1>3, <2>1 DEF Run!MarkIgnored
    <2>3. QED
        BY <2>2 DEF Run!Next, Run!Lost
<1>6. QED
    BY <1>4, <1>5

LEMMA RecordRuns ==
    ASSUME NEW e, Executors = {e}, Shape, Once, RecordRec(e)
    PROVE  [Run!Next]_(Run!vars)
<1>1. /\ pc[e] = "recordRec" /\ pc'[e] = "finish"
      /\ UNCHANGED <<job, jobStatus, row, cur, mode>>
      /\ recStatus' = [recStatus EXCEPT ![TheRec(e)] = Outcome(mode[e])]
    BY DEF RecordRec, Return, Shape, TypeOK, At, queue, rows
<1>2. RunPending' = RunPending
    BY <1>1, WaitsKept
<1>3. Outcome(mode[e]) \in Run!Outcomes /\ Outcome(mode[e]) # "none"
    BY DEF Outcome, Run!Outcomes
<1>4. /\ RunSt' = [RunSt EXCEPT ![TheRec(e)] = Outcome(mode[e])]
      /\ UNCHANGED <<RunApprovals, RunRan>>
      /\ TheRec(e) \in RunRan /\ TheRec(e) # Null
    BY <1>1, <1>3, StatusWritten
<1>5. RunExe' = Null /\ RunStage' = "checks"
    BY <1>1, LoneExecutorNext DEF Shows, Working, Checks, Runs, At
<1>6. CASE mode[e] = "restore"
    <2>1. RunExe = Null /\ RunStage = "checks"
        BY <1>1, <1>6, LoneExecutorNext DEF Shows, Working, Checks, Runs, At
    <2>2. Outcome(mode[e]) = "rolled_back"
        BY <1>6 DEF Outcome
    <2>3. Run!Restore(TheRec(e)) /\ TheRec(e) \in Recs
        BY <1>2, <1>4, <1>5, <2>1, <2>2 DEF Run!Restore, RunRan
    <2>4. QED
        BY <2>3 DEF Run!Next
<1>7. CASE mode[e] # "restore"
    <2>1. RunExe = TheRec(e) /\ RunStage = "runs"
        BY <1>1, <1>7, LoneExecutorNext DEF Shows, Working, Checks, Runs, At
    <2>2. Run!End(Outcome(mode[e]))
        BY <1>2, <1>4, <1>5, <2>1 DEF Run!End
    <2>3. QED
        BY <1>3, <2>2 DEF Run!Next, Run!Work
<1>8. QED
    BY <1>6, <1>7

LEMMA RestRuns ==
    ASSUME NEW e, Executors = {e}, Shape, Finish(e) \/ (Crash(e) /\ ~At(e, "load"))
    PROVE  [Run!Next]_(Run!vars)
<1>1. /\ SameTables /\ pc'[e] = "idle" /\ pc[e] \notin {"idle", "load"}
      /\ \A j \in Ids : jobStatus'[j] = "pending" <=> jobStatus[j] = "pending"
    <2>1. /\ SameTables /\ pc'[e] = "idle" /\ pc[e] \notin {"idle", "load"}
        BY DEF Finish, Crash, Rest, SameTables, At, plans, queue, rows, Shape, TypeOK
    <2>2. cur[e] \in Ids /\ jobStatus[cur[e]] = "running"
        BY <2>1, WorksOnPlan DEF At
    <2>3. QED
        BY <2>1, <2>2 DEF Finish, Crash, queue, Shape, TypeOK
<1>2. RunPending' = RunPending
    BY <1>1, WaitsKept DEF SameTables
<1>3. ~Working(e)'
    BY <1>1 DEF Working, Checks, Runs, At
<1>4. CASE Working(e)
    BY <1>1, <1>2, <1>3, <1>4, RunLeft DEF Run!Next, Run!Lost
<1>5. CASE ~Working(e)
    BY <1>1, <1>2, <1>3, <1>5, RunStutters DEF Working
<1>6. QED
    BY <1>4, <1>5

LEMMA RunInit ==
    ASSUME NEW e, Executors = {e}, Init
    PROVE  Run!Init
<1>1. /\ RunSt = [r \in Recs |-> "free"] /\ RunApprovals = [r \in Recs |-> 0]
      /\ RunRan = {}
    BY DEF Init, RunSt, RunApprovals, RunRan
<1>2. RunExe = Null /\ RunStage = "checks"
    BY LoneExecutorNext DEF Init, Shows, Working, Checks, Runs, At
<1>3. RunPending = [r \in Recs |-> 0]
    <2>1. \A r \in Recs : Waits(r) = {}
        BY DEF Init, Waits
    <2>2. QED
        BY <2>1, FS_EmptySet DEF RunPending
<1>4. QED
    BY <1>1, <1>2, <1>3 DEF Run!Init

LEMMA RunStep ==
    ASSUME NEW e, Executors = {e}
    PROVE  Shape /\ Once /\ [Next]_vars => [Run!Next]_(Run!vars)
<1> SUFFICES ASSUME Shape, Once, [Next]_vars
             PROVE  [Run!Next]_(Run!vars)
    OBVIOUS
<1>1. CASE Request \/ World
    BY <1>1, RequestRuns, WorldRuns
<1>2. CASE Step(e)
    <2>1. CASE \E j \in Ids : Claim(e, j)
        BY <2>1, ClaimRuns
    <2>2. CASE Load(e)
        BY <2>2, LoadRuns DEF Load
    <2>3. CASE \/ Preflight(e) \/ Get(e) \/ Put(e) \/ PutConflict(e)
               \/ WaitOk(e) \/ WaitFails(e) \/ Record(e)
        <3>1. ~At(e, "load")
            BY <2>3 DEF Preflight, Get, Put, Scale, PutConflict, WaitOk, WaitFails, Record, At
        <3>2. QED
            BY <2>3, <3>1, MovesRun
    <2>4. QED
        BY <1>2, <2>1, <2>2, <2>3, InsertRuns, MarkRuns, RecordRuns, RestRuns DEF Step
<1>3. CASE Faulty(e)
    <2>1. CASE At(e, "load") /\ (ReadFails(e) \/ Crash(e))
        BY <2>1, LoadRuns
    <2>2. CASE ~At(e, "load") /\ (ReadFails(e) \/ SetError(e) \/ PutUnheard(e))
        BY <2>2, MovesRun
    <2>3. CASE At(e, "load") /\ (SetError(e) \/ PutUnheard(e) \/ WriteIgnored(e))
        BY <2>3 DEF SetError, PutUnheard, Scale, WriteIgnored, At
    <2>4. CASE ~At(e, "load") /\ WriteIgnored(e)
        BY <2>4, MovesRun, MarkRuns
    <2>5. QED
        BY <1>3, <2>1, <2>2, <2>3, <2>4, InsertRuns, RestRuns DEF Faulty
<1>4. CASE UNCHANGED vars
    <2>1. UNCHANGED <<job, jobStatus, row, recStatus, pc, cur, mode>>
        BY <1>4 DEF vars, plans, queue, rows, hand
    <2>2. RunPending' = RunPending
        BY <2>1, WaitsKept
    <2>3. QED
        BY <2>1, <2>2, RunStutters DEF SameTables, Working, Checks, Runs, At
<1>5. QED
    BY <1>1, <1>2, <1>3, <1>4 DEF Next

(* A lone executor implements PlanRun: whatever call fails and wherever it  *)
(* dies, a plan is marked only after its row is in the table, is ended by   *)
(* whoever marked it or by a restore, and is loaded once for each job.      *)
THEOREM ImplementsRun ==
    ASSUME NEW e, Executors = {e}
    PROVE  Spec => RunSpec
<1>1. Init => Run!Init
    BY RunInit
<1>2. Shape /\ Once /\ [Next]_vars => [Run!Next]_(Run!vars)
    BY RunStep
<1>3. QED
    BY <1>1, <1>2, OnceInit, OnceStep, ShapeInvariant, PTL DEF Spec, RunSpec, Run!Spec

-----------------------------------------------------------------------------
(* The replica counts, for a lone executor and an owner who waits.          *)

Patient(e) == Executors = {e} /\ OwnerWaits

(* An execution row says what its plan says.                                *)
RowSays(i) == row[i] # Null => row[i] = NewRow(row[i].rec)
RowsOfPlans == \A i \in Ids : RowSays(i)

(* From the Preflight to the Update of a squeeze the Deployment is the one  *)
(* that was approved.                                                       *)
ApprovalHolds ==
    \A x \in Executors :
       pc[x] \in {"insert", "mark", "get", "put"} /\ mode[x] = "squeeze"
       => AsApproved(TheRec(x))

(* From a successful Update to its record the Deployment asks for the goal. *)
Applied ==
    \A x \in Executors : pc[x] \in {"wait", "record"} /\ mode[x] # "fail" => dep.spec = Goal(x)

OwnerCountNamed == \E i \in Ids : /\ row[i] # Null
                                  /\ row[i].prev = baseline
                                  /\ plan[row[i].rec].uid = dep.uid

(* Between the Update of a squeeze and the end of its rollback a row names  *)
(* the owner's count: an Update that changes it again loses nothing.        *)
SqueezedRow(x) == \/ mode[x] = "rollback" /\ pc[x] \in {"get", "put", "wait"}
                  \/ mode[x] = "squeeze" /\ pc[x] = "wait"

Squeezed == \A x \in Executors : SqueezedRow(x) => OwnerCountNamed

Steady == RowsOfPlans /\ ApprovalHolds /\ Applied /\ Squeezed /\ OwnerCountRecoverable

LEMMA RecoverableIs == OwnerCountRecoverable <=> dep.spec = baseline \/ OwnerCountNamed
BY DEF OwnerCountRecoverable, OwnerCountNamed

LEMMA SteadyInit == Init => Steady
BY DEF Init, Steady, RowsOfPlans, RowSays, ApprovalHolds, Applied, Squeezed, SqueezedRow,
       OwnerCountRecoverable

(* Rows stay, and what is queued or has a row keeps its plan.               *)
PlansKept == \A r \in Recs : recStatus[r] # "none" => plan'[r] = plan[r]

LEMMA RowsKept ==
    ASSUME Shape, Once, Steady, PlansKept,
           \A i \in Ids : row[i] # Null => row'[i] = row[i],
           baseline' = baseline, dep'.uid = dep.uid
    PROVE  /\ \A i \in Ids : row[i] # Null => RowSays(i)'
           /\ OwnerCountNamed => OwnerCountNamed'
<1>1. \A i \in Ids : row[i] # Null => row[i].rec \in Recs /\ plan'[row[i].rec] = plan[row[i].rec]
    BY NullAssumption DEF Once, RowsArePast, Unqueued, PlansKept, Shape, TypeOK, Row
<1>2. \A i \in Ids : row[i] # Null => RowSays(i)'
    BY <1>1 DEF Steady, RowsOfPlans, RowSays, NewRow
<1>3. ASSUME OwnerCountNamed
      PROVE  OwnerCountNamed'
    <2>1. PICK i \in Ids : /\ row[i] # Null
                           /\ row[i].prev = baseline
                           /\ plan[row[i].rec].uid = dep.uid
        BY <1>3 DEF OwnerCountNamed
    <2>2. row'[i] # Null /\ row'[i].prev = baseline' /\ plan'[row'[i].rec].uid = dep'.uid
        BY <1>1, <2>1
    <2>3. QED
        BY <2>2 DEF OwnerCountNamed
<1>4. QED
    BY <1>2, <1>3

(* The plan of the job in hand has been queued.                             *)
LEMMA PlanInHand ==
    ASSUME Shape, Once, PlansKept, NEW x \in Executors, ~At(x, "idle"), mode[x] # "restore"
    PROVE  plan'[TheRec(x)] = plan[TheRec(x)]
<1>1. ExecuteJob(cur[x])
    BY WorksOnPlan, NullAssumption DEF ExecuteJob, Shape, HasMode, Job
<1>2. QED
    BY <1>1, WorksOnPlan DEF Once, JobsArePast, Unqueued, PlansKept, TheRec

(* The row in hand names the plan in hand.                                  *)
LEMMA RowInHand ==
    ASSUME Shape, Steady, NEW x \in Executors, pc[x] \in RowPCs
    PROVE  /\ own[x] \in Ids /\ row[own[x]] # Null
           /\ row[own[x]].rec = TheRec(x)
           /\ row[own[x]].prev = plan[TheRec(x)].current
           /\ row[own[x]].target = plan[TheRec(x)].target
<1>1. own[x] \in Ids /\ row[own[x]] # Null /\ row[own[x]].rec = TheRec(x)
    BY DEF Shape, HasRow
<1>2. row[own[x]] = NewRow(TheRec(x))
    BY <1>1 DEF Steady, RowsOfPlans, RowSays
<1>3. QED
    BY <1>1, <1>2 DEF NewRow

-----------------------------------------------------------------------------
LEMMA RequestSteady ==
    ASSUME Shape, Once, Steady, Request
    PROVE  Steady'
<1> DEFINE Kept == /\ UNCHANGED <<dep, row, pc, cur, own, mode, baseline>>
                   /\ PlansKept
                   /\ \A j \in Ids : job[j] # Null => job'[j] = job[j]
<1>1. Kept
    <2>1. ASSUME NEW r \in Recs, NEW kind, NEW target, ApprovePlan(r, kind, target)
          PROVE  Kept
        BY <2>1 DEF ApprovePlan, queue, rows, hand, PlansKept, Shape, TypeOK
    <2>2. ASSUME NEW new, Enqueue(new), plan' = plan,
                 UNCHANGED <<dep, rows, hand, fresh, baseline, faults, owned>>
          PROVE  Kept
        BY <2>2, ExecutorAssumption DEF Enqueue, rows, hand, PlansKept, Shape, TypeOK, TablesFilled,
                                         Ids
    <2>3. QED
        BY <2>1, <2>2 DEF Request, QueuePlan, RequestRestore, plans
<1>2. RowsOfPlans' /\ (OwnerCountNamed => OwnerCountNamed')
    BY <1>1, RowsKept DEF RowsOfPlans, RowSays
<1>3. \A x \in Executors : ~At(x, "idle") => TheRec(x)' = TheRec(x)
    BY <1>1, WorksOnPlan, NullAssumption DEF TheRec
<1>4. ApprovalHolds'
    BY <1>1, <1>3, PlanInHand DEF Steady, ApprovalHolds, AsApproved, At
<1>5. Applied'
    <2>1. \A x \in Executors : pc[x] \in {"wait", "record"} /\ mode[x] # "fail" => Goal(x)' = Goal(x)
        <3> SUFFICES ASSUME NEW x \in Executors, pc[x] \in {"wait", "record"}
                     PROVE  Goal(x)' = Goal(x)
            OBVIOUS
        <3>1. CASE mode[x] = "squeeze"
            BY <1>1, <1>3, <3>1, PlanInHand DEF Goal, At
        <3>2. CASE mode[x] # "squeeze"
            BY <1>1, <3>2 DEF Goal
        <3>3. QED
            BY <3>1, <3>2
    <2>2. QED
        BY <1>1, <2>1 DEF Steady, Applied
<1>6. Squeezed' /\ OwnerCountRecoverable'
    <2>1. OwnerCountRecoverable' <=> dep'.spec = baseline' \/ OwnerCountNamed'
        BY DEF OwnerCountRecoverable, OwnerCountNamed
    <2>2. QED
        BY <1>1, <1>2, <2>1, RecoverableIs DEF Steady, Squeezed, SqueezedRow
<1>7. QED
    BY <1>2, <1>4, <1>5, <1>6 DEF Steady

(* The owner waits until the executor is idle; the controller changes       *)
(* neither the count that is asked for nor the object.                      *)
LEMMA WorldSteady ==
    ASSUME NEW e, Patient(e), Shape, Steady, World
    PROVE  Steady'
<1>1. UNCHANGED <<plan, row, job, pc, cur, own, mode>>
    BY DEF World, Sync, PodReady, OwnerScales, OwnerRecreates, OwnerActs, plans, queue, rows, hand
<1>2. CASE dep'.spec = dep.spec /\ dep'.uid = dep.uid /\ baseline' = baseline
    <2>1. RowsOfPlans' /\ ApprovalHolds' /\ Applied'
        BY <1>1, <1>2 DEF Steady, RowsOfPlans, RowSays, NewRow, ApprovalHolds, AsApproved, TheRec,
                          Applied, Goal
    <2>2. Squeezed' /\ OwnerCountRecoverable'
        BY <1>1, <1>2 DEF Steady, Squeezed, SqueezedRow, OwnerCountNamed, OwnerCountRecoverable
    <2>3. QED
        BY <2>1, <2>2 DEF Steady
<1>3. CASE At(e, "idle") /\ dep'.spec = baseline'
    <2>1. \A x \in Executors : pc'[x] = "idle"
        BY <1>1, <1>3 DEF Patient, At
    <2>2. QED
        BY <1>1, <1>3, <2>1 DEF Steady, RowsOfPlans, RowSays, NewRow, ApprovalHolds, Applied, Squeezed,
                                SqueezedRow, OwnerCountRecoverable
<1>4. \/ dep'.spec = dep.spec /\ dep'.uid = dep.uid /\ baseline' = baseline
      \/ At(e, "idle") /\ dep'.spec = baseline'
    <2>1. CASE Sync \/ PodReady
        BY <2>1 DEF Sync, PodReady, Shape, TypeOK
    <2>2. ASSUME NEW new, OwnerActs(new)
          PROVE  At(e, "idle") /\ dep'.spec = baseline'
        BY <2>2 DEF OwnerActs, Patient
    <2>3. QED
        BY <2>1, <2>2 DEF World, OwnerScales, OwnerRecreates
<1>5. QED
    BY <1>2, <1>3, <1>4

(* Steps that leave the cluster, the plans and the rows as they are.        *)
LEMMA MovesSteady ==
    ASSUME NEW e, Patient(e), Shape, Steady,
           \/ \E j \in Ids : Claim(e, j)
           \/ Load(e) \/ Preflight(e) \/ Mark(e) \/ Get(e) \/ PutConflict(e) \/ WaitOk(e)
           \/ WaitFails(e) \/ Record(e) \/ RecordRec(e) \/ WriteIgnored(e) \/ ReadFails(e)
           \/ SetError(e) \/ Finish(e) \/ Crash(e)
    PROVE  Steady'
<1> USE DEF Patient, At
<1>1. UNCHANGED <<dep, plan, row, job, baseline>>
    BY DEF Claim, Load, Preflight, Mark, Get, PutConflict, WaitOk, WaitFails, Record, RecordRec,
           WriteIgnored, ReadFails, SetError, Finish, Crash, plans, queue, rows
<1>2. /\ e \in Executors
      /\ pc'[e] \in {"insert", "mark", "get", "put"} /\ mode'[e] = "squeeze"
         => cur'[e] = cur[e] /\ AsApproved(TheRec(e))
      /\ pc'[e] \in {"wait", "record"} /\ mode'[e] # "fail"
         => cur'[e] = cur[e] /\ own'[e] = own[e] /\ mode'[e] = mode[e] /\ pc[e] = "wait"
      /\ SqueezedRow(e)' => SqueezedRow(e)
    <2> USE DEF Shape, TypeOK, Steady, ApprovalHolds, SqueezedRow, GoTo, Return, Turn, SetFails
    <2>1. CASE \E j \in Ids : Claim(e, j)
        BY <2>1 DEF Claim
    <2>2. CASE Load(e) \/ Preflight(e) \/ ReadFails(e)
        BY <2>2 DEF Load, Preflight, ReadFails, HasMode
    <2>3. CASE Mark(e) \/ Record(e) \/ RecordRec(e)
        BY <2>3 DEF Mark, Record, RecordRec, HasMode
    <2>8. CASE WriteIgnored(e)
        BY <2>8 DEF WriteIgnored, HasMode
    <2>4. CASE Get(e) \/ PutConflict(e) \/ SetError(e)
        BY <2>4 DEF Get, PutConflict, SetError
    <2>5. CASE WaitOk(e) \/ WaitFails(e)
        BY <2>5 DEF WaitOk, WaitFails
    <2>6. CASE Finish(e) \/ Crash(e)
        BY <2>6 DEF Finish, Crash, Rest
    <2>7. QED
        BY <2>1, <2>2, <2>3, <2>4, <2>5, <2>6, <2>8
<1>3. RowsOfPlans'
    BY <1>1 DEF Steady, RowsOfPlans, RowSays, NewRow
<1>4. ApprovalHolds'
    BY <1>1, <1>2 DEF ApprovalHolds, AsApproved, TheRec
<1>5. Applied'
    BY <1>1, <1>2 DEF Steady, Applied, Goal, TheRec
<1>6. Squeezed' /\ OwnerCountRecoverable'
    BY <1>1, <1>2 DEF Steady, Squeezed, OwnerCountNamed, OwnerCountRecoverable
<1>7. QED
    BY <1>3, <1>4, <1>5, <1>6 DEF Steady

LEMMA InsertSteady ==
    ASSUME NEW e, Patient(e), Shape, Once, Steady, Insert(e) \/ InsertUnheard(e)
    PROVE  Steady'
<1> USE DEF Patient, At
<1>1. /\ e \in Executors /\ pc[e] = "insert" /\ mode[e] = "squeeze"
      /\ AddRow(e)
      /\ UNCHANGED <<dep, plan, job, baseline, cur, mode>>
      /\ pc'[e] \in {"mark", "finish"}
    BY DEF Insert, InsertUnheard, AddRow, Return, plans, queue, Shape, HasMode, TypeOK
<1>2. /\ nexecs + 1 \in Ids /\ row[nexecs + 1] = Null
      /\ row' = [row EXCEPT ![nexecs + 1] = NewRow(TheRec(e))]
    BY <1>1, ExecutorAssumption DEF AddRow, Shape, TypeOK, TablesFilled, Ids
<1>3. \A i \in Ids : row[i] # Null => row'[i] = row[i]
    BY <1>2 DEF Shape, TypeOK
<1>4. PlansKept
    BY <1>1 DEF PlansKept
<1>5. \A i \in Ids : row[i] # Null => RowSays(i)'
    BY <1>1, <1>3, <1>4, RowsKept
<1>6. RowsOfPlans'
    <2>1. PICK n \in Ids : row' = [row EXCEPT ![n] = NewRow(TheRec(e))] /\ row[n] = Null
        BY <1>2
    <2>2. /\ row'[n] = NewRow(TheRec(e))
          /\ \A i \in Ids : i # n => row'[i] = row[i]
        BY <2>1 DEF Shape, TypeOK
    <2>3. NewRow(TheRec(e))' = NewRow(TheRec(e)) /\ NewRow(TheRec(e)).rec = TheRec(e)
        BY <1>1 DEF NewRow, TheRec
    <2>4. RowSays(n)'
        BY <2>2, <2>3 DEF RowSays, NewRow
    <2>5. \A i \in Ids : i # n => RowSays(i)'
        BY <1>5, <2>2 DEF RowSays
    <2>6. QED
        BY <2>4, <2>5 DEF RowsOfPlans
<1>7. ApprovalHolds' /\ Applied'
    BY <1>1 DEF Steady, ApprovalHolds, Applied, AsApproved, TheRec
<1>8. OwnerCountNamed => OwnerCountNamed'
    BY <1>1, <1>3, <1>4, RowsKept
<1>9. Squeezed' /\ OwnerCountRecoverable'
    <2>1. OwnerCountRecoverable' <=> dep'.spec = baseline' \/ OwnerCountNamed'
        BY DEF OwnerCountRecoverable, OwnerCountNamed
    <2>2. QED
        BY <1>1, <1>8, <2>1, RecoverableIs DEF Steady, Squeezed, SqueezedRow
<1>10. QED
    BY <1>6, <1>7, <1>9 DEF Steady

(* The Update: a squeeze leaves the count it replaces in its row.           *)
LEMMA ScaleSteady ==
    ASSUME NEW e, Patient(e), Shape, Steady, Put(e) \/ PutUnheard(e)
    PROVE  Steady'
<1> USE DEF Patient, At
<1>1. /\ e \in Executors /\ pc[e] = "put"
      /\ mode[e] \in {"squeeze", "rollback", "restore"}
      /\ dep'.spec = Goal(e) /\ dep'.uid = dep.uid
      /\ baseline' = IF mode[e] = "restore" THEN Goal(e) ELSE baseline
      /\ UNCHANGED <<plan, row, job, cur, own>>
    BY DEF Put, PutUnheard, Scale, SetFails, GoTo, Turn, Return, Shape, HasMode, TypeOK,
           plans, queue, rows
<1>2. \/ pc'[e] = "wait" /\ mode'[e] = mode[e]
      \/ pc'[e] = "record" /\ mode'[e] = "fail"
      \/ pc'[e] = "finish"
    BY DEF Put, PutUnheard, SetFails, GoTo, Turn, Return, Shape, TypeOK
<1>3. Goal(e)' = Goal(e) \/ pc'[e] # "wait"
    BY <1>1, <1>2 DEF Goal, TheRec
<1>4. RowsOfPlans' /\ ApprovalHolds' /\ Applied'
    BY <1>1, <1>2, <1>3 DEF Steady, RowsOfPlans, RowSays, NewRow, ApprovalHolds, Applied
<1>5. mode[e] # "restore" => OwnerCountNamed'
    <2>1. CASE mode[e] = "rollback"
        BY <1>1, <2>1 DEF Steady, Squeezed, SqueezedRow, OwnerCountNamed
    <2>2. CASE mode[e] = "squeeze" /\ dep.spec # baseline
        BY <1>1, <2>2, RecoverableIs DEF Steady, OwnerCountNamed
    <2>3. CASE mode[e] = "squeeze" /\ dep.spec = baseline
        <3>1. dep.uid = plan[TheRec(e)].uid /\ dep.spec = plan[TheRec(e)].current
            BY <1>1, <2>3 DEF Steady, ApprovalHolds, AsApproved
        <3>2. /\ own[e] \in Ids /\ row[own[e]] # Null
              /\ row[own[e]].rec = TheRec(e)
              /\ row[own[e]].prev = plan[TheRec(e)].current
            BY <1>1, RowInHand DEF RowPCs
        <3>3. QED
            BY <1>1, <2>3, <3>1, <3>2 DEF OwnerCountNamed
    <2>4. QED
        BY <1>1, <2>1, <2>2, <2>3
<1>6. Squeezed' /\ OwnerCountRecoverable'
    <2>1. OwnerCountRecoverable' <=> dep'.spec = baseline' \/ OwnerCountNamed'
        BY DEF OwnerCountRecoverable, OwnerCountNamed
    <2>2. QED
        BY <1>1, <1>2, <1>5, <2>1 DEF Squeezed, SqueezedRow
<1>7. QED
    BY <1>4, <1>6 DEF Steady

LEMMA SteadyStep ==
    ASSUME NEW e, Patient(e)
    PROVE  Shape /\ Once /\ Steady /\ [Next]_vars => Steady'
<1> SUFFICES ASSUME Shape, Once, Steady, [Next]_vars
             PROVE  Steady'
    OBVIOUS
<1>1. CASE Request \/ World
    BY <1>1, RequestSteady, WorldSteady
<1>2. CASE Step(e) \/ Faulty(e)
    BY <1>2, MovesSteady, InsertSteady, ScaleSteady DEF Step, Faulty
<1>3. CASE UNCHANGED vars
    <2> USE <1>3 DEF vars, plans, queue, rows, hand, Steady
    <2>1. RowsOfPlans' /\ ApprovalHolds' /\ Applied'
        BY DEF RowsOfPlans, RowSays, NewRow, ApprovalHolds, AsApproved, TheRec, Applied, Goal
    <2>2. Squeezed' /\ OwnerCountRecoverable'
        BY DEF Squeezed, SqueezedRow, OwnerCountNamed, OwnerCountRecoverable
    <2>3. QED
        BY <2>1, <2>2
<1>4. QED
    BY <1>1, <1>2, <1>3 DEF Next, Patient

LEMMA SteadyInvariant ==
    ASSUME NEW e, Patient(e)
    PROVE  Spec => [](Shape /\ Once /\ Steady)
<1>1. Init => Shape /\ Once /\ Steady
    BY ShapeInit, OnceInit, SteadyInit
<1>2. Shape /\ Once /\ Steady /\ [Next]_vars => (Shape /\ Once /\ Steady)'
    BY ShapeStep, OnceStep, SteadyStep
<1>3. QED
    BY <1>1, <1>2, PTL DEF Spec

(* Whatever call fails and wherever the executor dies, the count that the    *)
(* humans last asked for is the Deployment's own or stands in a row that a  *)
(* restore can name, for any replica counts, numbers of plans and faults:   *)
(* the INSERT comes before the Update, and a rollback loses nothing.        *)
THEOREM CountRecoverable ==
    ASSUME NEW e, Executors = {e}, OwnerWaits
    PROVE  Spec => []OwnerCountRecoverable
<1>1. Spec => [](Shape /\ Once /\ Steady)
    BY SteadyInvariant DEF Patient
<1>2. Shape /\ Once /\ Steady => OwnerCountRecoverable
    BY DEF Steady
<1>3. QED
    BY <1>1, <1>2, PTL

TrueRecords ==
    \A i \in Ids :
       execStatus'[i] # execStatus[i]
       => /\ execStatus'[i] = "succeeded" => dep.spec = row[i].target
          /\ execStatus'[i] = "rolled_back" => dep.spec = row[i].prev

LEMMA RecordsStep ==
    ASSUME NEW e, Patient(e), Shape, Steady, Next
    PROVE  TrueRecords
<1> USE DEF Patient, At
<1>1. CASE Record(e)
    <2>1. /\ e \in Executors /\ pc[e] = "record"
          /\ execStatus' = [execStatus EXCEPT ![own[e]] = Outcome(mode[e])]
          /\ execStatus \in [Ids -> {"none", "executing", "succeeded", "rolled_back", "failed"}]
          /\ mode[e] \in {"squeeze", "rollback", "restore", "fail"}
        BY <1>1 DEF Record, Shape, TypeOK
    <2>2. /\ Outcome(mode[e]) = "succeeded" => mode[e] = "squeeze"
          /\ Outcome(mode[e]) = "rolled_back" => mode[e] \in {"rollback", "restore"}
        BY <2>1 DEF Outcome
    <2>3. mode[e] # "fail" => dep.spec = Goal(e)
        BY <2>1 DEF Steady, Applied
    <2>4. /\ Outcome(mode[e]) = "succeeded" => dep.spec = row[own[e]].target
          /\ Outcome(mode[e]) = "rolled_back" => dep.spec = row[own[e]].prev
        BY <2>1, <2>2, <2>3, RowInHand DEF Goal, RowPCs
    <2>5. QED
        BY <2>1, <2>4 DEF TrueRecords
<1>2. CASE Insert(e) \/ InsertUnheard(e)
    BY <1>2 DEF Insert, InsertUnheard, AddRow, TrueRecords, Shape, TypeOK
<1>3. CASE (Step(e) \/ Faulty(e)) /\ ~Record(e) /\ ~Insert(e) /\ ~InsertUnheard(e)
    <2>1. execStatus' = execStatus
        BY <1>3 DEF Step, Faulty, Claim, Load, Preflight, Mark, Get, Put, PutUnheard, Scale,
                    PutConflict, WaitOk, WaitFails, RecordRec, WriteIgnored, ReadFails, SetError,
                    Finish, Crash, rows
    <2>2. QED
        BY <2>1 DEF TrueRecords
<1>4. CASE Request \/ World
    <2>1. execStatus' = execStatus
        BY <1>4 DEF Request, ApprovePlan, QueuePlan, RequestRestore, World, Sync, PodReady,
                    OwnerScales, OwnerRecreates, OwnerActs, rows
    <2>2. QED
        BY <2>1 DEF TrueRecords
<1>5. QED
    BY <1>1, <1>2, <1>3, <1>4 DEF Next

(* An execution recorded as succeeded or rolled_back left the Deployment at *)
(* its target or its previous count: every failed Update or wait goes to    *)
(* another record than the one it would make false.                         *)
THEOREM RecordsTrue ==
    ASSUME NEW e, Executors = {e}, OwnerWaits
    PROVE  Spec => RecordsMatchCluster
<1>1. Spec => [](Shape /\ Once /\ Steady)
    BY SteadyInvariant DEF Patient
<1>2. Shape /\ Once /\ Steady /\ [Next]_vars => [TrueRecords]_vars
    BY RecordsStep DEF Patient
<1>3. QED
    BY <1>1, <1>2, PTL DEF Spec, RecordsMatchCluster, TrueRecords
=============================================================================
