--------------------------- MODULE ExecutorProofs ---------------------------
(***************************************************************************)
(* Proofs about the executor, for any replica counts, numbers of jobs,     *)
(* recommendations and faults, any number of executors, and an owner who   *)
(* changes the Deployment at any time.                                     *)
(***************************************************************************)
EXTENDS Executor, TLAPS

(* Jobs and execution rows fill their tables from the bottom.               *)
TablesFilled == \A i \in Ids : /\ job[i] # Null <=> i <= njobs
                               /\ row[i] # Null <=> i <= nexecs
                               /\ jobStatus[i] = "none" <=> job[i] = Null
                               /\ execStatus[i] = "none" <=> row[i] = Null

(* A restore job names an execution row and its recommendation.             *)
RestoreNamesRow ==
    \A j \in Ids :
       job[j] # Null /\ job[j].kind = "restore"
       => /\ job[j].row \in Ids
          /\ row[job[j].row] # Null
          /\ row[job[j].row].rec = job[j].rec

(* An executor that is not idle handles a running job.                      *)
HasJob == \A x \in Executors :
             ~At(x, "idle") => cur[x] \in Ids /\ jobStatus[cur[x]] = "running"

(* Its mode tells the kind of the job and what it may have done.            *)
HasMode ==
    \A x \in Executors :
       ~At(x, "idle")
       => /\ mode[x] = "restore" <=> job[cur[x]].kind = "restore"
          /\ At(x, "load") => mode[x] \in {"squeeze", "restore"}
          /\ pc[x] \in {"preflight", "insert", "mark"} => mode[x] = "squeeze"
          /\ pc[x] \in {"get", "put", "wait"} => mode[x] # "fail"

RowPCs == {"mark", "get", "put", "wait", "record", "recordRec"}

(* From the INSERT on, and from the start of a restore, it has a row.       *)
HasRow ==
    \A x \in Executors :
       pc[x] \in RowPCs \/ (~At(x, "idle") /\ mode[x] = "restore")
       => own[x] \in Ids /\ row[own[x]] # Null /\ row[own[x]].rec = TheRec(x)

(* No two executors handle the same job.                                    *)
OneHolder == \A x, y \in Executors :
                ~At(x, "idle") /\ ~At(y, "idle") /\ cur[x] = cur[y] => x = y

UidBound == dep.uid <= owned

Shape == /\ TypeOK /\ TablesFilled /\ RestoreNamesRow
         /\ HasJob /\ HasMode /\ HasRow /\ OneHolder /\ UidBound

-----------------------------------------------------------------------------
(* The shape of the state is inductive. *)

LEMMA ShapeInit == Init => Shape
BY ExecutorAssumption, NullAssumption
   DEF Init, Shape, TypeOK, TablesFilled, RestoreNamesRow, HasJob, HasMode, HasRow, OneHolder,
       UidBound, At, Ids, Replicas, Kinds, Plan, RowPCs, OtherUid

LEMMA RequestShape ==
    ASSUME Shape, Request
    PROVE  Shape'
<1> USE ExecutorAssumption, NullAssumption DEF Shape, TypeOK, Ids, Replicas, At, TheRec
<1>1. ASSUME NEW r \in Recs, NEW kind \in Kinds, NEW target \in Replicas,
             ApprovePlan(r, kind, target)
      PROVE  Shape'
    BY <1>1 DEF ApprovePlan, queue, rows, hand, Plan, OtherUid, TablesFilled, RestoreNamesRow,
                HasJob, HasMode, HasRow, OneHolder, UidBound
<1>2. ASSUME NEW new \in Job, Enqueue(new),
             UNCHANGED <<dep, rows, hand, fresh, baseline, faults, owned>>,
             plan' = plan, recStatus' \in [Recs -> {"none", "approved", "queued", "executing",
                                                   "succeeded", "rolled_back", "failed"}],
             new.kind = "restore" => /\ new.row \in Ids
                                     /\ row[new.row] # Null
                                     /\ row[new.row].rec = new.rec
      PROVE  Shape'
    <2>1. new # Null
        OBVIOUS
    <2>2. TypeOK'
        BY <1>2 DEF Enqueue, rows, hand
    <2>3. TablesFilled'
        BY <1>2, <2>1 DEF Enqueue, rows, TablesFilled
    <2>4. RestoreNamesRow'
        BY <1>2, <2>1 DEF Enqueue, rows, RestoreNamesRow
    <2>5. \A x \in Executors : ~At(x, "idle") => cur[x] \in Ids /\ cur[x] # njobs + 1
        BY <1>2 DEF Enqueue, HasJob, TablesFilled
    <2>6. /\ \A x \in Executors : ~At(x, "idle") => /\ job'[cur[x]] = job[cur[x]]
                                                  /\ jobStatus'[cur[x]] = jobStatus[cur[x]]
          /\ UNCHANGED <<pc, cur, own, mode, row>>
        BY <1>2, <2>5 DEF Enqueue, rows, hand
    <2>7. HasJob' /\ OneHolder'
        BY <2>6 DEF HasJob, OneHolder
    <2>8. HasMode'
        BY <2>6 DEF HasMode
    <2>9. HasRow'
        BY <2>6 DEF HasRow, RowPCs
    <2>10. QED
        BY <1>2, <2>2, <2>3, <2>4, <2>7, <2>8, <2>9 DEF UidBound
<1>3. ASSUME NEW r \in Recs, QueuePlan(r)
      PROVE  Shape'
    <2>1. [kind |-> "execute", rec |-> r, row |-> 0] \in Job
        BY DEF Job
    <2>2. QED
        BY <1>2, <1>3, <2>1 DEF QueuePlan
<1>4. ASSUME NEW i \in Ids, RequestRestore(i)
      PROVE  Shape'
    <2>1. [kind |-> "restore", rec |-> row[i].rec, row |-> i] \in Job
        BY <1>4 DEF Job, Row, RequestRestore
    <2>2. QED
        BY <1>2, <1>4, <2>1 DEF RequestRestore, plans
<1>5. QED
    BY <1>1, <1>3, <1>4 DEF Request

(* Executor x moves to p in mode m, and nobody else moves.                  *)
Move(x, p, m) == /\ pc' = [pc EXCEPT ![x] = p]
                 /\ mode' = [mode EXCEPT ![x] = m]
                 /\ UNCHANGED <<cur, own>>

(* The moves that a handler makes once it has loaded its recommendation.    *)
Moves(x, p, m) ==
    /\ ~At(x, "idle")
    /\ p \in {"preflight", "insert", "get", "put", "wait", "record", "recordRec", "finish"}
    /\ m \in {"squeeze", "rollback", "restore", "fail"}
    /\ m = "restore" <=> mode[x] = "restore"
    /\ p \in {"preflight", "insert"} => m = "squeeze"
    /\ p \in {"get", "put", "wait"} => m # "fail"
    /\ p \in RowPCs => pc[x] \in RowPCs \/ mode[x] = "restore"

LEMMA MoveHand ==
    ASSUME Shape, NEW x \in Executors, NEW p, NEW m, Move(x, p, m), Moves(x, p, m),
           UNCHANGED <<job, jobStatus>>,
           \A i \in Ids : row[i] # Null => row'[i] = row[i]
    PROVE  HasJob' /\ HasMode' /\ HasRow' /\ OneHolder'
<1> USE DEF Shape, TypeOK, Move, Moves, At, TheRec, RowPCs
<1>1. HasJob' /\ OneHolder'
    BY DEF HasJob, OneHolder
<1>2. HasMode'
    BY DEF HasMode
<1>3. HasRow'
    BY DEF HasRow
<1>4. QED
    BY <1>1, <1>2, <1>3

LEMMA RestHand ==
    ASSUME Shape, NEW x \in Executors, Rest(x),
           UNCHANGED job,
           \A j \in Ids : j # cur[x] => jobStatus'[j] = jobStatus[j],
           \A i \in Ids : row[i] # Null => row'[i] = row[i],
           ~At(x, "idle")
    PROVE  HasJob' /\ HasMode' /\ HasRow' /\ OneHolder'
<1> USE DEF Shape, TypeOK, Rest, At, TheRec, RowPCs
<1>1. HasJob' /\ OneHolder'
    BY DEF HasJob, OneHolder
<1>2. HasMode'
    BY DEF HasMode
<1>3. HasRow'
    BY DEF HasRow
<1>4. QED
    BY <1>1, <1>2, <1>3

(* Steps that change nothing but where one executor is. *)
LEMMA MoveShape ==
    ASSUME Shape, NEW x \in Executors,
           \/ Load(x) \/ Preflight(x) \/ WaitOk(x) \/ WaitFails(x) \/ Get(x) \/ PutConflict(x)
           \/ ReadFails(x) \/ SetError(x)
    PROVE  Shape'
<1> USE ExecutorAssumption
    DEF Shape, At, GoTo, Return, Turn, SetFails, Fault, plans, queue, rows
<1>1. UNCHANGED <<dep, plan, recStatus, job, jobStatus, njobs, row, execStatus, nexecs,
                  baseline, owned>>
    BY DEF Load, Preflight, WaitOk, WaitFails, Get, PutConflict, ReadFails, SetError
<1>3. PICK p, m : Move(x, p, m) /\ Moves(x, p, m)
    <2> USE DEF TypeOK, HasMode, Move, Moves, RowPCs
    <2>1. CASE Load(x)
        BY <2>1 DEF Load
    <2>2. CASE Preflight(x) \/ ReadFails(x)
        BY <2>2 DEF Preflight, ReadFails
    <2>3. CASE WaitOk(x) \/ WaitFails(x)
        BY <2>3 DEF WaitOk, WaitFails
    <2>4. CASE Get(x) \/ PutConflict(x) \/ SetError(x)
        BY <2>4 DEF Get, PutConflict, SetError
    <2>5. QED
        BY <2>1, <2>2, <2>3, <2>4
<1>4. HasJob' /\ HasMode' /\ HasRow' /\ OneHolder'
    BY <1>1, <1>3, MoveHand
<1>5. ok' \in [Executors -> BOOLEAN] /\ fresh' \in [Executors -> BOOLEAN]
    BY DEF TypeOK, Load, Preflight, WaitOk, WaitFails, Get, PutConflict, ReadFails, SetError
<1>6. faults' \in 0 .. MaxFaults
    BY DEF TypeOK, Load, Preflight, WaitOk, WaitFails, Get, PutConflict, ReadFails, SetError
<1>7. TypeOK'
    BY <1>1, <1>3, <1>5, <1>6 DEF TypeOK, Move, Moves
<1>8. QED
    BY <1>1, <1>4, <1>7 DEF TablesFilled, RestoreNamesRow, UidBound

LEMMA CrashShape ==
    ASSUME Shape, NEW x \in Executors, Crash(x)
    PROVE  Shape'
<1>1. TypeOK'
    BY ExecutorAssumption DEF Shape, TypeOK, Crash, Rest, Fault, plans, queue, rows
<1>2. HasJob' /\ HasMode' /\ HasRow' /\ OneHolder'
    BY RestHand DEF Crash, queue, rows
<1>3. QED
    BY <1>1, <1>2 DEF Shape, Crash, plans, queue, rows, TablesFilled, RestoreNamesRow, UidBound

LEMMA ClaimShape ==
    ASSUME Shape, NEW x \in Executors, NEW j \in Ids, Claim(x, j)
    PROVE  Shape'
<1> USE ExecutorAssumption, NullAssumption DEF Shape, TypeOK, Ids, At, TheRec, plans, rows
<1>1. /\ pc' = [pc EXCEPT ![x] = "load"]
      /\ cur' = [cur EXCEPT ![x] = j]
      /\ UNCHANGED <<job, row>>
      /\ job[j] # Null
    BY DEF Claim, TablesFilled
<1>2. job[j] \in Job
    BY <1>1
<1>3. /\ own' = [own EXCEPT ![x] = job[j].row]
      /\ mode' = [mode EXCEPT ![x] = IF job[j].kind = "execute" THEN "squeeze" ELSE "restore"]
    BY DEF Claim
<1>4. TypeOK'
    BY <1>2 DEF Claim, Job
<1>5. \A y \in Executors : ~At(y, "idle") => cur[y] # j
    BY DEF Claim, HasJob
<1>6. HasJob' /\ OneHolder'
    BY <1>1, <1>5 DEF Claim, HasJob, OneHolder
<1>7. HasMode'
    BY <1>1, <1>2, <1>3 DEF HasMode, Job
<1>8. HasRow'
    <2>1. job[j].kind = "restore" => /\ job[j].row \in Ids
                                     /\ row[job[j].row] # Null
                                     /\ row[job[j].row].rec = job[j].rec
        BY <1>1 DEF RestoreNamesRow
    <2>2. QED
        BY <1>1, <1>2, <1>3, <2>1 DEF HasRow, RowPCs, Job
<1>9. TablesFilled' /\ RestoreNamesRow' /\ UidBound'
    BY <1>1 DEF Claim, TablesFilled, RestoreNamesRow, UidBound
<1>10. QED
    BY <1>4, <1>6, <1>7, <1>8, <1>9

LEMMA InsertShape ==
    ASSUME Shape, NEW x \in Executors, Insert(x) \/ InsertUnheard(x)
    PROVE  Shape'
<1> USE ExecutorAssumption, NullAssumption DEF Shape, TypeOK, Ids, At, TheRec, AddRow
<1>1. /\ pc[x] = "insert" /\ mode[x] = "squeeze"
      /\ cur[x] \in Ids
      /\ job[cur[x]] \in Job
    <2>1. pc[x] = "insert"
        BY DEF Insert, InsertUnheard
    <2>2. mode[x] = "squeeze"
        BY <2>1 DEF HasMode
    <2>3. cur[x] \in Ids /\ jobStatus[cur[x]] = "running"
        BY <2>1 DEF HasJob
    <2>4. QED
        BY <2>1, <2>2, <2>3 DEF TablesFilled
<1>2. /\ nexecs + 1 \in Ids /\ nexecs' = nexecs + 1
      /\ row[nexecs + 1] = Null
      /\ NewRow(TheRec(x)) \in Row
      /\ NewRow(TheRec(x)).rec = TheRec(x)
      /\ row' = [row EXCEPT ![nexecs + 1] = NewRow(TheRec(x))]
      /\ execStatus' = [execStatus EXCEPT ![nexecs + 1] = "executing"]
      /\ UNCHANGED <<dep, plan, recStatus, job, jobStatus, njobs, fresh, baseline, owned>>
      /\ nexecs' \in 0 .. MaxJobs
      /\ row' \in [Ids -> Row \cup {Null}]
      /\ execStatus' \in [Ids -> {"none", "executing", "succeeded", "rolled_back", "failed"}]
    <2>1. /\ nexecs < MaxJobs
          /\ nexecs' = nexecs + 1
          /\ row' = [row EXCEPT ![nexecs + 1] = NewRow(TheRec(x))]
          /\ execStatus' = [execStatus EXCEPT ![nexecs + 1] = "executing"]
          /\ UNCHANGED <<dep, plan, recStatus, job, jobStatus, njobs, fresh, baseline, owned>>
        BY DEF Insert, InsertUnheard, plans, queue
    <2>2. nexecs + 1 \in Ids /\ row[nexecs + 1] = Null
        BY <2>1 DEF TablesFilled
    <2>3. NewRow(TheRec(x)) \in Row /\ NewRow(TheRec(x)).rec = TheRec(x)
        BY <1>1 DEF NewRow, Plan, Row, Job
    <2>4. QED
        BY <2>1, <2>2, <2>3
<1>3. \A i \in Ids : row[i] # Null => row'[i] = row[i]
    BY <1>2
<1>4. TablesFilled' /\ RestoreNamesRow' /\ UidBound'
    <2>1. TablesFilled'
        BY <1>2 DEF TablesFilled
    <2>2. RestoreNamesRow'
        BY <1>2, <1>3 DEF RestoreNamesRow
    <2>3. QED
        BY <1>2, <2>1, <2>2 DEF UidBound
<1>5. CASE Insert(x)
    <2>1. /\ pc' = [pc EXCEPT ![x] = "mark"]
          /\ own' = [own EXCEPT ![x] = nexecs + 1]
          /\ UNCHANGED <<cur, mode, ok, faults>>
        BY <1>5 DEF Insert
    <2>2. TypeOK'
        BY <1>2, <2>1
    <2>3. HasJob' /\ OneHolder'
        BY <1>1, <1>2, <2>1 DEF HasJob, OneHolder
    <2>4. HasMode'
        BY <1>1, <1>2, <2>1 DEF HasMode
    <2>5. HasRow'
        BY <1>1, <1>2, <1>3, <2>1 DEF HasRow, RowPCs
    <2>6. QED
        BY <1>4, <2>2, <2>3, <2>4, <2>5
<1>6. CASE InsertUnheard(x)
    <2>1. Move(x, "finish", "squeeze") /\ Moves(x, "finish", "squeeze")
        BY <1>1, <1>6 DEF InsertUnheard, Return, Move, Moves, RowPCs
    <2>2. HasJob' /\ HasMode' /\ HasRow' /\ OneHolder'
        BY <1>2, <1>3, <2>1, MoveHand
    <2>3. ok' \in [Executors -> BOOLEAN] /\ faults' \in 0 .. MaxFaults
        BY <1>6 DEF InsertUnheard, Return, Fault
    <2>4. TypeOK'
        BY <1>2, <2>1, <2>3 DEF Move, Moves
    <2>5. QED
        BY <1>4, <2>2, <2>4
<1>7. QED
    BY <1>5, <1>6

LEMMA GoalReplicas ==
    ASSUME Shape, NEW x \in Executors, pc[x] \in {"get", "put", "wait"}
    PROVE  /\ cur[x] \in Ids /\ own[x] \in Ids
           /\ job[cur[x]] \in Job /\ row[own[x]] \in Row
           /\ row[own[x]].rec = TheRec(x)
           /\ TheRec(x) \in Recs
           /\ Goal(x) \in Replicas
<1>1. cur[x] \in Ids /\ own[x] \in Ids /\ job[cur[x]] \in Job /\ row[own[x]] \in Row
    BY NullAssumption DEF Shape, TypeOK, HasJob, HasRow, At, RowPCs, TablesFilled
<1>2. row[own[x]].rec = TheRec(x)
    BY DEF Shape, HasRow, RowPCs
<1>3. QED
    BY <1>1, <1>2 DEF Shape, TypeOK, Goal, TheRec, Job, Row, Plan

LEMMA ScaleShape ==
    ASSUME Shape, NEW x \in Executors, Put(x) \/ PutUnheard(x)
    PROVE  Shape'
<1>1. At(x, "put") /\ Scale(x)
    BY DEF Put, PutUnheard, Scale
<1>2. Goal(x) \in Replicas
    BY <1>1, GoalReplicas DEF At
<1>3. UNCHANGED <<plan, recStatus, job, jobStatus, njobs, row, execStatus, nexecs, owned>>
    BY <1>1 DEF Scale, plans, queue, rows
<1>4. PICK p, m : Move(x, p, m) /\ Moves(x, p, m)
    BY <1>1 DEF Put, PutUnheard, SetFails, GoTo, Turn, Return, Move, Moves, At, RowPCs,
                Shape, HasMode, TypeOK
<1>5. HasJob' /\ HasMode' /\ HasRow' /\ OneHolder'
    BY <1>3, <1>4, MoveHand
<1>6. ok' \in [Executors -> BOOLEAN] /\ faults' \in 0 .. MaxFaults
    <2> USE ExecutorAssumption DEF Shape, TypeOK
    <2>1. CASE Put(x)
        BY <2>1 DEF Put, GoTo
    <2>2. CASE PutUnheard(x)
        <3>1. ok' \in [Executors -> BOOLEAN]
            BY <2>2 DEF PutUnheard, SetFails, Turn, Return
        <3>2. faults' \in 0 .. MaxFaults
            BY <2>2 DEF PutUnheard, Fault
        <3>3. QED
            BY <3>1, <3>2
    <2>3. QED
        BY <2>1, <2>2
<1>7. /\ dep' = [dep EXCEPT !.spec = Goal(x), !.synced = FALSE]
      /\ baseline' \in Replicas
      /\ fresh' \in [Executors -> BOOLEAN]
    BY <1>1, <1>2 DEF Scale, Stale, Shape, TypeOK
<1>8. TypeOK'
    BY <1>2, <1>3, <1>4, <1>6, <1>7 DEF Shape, TypeOK, Move, Moves
<1>9. QED
    BY <1>3, <1>5, <1>7, <1>8 DEF Shape, TypeOK, TablesFilled, RestoreNamesRow, UidBound

LEMMA WriteShape ==
    ASSUME Shape, NEW x \in Executors,
           Mark(x) \/ Record(x) \/ RecordRec(x) \/ WriteIgnored(x)
    PROVE  Shape'
<1> USE ExecutorAssumption, NullAssumption DEF Shape, At, Ids
<1>1. /\ UNCHANGED <<dep, plan, job, jobStatus, njobs, row, nexecs, fresh, baseline, owned>>
    BY DEF Mark, Record, RecordRec, WriteIgnored, plans, queue, rows
<1>2. ok' \in [Executors -> BOOLEAN] /\ faults' \in 0 .. MaxFaults
    <2> USE DEF TypeOK
    <2>1. CASE Mark(x) \/ Record(x)
        BY <2>1 DEF Mark, Record, GoTo
    <2>2. CASE RecordRec(x)
        BY <2>2 DEF RecordRec, Return
    <2>3. CASE WriteIgnored(x)
        <3>1. ok' \in [Executors -> BOOLEAN]
            BY <2>3 DEF WriteIgnored, GoTo, Return
        <3>2. faults' \in 0 .. MaxFaults
            BY <2>3 DEF WriteIgnored, Fault
        <3>3. QED
            BY <3>1, <3>2
    <2>4. QED
        BY <2>1, <2>2, <2>3
<1>3. recStatus' \in [Recs -> {"none", "approved", "queued", "executing",
                               "succeeded", "rolled_back", "failed"}]
    BY DEF Mark, Record, RecordRec, WriteIgnored, TypeOK, Outcome, plans
<1>4. own[x] \in Ids /\ row[own[x]] # Null
    BY DEF Mark, Record, RecordRec, WriteIgnored, HasRow, RowPCs
<1>5. /\ execStatus' \in [Ids -> {"none", "executing", "succeeded", "rolled_back", "failed"}]
      /\ \A i \in Ids : execStatus'[i] = "none" <=> execStatus[i] = "none"
    BY <1>4 DEF Mark, Record, RecordRec, WriteIgnored, TypeOK, Outcome, rows, TablesFilled
<1>6. PICK p : Move(x, p, mode[x]) /\ Moves(x, p, mode[x])
    BY DEF Mark, Record, RecordRec, WriteIgnored, GoTo, Return, Move, Moves, RowPCs,
           HasMode, TypeOK
<1>7. HasJob' /\ HasMode' /\ HasRow' /\ OneHolder'
    BY <1>1, <1>6, MoveHand
<1>8. TypeOK'
    BY <1>1, <1>2, <1>3, <1>5, <1>6 DEF TypeOK, Move, Moves
<1>9. QED
    BY <1>1, <1>5, <1>7, <1>8 DEF TablesFilled, RestoreNamesRow, UidBound

LEMMA FinishShape ==
    ASSUME Shape, NEW x \in Executors, Finish(x)
    PROVE  Shape'
<1> USE NullAssumption DEF Shape, At, Finish, Rest, plans, rows
<1>1. cur[x] \in Ids /\ jobStatus[cur[x]] = "running"
    BY DEF HasJob
<1>2. TypeOK'
    <2>1. pc' \in [Executors -> {"idle", "load", "preflight", "insert", "mark", "get", "put",
                                 "wait", "record", "recordRec", "finish"}]
        BY DEF TypeOK
    <2>2. /\ cur' \in [Executors -> 0 .. MaxJobs] /\ own' \in [Executors -> 0 .. MaxJobs]
          /\ mode' \in [Executors -> {"squeeze", "rollback", "restore", "fail"}]
          /\ ok' \in [Executors -> BOOLEAN] /\ fresh' \in [Executors -> BOOLEAN]
        BY ExecutorAssumption DEF TypeOK
    <2>3. jobStatus' \in [Ids -> {"none", "pending", "running", "completed", "failed"}]
        BY DEF TypeOK
    <2>4. QED
        BY <2>1, <2>2, <2>3 DEF TypeOK
<1>3. HasJob' /\ HasMode' /\ HasRow' /\ OneHolder'
    BY <1>1, RestHand DEF TypeOK
<1>4. TablesFilled'
    BY <1>1 DEF TablesFilled, TypeOK
<1>5. QED
    BY <1>2, <1>3, <1>4 DEF RestoreNamesRow, UidBound

LEMMA WorldShape ==
    ASSUME Shape, World
    PROVE  Shape'
<1> USE ExecutorAssumption DEF Shape, Stale, plans, queue, rows, hand
<1>1. /\ UNCHANGED <<plan, recStatus, job, jobStatus, njobs, row, execStatus, nexecs,
                     pc, cur, own, mode, ok, faults>>
      /\ fresh' = [x \in Executors |-> FALSE]
    BY DEF World, Sync, PodReady, OwnerScales, OwnerRecreates, OwnerActs
<1>2. /\ dep' \in [uid : 0 .. MaxOwner, spec : Replicas, pods : Replicas,
                   ready : Replicas, synced : BOOLEAN]
      /\ baseline' \in Replicas
      /\ owned' \in 0 .. MaxOwner
      /\ UidBound'
    <2> USE DEF TypeOK, Replicas, UidBound
    <2>1. CASE Sync
        BY <2>1 DEF Sync, Min2
    <2>2. CASE PodReady
        BY <2>2 DEF PodReady
    <2>3. ASSUME NEW n \in Replicas, OwnerScales(n)
          PROVE  /\ dep' \in [uid : 0 .. MaxOwner, spec : Replicas, pods : Replicas,
                             ready : Replicas, synced : BOOLEAN]
                 /\ baseline' \in Replicas
                 /\ owned' \in 0 .. MaxOwner
                 /\ UidBound'
        BY <2>3 DEF OwnerScales, OwnerActs
    <2>4. ASSUME NEW n \in Replicas, OwnerRecreates(n)
          PROVE  /\ dep' \in [uid : 0 .. MaxOwner, spec : Replicas, pods : Replicas,
                             ready : Replicas, synced : BOOLEAN]
                 /\ baseline' \in Replicas
                 /\ owned' \in 0 .. MaxOwner
                 /\ UidBound'
        BY <2>4 DEF OwnerRecreates, OwnerActs
    <2>5. QED
        BY <2>1, <2>2, <2>3, <2>4 DEF World
<1>3. TypeOK'
    BY <1>1, <1>2 DEF TypeOK
<1>4. TablesFilled' /\ RestoreNamesRow' /\ HasJob' /\ OneHolder'
    BY <1>1 DEF TablesFilled, RestoreNamesRow, HasJob, OneHolder, At
<1>5. HasMode' /\ HasRow'
    BY <1>1 DEF HasMode, HasRow, At, RowPCs, TheRec
<1>6. QED
    BY <1>2, <1>3, <1>4, <1>5

LEMMA ShapeStep == Shape /\ [Next]_vars => Shape'
<1> SUFFICES ASSUME Shape, [Next]_vars
             PROVE  Shape'
    OBVIOUS
<1>1. CASE Request \/ World
    BY <1>1, RequestShape, WorldShape
<1>2. ASSUME NEW x \in Executors, Step(x)
      PROVE  Shape'
    BY <1>2, ClaimShape, MoveShape, InsertShape, ScaleShape, WriteShape, FinishShape DEF Step
<1>3. ASSUME NEW x \in Executors, Faulty(x)
      PROVE  Shape'
    BY <1>3, MoveShape, InsertShape, ScaleShape, WriteShape, CrashShape DEF Faulty
<1>4. CASE UNCHANGED vars
    <2> USE <1>4 DEF vars, plans, queue, rows, hand, Shape, At
    <2>1. TypeOK' /\ TablesFilled' /\ RestoreNamesRow' /\ UidBound'
        BY DEF TypeOK, TablesFilled, RestoreNamesRow, UidBound
    <2>2. HasJob' /\ HasMode' /\ OneHolder'
        BY DEF HasJob, HasMode, OneHolder
    <2>3. HasRow'
        BY DEF HasRow, TheRec, RowPCs
    <2>4. QED
        BY <2>1, <2>2, <2>3
<1>5. QED
    BY <1>1, <1>2, <1>3, <1>4 DEF Next

THEOREM ShapeInvariant == Spec => []Shape
BY ShapeInit, ShapeStep, PTL DEF Spec

(* Every variable stays in its type: no step writes a status the tables'    *)
(* CHECK constraints refuse or a count outside its range.                   *)
THEOREM TypesHold == Spec => []TypeOK
<1>1. Shape => TypeOK
    BY DEF Shape
<1>2. QED
    BY <1>1, ShapeInvariant, PTL

-----------------------------------------------------------------------------
(* A recommendation is executed at most once, by any number of executors.   *)

ExecuteJob(j) == job[j] # Null /\ job[j].kind = "execute"

QueuedOnce == \A i, j \in Ids :
                 ExecuteJob(i) /\ ExecuteJob(j) /\ job[i].rec = job[j].rec => i = j

(* What has a job or a row is past its approval, so it is not queued again. *)
Unqueued == {"none", "approved"}

JobsArePast == \A j \in Ids : ExecuteJob(j) => recStatus[job[j].rec] \notin Unqueued

RowsArePast == \A i \in Ids : row[i] # Null => recStatus[row[i].rec] \notin Unqueued

(* While a job is pending, or short of its INSERT, its plan has no row.     *)
Early == {"load", "preflight", "insert"}

NoRowYet ==
    \A i, j \in Ids :
       row[i] # Null /\ ExecuteJob(j) /\ job[j].rec = row[i].rec
       => /\ jobStatus[j] # "pending"
          /\ \A x \in Executors : cur[x] = j => pc[x] \notin Early

Once == QueuedOnce /\ JobsArePast /\ RowsArePast /\ NoRowYet /\ OneExecutionPerPlan

LEMMA OnceInit == Init => Once
BY ExecutorAssumption, NullAssumption
   DEF Init, Once, QueuedOnce, JobsArePast, RowsArePast, NoRowYet, OneExecutionPerPlan,
       ExecuteJob

(* Steps that queue nothing, claim nothing and insert nothing.              *)
LEMMA OnceKept ==
    ASSUME Shape, Once,
           UNCHANGED <<job, row>>,
           \A r \in Recs : recStatus[r] \notin Unqueued => recStatus'[r] \notin Unqueued,
           \A j \in Ids : jobStatus'[j] = "pending" => jobStatus[j] = "pending",
           \A x \in Executors : pc'[x] \in Early => pc[x] \in Early /\ cur'[x] = cur[x]
    PROVE  Once'
<1> USE DEF Once, ExecuteJob
<1>1. QueuedOnce' /\ OneExecutionPerPlan'
    BY DEF QueuedOnce, OneExecutionPerPlan
<1>2. JobsArePast'
    BY NullAssumption DEF JobsArePast, Shape, TypeOK, Job
<1>3. RowsArePast'
    BY NullAssumption DEF RowsArePast, Shape, TypeOK, Row
<1>4. NoRowYet'
    BY DEF NoRowYet
<1>5. QED
    BY <1>1, <1>2, <1>3, <1>4

LEMMA OnceRequest ==
    ASSUME Shape, Once, Request
    PROVE  Once'
<1> USE ExecutorAssumption, NullAssumption DEF Shape, Ids
<1>1. ASSUME NEW r \in Recs, NEW kind, NEW target, ApprovePlan(r, kind, target)
      PROVE  Once'
    BY <1>1, OnceKept DEF ApprovePlan, queue, rows, hand, TypeOK, Unqueued
<1>2. ASSUME NEW r \in Recs, QueuePlan(r)
      PROVE  Once'
    <2> DEFINE new == [kind |-> "execute", rec |-> r, row |-> 0]
    <2>1. /\ recStatus[r] = "approved"
          /\ recStatus' = [recStatus EXCEPT ![r] = "queued"]
          /\ job' = [job EXCEPT ![njobs + 1] = new]
          /\ UNCHANGED <<row, pc, cur>>
          /\ job[njobs + 1] = Null
          /\ njobs + 1 \in Ids
          /\ new # Null
        BY <1>2 DEF QueuePlan, Enqueue, TypeOK, TablesFilled, rows, hand, Job
    <2>2. \A j \in Ids : ExecuteJob(j) => job[j].rec # r
        BY <2>1 DEF Once, JobsArePast, Unqueued
    <2>3. \A i \in Ids : row[i] # Null => row[i].rec # r
        BY <2>1 DEF Once, RowsArePast, Unqueued
    <2>4. \A j \in Ids : j # njobs + 1 => job'[j] = job[j]
        BY <2>1 DEF TypeOK
    <2>5. job'[njobs + 1].rec = r
        BY <2>1 DEF TypeOK
    <2>6. QueuedOnce'
        BY <2>1, <2>2, <2>4, <2>5 DEF Once, QueuedOnce, ExecuteJob
    <2>7. JobsArePast'
        BY <2>1, <2>4, <2>5 DEF Once, JobsArePast, ExecuteJob, Unqueued, TypeOK
    <2>8. RowsArePast' /\ OneExecutionPerPlan'
        BY <2>1, <2>3 DEF Once, RowsArePast, OneExecutionPerPlan, TypeOK
    <2>9. NoRowYet'
        <3>1. \A j \in Ids : j # njobs + 1 => jobStatus'[j] = jobStatus[j]
            BY <1>2 DEF QueuePlan, Enqueue, TypeOK
        <3>2. QED
            BY <2>1, <2>3, <2>4, <2>5, <3>1 DEF Once, NoRowYet, ExecuteJob
    <2>10. QED
        BY <2>6, <2>7, <2>8, <2>9 DEF Once
<1>3. ASSUME NEW n \in Ids, RequestRestore(n)
      PROVE  Once'
    <2> DEFINE new == [kind |-> "restore", rec |-> row[n].rec, row |-> n]
    <2>1. /\ job' = [job EXCEPT ![njobs + 1] = new]
          /\ jobStatus' = [jobStatus EXCEPT ![njobs + 1] = "pending"]
          /\ UNCHANGED <<row, recStatus, pc, cur>>
          /\ new.kind = "restore"
        BY <1>3 DEF RequestRestore, Enqueue, plans, rows, hand
    <2>2. \A j \in Ids : ExecuteJob(j)' => ExecuteJob(j) /\ job'[j] = job[j] /\ j # njobs + 1
        BY <2>1 DEF ExecuteJob, TypeOK
    <2>3. \A j \in Ids : j # njobs + 1 => jobStatus'[j] = jobStatus[j]
        BY <2>1 DEF TypeOK
    <2>4. QueuedOnce' /\ JobsArePast'
        BY <2>1, <2>2 DEF Once, QueuedOnce, JobsArePast
    <2>5. RowsArePast' /\ OneExecutionPerPlan'
        BY <2>1 DEF Once, RowsArePast, OneExecutionPerPlan
    <2>6. NoRowYet'
        BY <2>1, <2>2, <2>3 DEF Once, NoRowYet
    <2>7. QED
        BY <2>4, <2>5, <2>6 DEF Once
<1>4. QED
    BY <1>1, <1>2, <1>3 DEF Request

LEMMA OnceClaim ==
    ASSUME Shape, Once, NEW x \in Executors, NEW j \in Ids, Claim(x, j)
    PROVE  Once'
<1>1. /\ UNCHANGED <<job, row, recStatus>>
      /\ jobStatus[j] = "pending"
      /\ cur' = [cur EXCEPT ![x] = j]
      /\ pc' = [pc EXCEPT ![x] = "load"]
      /\ \A i \in Ids : jobStatus'[i] = "pending" => jobStatus[i] = "pending"
    BY DEF Claim, plans, rows, Shape, TypeOK
<1>2. QueuedOnce' /\ JobsArePast' /\ RowsArePast' /\ OneExecutionPerPlan'
    BY <1>1 DEF Once, QueuedOnce, JobsArePast, RowsArePast, OneExecutionPerPlan, ExecuteJob
<1>3. NoRowYet'
    BY <1>1 DEF Once, NoRowYet, ExecuteJob, Shape, TypeOK
<1>4. QED
    BY <1>2, <1>3 DEF Once

LEMMA OnceInsert ==
    ASSUME Shape, Once, NEW x \in Executors, AddRow(x),
           pc' \in {[pc EXCEPT ![x] = "mark"], [pc EXCEPT ![x] = "finish"]},
           cur' = cur
    PROVE  Once'
<1> USE ExecutorAssumption, NullAssumption DEF Shape, At, Ids
<1> DEFINE j == cur[x]
<1>1. j \in Ids /\ jobStatus[j] = "running" /\ mode[x] = "squeeze"
    <2>1. pc[x] = "insert"
        BY DEF AddRow
    <2>2. mode[x] = "squeeze"
        BY <2>1 DEF HasMode
    <2>3. QED
        BY <2>1, <2>2 DEF HasJob
<1>2. ExecuteJob(j) /\ job[j] \in Job
    <2>1. job[j] \in Job /\ job[j] # Null
        BY <1>1 DEF TablesFilled, TypeOK
    <2>2. job[j].kind # "restore"
        BY <1>1 DEF AddRow, HasMode
    <2>3. QED
        BY <2>1, <2>2 DEF ExecuteJob, Job
<1>3. /\ UNCHANGED <<job, jobStatus, recStatus>>
      /\ nexecs + 1 \in Ids
      /\ row' = [row EXCEPT ![nexecs + 1] = NewRow(job[j].rec)]
      /\ NewRow(job[j].rec).rec = job[j].rec
      /\ pc[x] = "insert"
    BY DEF AddRow, TypeOK, NewRow, TheRec, plans, queue
<1>4. \A i \in Ids : i # nexecs + 1 => row'[i] = row[i]
    BY <1>3 DEF TypeOK
<1>5. row'[nexecs + 1].rec = job[j].rec
    BY <1>3 DEF TypeOK
<1>6. \A i \in Ids : row[i] # Null => row[i].rec # job[j].rec
    BY <1>1, <1>2, <1>3 DEF Once, NoRowYet, Early
<1>7. QueuedOnce' /\ JobsArePast'
    BY <1>3 DEF Once, QueuedOnce, JobsArePast, ExecuteJob
<1>8. RowsArePast'
    BY <1>1, <1>2, <1>3, <1>4, <1>5 DEF Once, RowsArePast, JobsArePast
<1>9. OneExecutionPerPlan'
    BY <1>4, <1>5, <1>6 DEF Once, OneExecutionPerPlan
<1>10. NoRowYet'
    <2>1. \A y \in Executors : cur[y] = j => pc'[y] \notin Early
        <3>1. \A y \in Executors : cur[y] = j /\ y # x => pc[y] = "idle"
            BY <1>3 DEF OneHolder
        <3>2. pc'[x] \in {"mark", "finish"} /\ \A y \in Executors : y # x => pc'[y] = pc[y]
            BY DEF TypeOK
        <3>3. QED
            BY <3>1, <3>2 DEF Early
    <2>2. \A y \in Executors : pc'[y] \in Early => pc[y] \in Early
        BY <1>3 DEF Early, TypeOK
    <2>3. \A k \in Ids : ExecuteJob(k) /\ job[k].rec = job[j].rec => k = j
        BY <1>1, <1>2 DEF Once, QueuedOnce
    <2>4. QED
        BY <1>1, <1>3, <1>4, <1>5, <2>1, <2>2, <2>3 DEF Once, NoRowYet, ExecuteJob
<1>11. QED
    BY <1>7, <1>8, <1>9, <1>10 DEF Once

LEMMA OnceStep == Shape /\ Once /\ [Next]_vars => Once'
<1> SUFFICES ASSUME Shape, Once, [Next]_vars
             PROVE  Once'
    OBVIOUS
<1> USE DEF plans, queue, rows, hand
<1>1. CASE Request
    BY <1>1, OnceRequest
<1>2. CASE World
    BY <1>2, OnceKept DEF World, Sync, PodReady, OwnerScales, OwnerRecreates, OwnerActs
<1>3. ASSUME NEW x \in Executors,
             Load(x) \/ Preflight(x) \/ WaitOk(x) \/ WaitFails(x) \/ Get(x) \/ PutConflict(x)
             \/ ReadFails(x) \/ SetError(x) \/ Put(x) \/ PutUnheard(x) \/ WriteIgnored(x)
      PROVE  Once'
    <2>1. UNCHANGED <<job, row, recStatus, jobStatus, cur>>
        BY <1>3 DEF Load, Preflight, WaitOk, WaitFails, Get, PutConflict, ReadFails, SetError,
                    Put, PutUnheard, Scale, WriteIgnored, SetFails, GoTo, Return, Turn
    <2>2. \A y \in Executors : pc'[y] \in Early => pc[y] \in Early
        BY <1>3 DEF Load, Preflight, WaitOk, WaitFails, Get, PutConflict, ReadFails, SetError,
                    Put, PutUnheard, Scale, WriteIgnored, SetFails, GoTo, Return, Turn,
                    Shape, TypeOK, At, Early
    <2>3. QED
        BY <2>1, <2>2, OnceKept
<1>4. ASSUME NEW x \in Executors, Mark(x) \/ Record(x) \/ RecordRec(x)
      PROVE  Once'
    <2>1. UNCHANGED <<job, row, jobStatus, cur>>
        BY <1>4 DEF Mark, Record, RecordRec, GoTo, Return
    <2>2. \A r \in Recs : recStatus[r] \notin Unqueued => recStatus'[r] \notin Unqueued
        BY <1>4 DEF Mark, Record, RecordRec, Outcome, Unqueued, Shape, TypeOK
    <2>3. \A y \in Executors : pc'[y] \in Early => pc[y] \in Early
        BY <1>4 DEF Mark, Record, RecordRec, GoTo, Return, Shape, TypeOK, Early
    <2>4. QED
        BY <2>1, <2>2, <2>3, OnceKept
<1>5. ASSUME NEW x \in Executors, Finish(x) \/ Crash(x)
      PROVE  Once'
    <2>1. UNCHANGED <<job, row, recStatus>>
        BY <1>5 DEF Finish, Crash
    <2>2. \A j \in Ids : jobStatus'[j] = "pending" => jobStatus[j] = "pending"
        BY <1>5 DEF Finish, Crash, Shape, TypeOK
    <2>3. \A y \in Executors : pc'[y] \in Early => pc[y] \in Early /\ cur'[y] = cur[y]
        BY <1>5 DEF Finish, Crash, Rest, Shape, TypeOK, Early
    <2>4. QED
        BY <2>1, <2>2, <2>3, OnceKept
<1>6. ASSUME NEW x \in Executors, Insert(x) \/ InsertUnheard(x)
      PROVE  Once'
    BY <1>6, OnceInsert DEF Insert, InsertUnheard, Return
<1>7. ASSUME NEW x \in Executors, NEW j \in Ids, Claim(x, j)
      PROVE  Once'
    BY <1>7, OnceClaim
<1>8. CASE UNCHANGED vars
    BY <1>8, OnceKept DEF vars
<1>9. QED
    BY <1>1, <1>2, <1>3, <1>4, <1>5, <1>6, <1>7, <1>8 DEF Next, Step, Faulty

(* No recommendation gets a second execution row, for any number of         *)
(* executors, jobs, crashes and lost answers: no statement puts a           *)
(* recommendation or a job back, and a job has one holder.                  *)
THEOREM ExecutedOnce == Spec => []OneExecutionPerPlan
<1>1. Once => OneExecutionPerPlan
    BY DEF Once
<1>2. QED
    BY <1>1, OnceInit, OnceStep, ShapeInvariant, PTL DEF Spec
=============================================================================
