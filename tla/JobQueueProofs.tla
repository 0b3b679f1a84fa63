--------------------------- MODULE JobQueueProofs ---------------------------
(***************************************************************************)
(* Proofs about the claim transaction, for any jobs, workers, kinds and    *)
(* number of faults: types, exclusive claims, and that the transaction     *)
(* implements the jobs board.                                              *)
(***************************************************************************)
EXTENDS JobQueue, TLAPS

(* A worker that is in its claim has the lock of the row it selected, which *)
(* is still pending.                                                        *)
LockHeld == \A w \in Workers :
               pc[w] = "locked" => /\ held[w] \in Jobs
                                   /\ lock[held[w]] = w
                                   /\ status[held[w]] = "pending"

(* No lock outlives the claim that took it.                                 *)
LockUsed == \A j \in Jobs, w \in Workers :
               lock[j] = w => pc[w] = "locked" /\ held[w] = j

RunningHeld == \A w \in Workers :
                  pc[w] = "handle" => held[w] \in Jobs /\ status[held[w]] = "running"

OneHandler == \A v, w \in Workers :
                 pc[v] = "handle" /\ pc[w] = "handle" /\ held[v] = held[w] => v = w

IInv == TypeOK /\ LockHeld /\ LockUsed /\ RunningHeld /\ OneHandler

-----------------------------------------------------------------------------
(* Types are preserved by every step. *)
LEMMA TypeStep == TypeOK /\ LockHeld /\ RunningHeld /\ [Next]_vars => TypeOK'
<1> SUFFICES ASSUME TypeOK, LockHeld, RunningHeld, [Next]_vars
             PROVE  TypeOK'
    OBVIOUS
<1> USE QueueAssumption DEF TypeOK, Statuses, PCs
<1>1. ASSUME NEW j \in Jobs, Post(j) \/ EnqueueFail(j)
      PROVE  TypeOK'
    BY <1>1 DEF Post, EnqueueStart, EnqueueCommit, EnqueueFail
<1>2. ASSUME NEW w \in Workers, Claim(w)
      PROVE  TypeOK'
    <2>1. CASE Select(w)
        BY <2>1 DEF Select
    <2>2. ASSUME NEW j \in Jobs, LockRow(w, j) \/ SkipRow(w, j)
          PROVE  TypeOK'
        BY <2>2 DEF LockRow, SkipRow
    <2>3. CASE NoRows(w)
        BY <2>3 DEF NoRows
    <2>4. CASE Commit(w)
        BY <2>4 DEF Commit, LockHeld
    <2>5. QED
        BY <1>2, <2>1, <2>2, <2>3, <2>4 DEF Claim
<1>3. ASSUME NEW w \in Workers, Finish(w) \/ FinishLost(w)
      PROVE  TypeOK'
    BY <1>3 DEF Finish, FinishJob, Outcome, FinishLost
<1>4. ASSUME NEW w \in Workers, CommitUnheard(w) \/ Abort(w)
      PROVE  TypeOK'
    BY <1>4 DEF CommitUnheard, Abort
<1>5. ASSUME NEW w \in Workers, Crash(w)
      PROVE  TypeOK'
    BY <1>5 DEF Crash
<1>6. CASE UNCHANGED vars
    BY <1>6 DEF vars
<1>7. QED
    BY <1>1, <1>2, <1>3, <1>4, <1>5, <1>6 DEF Next

(* Locks, statuses and handlers stay consistent. *)
LEMMA ClaimStep ==
    IInv /\ [Next]_vars => (LockHeld /\ LockUsed /\ RunningHeld /\ OneHandler)'
<1> SUFFICES ASSUME IInv, [Next]_vars
             PROVE  (LockHeld /\ LockUsed /\ RunningHeld /\ OneHandler)'
    OBVIOUS
<1> USE QueueAssumption DEF IInv, TypeOK, Statuses, PCs, LockHeld, LockUsed, RunningHeld, OneHandler
<1>1. ASSUME NEW j \in Jobs, Post(j) \/ EnqueueFail(j)
      PROVE  (LockHeld /\ LockUsed /\ RunningHeld /\ OneHandler)'
    BY <1>1 DEF Post, EnqueueStart, EnqueueCommit, EnqueueFail
<1>2. ASSUME NEW w \in Workers, Claim(w)
      PROVE  (LockHeld /\ LockUsed /\ RunningHeld /\ OneHandler)'
    <2>1. CASE Select(w)
        BY <2>1 DEF Select
    <2>2. ASSUME NEW j \in Jobs, LockRow(w, j)
          PROVE  (LockHeld /\ LockUsed /\ RunningHeld /\ OneHandler)'
        BY <2>2 DEF LockRow, Free
    <2>3. ASSUME NEW j \in Jobs, SkipRow(w, j)
          PROVE  (LockHeld /\ LockUsed /\ RunningHeld /\ OneHandler)'
        BY <2>3 DEF SkipRow
    <2>4. CASE NoRows(w)
        BY <2>4 DEF NoRows
    <2>5. CASE Commit(w)
        BY <2>5 DEF Commit
    <2>6. QED
        BY <1>2, <2>1, <2>2, <2>3, <2>4, <2>5 DEF Claim
<1>3. ASSUME NEW w \in Workers, Finish(w) \/ FinishLost(w)
      PROVE  (LockHeld /\ LockUsed /\ RunningHeld /\ OneHandler)'
    BY <1>3 DEF Finish, FinishJob, Outcome, FinishLost
<1>4. ASSUME NEW w \in Workers, CommitUnheard(w) \/ Abort(w)
      PROVE  (LockHeld /\ LockUsed /\ RunningHeld /\ OneHandler)'
    BY <1>4 DEF CommitUnheard, Abort
<1>5. ASSUME NEW w \in Workers, Crash(w)
      PROVE  (LockHeld /\ LockUsed /\ RunningHeld /\ OneHandler)'
    BY <1>5 DEF Crash
<1>6. CASE UNCHANGED vars
    BY <1>6 DEF vars
<1>7. QED
    BY <1>1, <1>2, <1>3, <1>4, <1>5, <1>6 DEF Next

LEMMA IInvInit == Init => IInv
BY QueueAssumption DEF Init, IInv, TypeOK, Statuses, PCs, LockHeld, LockUsed, RunningHeld, OneHandler

LEMMA IInvInductive == Spec => []IInv
<1>1. IInv /\ [Next]_vars => IInv'
    BY TypeStep, ClaimStep DEF IInv
<1>2. QED
    BY IInvInit, <1>1, PTL DEF Spec

(* Every variable keeps its type, whatever the workers and faults do. *)
THEOREM TypesHold == Spec => []TypeOK
<1>1. IInv => TypeOK
    BY DEF IInv
<1>2. QED
    BY IInvInductive, <1>1, PTL

(* No two workers ever handle the same job, and a handled job is running. *)
THEOREM ExclusiveClaims == Spec => []ClaimedByOne
<1>1. IInv => ClaimedByOne
    BY DEF IInv, RunningHeld, OneHandler, ClaimedByOne, Handling
<1>2. QED
    BY IInvInductive, <1>1, PTL

-----------------------------------------------------------------------------
(* The refinement.  One lemma per kind of step says which board action it is. *)

LEMMA BoardInit == Init => Board!Init
BY DEF Init, Board!Init, Posted, Handlers, Handling

(* What a step does to the handlers of one job, as an update of Handlers. *)
LEMMA HandlersUpdate ==
    ASSUME NEW j \in Jobs, NEW ws \in SUBSET Workers,
           \A v \in Workers, i \in Jobs :
              Handling(v, i)' <=> IF i = j THEN v \in ws ELSE Handling(v, i)
    PROVE  Handlers' = [Handlers EXCEPT ![j] = ws]
<1>1. \A i \in Jobs : {v \in Workers : Handling(v, i)}'
                        = IF i = j THEN ws ELSE {v \in Workers : Handling(v, i)}
    OBVIOUS
<1>2. QED
    BY <1>1 DEF Handlers

LEMMA BoardPost ==
    ASSUME NEW j \in Jobs, TypeOK, Post(j) \/ EnqueueFail(j)
    PROVE  [Board!Next]_(Board!vars)
<1> USE DEF TypeOK, Statuses, Board!vars, Posted, Handlers, Handling
<1>1. CASE EnqueueStart(j) \/ EnqueueFail(j)
    BY <1>1 DEF EnqueueStart, EnqueueFail
<1>2. CASE EnqueueCommit(j)
    <2>1. Board!Post(j)
        BY <1>2 DEF EnqueueCommit, Board!Post
    <2>2. QED
        BY <2>1 DEF Board!Next
<1>3. QED
    BY <1>1, <1>2 DEF Post

LEMMA BoardClaim ==
    ASSUME NEW w \in Workers, IInv, Claim(w)
    PROVE  [Board!Next]_(Board!vars)
<1> USE DEF IInv, TypeOK, Statuses, PCs, Posted
<1>1. CASE Select(w)
    BY <1>1 DEF Select, Handlers, Handling, Board!vars
<1>2. ASSUME NEW j \in Jobs, LockRow(w, j) \/ SkipRow(w, j)
      PROVE  [Board!Next]_(Board!vars)
    BY <1>2 DEF LockRow, SkipRow, Handlers, Handling, Board!vars
<1>3. CASE NoRows(w)
    BY <1>3 DEF NoRows, Handlers, Handling, Board!vars
<1>4. CASE Commit(w)
    <2>1. PICK j \in Jobs : j = held[w] /\ status[j] = "pending"
        BY <1>4 DEF Commit, LockHeld
    <2>2. \A v \in Workers : ~Handling(v, j)
        BY <2>1 DEF RunningHeld, Handling
    <2>3. Handlers' = [Handlers EXCEPT ![j] = {w}]
        <3>1. \A v \in Workers, i \in Jobs :
                 Handling(v, i)' <=> IF i = j THEN v \in {w} ELSE Handling(v, i)
            BY <1>4, <2>1, <2>2 DEF Handling, Commit
        <3>2. QED
            BY <3>1, HandlersUpdate
    <2>4. \A i \in Jobs : w \notin Handlers[i]
        BY <1>4 DEF Commit, Handlers, Handling
    <2>5. Board!Take(j, {w})
        BY <1>4, <2>1, <2>3, <2>4 DEF Commit, Board!Take
    <2>6. QED
        BY <2>1, <2>5 DEF Board!Next
<1>5. QED
    BY <1>1, <1>2, <1>3, <1>4 DEF Claim

LEMMA BoardFinish ==
    ASSUME NEW w \in Workers, IInv, Finish(w) \/ FinishLost(w)
    PROVE  [Board!Next]_(Board!vars)
<1> USE DEF IInv, TypeOK, Statuses, PCs, Posted
<1>1. PICK j \in Jobs : pc[w] = "handle" /\ j = held[w] /\ status[j] = "running"
    BY DEF Finish, FinishJob, FinishLost, RunningHeld
<1>2. Handlers' = [Handlers EXCEPT ![j] = {}]
    <2>1. \A v \in Workers, i \in Jobs :
             Handling(v, i)' <=> IF i = j THEN v \in {} ELSE Handling(v, i)
        BY <1>1 DEF Handling, Finish, FinishJob, FinishLost, OneHandler
    <2>2. QED
        BY <2>1, HandlersUpdate
<1>3. Handlers[j] # {}
    BY <1>1 DEF Handlers, Handling
<1>4. CASE FinishLost(w)
    <2>1. Board!Drop(j)
        BY <1>2, <1>3, <1>4 DEF FinishLost, Board!Drop
    <2>2. QED
        BY <1>1, <2>1 DEF Board!Next
<1>5. ASSUME NEW failed \in BOOLEAN, FinishJob(w, failed)
      PROVE  [Board!Next]_(Board!vars)
    <2>1. Board!Close(j, Outcome(failed))
        BY <1>1, <1>2, <1>3, <1>5 DEF FinishJob, Outcome, Board!Close
    <2>2. QED
        BY <1>1, <2>1 DEF Board!Next, Outcome
<1>6. QED
    BY <1>4, <1>5 DEF Finish

LEMMA BoardFault ==
    ASSUME NEW w \in Workers, IInv, CommitUnheard(w) \/ Abort(w) \/ Crash(w)
    PROVE  [Board!Next]_(Board!vars)
<1> USE DEF IInv, TypeOK, Statuses, PCs, Posted
<1>1. CASE CommitUnheard(w)
    <2>1. PICK j \in Jobs : j = held[w] /\ status[j] = "pending"
        BY <1>1 DEF CommitUnheard, LockHeld
    <2>2. \A v \in Workers : ~Handling(v, j)
        BY <2>1 DEF RunningHeld, Handling
    <2>3. Handlers' = [Handlers EXCEPT ![j] = {}]
        <3>1. \A v \in Workers, i \in Jobs :
                 Handling(v, i)' <=> IF i = j THEN v \in {} ELSE Handling(v, i)
            BY <1>1, <2>1, <2>2 DEF Handling, CommitUnheard
        <3>2. QED
            BY <3>1, HandlersUpdate
    <2>4. Board!Take(j, {})
        BY <1>1, <2>1, <2>3 DEF CommitUnheard, Board!Take
    <2>5. QED
        BY <2>1, <2>4 DEF Board!Next
<1>2. CASE Abort(w)
    BY <1>2 DEF Abort, Handlers, Handling, Board!vars
<1>3. CASE Crash(w) /\ pc[w] # "handle"
    BY <1>3 DEF Crash, Handlers, Handling, Board!vars
<1>4. CASE Crash(w) /\ pc[w] = "handle"
    <2>1. PICK j \in Jobs : j = held[w]
        BY <1>4 DEF RunningHeld, Handling
    <2>2. Handlers' = [Handlers EXCEPT ![j] = {}]
        <3>1. \A v \in Workers, i \in Jobs :
                 Handling(v, i)' <=> IF i = j THEN v \in {} ELSE Handling(v, i)
            BY <1>4, <2>1 DEF Handling, Crash, OneHandler
        <3>2. QED
            BY <3>1, HandlersUpdate
    <2>3. Handlers[j] # {}
        BY <1>4, <2>1 DEF Handlers, Handling
    <2>4. Board!Drop(j)
        BY <1>4, <2>2, <2>3 DEF Crash, Board!Drop
    <2>5. QED
        BY <2>4 DEF Board!Next
<1>5. QED
    BY <1>1, <1>2, <1>3, <1>4

(* The claim transaction implements the jobs board: every step of it is a   *)
(* step of the board or leaves the board as it is.                          *)
THEOREM ImplementsBoard == Spec => BoardSpec
<1>1. IInv /\ [Next]_vars => [Board!Next]_(Board!vars)
    <2> SUFFICES ASSUME IInv, [Next]_vars
                 PROVE  [Board!Next]_(Board!vars)
        OBVIOUS
    <2>1. CASE UNCHANGED vars
        BY <2>1 DEF vars, Board!vars, Posted, Handlers, Handling
    <2>2. QED
        BY <2>1, BoardPost, BoardClaim, BoardFinish, BoardFault DEF Next, IInv
<1>2. QED
    BY BoardInit, IInvInductive, <1>1, PTL DEF Spec, BoardSpec, Board!Spec
=============================================================================
