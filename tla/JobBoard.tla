------------------------------ MODULE JobBoard ------------------------------
(***************************************************************************)
(* What the jobs table promises to the processes that share it: a job is   *)
(* posted once, taken by at most one worker and closed by that worker.  A  *)
(* worker may vanish, or never learn that it took the job; nobody takes    *)
(* the job again, so delivery is at most once.                             *)
(***************************************************************************)
CONSTANTS Jobs, Workers

VARIABLES status,       \* status[j] : jobs.status, or "absent"
          handlers      \* handlers[j] : the workers that are handling j

vars == <<status, handlers>>

Init == /\ status = [j \in Jobs |-> "absent"]
        /\ handlers = [j \in Jobs |-> {}]

Post(j) == /\ status[j] = "absent"
           /\ status' = [status EXCEPT ![j] = "pending"]
           /\ UNCHANGED handlers

\* The job goes to one worker that has nothing else in hand, or to nobody
\* when the answer to the claim is lost.
Take(j, ws) == /\ status[j] = "pending"
               /\ \A w \in ws, i \in Jobs : w \notin handlers[i]
               /\ status' = [status EXCEPT ![j] = "running"]
               /\ handlers' = [handlers EXCEPT ![j] = ws]

Close(j, outcome) == /\ handlers[j] # {}
                     /\ status' = [status EXCEPT ![j] = outcome]
                     /\ handlers' = [handlers EXCEPT ![j] = {}]

Drop(j) == /\ handlers[j] # {}
           /\ handlers' = [handlers EXCEPT ![j] = {}]
           /\ UNCHANGED status

Next == \E j \in Jobs :
           \/ Post(j)
           \/ \E ws \in {{}} \cup {{w} : w \in Workers} : Take(j, ws)
           \/ \E outcome \in {"completed", "failed"} : Close(j, outcome)
           \/ Drop(j)

Spec == Init /\ [][Next]_vars
=============================================================================
