----------------------------- MODULE MCJobQueue -----------------------------
(* Three jobs, and two executors beside each other for the length of a     *)
(* rolling update, with a collector that claims analyze jobs only.         *)
EXTENDS JobQueue

CONSTANTS j1, j2, j3, e1, e2, c1

MCJobs == {j1, j2, j3}
MCWorkers == {e1, e2, c1}
MCKinds == {"analyze", "execute"}
MCKindOf == [j \in MCJobs |-> IF j = j3 THEN "analyze" ELSE "execute"]
MCHandles == [w \in MCWorkers |-> IF w = c1 THEN {"analyze"} ELSE {"execute"}]
=============================================================================
