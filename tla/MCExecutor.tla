----------------------------- MODULE MCExecutor -----------------------------
(* One executor, as deploy/platform runs it, two plans for one Deployment  *)
(* and a restore between or after them.                                    *)
EXTENDS Executor

CONSTANTS e1, r1, r2

MCExecutors == {e1}
MCRecs == {r1, r2}
=============================================================================
