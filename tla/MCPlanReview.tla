---------------------------- MODULE MCPlanReview ----------------------------
(* One workload; the seeded policy and one draft, which takes version 2 or, *)
(* after the seeded policy is deleted, its version 1.  Two drafts where     *)
(* activations overlap.                                                     *)
EXTENDS PlanReview, TLC

CONSTANTS h1, h2, p1, p2, p3, r1, r2, r3, w1

MCOneHuman == {h1}
MCTwoHumans == {h1, h2}
MCPolicies == {p1, p2}
MCThreePolicies == {p1, p2, p3}
MCRecs == {r1, r2, r3}
MCTwoRecs == {r1, r2}
MCWorkloads == {w1}

\* Requests, plans and the policies that are not seeded are interchangeable; for
\* runs of invariants only.
MCSymmetry == Permutations(MCTwoHumans) \cup Permutations(MCTwoRecs)
                \cup Permutations(MCThreePolicies \ {p1})
=============================================================================
