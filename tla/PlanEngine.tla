----------------------------- MODULE PlanEngine -----------------------------
(***************************************************************************)
(* How one workload becomes a recommendation: the check of the stored      *)
(* policy (module Policy, internal/worker/collector.go) and BuildForPolicy *)
(* (internal/recommendation/engine.go).  CPU is counted in millicores,     *)
(* coverage in percent.  Reason codes, explanations, savings, the hash and *)
(* the policy's timezone are left out: no target depends on them.          *)
(***************************************************************************)
EXTENDS Policy

CONSTANTS Workloads,    \* [kind, env, labels, hpa, replicas, perPod, p95, coverage, desired]
          Policies,     \* [rules, exclusions, coverage, approval, stateless]
          None          \* no policy, no metrics, no disruption budget

\* What Discover can return, and what JSON can decode to.
ASSUME EngineAssumption ==
    /\ \A w \in Workloads : /\ w.replicas \in Nat
                            /\ w.perPod \in Nat
                            /\ w.p95 \in Nat \cup {None}
                            /\ w.coverage \in Int
                            /\ w.desired \in Nat \cup {None}
    /\ \A p \in Policies : \A e \in DOMAIN p.rules : p.rules[e].min \in Int
    /\ None \notin Policies \cup Int

VARIABLES workload,     \* what Discover read
          policy,       \* the active policy, as stored
          rec           \* the recommendation, or None before the analysis

vars == <<workload, policy, rec>>

Init == workload \in Workloads /\ policy \in Policies \cup {None} /\ rec = None

-----------------------------------------------------------------------------
(* BuildForPolicy *)

\* A label that is not there reads as "", and matches an exclusion of "".
Label(w, key) == IF key \in DOMAIN w.labels THEN w.labels[key] ELSE ""

Excluded(w, p) == \E x \in p.exclusions : \A key \in DOMAIN x : Label(w, key) = x[key]

\* The cases of the switch that reject before a target is looked for.
Barred(w, p) ==
    \/ Excluded(w, p)
    \/ w.kind = "StatefulSet" /\ p.stateless
    \/ w.env \notin DOMAIN p.rules
    \/ p.rules[w.env].allowed = {}
    \/ w.hpa
    \/ w.p95 = None
    \/ w.coverage < p.coverage

May(w, p, action) == action \in p.rules[w.env].allowed /\ w.replicas > p.rules[w.env].min

\* Mutant: the conversion to int32 without Ceil.
Truncated(w) == {(10 * w.p95) \div (7 * w.perPod)}

\* math.Ceil(p95 / (perPod * 0.70)).  When the quotient is a whole number above
\* zero, the binary 0.70 may push the float just above it.
Demands(w) == LET d == 7 * w.perPod
                  n == (10 * w.p95 + d - 1) \div d
              IN IF n > 0 /\ n * d = 10 * w.p95 THEN {n, n + 1} ELSE {n}

\* Mutant: the policy's minimum is kept beside the demand.
Added(a, b) == a + b

Larger(a, b) == IF a < b THEN b ELSE a

\* The counts the switch may settle on; the workload's own when there is no
\* action, no CPU request, or nothing to reduce.
Targets(w, p) ==
    IF p = None \/ Barred(w, p) THEN {w.replicas}
    ELSE LET min == p.rules[w.env].min IN
         IF w.env = "preview" /\ May(w, p, "scale-to-zero") THEN {min}
         ELSE IF w.env = "development" /\ May(w, p, "scale-replicas") /\ w.perPod > 0
              THEN {Larger(d, min) : d \in Demands(w)}
              ELSE {w.replicas}

\* Mutant: the disruption budget of the current size is compared.
AvailableNow(w, target) == w.desired = None \/ w.replicas >= w.desired

Available(w, target) == w.desired = None \/ target >= w.desired

Recommendation(w, target) ==
    IF target < w.replicas /\ Available(w, target)
    THEN [status |-> "proposed", current |-> w.replicas, target |-> target]
    ELSE [status |-> "rejected", current |-> w.replicas, target |-> w.replicas]

\* One analysis of one workload.  A stored policy that is not valid fails it.
Analyze ==
    /\ rec = None
    /\ policy # None => Valid(policy)
    /\ \E target \in Targets(workload, policy) : rec' = Recommendation(workload, target)
    /\ UNCHANGED <<workload, policy>>

Next == Analyze

Spec == Init /\ [][Next]_vars

-----------------------------------------------------------------------------
(* Properties *)

TypeOK == /\ workload \in Workloads
          /\ policy \in Policies \cup {None}
          /\ rec \in [status : {"proposed", "rejected"}, current : Nat, target : Nat] \cup {None}

Proposed == rec # None /\ rec.status = "proposed"

\* Whatever policy was stored and whatever the order of the cases: a proposal is
\* about a Deployment outside production that no exclusion names and no HPA
\* owns, it is a reduction, and it stays above the policy's minimum and the
\* replicas that the disruption budget wants healthy.
ProposalIsSafe ==
    Proposed =>
      /\ policy # None
      /\ workload.kind # "StatefulSet"
      /\ workload.env \in {"preview", "development"}
      /\ ~workload.hpa
      /\ \A x \in policy.exclusions : \E key \in DOMAIN x : Label(workload, key) # x[key]
      /\ workload.coverage >= 80
      /\ rec.target < workload.replicas
      /\ rec.target >= policy.rules[workload.env].min
      /\ workload.desired # None => rec.target >= workload.desired

\* engine.go:87 "30% headroom": what is left of a development workload carries
\* its 95th percentile with at most 70% of the CPU it requests.
HeadroomKept ==
    Proposed /\ workload.env = "development"
    => 10 * workload.p95 <= 7 * workload.perPod * rec.target

\* A development workload that is reduced keeps at most one replica that neither
\* the policy nor the headroom asks for, rounding errors included.
NoSpareReplica ==
    Proposed /\ workload.env = "development" /\ rec.target > policy.rules[workload.env].min
    => 10 * workload.p95 >= 7 * workload.perPod * (rec.target - 1)
=============================================================================
