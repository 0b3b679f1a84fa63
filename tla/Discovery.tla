------------------------------ MODULE Discovery ------------------------------
(***************************************************************************)
(* How an object of the cluster becomes a workload (Discover, environment, *)
(* targetKey, matchingPDB, selectorsOverlap of internal/kube/client.go and *)
(* the filter of collectAndAnalyze), and the plan that module PlanEngine   *)
(* makes of it.  The properties speak of the objects in the cluster, not   *)
(* of the summary the engine sees.                                         *)
(*                                                                         *)
(* Workloads is what the engine's assumption, and so its theorems, are     *)
(* about; TypesOK shows that Discover returns nothing else.                *)
(*                                                                         *)
(* A namespace stands for its name's prefix, the CPU of an object for the  *)
(* sum over its pod's containers, a policy's coverage is a whole percent.  *)
(***************************************************************************)
EXTENDS PlanEngine, FiniteSets, Sequences

CONSTANTS Clusters,     \* sets of clusters: [objects, hpas, budgets, readings, policies], where
                        \* objects are [kind, ns, name, labels, selector, pod, replicas, cpu],
                        \* hpas sets of [ns, name, kind, target],
                        \* budgets sequences of [ns, selector, desired, min, max], as List returns
                        \* them: minAvailable, maxUnavailable, or neither,
                        \* and readings [p95, samples], p95 None when Prometheus has nothing
          PrefixOf,     \* PrefixOf[ns] : "prod", "preview", "dev" or "" for any other
          System        \* the namespaces of isSystemNamespace

VARIABLES object, hpas, budgets, reading    \* what is in the cluster and in Prometheus

cluster == <<object, hpas, budgets, reading>>

Cluster ==
    /\ \E c \in Clusters : /\ object \in c.objects /\ hpas \in c.hpas /\ budgets \in c.budgets
                          /\ reading \in c.readings /\ policy \in c.policies
    /\ workload = None
    /\ rec = None

-----------------------------------------------------------------------------
(* Label selectors: a set of requirements, or None.  matchLabels is a       *)
(* requirement "In" of one value for each of its keys.                      *)

Satisfies(set, q) ==
    CASE q.op = "In"           -> q.key \in DOMAIN set /\ set[q.key] \in q.values
      [] q.op = "NotIn"        -> q.key \in DOMAIN set => set[q.key] \notin q.values
      [] q.op = "Exists"       -> q.key \in DOMAIN set
      [] q.op = "DoesNotExist" -> q.key \notin DOMAIN set

Matches(selector, set) == selector # None /\ \A q \in selector : Satisfies(set, q)

\* The labels that selectorsOverlap makes up from a workload's selector: those
\* of its requirements that name one value, whatever their operator.
Sample(selector) ==
    LET single == {q \in selector : Cardinality(q.values) = 1} IN
    [key \in {q.key : q \in single} |-> CHOOSE v \in UNION {q.values : q \in single} :
                                           \E q \in single : q.key = key /\ v \in q.values]

SelectorsOverlap(a, b) == a # None /\ Matches(b, Sample(a))

Finite(selector) == selector = None \/ \A q \in selector : IsFiniteSet(q.values)

\* minAvailable or maxUnavailable: a count or a percentage, or left out.
Amount(a) == a # None => a.n \in Nat /\ (a.percent => a.n <= 100)

\* What the API server admits: counts are not negative, a percentage is at most
\* 100, a budget has one of its two amounts at most, and an object's selector
\* matches the pods of its own template.
ASSUME ClusterAssumption ==
    \A c \in Clusters :
      /\ \A o \in c.objects : /\ o.replicas \in Nat \cup {None} /\ o.cpu \in Nat
                              /\ Finite(o.selector) /\ Matches(o.selector, o.pod)
      /\ \A bs \in c.budgets :
            /\ DOMAIN bs \subseteq Nat
            /\ \A k \in DOMAIN bs : /\ Finite(bs[k].selector) /\ bs[k].desired \in Nat
                                    /\ None \in {bs[k].min, bs[k].max}
                                    /\ Amount(bs[k].min) /\ Amount(bs[k].max)
      /\ \A r \in c.readings : r.p95 \in Nat \cup {None} /\ r.samples \in Nat
      /\ c.policies \subseteq Policies \cup {None}

-----------------------------------------------------------------------------
Environment(o) ==
    LET label == Label(o, "environment") IN
    IF label # "" THEN label
    ELSE CASE PrefixOf[o.ns] = "prod"    -> "production"
           [] PrefixOf[o.ns] = "preview" -> "preview"
           [] PrefixOf[o.ns] = "dev"     -> "development"
           [] OTHER                      -> "unknown"

\* Mutant: the HPA's own name in place of its target's.
OwnKey(hpa) == <<hpa.ns, hpa.kind, hpa.name>>

TargetKey(hpa) == <<hpa.ns, hpa.kind, hpa.target>>

HasHpa(o) == \E hpa \in hpas : TargetKey(hpa) = <<o.ns, o.kind, o.name>>

\* GetScaledValueFromIntOrPercent, rounded up.
Scaled(min, replicas) == IF min.percent THEN (min.n * replicas + 99) \div 100 ELSE min.n

\* Mutant: minAvailable is never computed.
StatusOnly(b, replicas) == b.desired

\* A desired count of 0 is one the budget's controller has not computed yet.
DesiredHealthy(b, replicas) ==
    IF b.desired = 0 /\ b.min # None THEN Scaled(b.min, replicas) ELSE b.desired

\* Mutant: the namespace is not compared.
MatchingAnywhere(o) ==
    {k \in DOMAIN budgets : SelectorsOverlap(o.selector, budgets[k].selector)}

Matching(o) == {k \in DOMAIN budgets : /\ budgets[k].ns = o.ns
                                       /\ SelectorsOverlap(o.selector, budgets[k].selector)}

\* The first budget that matches.
MatchingPDB(o, replicas) ==
    LET ks == Matching(o) IN
    IF ks = {} THEN None
    ELSE DesiredHealthy(budgets[CHOOSE k \in ks : \A j \in ks : k <= j], replicas)

\* Mutant: denser data counts for more than it covers.
Uncapped(r) == IF r.p95 = None THEN 0 ELSE (100 * r.samples) \div 672

\* Denser data than one sample in 15 minutes is full coverage.
Coverage(r) == IF r.p95 = None THEN 0
               ELSE IF r.samples >= 672 THEN 100 ELSE (100 * r.samples) \div 672

Replicas(o) == IF o.replicas = None THEN 1 ELSE o.replicas

\* fromDeployment and fromStatefulSet.
Workload(o) == [kind |-> o.kind, env |-> Environment(o), labels |-> o.labels, hpa |-> HasHpa(o),
                replicas |-> Replicas(o), perPod |-> o.cpu, p95 |-> reading.p95,
                coverage |-> Coverage(reading), desired |-> MatchingPDB(o, Replicas(o))]

\* System namespaces are dropped before the analysis.
Discover == /\ workload = None
            /\ object.ns \notin System
            /\ workload' = Workload(object)
            /\ UNCHANGED <<cluster, policy, rec>>

Plan == /\ workload # None
        /\ Analyze
        /\ UNCHANGED cluster

ClusterSpec == Cluster /\ [][Discover \/ Plan]_<<cluster, vars>>

-----------------------------------------------------------------------------
(* Properties *)

TypesOK == /\ workload \in Workloads \cup {None}
           /\ rec # None => rec.current \in Nat /\ rec.target \in Nat

\* The Kubernetes meaning of a budget: it selects the pods of its namespace.
Selects(b, o) == b.ns = o.ns /\ Matches(b.selector, o.pod)

\* An amount out of n replicas: of a percentage the least count that reaches it.
RoundedUp(a, n) == IF ~a.percent THEN a.n
                   ELSE CHOOSE m \in 0 .. n : 100 * m >= a.n * n /\ 100 * (m - 1) < a.n * n

\* The pods that the spec of a budget over n replicas keeps healthy.
Asks(b, n) == CASE b.min # None -> RoundedUp(b.min, n)
                [] b.max # None -> IF RoundedUp(b.max, n) < n THEN n - RoundedUp(b.max, n) ELSE 0
                [] OTHER        -> 0

\* What its controller has computed, or will once it has run.
Wants(b, o) == IF b.desired > 0 THEN b.desired ELSE Asks(b, Replicas(o))

\* Budget k restrains the object: it is over its pods, it is the only one of its
\* namespace, and the pods carry just the labels of their own selector.
Restrains(k) == /\ Selects(budgets[k], object)
                /\ \A j \in DOMAIN budgets : budgets[j].ns = object.ns => j = k
                /\ object.pod = Sample(object.selector)

\* The budget's status has been written, or its spec says minAvailable.
Readable(b) == b.desired > 0 \/ b.max = None

\* engine.go:97 "would violate the workload availability invariant": nothing is
\* proposed below what a budget over its pods asks for, be it a count or a
\* percentage, and be its status written or not.  A maxUnavailable counts only
\* once it has reached the status: client.go:190 works out minAvailable alone, so
\* until then such a budget restrains nothing.
BudgetKept ==
    Proposed => \A k \in DOMAIN budgets :
                   Restrains(k) /\ Readable(budgets[k])
                   => rec.target >= Wants(budgets[k], object)

Plain(selector) == selector # None /\ \A q \in selector : q.op = "In" /\ Cardinality(q.values) = 1

\* A count that restrains a plan comes from a budget over the workload's own
\* pods, and is what that budget asks for unless it is a maxUnavailable whose
\* status is not written, when every selector is made of labels.
BudgetIsOurs ==
    (workload # None /\ workload.desired # None /\ Plain(object.selector)
        /\ \A k \in DOMAIN budgets : budgets[k].selector # None => Plain(budgets[k].selector))
    => \E k \in DOMAIN budgets :
          /\ Selects(budgets[k], object)
          /\ Readable(budgets[k]) => workload.desired = Wants(budgets[k], object)

\* engine.go:57 "an HPA owns this workload's replica count": what an HPA of its
\* namespace names as its target is not proposed.
HpaLeftAlone ==
    Proposed => ~\E hpa \in hpas : /\ hpa.ns = object.ns
                                   /\ hpa.kind = object.kind
                                   /\ hpa.target = object.name
=============================================================================
