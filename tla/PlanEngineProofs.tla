-------------------------- MODULE PlanEngineProofs --------------------------
(***************************************************************************)
(* Proofs about the plan engine, for any workloads and stored policies,    *)
(* and about the discovery that feeds it, for any clusters.                *)
(***************************************************************************)
EXTENDS Discovery, TLAPS, FiniteSetTheorems, WellFoundedInduction

(* A quotient that is rounded up covers the dividend. *)
LEMMA CeilCovers ==
    ASSUME NEW a \in Nat, NEW d \in Nat \ {0}
    PROVE  /\ (a + d - 1) \div d \in Nat
           /\ ((a + d - 1) \div d) * d >= a
           /\ ((a + d - 1) \div d - 1) * d < a
<1>1. PICK q \in Int, r \in 0 .. d - 1 : a + d - 1 = q * d + r /\ q = (a + d - 1) \div d
    OBVIOUS
<1>2. q >= 0
    BY <1>1
<1>3. QED
    BY <1>1, <1>2

LEMMA TimesMonotone ==
    ASSUME NEW d \in Nat, NEW m \in Nat, NEW n \in Nat, m <= n
    PROVE  d * m <= d * n
OBVIOUS

(* What a target below the workload's count says about how it was found.    *)
LEMMA TargetFound ==
    ASSUME NEW w \in Workloads, NEW p \in Policies \cup {None},
           p # None => Valid(p),
           NEW target \in Targets(w, p), target < w.replicas
    PROVE  /\ p \in Policies
           /\ ~Barred(w, p)
           /\ p.rules[w.env].min \in Nat
           /\ p.rules[w.env].min <= target
           /\ target \in Nat
           /\ \/ w.env = "preview"
              \/ /\ w.env = "development"
                 /\ w.p95 \in Nat /\ w.perPod \in Nat \ {0}
                 /\ \E d \in Demands(w) : target = Larger(d, p.rules[w.env].min)
<1> USE EngineAssumption
<1>1. w.replicas \in Nat /\ w.perPod \in Nat /\ w.p95 \in Nat \cup {None}
    OBVIOUS
<1>2. p \in Policies /\ ~Barred(w, p)
    BY <1>1 DEF Targets
<1>3. w.env \in DOMAIN p.rules /\ w.p95 \in Nat
    BY <1>1, <1>2 DEF Barred
<1>4. p.rules[w.env].min \in Nat
    <2>1. p.rules[w.env].min \in Int /\ p.rules[w.env].min >= 0
        BY <1>2, <1>3 DEF Valid
    <2>2. QED
        BY <2>1
<1> DEFINE min == p.rules[w.env].min
<1>5. CASE w.env = "preview" /\ target = min
    BY <1>2, <1>4, <1>5
<1>6. CASE /\ w.env = "development" /\ w.perPod > 0
           /\ target \in {Larger(d, min) : d \in Demands(w)}
    <2>1. PICK d \in Demands(w) : target = Larger(d, min)
        BY <1>6
    <2>2. d \in Nat
        <3>1. 10 * w.p95 \in Nat /\ 7 * w.perPod \in Nat \ {0}
            BY <1>1, <1>3, <1>6
        <3>2. (10 * w.p95 + 7 * w.perPod - 1) \div (7 * w.perPod) \in Nat
            BY <3>1, CeilCovers
        <3>3. QED
            BY <3>2 DEF Demands
    <2>3. target \in Nat /\ min <= target
        BY <1>4, <2>1, <2>2 DEF Larger
    <2>4. QED
        BY <1>1, <1>2, <1>3, <1>4, <1>6, <2>1, <2>3
<1>7. QED
    BY <1>1, <1>2, <1>5, <1>6 DEF Targets

(* The headroom, and the spare replica, of a count found for development.   *)
LEMMA CountCarries ==
    ASSUME NEW w \in Workloads, w.p95 \in Nat, w.perPod \in Nat \ {0},
           NEW min \in Nat, NEW d \in Demands(w), NEW target, target = Larger(d, min)
    PROVE  /\ 10 * w.p95 <= 7 * w.perPod * target
           /\ target > min => 10 * w.p95 >= 7 * w.perPod * (target - 1)
<1> DEFINE a == 10 * w.p95
           b == 7 * w.perPod
           n == (a + b - 1) \div b
<1>1. a \in Nat /\ b \in Nat \ {0}
    OBVIOUS
<1>2. n \in Nat /\ n * b >= a /\ (n - 1) * b < a
    BY <1>1, CeilCovers
<1>3. d \in Nat /\ n <= d /\ (d = n \/ (d = n + 1 /\ n * b = a))
    BY <1>2 DEF Demands
<1>4. target \in Nat /\ n <= target /\ (target > min => target = d)
    BY <1>2, <1>3 DEF Larger
<1> HIDE DEF n
<1>5. b * n <= b * target
    BY <1>1, <1>2, <1>4, TimesMonotone
<1>6. a <= b * target
    BY <1>1, <1>2, <1>4, <1>5
<1>7. target > min => a >= b * (target - 1)
    <2>1. CASE d = n
        BY <1>1, <1>2, <1>3, <1>4, <2>1
    <2>2. CASE d = n + 1 /\ n * b = a
        BY <1>1, <1>2, <1>3, <1>4, <2>2
    <2>3. QED
        BY <1>3, <2>1, <2>2
<1>8. QED
    BY <1>6, <1>7

Sound == TypeOK /\ ProposalIsSafe /\ HeadroomKept /\ NoSpareReplica

LEMMA SoundInit == Init => Sound
BY DEF Init, Sound, TypeOK, ProposalIsSafe, HeadroomKept, NoSpareReplica, Proposed

LEMMA SoundStep == Sound /\ [Next]_vars => Sound'
<1> SUFFICES ASSUME Sound, [Next]_vars
             PROVE  Sound'
    OBVIOUS
<1> USE DEF Sound
<1>1. CASE Analyze
    <2>1. /\ workload \in Workloads /\ policy \in Policies \cup {None}
          /\ policy # None => Valid(policy)
          /\ UNCHANGED <<workload, policy>>
        BY <1>1 DEF Analyze, TypeOK
    <2>2. PICK target \in Targets(workload, policy) : rec' = Recommendation(workload, target)
        BY <1>1 DEF Analyze
    <2>3. workload.replicas \in Nat
        BY <2>1, EngineAssumption
    <2>4. CASE ~(target < workload.replicas /\ Available(workload, target))
        <3>1. rec' = [status |-> "rejected", current |-> workload.replicas,
                      target |-> workload.replicas]
            BY <2>2, <2>4 DEF Recommendation
        <3>2. QED
            BY <2>1, <2>3, <3>1
               DEF TypeOK, ProposalIsSafe, HeadroomKept, NoSpareReplica, Proposed
    <2>5. CASE target < workload.replicas /\ Available(workload, target)
        <3>1. rec' = [status |-> "proposed", current |-> workload.replicas, target |-> target]
            BY <2>2, <2>5 DEF Recommendation
        <3> DEFINE min == policy.rules[workload.env].min
        <3>2. /\ policy \in Policies /\ ~Barred(workload, policy)
              /\ min \in Nat /\ min <= target /\ target \in Nat
              /\ \/ workload.env = "preview"
                 \/ /\ workload.env = "development"
                    /\ workload.p95 \in Nat /\ workload.perPod \in Nat \ {0}
                    /\ \E d \in Demands(workload) : target = Larger(d, min)
            BY <2>1, <2>5, TargetFound
        <3>3. TypeOK'
            BY <2>1, <2>3, <3>1, <3>2 DEF TypeOK
        <3>4. ProposalIsSafe'
            <4>1. policy # None /\ Valid(policy)
                BY <2>1, <3>2, EngineAssumption
            <4>2. policy.stateless /\ policy.coverage \in 80 .. 100
                BY <4>1 DEF Valid
            <4>3. /\ workload.kind # "StatefulSet" /\ ~workload.hpa
                  /\ \A x \in policy.exclusions :
                        \E key \in DOMAIN x : Label(workload, key) # x[key]
                  /\ ~(workload.coverage < policy.coverage)
                BY <3>2, <4>2 DEF Barred, Excluded
            <4>4. workload.coverage \in Int
                BY <2>1, EngineAssumption
            <4>5. workload.desired # None => target >= workload.desired
                BY <2>5 DEF Available
            <4>6. workload.coverage >= 80
                BY <4>2, <4>3, <4>4
            <4>7. \A x \in policy.exclusions :
                     \E key \in DOMAIN x : Label(workload, key)' # x[key]
                BY <2>1, <4>3 DEF Label
            <4>8. /\ workload.env \in {"preview", "development"}
                  /\ rec'.target = target /\ target < workload.replicas /\ target >= min
                BY <2>5, <3>1, <3>2
            <4>9. QED
                BY <2>1, <4>1, <4>3, <4>5, <4>6, <4>7, <4>8 DEF ProposalIsSafe
        <3>5. HeadroomKept' /\ NoSpareReplica'
            <4>1. workload.env = "development"
                  => /\ 10 * workload.p95 <= 7 * workload.perPod * target
                     /\ target > min
                        => 10 * workload.p95 >= 7 * workload.perPod * (target - 1)
                BY <2>1, <3>2, CountCarries
            <4>2. QED
                BY <2>1, <3>1, <4>1 DEF HeadroomKept, NoSpareReplica
        <3>6. QED
            BY <3>3, <3>4, <3>5
    <2>6. QED
        BY <2>4, <2>5
<1>2. CASE UNCHANGED vars
    BY <1>2 DEF vars, TypeOK, ProposalIsSafe, HeadroomKept, NoSpareReplica, Proposed, Label
<1>3. QED
    BY <1>1, <1>2 DEF Next

LEMMA SoundInvariant == Spec => []Sound
BY SoundInit, SoundStep, PTL DEF Spec

(* Whatever policy is stored and whatever Discover returns, what is         *)
(* proposed respects every rule of the policy, the HPA, production, the     *)
(* floor of metric coverage and the disruption budget.                      *)
THEOREM ProposalsSafe == Spec => []ProposalIsSafe
<1>1. Sound => ProposalIsSafe
    BY DEF Sound
<1>2. QED
    BY <1>1, SoundInvariant, PTL

(* For any demand, request and minimum, the replicas that are left carry    *)
(* the 95th percentile with 30% headroom.                                   *)
THEOREM HeadroomHolds == Spec => []HeadroomKept
<1>1. Sound => HeadroomKept
    BY DEF Sound
<1>2. QED
    BY <1>1, SoundInvariant, PTL

(* And no more than one of them is spare.                                   *)
THEOREM SpareBounded == Spec => []NoSpareReplica
<1>1. Sound => NoSpareReplica
    BY DEF Sound
<1>2. QED
    BY <1>1, SoundInvariant, PTL

-----------------------------------------------------------------------------
(* Discovery *)

(* Of the indices of a list, one is the first. *)
LEMMA HasLeast ==
    ASSUME NEW T, T \subseteq Nat, T # {}
    PROVE  \E k \in T : \A j \in T : k <= j
<1>1. IsWellFoundedOn(OpToRel(<, Nat), Nat)
    BY NatLessThanWellFounded
<1>2. PICK k \in T : \A j \in T : <<j, k>> \notin OpToRel(<, Nat)
    BY <1>1, WFMin
<1>3. \A j \in T : ~(j < k)
    BY <1>2 DEF OpToRel
<1>4. QED
    BY <1>3

(* A percentage rounded up by hand is the least count that reaches it.      *)
LEMMA PercentRoundsUp ==
    ASSUME NEW n \in Nat, n <= 100, NEW r \in Nat
    PROVE  (n * r + 99) \div 100
           = CHOOSE m \in 0 .. r : 100 * m >= n * r /\ 100 * (m - 1) < n * r
<1> DEFINE p == n * r
           c == (p + 99) \div 100
<1>1. p \in Nat
    OBVIOUS
<1>2. p <= 100 * r
    <2>1. r * n <= r * 100
        BY TimesMonotone
    <2>2. QED
        BY <2>1
<1>3. /\ c \in Nat /\ 100 * c >= p /\ 100 * (c - 1) < p
      /\ \A m \in Nat : 100 * m >= p /\ 100 * (m - 1) < p => m = c
    <2> HIDE DEF p
    <2>1. QED
        BY <1>1
<1>4. c \in 0 .. r
    <2> HIDE DEF p
    <2>1. QED
        BY <1>1, <1>2
<1>5. \A m \in 0 .. r : 100 * m >= p /\ 100 * (m - 1) < p => m = c
    BY <1>3
<1> HIDE DEF c
<1>6. QED
    BY <1>3, <1>4, <1>5 DEF c

Counted(b) == b.desired \in Nat /\ None \in {b.min, b.max} /\ Amount(b.min) /\ Amount(b.max)

(* What Discover reads of a budget is a count.                              *)
LEMMA DesiredIsCount ==
    ASSUME NEW b, NEW n \in Nat, Counted(b)
    PROVE  DesiredHealthy(b, n) \in Nat
<1>1. CASE b.desired = 0 /\ b.min # None /\ b.min.percent
    <2>1. b.min.n * n \in Nat
        BY <1>1 DEF Counted, Amount
    <2>2. (b.min.n * n + 99) \div 100 \in Nat
        BY <2>1
    <2>3. QED
        BY <1>1, <2>2 DEF DesiredHealthy, Scaled
<1>2. CASE ~(b.desired = 0 /\ b.min # None /\ b.min.percent)
    BY <1>2 DEF Counted, Amount, DesiredHealthy, Scaled
<1>3. QED
    BY <1>1, <1>2

(* And it is what the budget asks for, unless that is a maxUnavailable      *)
(* which has not reached the status.                                        *)
LEMMA DesiredIsWanted ==
    ASSUME NEW b, NEW o, Counted(b), Readable(b), Replicas(o) \in Nat
    PROVE  DesiredHealthy(b, Replicas(o)) = Wants(b, o)
<1>1. CASE b.desired > 0
    BY <1>1 DEF DesiredHealthy, Wants
<1>2. CASE b.desired = 0 /\ b.min = None
    BY <1>2 DEF Readable, DesiredHealthy, Wants, Asks
<1>3. CASE b.desired = 0 /\ b.min # None /\ ~b.min.percent
    <2>1. Wants(b, o) = RoundedUp(b.min, Replicas(o))
        BY <1>3 DEF Wants, Asks, Counted
    <2>2. DesiredHealthy(b, Replicas(o)) = Scaled(b.min, Replicas(o))
        BY <1>3 DEF DesiredHealthy
    <2>3. QED
        BY <1>3, <2>1, <2>2 DEF RoundedUp, Scaled
<1>4. CASE b.desired = 0 /\ b.min # None /\ b.min.percent
    <2>1. (b.min.n * Replicas(o) + 99) \div 100 = RoundedUp(b.min, Replicas(o))
        BY <1>4, PercentRoundsUp DEF Counted, Amount, RoundedUp
    <2>2. Wants(b, o) = RoundedUp(b.min, Replicas(o))
        BY <1>4 DEF Wants, Asks, Counted
    <2>3. DesiredHealthy(b, Replicas(o)) = Scaled(b.min, Replicas(o))
        BY <1>4 DEF DesiredHealthy
    <2>4. QED
        BY <1>4, <2>1, <2>2, <2>3 DEF Scaled
<1>5. QED
    BY <1>1, <1>2, <1>3, <1>4 DEF Counted

(* The labels made up from a selector of labels are labels of its pods.     *)
LEMMA SampleIsOfPod ==
    ASSUME NEW s, NEW pod, Plain(s), Finite(s), Matches(s, pod)
    PROVE  \A key \in DOMAIN Sample(s) : key \in DOMAIN pod /\ Sample(s)[key] = pod[key]
<1> SUFFICES ASSUME NEW key \in DOMAIN Sample(s)
             PROVE  key \in DOMAIN pod /\ Sample(s)[key] = pod[key]
    OBVIOUS
<1> DEFINE single == {q \in s : Cardinality(q.values) = 1}
           Of(v) == \E q \in single : q.key = key /\ v \in q.values
<1>1. \A q \in single : q.op = "In" /\ \E v : q.values = {v}
    <2>1. \A q \in s : q.op = "In" /\ IsFiniteSet(q.values)
        BY DEF Plain, Finite
    <2>2. QED
        BY <2>1, FS_Singleton
<1>2. \A q \in single : q.key \in DOMAIN pod /\ pod[q.key] \in q.values
    BY <1>1 DEF Matches, Satisfies
<1>3. key \in {q.key : q \in single}
      /\ Sample(s)[key] = CHOOSE v \in UNION {q.values : q \in single} : Of(v)
    BY DEF Sample
<1>4. PICK q \in single : q.key = key
    BY <1>3
<1>5. pod[key] \in UNION {x.values : x \in single} /\ Of(pod[key])
    BY <1>2, <1>4
<1>6. \A v : Of(v) => v = pod[key]
    BY <1>1, <1>2
<1> HIDE DEF Of
<1>7. QED
    BY <1>2, <1>3, <1>4, <1>5, <1>6

(* One object of the API server, its budgets and what was discovered of it. *)
Real == \E c \in Clusters : /\ object \in c.objects /\ hpas \in c.hpas /\ budgets \in c.budgets
                            /\ reading \in c.readings /\ policy \in c.policies

Found == /\ Real
         /\ workload = None => rec = None
         /\ workload # None => workload = Workload(object)
         /\ Proposed => /\ ~workload.hpa
                        /\ workload.desired # None => rec.target >= workload.desired

LEMMA RealCounts ==
    ASSUME Real
    PROVE  /\ Replicas(object) \in Nat
           /\ object.cpu \in Nat
           /\ Finite(object.selector) /\ Matches(object.selector, object.pod)
           /\ DOMAIN budgets \subseteq Nat
           /\ \A k \in DOMAIN budgets : Finite(budgets[k].selector) /\ Counted(budgets[k])
           /\ reading.p95 \in Nat \cup {None} /\ reading.samples \in Nat
           /\ policy \in Policies \cup {None}
<1>1. PICK c \in Clusters : /\ object \in c.objects /\ budgets \in c.budgets
                            /\ reading \in c.readings /\ policy \in c.policies
    BY DEF Real
<1>2. /\ object.replicas \in Nat \cup {None} /\ object.cpu \in Nat
      /\ Finite(object.selector) /\ Matches(object.selector, object.pod)
      /\ DOMAIN budgets \subseteq Nat
      /\ \A k \in DOMAIN budgets : Finite(budgets[k].selector) /\ Counted(budgets[k])
      /\ reading.p95 \in Nat \cup {None} /\ reading.samples \in Nat
      /\ c.policies \subseteq Policies \cup {None}
    BY <1>1, ClusterAssumption DEF Counted, Amount
<1>3. QED
    BY <1>1, <1>2 DEF Replicas

(* What is discovered depends on the cluster alone. *)
LEMMA SameWorkload ==
    ASSUME UNCHANGED cluster
    PROVE  Workload(object)' = Workload(object)
<1>1. object' = object /\ hpas' = hpas /\ budgets' = budgets /\ reading' = reading
    BY DEF cluster
<1>2. HasHpa(object)' = HasHpa(object)
    BY <1>1 DEF HasHpa
<1>3. Matching(object)' = Matching(object)
    BY <1>1 DEF Matching
<1>4. MatchingPDB(object, Replicas(object))' = MatchingPDB(object, Replicas(object))
    BY <1>1, <1>3 DEF MatchingPDB
<1>5. QED
    BY <1>1, <1>2, <1>4 DEF Workload

LEMMA FoundInit == Cluster => Found
BY DEF Cluster, Found, Real, Proposed

LEMMA FoundStep == Found /\ [Discover \/ Plan]_<<cluster, vars>> => Found'
<1> SUFFICES ASSUME Found, [Discover \/ Plan]_<<cluster, vars>>
             PROVE  Found'
    OBVIOUS
<1>1. CASE Discover
    <2>1. workload = None /\ workload' = Workload(object) /\ UNCHANGED <<cluster, policy, rec>>
        BY <1>1 DEF Discover
    <2>2. rec' = None
        BY <2>1 DEF Found
    <2>3. QED
        BY <2>1, <2>2, SameWorkload DEF Found, Real, Proposed, cluster
<1>2. CASE Plan
    <2>1. /\ workload # None /\ workload = Workload(object)
          /\ UNCHANGED <<object, hpas, budgets, reading, workload, policy>>
        BY <1>2 DEF Plan, Analyze, cluster, Found
    <2>2. PICK target \in Targets(workload, policy) : rec' = Recommendation(workload, target)
        BY <1>2 DEF Plan, Analyze
    <2>3. workload.replicas \in Nat
        BY <2>1, RealCounts DEF Found, Workload
    <2>4. Real' /\ (workload # None => workload = Workload(object))'
        BY <2>1, SameWorkload DEF Found, Real, cluster
    <2>5. CASE target < workload.replicas /\ Available(workload, target)
        <3>1. rec' = [status |-> "proposed", current |-> workload.replicas, target |-> target]
            BY <2>2, <2>5 DEF Recommendation
        <3>2. target # workload.replicas
            BY <2>3, <2>5
        <3>3. ~workload.hpa
            BY <2>2, <3>2 DEF Targets, Barred
        <3>4. workload.desired # None => target >= workload.desired
            BY <2>5 DEF Available
        <3>5. QED
            BY <2>1, <2>4, <3>1, <3>3, <3>4 DEF Found, Proposed
    <2>6. CASE ~(target < workload.replicas /\ Available(workload, target))
        <3>1. rec'.status = "rejected"
            BY <2>2, <2>6 DEF Recommendation
        <3>2. QED
            BY <2>1, <2>4, <3>1 DEF Found, Proposed
    <2>7. QED
        BY <2>5, <2>6
<1>3. CASE UNCHANGED <<cluster, vars>>
    <2>1. UNCHANGED <<object, hpas, budgets, reading, workload, policy, rec>>
        BY <1>3 DEF cluster, vars
    <2>2. QED
        BY <2>1, SameWorkload DEF Found, Real, Proposed, cluster
<1>4. QED
    BY <1>1, <1>2, <1>3

LEMMA FoundInvariant == ClusterSpec => []Found
BY FoundInit, FoundStep, PTL DEF ClusterSpec

(* Whatever objects and HPAs the cluster has, a Deployment or StatefulSet   *)
(* that an HPA of its namespace names as its target is not proposed.        *)
THEOREM HpaRespected == ClusterSpec => []HpaLeftAlone
<1>1. Found => HpaLeftAlone
    <2> SUFFICES ASSUME Found, Proposed
                 PROVE  ~\E hpa \in hpas : /\ hpa.ns = object.ns
                                           /\ hpa.kind = object.kind
                                           /\ hpa.target = object.name
        BY DEF HpaLeftAlone
    <2>1. workload = Workload(object) /\ ~workload.hpa
        BY DEF Found, Proposed
    <2>2. ~HasHpa(object)
        BY <2>1 DEF Workload
    <2>3. QED
        BY <2>2 DEF HasHpa, TargetKey
<1>2. QED
    BY <1>1, FoundInvariant, PTL

(* For any clusters, whose budgets keep a count or a percentage available   *)
(* or bound what is unavailable: nothing is proposed below what the only    *)
(* budget of the namespace asks for over the workload's pods, however its   *)
(* selector is written, if its status is written or it says minAvailable.   *)
THEOREM BudgetRespected == ClusterSpec => []BudgetKept
<1>1. Found => BudgetKept
    <2> SUFFICES ASSUME Found, Proposed, NEW k \in DOMAIN budgets,
                        Restrains(k), Readable(budgets[k])
                 PROVE  rec.target >= Wants(budgets[k], object)
        BY DEF BudgetKept
    <2>1. /\ workload = Workload(object)
          /\ workload.desired # None => rec.target >= workload.desired
        BY DEF Found, Proposed
    <2>2. /\ Replicas(object) \in Nat /\ Counted(budgets[k]) /\ k \in Nat
          /\ object.selector # None
        BY RealCounts DEF Found, Matches
    <2>3. Matching(object) = {k}
        BY <2>2 DEF Matching, SelectorsOverlap, Selects, Restrains
    <2>4. (CHOOSE i \in {k} : \A j \in {k} : i <= j) = k
        BY <2>2
    <2>5. MatchingPDB(object, Replicas(object)) = DesiredHealthy(budgets[k], Replicas(object))
        BY <2>3, <2>4 DEF MatchingPDB
    <2>6. workload.desired = Wants(budgets[k], object) /\ workload.desired \in Nat
        BY <2>1, <2>2, <2>5, DesiredIsWanted, DesiredIsCount DEF Workload
    <2>7. QED
        BY <2>1, <2>6, EngineAssumption
<1>2. QED
    BY <1>1, FoundInvariant, PTL

(* For any clusters: the count that restrains a plan comes from a budget    *)
(* that selects the workload's own pods, and is what that budget asks for   *)
(* if its status is written or it says minAvailable, when all selectors are *)
(* made of labels.                                                          *)
THEOREM RestraintIsOurs == ClusterSpec => []BudgetIsOurs
<1>1. Found => BudgetIsOurs
    <2> SUFFICES ASSUME Found, workload # None, workload.desired # None, Plain(object.selector),
                        \A k \in DOMAIN budgets :
                            budgets[k].selector # None => Plain(budgets[k].selector)
                 PROVE  \E k \in DOMAIN budgets :
                           /\ Selects(budgets[k], object)
                           /\ Readable(budgets[k]) => workload.desired = Wants(budgets[k], object)
        BY DEF BudgetIsOurs
    <2>1. /\ workload.desired = MatchingPDB(object, Replicas(object))
          /\ Matching(object) # {}
        BY DEF Found, Workload, MatchingPDB
    <2>2. /\ Replicas(object) \in Nat /\ DOMAIN budgets \subseteq Nat
          /\ \A k \in DOMAIN budgets : Counted(budgets[k])
          /\ Finite(object.selector) /\ Matches(object.selector, object.pod)
        BY RealCounts DEF Found
    <2>3. Matching(object) \subseteq Nat /\ Matching(object) \subseteq DOMAIN budgets
        BY <2>2 DEF Matching
    <2>4. \E k \in Matching(object) : \A j \in Matching(object) : k <= j
        BY <2>1, <2>3, HasLeast
    <2>5. PICK k \in Matching(object) :
             MatchingPDB(object, Replicas(object)) = DesiredHealthy(budgets[k], Replicas(object))
        BY <2>1, <2>4 DEF MatchingPDB
    <2>6. Readable(budgets[k]) => workload.desired = Wants(budgets[k], object)
        BY <2>1, <2>2, <2>3, <2>5, DesiredIsWanted
    <2>7. Selects(budgets[k], object)
        <3> DEFINE s == budgets[k].selector
                   sample == Sample(object.selector)
        <3>1. budgets[k].ns = object.ns /\ Matches(s, sample)
            BY DEF Matching, SelectorsOverlap
        <3>2. \A q \in s : q.op = "In"
            BY <2>3, <3>1 DEF Plain, Matches
        <3>3. \A key \in DOMAIN sample : key \in DOMAIN object.pod /\ sample[key] = object.pod[key]
            BY <2>2, SampleIsOfPod
        <3> HIDE DEF sample
        <3>4. \A q \in s : q.key \in DOMAIN sample /\ sample[q.key] \in q.values
            BY <3>1, <3>2 DEF Matches, Satisfies
        <3>5. \A q \in s : Satisfies(object.pod, q)
            BY <3>2, <3>3, <3>4 DEF Satisfies
        <3>6. QED
            BY <3>1, <3>5 DEF Selects, Matches
    <2>8. QED
        BY <2>3, <2>6, <2>7
<1>2. QED
    BY <1>1, FoundInvariant, PTL

(* Workloads that leave out nothing an object, a reading and a budget can   *)
(* make.  TLC's are the ones of its own clusters.                           *)
Covering ==
    \A c \in Clusters : \A o \in c.objects, r \in c.readings :
    \A hpa \in BOOLEAN, coverage \in 0 .. 100, desired \in Nat \cup {None} :
        [kind |-> o.kind, env |-> Environment(o), labels |-> o.labels, hpa |-> hpa,
         replicas |-> Replicas(o), perPod |-> o.cpu, p95 |-> r.p95,
         coverage |-> coverage, desired |-> desired] \in Workloads

Whole == Found /\ (workload # None => Sound)

LEMMA Discovered == ASSUME Covering, Real PROVE Workload(object) \in Workloads
<1>1. HasHpa(object) \in BOOLEAN
    BY DEF HasHpa
<1>2. Coverage(reading) \in 0 .. 100
    <2>1. reading.samples \in Nat
        BY RealCounts
    <2>2. reading.samples < 672 => (100 * reading.samples) \div 672 \in 0 .. 100
        BY <2>1
    <2>3. QED
        BY <2>1, <2>2 DEF Coverage
<1>3. MatchingPDB(object, Replicas(object)) \in Nat \cup {None}
    <2>1. CASE Matching(object) = {}
        BY <2>1 DEF MatchingPDB
    <2>2. CASE Matching(object) # {}
        <3>1. /\ Matching(object) \subseteq Nat
              /\ \A k \in Matching(object) : Counted(budgets[k])
              /\ Replicas(object) \in Nat
            BY RealCounts DEF Matching
        <3>2. \E k \in Matching(object) : \A j \in Matching(object) : k <= j
            BY <2>2, <3>1, HasLeast
        <3>3. PICK k \in Matching(object) :
                 MatchingPDB(object, Replicas(object)) = DesiredHealthy(budgets[k], Replicas(object))
            BY <2>2, <3>2 DEF MatchingPDB
        <3>4. QED
            BY <3>1, <3>3, DesiredIsCount
    <2>3. QED
        BY <2>1, <2>2
<1>4. PICK c \in Clusters : object \in c.objects /\ reading \in c.readings
    BY DEF Real
<1>5. QED
    BY <1>1, <1>2, <1>3, <1>4 DEF Covering, Workload

LEMMA WholeStep ==
    ASSUME Covering
    PROVE  Whole /\ [Discover \/ Plan]_<<cluster, vars>> => Whole'
<1> SUFFICES ASSUME Whole, [Discover \/ Plan]_<<cluster, vars>>
             PROVE  Whole'
    OBVIOUS
<1>1. Found /\ Found'
    BY FoundStep DEF Whole
<1>2. CASE Discover
    <2>1. workload' \in Workloads /\ rec' = None /\ policy' \in Policies \cup {None}
        BY <1>1, <1>2, Discovered, RealCounts DEF Discover, Found
    <2>2. Sound'
        BY <2>1 DEF Sound, TypeOK, ProposalIsSafe, HeadroomKept, NoSpareReplica, Proposed
    <2>3. QED
        BY <1>1, <2>2 DEF Whole
<1>3. CASE Plan
    <2>1. Sound /\ [Next]_vars
        BY <1>3 DEF Plan, Whole, Next
    <2>2. QED
        BY <1>1, <2>1, SoundStep DEF Whole
<1>4. CASE UNCHANGED <<cluster, vars>>
    <2>1. [Next]_vars /\ workload' = workload
        BY <1>4 DEF vars
    <2>2. QED
        BY <1>1, <2>1, SoundStep DEF Whole
<1>5. QED
    BY <1>2, <1>3, <1>4

LEMMA WholeInvariant == ASSUME Covering PROVE ClusterSpec => []Whole
<1>1. Cluster => Whole
    BY FoundInit DEF Cluster, Whole
<1>2. Whole /\ [Discover \/ Plan]_<<cluster, vars>> => Whole'
    BY WholeStep
<1>3. QED
    BY <1>1, <1>2, PTL DEF ClusterSpec

(* Discover returns nothing that the engine's assumption leaves out, so     *)
(* counts stay counts through both.                                         *)
THEOREM DiscoveredTypes == ASSUME Covering PROVE ClusterSpec => []TypesOK
<1>1. ClusterSpec => []Whole
    BY WholeInvariant
<1>2. Whole => TypesOK
    BY DEF Whole, Found, Sound, TypeOK, TypesOK
<1>3. QED
    BY <1>1, <1>2, PTL

(* The plan made for an object of the cluster is as safe as the engine's    *)
(* theorems say of a workload.                                              *)
THEOREM ClusterPlansSafe ==
    ASSUME Covering
    PROVE  ClusterSpec => [](ProposalIsSafe /\ HeadroomKept /\ NoSpareReplica)
<1>1. ClusterSpec => []Whole
    BY WholeInvariant
<1>2. Whole => ProposalIsSafe /\ HeadroomKept /\ NoSpareReplica
    BY DEF Whole, Found, Sound, ProposalIsSafe, HeadroomKept, NoSpareReplica, Proposed
<1>3. QED
    BY <1>1, <1>2, PTL
=============================================================================
