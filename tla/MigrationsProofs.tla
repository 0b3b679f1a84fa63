-------------------------- MODULE MigrationsProofs --------------------------
(***************************************************************************)
(* Proofs about the start of the platform, for any number of processes     *)
(* that migrate, of activations that overlap and of drafts.                *)
(***************************************************************************)
EXTENDS Migrations, FiniteSetTheorems, TLAPS

(* A migrator has passed over or applied the files before the one it is at. *)
InOrder ==
    \A w \in Migrators :
       /\ pc[w] \in {"apply", "commit"} => file[w] \in Files
       /\ pc[w] \in {"update", "index"} => file[w] = 3
       /\ pc[w] # "off" => \A k \in Files : k < file[w] => k \in recorded

(* While the index waits for its COMMIT, no activation writes the table.    *)
IndexHeld ==
    \A w \in Migrators :
       At(w, "commit", 3) => /\ Cardinality(Active) <= 1
                             /\ \A h \in Humans : act[h] \notin {"update", "superseded"}

ActiveFinite == IsFiniteSet(Active)

Started == /\ TypeOK /\ AppliedOnce /\ OneActiveOnceIndexed
           /\ InOrder /\ IndexHeld /\ ActiveFinite

LEMMA StartedInit == Init => Started
<1> SUFFICES ASSUME Init
             PROVE  Started
    OBVIOUS
<1>1. TypeOK
    <2>1. Seed \in Policies
        BY DEF Policies
    <2>2. /\ faults \in 0 .. MaxFaults /\ recorded \subseteq Files
          /\ applied \in [Files -> Nat]
        BY MigrationsAssumption DEF Init
    <2>3. /\ pol \in [Policies -> {"absent", "draft", "active", "superseded"}]
          /\ pc \in [Migrators -> {"off", "check", "apply", "update", "index", "commit", "done"}]
          /\ file \in [Migrators -> 1 .. 4]
        BY DEF Init
    <2>4. /\ act \in [Humans -> {"none", "locked", "update", "superseded"}]
          /\ on \in [Humans -> Policies] /\ sees \in [Humans -> SUBSET Policies]
        BY <2>1 DEF Init
    <2>5. planned \in BOOLEAN
        BY DEF Init
    <2>6. QED
        BY <2>2, <2>3, <2>4, <2>5 DEF TypeOK
<1>2. Active = {}
    BY DEF Init, Active
<1>3. ActiveFinite
    BY <1>2, FS_EmptySet DEF ActiveFinite
<1>4. AppliedOnce /\ OneActiveOnceIndexed /\ InOrder /\ IndexHeld
    BY DEF Init, AppliedOnce, OneActiveOnceIndexed, InOrder, IndexHeld, At, Files
<1>5. QED
    BY <1>1, <1>3, <1>4 DEF Started

(* The index refuses exactly what OneActiveOnceIndexed forbids. *)
LEMMA RefusedTwo ==
    ASSUME NEW S, IsFiniteSet(S)
    PROVE  Refused(S) <=> ~(Cardinality(S) <= 1)
BY FS_CardinalityType DEF Refused

-----------------------------------------------------------------------------
(* Migrate *)

(* Migrator w moves to a step of the file it is at, or to the next file.    *)
LEMMA MoveStarted ==
    ASSUME Started, NEW w \in Migrators, NEW p, NEW n \in 1 .. 4,
           pc' = [pc EXCEPT ![w] = p], file' = [file EXCEPT ![w] = n],
           p \in {"off", "check", "apply", "update", "index", "commit", "done"},
           p \in {"apply", "commit"} => n \in Files,
           p \in {"update", "index"} => n = 3,
           p # "off" => \A k \in Files : k < n => k \in recorded,
           p = "commit" /\ n = 3
           => /\ Cardinality(Active) <= 1
              /\ \A h \in Humans : act[h] \notin {"update", "superseded"},
           faults' \in 0 .. MaxFaults,
           UNCHANGED <<recorded, applied, pol, activations, planned>>
    PROVE  Started'
<1> USE DEF Started, activations
<1>1. TypeOK'
    BY DEF TypeOK
<1>2. Active' = Active
    BY DEF Active
<1>3. AppliedOnce' /\ OneActiveOnceIndexed' /\ ActiveFinite'
    BY <1>2 DEF AppliedOnce, OneActiveOnceIndexed, ActiveFinite
<1>4. InOrder'
    BY DEF InOrder, TypeOK
<1>5. IndexHeld'
    BY <1>2 DEF IndexHeld, At, TypeOK
<1>6. QED
    BY <1>1, <1>3, <1>4, <1>5

LEMMA GoStarted ==
    ASSUME Started, NEW w \in Migrators, NEW p, Go(w, p),
           p \in {"off", "check", "apply", "update", "index", "commit", "done"},
           p \in {"apply", "commit"} => file[w] \in Files,
           p \in {"update", "index"} => file[w] = 3,
           p = "off" \/ pc[w] # "off",
           p = "commit" /\ file[w] = 3
           => /\ Cardinality(Active) <= 1
              /\ \A h \in Humans : act[h] \notin {"update", "superseded"},
           faults' \in 0 .. MaxFaults,
           UNCHANGED <<recorded, applied, pol, activations, planned>>
    PROVE  Started'
<1>1. file[w] \in 1 .. 4 /\ file' = [file EXCEPT ![w] = file[w]]
    BY DEF Started, TypeOK, Go
<1>2. p # "off" => \A k \in Files : k < file[w] => k \in recorded
    BY DEF Started, InOrder
<1>3. QED
    BY <1>1, <1>2, MoveStarted DEF Go

LEMMA StepsStarted ==
    ASSUME Started, NEW w \in Migrators,
           Start(w) \/ Check(w) \/ Apply(w) \/ Update(w) \/ CreateIndex(w) \/ Fails(w)
    PROVE  Started'
<1> USE DEF Started
<1>1. CASE Start(w)
    <2>1. PICK n \in 1 .. 4 : n = 1 /\ file' = [file EXCEPT ![w] = n]
        BY <1>1 DEF Start
    <2>2. \A k \in Files : ~(k < n)
        BY <2>1 DEF Files
    <2>3. QED
        BY <1>1, <2>1, <2>2, MoveStarted DEF Start, TypeOK
<1>2. CASE Check(w)
    <2>1. CASE file[w] \in recorded /\ NextFile(w)
        <3>1. file[w] + 1 \in 1 .. 4 /\ file[w] \in 1 .. 3
            BY <2>1 DEF TypeOK, Files
        <3>2. \A k \in Files : k < file[w] + 1 => k \in recorded
            BY <1>2, <2>1, <3>1 DEF Check, InOrder, Files
        <3>3. file' = [file EXCEPT ![w] = file[w] + 1] /\ pc' = [pc EXCEPT ![w] = "check"]
            BY <2>1 DEF NextFile
        <3>4. QED
            BY <1>2, <3>1, <3>2, <3>3, MoveStarted DEF Check, TypeOK
    <2>2. CASE Go(w, "apply") /\ file[w] \in Files
        BY <1>2, <2>2, GoStarted DEF Check, TypeOK
    <2>3. CASE Go(w, "done")
        BY <1>2, <2>3, GoStarted DEF Check, TypeOK
    <2>4. QED
        BY <1>2, <2>1, <2>2, <2>3 DEF Check
<1>3. CASE Apply(w)
    <2>1. file[w] \in Files
        BY <1>3 DEF Apply, InOrder
    <2>2. PICK p : /\ Go(w, p)
                   /\ p \in {"off", "commit", "update"}
                   /\ p = "commit" => file[w] # 3
                   /\ p = "update" => file[w] = 3
        BY <1>3, <2>1 DEF Apply, Files
    <2>3. QED
        BY <1>3, <2>1, <2>2, GoStarted DEF Apply, TypeOK
<1>4. CASE Update(w)
    BY <1>4, GoStarted DEF Update, InOrder, TypeOK
<1>5. CASE CreateIndex(w)
    <2>1. file[w] = 3 /\ pc[w] = "index"
        BY <1>5 DEF CreateIndex, InOrder
    <2>2. PICK p : /\ Go(w, p)
                   /\ p = "off" \/ (p = "commit" /\ ~Refused(Active))
        BY <1>5 DEF CreateIndex
    <2>3. p = "commit" => Cardinality(Active) <= 1
        BY <2>2, RefusedTwo DEF ActiveFinite
    <2>4. \A h \in Humans : act[h] \notin {"update", "superseded"}
        BY <1>5 DEF CreateIndex, Written
    <2>5. QED
        BY <1>5, <2>1, <2>2, <2>3, <2>4, GoStarted DEF CreateIndex, TypeOK, Files
<1>6. CASE Fails(w)
    <2>1. faults' \in 0 .. MaxFaults
        BY <1>6, MigrationsAssumption DEF Fails, Fault, TypeOK
    <2>2. QED
        BY <1>6, <2>1, GoStarted DEF Fails
<1>7. QED
    BY <1>1, <1>2, <1>3, <1>4, <1>5, <1>6

(* The COMMIT of a file and its version.  The seed's row comes before the   *)
(* index, which is built over what is there.                                *)
LEMMA CommitsFile ==
    ASSUME Started, NEW w \in Migrators, pc[w] = "commit", file[w] \notin recorded,
           recorded' = recorded \cup {file[w]}, Does(file[w]),
           NextFile(w) \/ Go(w, "off"),
           faults' \in 0 .. MaxFaults,
           UNCHANGED <<activations, planned>>
    PROVE  Started'
<1> DEFINE n == file[w]
<1> USE DEF Started, activations
<1>1. n \in Files /\ n \in 1 .. 3 /\ \A k \in Files : k < n => k \in recorded
    BY DEF InOrder, Files
<1>2. \A k \in Files : k > n => k \notin recorded
    BY <1>1 DEF AppliedOnce, Files
<1>3. applied[n] = 0 /\ applied' = [applied EXCEPT ![n] = 1]
    <2>1. applied[n] = 0
        BY <1>1 DEF AppliedOnce
    <2>2. QED
        BY <2>1 DEF Does
<1>4. /\ pol' \in [Policies -> {"absent", "draft", "active", "superseded"}]
      /\ n # 2 => pol' = pol
      /\ Active' \subseteq Active \cup {Seed}
    <2>1. pol' = pol \/ (n = 2 /\ pol' = [pol EXCEPT ![Seed] = "active"])
        BY DEF Does
    <2>2. QED
        BY <2>1 DEF TypeOK, Active
<1>5. /\ pc' \in [Migrators -> {"off", "check", "apply", "update", "index", "commit", "done"}]
      /\ file' \in [Migrators -> 1 .. 4]
      /\ \A x \in Migrators : x # w => pc'[x] = pc[x] /\ file'[x] = file[x]
      /\ \/ pc'[w] = "check" /\ file'[w] = n + 1
         \/ pc'[w] = "off" /\ file'[w] = n
    BY <1>1 DEF TypeOK, NextFile, Go
<1>6. TypeOK'
    BY <1>1, <1>3, <1>4, <1>5 DEF TypeOK, Files
<1>7. AppliedOnce'
    BY <1>1, <1>2, <1>3 DEF AppliedOnce, TypeOK, Files
<1>8. ActiveFinite'
    <2>1. IsFiniteSet(Active \cup {Seed})
        BY FS_AddElement DEF ActiveFinite
    <2>2. QED
        BY <1>4, <2>1, FS_Subset DEF ActiveFinite
<1>9. OneActiveOnceIndexed'
    <2>1. CASE n = 3
        <3>1. Cardinality(Active) <= 1
            BY <2>1 DEF IndexHeld, At
        <3>2. Active' = Active
            BY <1>4, <2>1 DEF Active
        <3>3. QED
            BY <3>1, <3>2 DEF OneActiveOnceIndexed
    <2>2. CASE n # 3
        <3>1. applied'[3] = applied[3] /\ (n = 2 => applied[3] = 0)
            BY <1>1, <1>2, <1>3, <2>2 DEF TypeOK, AppliedOnce, Files
        <3>2. n # 2 => Active' = Active
            BY <1>4 DEF Active
        <3>3. QED
            BY <3>1, <3>2 DEF OneActiveOnceIndexed
    <2>3. QED
        BY <2>1, <2>2
<1>10. InOrder'
    BY <1>1, <1>5 DEF InOrder, Files
<1>11. IndexHeld'
    <2> SUFFICES ASSUME NEW x \in Migrators, At(x, "commit", 3)'
                 PROVE  /\ Cardinality(Active)' <= 1
                        /\ \A h \in Humans : act'[h] \notin {"update", "superseded"}
        BY DEF IndexHeld
    <2>1. x # w /\ At(x, "commit", 3)
        BY <1>5 DEF At
    <2>2. n # 2
        BY <2>1 DEF InOrder, At, Files
    <2>3. Active' = Active
        BY <1>4, <2>2 DEF Active
    <2>4. QED
        BY <2>1, <2>3 DEF IndexHeld
<1>12. QED
    BY <1>6, <1>7, <1>8, <1>9, <1>10, <1>11

LEMMA RecordStarted ==
    ASSUME Started, NEW w \in Migrators, Record(w)
    PROVE  Started'
<1>1. CASE file[w] \in recorded /\ Go(w, "off") /\ UNCHANGED <<recorded, applied, pol, faults>>
    BY <1>1, GoStarted DEF Record, Started, TypeOK
<1>2. CASE ~(file[w] \in recorded /\ Go(w, "off") /\ UNCHANGED <<recorded, applied, pol, faults>>)
    <2>1. faults' \in 0 .. MaxFaults
        BY <1>2, MigrationsAssumption DEF Record, Fault, Started, TypeOK
    <2>2. QED
        BY <1>2, <2>1, CommitsFile DEF Record
<1>3. QED
    BY <1>1, <1>2

-----------------------------------------------------------------------------
(* The server and the collector *)

(* Steps of an activation that leave the policies as they are.              *)
LEMMA ActivationKept ==
    ASSUME Started,
           act' \in [Humans -> {"none", "locked", "update", "superseded"}],
           on' \in [Humans -> Policies], sees' \in [Humans -> SUBSET Policies],
           \A h \in Humans : act'[h] \in {"update", "superseded"}
                             => \/ act[h] \in {"update", "superseded"}
                                \/ ~\E x \in Migrators : Shares(x),
           UNCHANGED <<recorded, applied, pol, migrators, planned, faults>>
    PROVE  Started'
<1> USE DEF Started, migrators
<1>1. TypeOK'
    BY DEF TypeOK
<1>2. Active' = Active
    BY DEF Active
<1>3. IndexHeld'
    BY <1>2 DEF IndexHeld, At, Shares
<1>4. QED
    BY <1>1, <1>2, <1>3 DEF AppliedOnce, OneActiveOnceIndexed, InOrder,
                            ActiveFinite

LEMMA EndTypes ==
    ASSUME TypeOK, NEW h \in Humans, End(h)
    PROVE  /\ act' \in [Humans -> {"none", "locked", "update", "superseded"}]
           /\ on' \in [Humans -> Policies] /\ sees' \in [Humans -> SUBSET Policies]
           /\ \A g \in Humans : act'[g] \in {"update", "superseded"} => act'[g] = act[g]
BY DEF TypeOK, End, Policies

LEMMA ActivationStarted ==
    ASSUME Started, NEW h \in Humans,
           \/ \E p \in Drafts : Begin(h, p)
           \/ StartUpdate(h) \/ Supersede(h) \/ Rollback(h)
    PROVE  Started'
<1>1. CASE \E p \in Drafts : Begin(h, p)
    BY <1>1, ActivationKept DEF Begin, Started, TypeOK, Policies
<1>2. CASE StartUpdate(h)
    <2>1. Active \in SUBSET Policies
        BY DEF Active
    <2>2. QED
        BY <1>2, <2>1, ActivationKept DEF StartUpdate, Started, TypeOK
<1>3. CASE Supersede(h)
    BY <1>3, ActivationKept DEF Supersede, Started, TypeOK
<1>4. CASE Rollback(h)
    BY <1>4, EndTypes, ActivationKept DEF Rollback, Started
<1>5. QED
    BY <1>1, <1>2, <1>3, <1>4

(* The second UPDATE: no index is being committed, and one that is there    *)
(* lets at most one active policy through.                                  *)
LEMMA CommitStarted ==
    ASSUME Started, NEW h \in Humans, Commit(h)
    PROVE  Started'
<1> DEFINE then == [p \in Policies |-> IF p = on[h] THEN "active"
                                       ELSE IF p \in sees[h] THEN "superseded" ELSE pol[p]]
           new == {p \in Policies : then[p] = "active"}
<1>1. act[h] = "superseded" /\ End(h) /\ UNCHANGED <<recorded, applied, migrators, planned, faults>>
    BY DEF Commit
<1>2. CASE pol' = pol
    BY <1>1, <1>2, EndTypes, ActivationKept DEF Started
<1>3. CASE pol' = then /\ ~(applied[3] > 0 /\ Refused(new))
    <2> USE DEF Started, migrators
    <2>1. on[h] \in Policies /\ then \in [Policies -> {"absent", "draft", "active", "superseded"}]
        BY DEF TypeOK
    <2>2. TypeOK'
        BY <1>1, <1>3, <2>1, EndTypes DEF TypeOK
    <2>3. Active' = new
        BY <1>3 DEF Active
    <2>4. ActiveFinite' /\ IsFiniteSet(new)
        <3>1. new \subseteq Active \cup {on[h]}
            BY <2>1 DEF Active
        <3>2. IsFiniteSet(Active \cup {on[h]})
            BY FS_AddElement DEF ActiveFinite
        <3>3. QED
            BY <2>3, <3>1, <3>2, FS_Subset DEF ActiveFinite
    <2>5. OneActiveOnceIndexed'
        BY <1>1, <1>3, <2>3, <2>4, RefusedTwo DEF OneActiveOnceIndexed
    <2>6. IndexHeld'
        BY <1>1 DEF IndexHeld, At
    <2>7. AppliedOnce' /\ InOrder'
        BY <1>1 DEF AppliedOnce, InOrder
    <2>8. QED
        BY <2>2, <2>4, <2>5, <2>6, <2>7
<1>4. QED
    BY <1>2, <1>3 DEF Commit

LEMMA SaveDraftStarted ==
    ASSUME Started, NEW p \in Drafts, SaveDraft(p)
    PROVE  Started'
<1> USE DEF Started, SaveDraft, migrators, activations
<1>1. TypeOK'
    BY DEF TypeOK, Policies
<1>2. Active' = Active
    BY DEF Active, TypeOK
<1>3. QED
    BY <1>1, <1>2 DEF AppliedOnce, OneActiveOnceIndexed, InOrder, IndexHeld, At,
                      ActiveFinite

LEMMA AnalyzeStarted ==
    ASSUME Started, NEW p \in Policies, Analyze(p)
    PROVE  Started'
<1> USE DEF Started, Analyze, migrators, activations
<1>1. TypeOK'
    BY DEF TypeOK
<1>2. Active' = Active
    BY DEF Active
<1>3. QED
    BY <1>1, <1>2 DEF AppliedOnce, OneActiveOnceIndexed, InOrder, IndexHeld, At, ActiveFinite

LEMMA VictimStarted ==
    ASSUME Started, Victim
    PROVE  Started'
<1>1. ASSUME NEW w \in Migrators, Go(w, "off"),
             UNCHANGED <<recorded, applied, pol, activations, planned, faults>>
      PROVE  Started'
    BY <1>1, GoStarted DEF Started, TypeOK
<1>2. ASSUME NEW w \in Migrators, NEW x \in Migrators, DeadlockOfFiles(w, x)
      PROVE  Started'
    BY <1>1, <1>2 DEF DeadlockOfFiles
<1>3. ASSUME NEW w \in Migrators, NEW h \in Humans, DeadlockOfActivation(w, h)
      PROVE  Started'
    <2>1. CASE Go(w, "off") /\ UNCHANGED activations
        BY <1>1, <1>3, <2>1 DEF DeadlockOfActivation
    <2>2. CASE End(h) /\ UNCHANGED migrators
        BY <1>3, <2>2, EndTypes, ActivationKept DEF DeadlockOfActivation, Started
    <2>3. QED
        BY <1>3, <2>1, <2>2 DEF DeadlockOfActivation
<1>4. QED
    BY <1>2, <1>3 DEF Victim

-----------------------------------------------------------------------------
LEMMA StartedStep == Started /\ [Next]_vars => Started'
<1> SUFFICES ASSUME Started, [Next]_vars
             PROVE  Started'
    OBVIOUS
<1>1. CASE \E w \in Migrators : Migrate(w)
    BY <1>1, StepsStarted, RecordStarted DEF Migrate
<1>2. CASE \E h \in Humans : (\E p \in Drafts : Begin(h, p)) \/ Activation(h) \/ Rollback(h)
    BY <1>2, ActivationStarted, CommitStarted DEF Activation
<1>3. CASE UNCHANGED vars
    BY <1>3, ActivationKept DEF vars, activations, Started, TypeOK
<1>4. QED
    BY <1>1, <1>2, <1>3, VictimStarted, SaveDraftStarted, AnalyzeStarted DEF Next

THEOREM StartedInvariant == Spec => []Started
BY StartedInit, StartedStep, PTL DEF Spec

(* Every variable stays in its type. *)
THEOREM TypesHold == Spec => []TypeOK
<1>1. Started => TypeOK
    BY DEF Started
<1>2. QED
    BY <1>1, StartedInvariant, PTL

(* However many processes migrate, die and start again, each file is in the *)
(* database once if it is recorded and not at all otherwise, in order.      *)
THEOREM FilesAppliedOnce == Spec => []AppliedOnce
<1>1. Started => AppliedOnce
    BY DEF Started
<1>2. QED
    BY <1>1, StartedInvariant, PTL

(* Once the index is there, one policy is active at most, whatever          *)
(* activations began before it: they and the index wait for each other's    *)
(* locks, and each counts what the other has committed.                     *)
THEOREM OneActive == Spec => []OneActiveOnceIndexed
<1>1. Started => OneActiveOnceIndexed
    BY DEF Started
<1>2. QED
    BY <1>1, StartedInvariant, PTL
=============================================================================
