----------------------------- MODULE Migrations -----------------------------
(***************************************************************************)
(* The start of the platform: Migrate (internal/database/database.go) in   *)
(* several processes, one transaction per file, beside a server and a      *)
(* collector, which WaitForMigrations lets go as soon as the tables of the *)
(* first file are there.                                                   *)
(*                                                                         *)
(* What a transaction has changed is in the tables from its commit on.     *)
(* Until then pc and act say what it has done, and its locks follow from   *)
(* that: UPDATE holds ROW EXCLUSIVE on policy_versions from its start on,  *)
(* CREATE INDEX holds SHARE, and changed rows stay locked.                 *)
(*                                                                         *)
(* A statement that fails and changes nothing is the action not taken,     *)
(* unless its process goes on differently.                                 *)
(***************************************************************************)
EXTENDS Policy, FiniteSets

CONSTANTS Migrators,    \* processes that run "kubesqueeze migrate"
          Humans,       \* activations that may be in flight together
          Drafts,       \* policies that are drafted while the platform starts
          Seed,         \* policy-acme-v1, of file 2
          MaxFaults     \* bound on deaths and failed statements

ASSUME MigrationsAssumption == Seed \notin Drafts /\ MaxFaults \in Nat

Policies == Drafts \cup {Seed}
Files == 1 .. 3         \* initial, seed, typed_seed_policy

VARIABLES recorded,     \* schema_migrations
          applied,      \* how often what a file does is in the database
          pol,          \* policy_versions.status, "absent" without a row
          pc, file,     \* the step of each migrator and the file it is at
          act, on,      \* the step of each activation and its draft
          sees,         \* the active policies in the snapshot of its UPDATE
          planned,      \* history: an analysis has built plans under a policy
          faults

migrators == <<pc, file>>
activations == <<act, on, sees>>
vars == <<recorded, applied, pol, migrators, activations, planned, faults>>

TypeOK ==
    /\ recorded \subseteq Files
    /\ applied \in [Files -> Nat]
    /\ pol \in [Policies -> {"absent", "draft", "active", "superseded"}]
    /\ pc \in [Migrators -> {"off", "check", "apply", "update", "index", "commit", "done"}]
    /\ file \in [Migrators -> 1 .. 4]
    /\ act \in [Humans -> {"none", "locked", "update", "superseded"}]
    /\ on \in [Humans -> Policies]
    /\ sees \in [Humans -> SUBSET Policies]
    /\ planned \in BOOLEAN
    /\ faults \in 0 .. MaxFaults

Init ==
    /\ recorded = {}
    /\ applied = [n \in Files |-> 0]
    /\ pol = [p \in Policies |-> "absent"]
    /\ pc = [w \in Migrators |-> "off"]
    /\ file = [w \in Migrators |-> 1]
    /\ act = [h \in Humans |-> "none"]
    /\ on = [h \in Humans |-> Seed]
    /\ sees = [h \in Humans |-> {}]
    /\ planned = FALSE
    /\ faults = 0

Fault == faults < MaxFaults /\ faults' = faults + 1

Active == {p \in Policies : pol[p] = "active"}

\* Mutant: the index of file 3 is not UNIQUE.
NeverRefused(policies) == FALSE

\* The unique index of file 3 holds one active policy per tenant.
Refused(policies) == Cardinality(policies) > 1

-----------------------------------------------------------------------------
(* Locks *)

At(w, step, n) == pc[w] = step /\ file[w] = n

\* x has locked the seed's row and its index is built or waits to be built: who
\* wants to write the table waits behind it.
Shares(x) == pc[x] = "index" \/ At(x, "commit", 3)

\* Another transaction writes the table: no index can be built.
Written(w) == \/ \E x \in Migrators \ {w} : pc[x] = "update"
              \/ \E h \in Humans : act[h] \in {"update", "superseded"}

\* The row of p, locked by an activation that has superseded it.
Superseding(h, p) == \E g \in Humans \ {h} : act[g] = "superseded" /\ p \in sees[g]

-----------------------------------------------------------------------------
(* Migrate *)

Go(w, step) == pc' = [pc EXCEPT ![w] = step] /\ UNCHANGED file

NextFile(w) == /\ pc' = [pc EXCEPT ![w] = "check"]
                /\ file' = [file EXCEPT ![w] = @ + 1]

Start(w) == /\ pc[w] = "off"
            /\ pc' = [pc EXCEPT ![w] = "check"]
            /\ file' = [file EXCEPT ![w] = 1]
            /\ UNCHANGED <<recorded, applied, pol, activations, planned, faults>>

\* Mutant: the last name is not the end.
CheckOn(w) ==
    /\ pc[w] = "check"
    /\ IF file[w] \in Files \ recorded THEN Go(w, "apply") ELSE NextFile(w)
    /\ UNCHANGED <<recorded, applied, pol, activations, planned, faults>>

\* A name that schema_migrations has is passed over; BeginTx for another one.
Check(w) ==
    /\ pc[w] = "check"
    /\ \/ file[w] \in recorded /\ NextFile(w)
       \/ file[w] \in Files \ recorded /\ Go(w, "apply")
       \/ file[w] \notin Files /\ Go(w, "done")
    /\ UNCHANGED <<recorded, applied, pol, activations, planned, faults>>

\* What another transaction has created or inserted makes this one wait for its
\* end.
Apply(w) ==
    /\ pc[w] = "apply"
    /\ ~\E x \in Migrators \ {w} : At(x, "commit", file[w])
    /\ file[w] = 3 => ~\E x \in Migrators \ {w} : Shares(x)
    /\ Go(w, CASE file[w] = 1 -> IF applied[1] = 0 THEN "commit" ELSE "off"
               [] file[w] = 2 -> \* ON CONFLICT (id) says nothing of the version
                                 IF applied[2] = 0 /\ \E p \in Drafts : pol[p] # "absent"
                                 THEN "off" ELSE "commit"
               [] file[w] = 3 -> "update")
    /\ UNCHANGED <<recorded, applied, pol, activations, planned, faults>>

Update(w) ==
    /\ pc[w] = "update"
    /\ ~\E x \in Migrators \ {w} : Shares(x)
    /\ \A h \in Humans : ~(act[h] = "superseded" /\ Seed \in sees[h])
    /\ Go(w, "index")
    /\ UNCHANGED <<recorded, applied, pol, activations, planned, faults>>

\* Two active policies, or an index of that name, end Migrate with an error.
CreateIndex(w) ==
    /\ pc[w] = "index"
    /\ ~Written(w)
    /\ Go(w, IF Refused(Active) \/ applied[3] > 0 THEN "off" ELSE "commit")
    /\ UNCHANGED <<recorded, applied, pol, activations, planned, faults>>

\* What a file does, once its transaction commits.
Does(n) == /\ applied' = [applied EXCEPT ![n] = @ + 1]
           /\ pol' = IF n = 2 /\ pol[Seed] = "absent"
                     THEN [pol EXCEPT ![Seed] = "active"] ELSE pol

\* The version's INSERT, which the primary key refuses the second time, and the
\* COMMIT, whose answer may be lost.
Record(w) ==
    /\ pc[w] = "commit"
    /\ \/ /\ file[w] \in recorded
          /\ Go(w, "off")
          /\ UNCHANGED <<recorded, applied, pol, faults>>
       \/ /\ file[w] \notin recorded
          /\ recorded' = recorded \cup {file[w]}
          /\ Does(file[w])
          /\ \/ NextFile(w) /\ UNCHANGED faults
             \/ Go(w, "off") /\ Fault
    /\ UNCHANGED <<activations, planned>>

\* Mutant: the file and its version are no transaction.
FailsHalfway(w) ==
    /\ pc[w] \notin {"off", "done"}
    /\ Fault
    /\ Go(w, "off")
    /\ IF pc[w] = "commit" THEN Does(file[w]) ELSE UNCHANGED <<applied, pol>>
    /\ UNCHANGED <<recorded, activations, planned>>

\* A statement fails or the process dies: the transaction is rolled back, and
\* the Job starts the pod again.
Fails(w) == /\ pc[w] \notin {"off", "done"}
            /\ Fault
            /\ Go(w, "off")
            /\ UNCHANGED <<recorded, applied, pol, activations, planned>>

-----------------------------------------------------------------------------
(* The server *)

\* The transaction of an activation ends.
End(h) == /\ act' = [act EXCEPT ![h] = "none"]
          /\ on' = [on EXCEPT ![h] = Seed]
          /\ sees' = [sees EXCEPT ![h] = {}]

\* WaitForMigrations looks for the jobs table only.
Ready == applied[1] > 0

\* Mutant: tenant_id without REFERENCES.
AnyTenant == TRUE

\* policy_versions.tenant_id and workload_snapshots.cluster_id refer to rows of
\* file 2.
HasTenant == applied[2] > 0

SaveDraft(p) ==
    /\ Ready /\ HasTenant
    /\ pol[p] = "absent"
    /\ ~\E x \in Migrators : Shares(x)
    /\ pol' = [pol EXCEPT ![p] = "draft"]
    /\ UNCHANGED <<recorded, applied, migrators, activations, planned, faults>>

\* SELECT ... FOR UPDATE of the draft.
Begin(h, p) ==
    /\ act[h] = "none"
    /\ pol[p] = "draft"
    /\ \A g \in Humans : act[g] # "none" => on[g] # p
    /\ act' = [act EXCEPT ![h] = "locked"]
    /\ on' = [on EXCEPT ![h] = p]
    /\ UNCHANGED <<recorded, applied, pol, migrators, sees, planned, faults>>

\* UPDATE ... SET status='superseded' gets its table lock and its snapshot, and
\* then waits for the rows that are active in it.
StartUpdate(h) ==
    /\ act[h] = "locked"
    /\ ~\E x \in Migrators : Shares(x)
    /\ act' = [act EXCEPT ![h] = "update"]
    /\ sees' = [sees EXCEPT ![h] = Active]
    /\ UNCHANGED <<recorded, applied, pol, migrators, on, planned, faults>>

Supersede(h) ==
    /\ act[h] = "update"
    /\ \A p \in sees[h] : ~Superseding(h, p)
    /\ Seed \in sees[h] => ~\E x \in Migrators : pc[x] = "index"
    /\ act' = [act EXCEPT ![h] = "superseded"]
    /\ UNCHANGED <<recorded, applied, pol, migrators, on, sees, planned, faults>>

\* The second UPDATE, which the index may refuse, and the COMMIT.
Commit(h) ==
    LET then == [p \in Policies |-> IF p = on[h] THEN "active"
                                    ELSE IF p \in sees[h] THEN "superseded" ELSE pol[p]]
    IN  /\ act[h] = "superseded"
        /\ End(h)
        /\ pol' = IF applied[3] > 0 /\ Refused({p \in Policies : then[p] = "active"})
                  THEN pol ELSE then
        /\ UNCHANGED <<recorded, applied, migrators, planned, faults>>

\* The client goes or a statement fails: the deferred Rollback.
Rollback(h) ==
    /\ act[h] # "none"
    /\ End(h)
    /\ UNCHANGED <<recorded, applied, pol, migrators, planned, faults>>

\* w waits to build the index for an UPDATE that waits for w's row: PostgreSQL
\* ends one of the two transactions.
DeadlockOfFiles(w, x) ==
    /\ pc[w] = "index" /\ pc[x] = "update"
    /\ \E victim \in {w, x} : Go(victim, "off")
    /\ UNCHANGED <<recorded, applied, pol, activations, planned, faults>>

DeadlockOfActivation(w, h) ==
    /\ pc[w] = "index" /\ act[h] = "update" /\ Seed \in sees[h]
    /\ \/ Go(w, "off") /\ UNCHANGED activations
       \/ End(h) /\ UNCHANGED migrators
    /\ UNCHANGED <<recorded, applied, pol, planned, faults>>

-----------------------------------------------------------------------------
(* The collector *)

Exclusions == {[x \in {"customer-demo"} |-> "true"], [x \in {"app"} |-> "payment-simulator"]}

\* What file 2 has of a policy: its environments stand where the decoder does
\* not look for them, and the coverage and both flags are not in it.
SeededBody == [rules |-> <<>>, exclusions |-> Exclusions,
               coverage |-> 0, approval |-> FALSE, stateless |-> FALSE]

TypedBody ==
    [rules |-> [e \in {"production", "development", "preview"} |->
                  CASE e = "production"  -> [allowed |-> {}, min |-> 1]
                    [] e = "development" -> [allowed |-> {"scale-replicas", "schedule-sleep"}, min |-> 1]
                    [] e = "preview"     -> [allowed |-> {"scale-to-zero"}, min |-> 0]],
     exclusions |-> Exclusions, coverage |-> 80, approval |-> TRUE, stateless |-> TRUE]

\* What the collector decodes.  Any valid body does for a draft: a draft was
\* validated before it was saved.
Body(p) == IF p = Seed /\ applied[3] = 0 THEN SeededBody ELSE TypedBody

\* An analysis under policy p.  Those that end with an error before ReplaceOpen,
\* activePolicy's of a body that is not valid among them, change nothing here;
\* the startup analysis is followed by the scheduled ones.
Analyze(p) ==
    /\ Ready /\ HasTenant
    /\ p \in Active
    /\ Valid(Body(p))
    /\ planned' = TRUE
    /\ UNCHANGED <<recorded, applied, pol, migrators, activations, faults>>

Victim == \E w \in Migrators : \/ \E x \in Migrators : DeadlockOfFiles(w, x)
                               \/ \E h \in Humans : DeadlockOfActivation(w, h)
Migrate(w) == \/ Start(w) \/ Check(w) \/ Apply(w) \/ Update(w) \/ CreateIndex(w)
              \/ Record(w) \/ Fails(w)
Activation(h) == StartUpdate(h) \/ Supersede(h) \/ Commit(h)

Next == \/ \E w \in Migrators : Migrate(w)
        \/ \E h \in Humans : (\E p \in Drafts : Begin(h, p)) \/ Activation(h) \/ Rollback(h)
        \/ Victim
        \/ \E p \in Drafts : SaveDraft(p)
        \/ \E p \in Policies : Analyze(p)

\* The Job starts its pod again, a process goes on unless it waits for a lock,
\* and the collector's ticker ticks.  Strong fairness of the statements that wait
\* for locks: PostgreSQL serves those who wait in their order.
Fairness == /\ \A w \in Migrators : /\ WF_vars(Start(w)) /\ WF_vars(Check(w))
                                    /\ WF_vars(Apply(w)) /\ SF_vars(Update(w))
                                    /\ WF_vars(CreateIndex(w)) /\ WF_vars(Record(w))
                                    /\ \A x \in Migrators : WF_vars(DeadlockOfFiles(w, x))
                                    /\ \A h \in Humans : WF_vars(DeadlockOfActivation(w, h))
            /\ \A h \in Humans : SF_vars(Activation(h))
            /\ WF_vars(\E p \in Policies : Analyze(p))

Spec == Init /\ [][Next]_vars
FairSpec == Spec /\ Fairness

-----------------------------------------------------------------------------
(* Properties *)

\* However many processes migrate and wherever they die, a file is in the
\* database once if it is recorded and not at all otherwise, and after all the
\* files before it: Migrate's one transaction per file.
AppliedOnce ==
    \A n \in Files : /\ applied[n] = IF n \in recorded THEN 1 ELSE 0
                     /\ n \in recorded => \A k \in 1 .. n : k \in recorded

\* Activations that began before the index existed cannot end beside it with two
\* active policies (file 3 and activatePolicy).
OneActiveOnceIndexed == applied[3] > 0 => Cardinality(Active) <= 1

\* Overlapping migrators, deadlocks, deaths, drafts and activations do not keep
\* the platform from starting: all files get applied and an analysis builds
\* plans.  Two cases are left out: two activations that overlap before the index
\* is there leave two active policies, which the index refuses until one is
\* superseded; and transactions could go on for ever to deadlock (the pod's
\* back-off of ten seconds and more keeps them apart).
PlatformStarts ==
    [](Cardinality(Active) <= 1) /\ <>[][~Victim]_vars
        => <>(recorded = Files /\ planned)
=============================================================================
