----------------------------- MODULE MCDiscovery -----------------------------
(***************************************************************************)
(* Two families of clusters.  Selecting: selectors of labels and of each   *)
(* operator, a budget of its own namespace, of another one, or both in     *)
(* either order, counts and percentages, HPAs that share a name with the   *)
(* object or with its target.  Deciding: every combination of what         *)
(* BuildForPolicy looks at, with values at and beside each boundary:       *)
(* coverage 79 and 80, a quotient that is whole (70m of 100m) and one that *)
(* is not, counts around the minimum and the budget, an exclusion of a     *)
(* value and of "".                                                        *)
(***************************************************************************)
EXTENDS Discovery

Eq(key, v) == [key |-> key, op |-> "In", values |-> {v}]

MCSelectors == {{Eq("app", "api")},
                {Eq("app", "api"), Eq("tier", "web")},
                {Eq("app", "api"), [key |-> "tier", op |-> "NotIn", values |-> {"web"}]},
                {[key |-> "app", op |-> "In", values |-> {"api", "job"}]},
                {[key |-> "tier", op |-> "Exists", values |-> {}]},
                {[key |-> "tier", op |-> "DoesNotExist", values |-> {}], Eq("app", "api")}}

MCPods == {[app |-> "api"], [app |-> "api", tier |-> "web"], [app |-> "api", tier |-> "db"]}

MCNamespaces == {"prod", "preview-7", "dev", "team", "kube-system"}
MCPrefixOf == [ns \in MCNamespaces |-> CASE ns = "prod"      -> "prod"
                                         [] ns = "preview-7" -> "preview"
                                         [] ns = "dev"       -> "dev"
                                         [] OTHER            -> ""]

\* The API server accepts an object whose selector matches its pods.
MCObjects == {o \in [kind : {"Deployment", "StatefulSet"}, ns : MCNamespaces, name : {"api"},
                     labels : {<<>>, [environment |-> "development"]},
                     selector : MCSelectors, pod : MCPods, replicas : {None, 5}, cpu : {100}] :
                /\ Matches(o.selector, o.pod)
                /\ o.kind = "StatefulSet" => o.ns = "dev" /\ o.labels = <<>>}

MCHpas == {{}, {[ns |-> "dev", name |-> "auto", kind |-> "Deployment", target |-> "api"]},
           {[ns |-> "team", name |-> "api", kind |-> "Deployment", target |-> "other"]}}

MCMins == {None, [percent |-> FALSE, n |-> 4], [percent |-> TRUE, n |-> 50]}
MCMaxes == {[percent |-> FALSE, n |-> 1], [percent |-> TRUE, n |-> 30]}
MCOver == {None, {}} \cup MCSelectors
MCBudget == [ns : {"dev", "preview-7"}, selector : MCOver, desired : {0, 3},
             min : MCMins, max : {None}]
            \cup [ns : {"dev"}, selector : MCOver, desired : {0, 3},
                  min : {None}, max : MCMaxes]
MCBudgets == {<<>>} \cup {<<b>> : b \in MCBudget}
             \cup {<<a, b>> : a \in {c \in MCBudget : /\ c.desired = 3 /\ c.min = None /\ c.max = None
                                                   /\ c.selector \in {None, {}, {Eq("app", "api")}}},
                              b \in MCBudget}

MCReadings == {[p95 |-> None, samples |-> 0], [p95 |-> 105, samples |-> 700]}

MCRule(actions, n) == [allowed |-> actions, min |-> n]
MCUsual == {[rules |-> [e \in {"production", "development", "preview"} |->
                              CASE e = "production"  -> MCRule({}, 1)
                                [] e = "development" -> MCRule({"scale-replicas"}, 1)
                                [] e = "preview"     -> MCRule({"scale-to-zero"}, 0)],
             exclusions |-> {}, coverage |-> 80, approval |-> TRUE, stateless |-> TRUE]}

Selecting == [objects |-> MCObjects, hpas |-> MCHpas, budgets |-> MCBudgets,
              readings |-> MCReadings, policies |-> MCUsual]

MCEnvs == {"production", "preview", "development"}
MCRules == [allowed : SUBSET {"scale-replicas", "scale-to-zero"}, min : {-1, 0, 1}]
MCStored == {[rules |-> [e \in envs |-> rule], exclusions |-> x[1], coverage |-> 80,
              approval |-> TRUE, stateless |-> x[2]] :
                 envs \in {MCEnvs, MCEnvs \ {"production"}}, rule \in MCRules,
                 x \in ({{}, {[demo |-> "true"]}, {[demo |-> ""]}} \X {TRUE}) \cup {<<{}, FALSE>>}}

MCPlain == {o \in [kind : {"Deployment", "StatefulSet"}, ns : {"prod", "preview-7", "dev"},
                   name : {"api"}, labels : {<<>>, [demo |-> "true"]}, selector : {{Eq("app", "api")}},
                   pod : {[app |-> "api"]}, replicas : {0, 2, 3}, cpu : {0, 100}] :
               o.kind = "StatefulSet" => o.labels = <<>>}
MCOwned == {[ns |-> ns, name |-> "auto", kind |-> "Deployment", target |-> "api"] :
               ns \in {"prod", "preview-7", "dev"}}
MCDesired(n) == [k \in 1 .. 3 |-> [ns |-> <<"prod", "preview-7", "dev">>[k],
                                   selector |-> {Eq("app", "api")}, desired |-> n,
                                   min |-> None, max |-> None]]

Deciding == [objects |-> MCPlain, hpas |-> {{}, MCOwned},
             budgets |-> {<<>>, MCDesired(1), MCDesired(2)},
             readings |-> [p95 : {None, 0, 10, 70, 150}, samples : {531, 538}],
             policies |-> MCStored \cup {None}]

MCClusters == {Selecting, Deciding}
MCPolicies == MCUsual \cup MCStored
MCWorkloads == [kind : {"Deployment", "StatefulSet"},
                env : {"production", "preview", "development", "unknown"},
                labels : {<<>>, [environment |-> "development"], [demo |-> "true"]},
                hpa : BOOLEAN, replicas : {0, 1, 2, 3, 5}, perPod : {0, 100},
                p95 : {None, 0, 10, 70, 105, 150}, coverage : {0, 79, 80, 100},
                desired : {None} \cup 0 .. 4]
=============================================================================
