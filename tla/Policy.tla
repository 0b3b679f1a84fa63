------------------------------- MODULE Policy --------------------------------
(***************************************************************************)
(* What Validate of internal/policy/model.go admits.  A policy is decoded  *)
(* to [rules, exclusions, coverage, approval, stateless], where rules maps *)
(* an environment to [allowed, min] and exclusions are sets of labels; a   *)
(* field that the JSON does not have decodes to its zero value.            *)
(***************************************************************************)
EXTENDS Integers

Actions == {"scale-replicas", "scale-to-zero", "schedule-sleep"}

Valid(p) ==
    /\ DOMAIN p.rules # {}
    /\ p.coverage \in 80 .. 100
    /\ p.approval /\ p.stateless
    /\ \A e \in DOMAIN p.rules : /\ e = "production" => p.rules[e].allowed = {}
                                 /\ p.rules[e].min >= 0
                                 /\ p.rules[e].allowed \subseteq Actions
    /\ \A x \in p.exclusions : DOMAIN x # {}
=============================================================================
