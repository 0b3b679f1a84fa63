---------------------------- MODULE MCMigrations ----------------------------
(***************************************************************************)
(* Two migrators (kind-up.sh deletes the Job and applies it again), two    *)
(* overlapping activations, two drafts.                                    *)
(***************************************************************************)
EXTENDS Migrations

CONSTANTS m1, m2, h1, h2, d1, d2, seed

MCMigrators == {m1, m2}
MCHumans == {h1, h2}
MCDrafts == {d1, d2}
=============================================================================
