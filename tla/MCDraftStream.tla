--------------------------- MODULE MCDraftStream ---------------------------
(***************************************************************************)
(* Two attempts, so that they may collide on a version, each with an       *)
(* answer that is not safe or one whose policy closes with its first or    *)
(* its last delta; two deltas, so that an answer can be cut on either side *)
(* of that.                                                                *)
(***************************************************************************)
EXTENDS DraftStream

CONSTANTS a1, a2

MCAttempts == {a1, a2}
=============================================================================
