--------------------------- MODULE MCAuditStream ---------------------------
(* Five rows, two of them per query, so that a query can leave some behind, *)
(* and two faults: a gap and a broken connection, or a break and a reload.  *)
EXTENDS AuditStream
=============================================================================
