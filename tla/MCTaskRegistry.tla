--------------------------- MODULE MCTaskRegistry ---------------------------
(* TaskRegistry on a small set of tasks, for TLC. *)
EXTENDS TaskRegistry
=============================================================================
