--------------------------- MODULE MCResultPaging ---------------------------
(* ResultPaging on short lists, for TLC. *)
EXTENDS ResultPaging
=============================================================================
