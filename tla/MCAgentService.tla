--------------------------- MODULE MCAgentService ---------------------------
(* AgentService on small sets of requests, for TLC. *)
EXTENDS AgentService, TLC

\* The actions treat patches alike that are all in Failing and Blocking, or none;
\* used by a safety run only.
RequestSymmetry == Permutations(Patches)
=============================================================================
