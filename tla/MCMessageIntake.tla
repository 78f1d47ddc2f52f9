--------------------------- MODULE MCMessageIntake ---------------------------
(* MessageIntake on a small set of messages and attempts, for TLC. *)
EXTENDS MessageIntake, TLC

CONSTANTS k1, k2, a1, a2, a3

\* One message sent three times, or twice with another message beside it.  Which
\* of the attempts carries which message is a matter of their names only.
MCInit == Init /\ msg \in {a1 :> k1 @@ a2 :> k1 @@ a3 :> m : m \in {k1, k2}}

MCSpec == MCInit /\ [][Next]_vars /\ Fairness
=============================================================================
