----------------------------- MODULE MCPlanPatch -----------------------------
(* PlanPatch on small sets of payloads and drafts, for TLC. *)
EXTENDS PlanPatch, TLC

CONSTANTS a, b, l

\* Every word but the one-character b is spelled with b and l.
MCLetters == (a :> {b, l}) @@ (b :> {b})

Said(S) == [t \in {a, b, l} |-> IF t \in S THEN 1 ELSE 0]

With(shape, S, special, forged, extra) ==
    [shape |-> shape, values |-> Said(S), special |-> special, forged |-> forged,
     extra |-> extra]

MCPayloads ==
    {With("object", {a}, FALSE, FALSE, FALSE), With("object", {b}, TRUE, FALSE, FALSE),
     With("object", {a, b}, FALSE, TRUE, FALSE), With("object", {a}, FALSE, FALSE, TRUE),
     With("alias", {b}, FALSE, FALSE, FALSE), With("text", {a}, FALSE, FALSE, FALSE),
     With("none", {}, TRUE, FALSE, FALSE), With("bare", {a}, FALSE, FALSE, FALSE)}

Cond(S, special, forged) ==
    [values |-> Said(S), special |-> special,
     codes |-> [t \in {a, b, l, Forged} |-> IF forged /\ t = Forged THEN 1 ELSE 0]]

Choices(f) ==
    {Cond({}, FALSE, FALSE)} \cup
    (IF f \in ListFields THEN {Cond({a}, TRUE, FALSE), Cond({b}, FALSE, TRUE)}
     ELSE {Cond({a}, FALSE, FALSE), Cond({b}, FALSE, FALSE)})

MCDrafts == {d \in [Fields -> UNION {Choices(f) : f \in Fields}] :
                \A f \in Fields : d[f] \in Choices(f)}
=============================================================================
