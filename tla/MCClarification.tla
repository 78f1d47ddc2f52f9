--------------------------- MODULE MCClarification ---------------------------
(* ClarificationDialog on small sets of drafts, for TLC. *)
EXTENDS ClarificationDialog, TLC

CONSTANTS x, y, z

MCNames == {x, y, z}

\* Lists of distinct names.
NameLists(S) == UNION {{s \in [1..n -> S] : IsInjective(s)} : n \in 0..3}

Item(field, options) ==
    <<[field |-> field, index |-> 0, text |-> NoText, options |-> options]>>

\* A vague degree or city comes with options; a vague span of work years, or a
\* preference that no field expresses, with options or without.
ModelItems ==
    {<<>>, Item("minimum_degree", "model"), Item("work_years", "model"),
     Item("work_years", "none"), Item("other", "model"), Item("other", "none"),
     Item("expected_city", "model")}

\* The model makes a code up for every condition, or for none.
DraftWith(names, degree, city, other, unsupported, unresolved, items, code) ==
    [names |-> names,
     codes |-> IF code = "forged" THEN [i \in DOMAIN names |-> "forged"] ELSE <<>>,
     value |-> [minimum_degree |-> degree, current_city |-> "absent", expected_city |-> city],
     code |-> [minimum_degree |-> IF degree = "said" THEN code ELSE "none",
               current_city |-> "none",
               expected_city |-> IF city = "said" THEN code ELSE "none"],
     other |-> other, unsupported |-> unsupported, unresolved |-> unresolved,
     ambiguities |-> items]

\* Every kind of condition, with at most one name.
MixedDrafts ==
    {DraftWith(n, d, c, o, u, r, i, k) :
        n \in {<<>>, <<x>>}, d \in {"absent", "said"}, c \in {"absent", "said"},
        o \in BOOLEAN, u \in {0, 2}, r \in BOOLEAN, i \in ModelItems, k \in {"none", "forged"}}

\* Up to three names and a degree.
ListDrafts ==
    {DraftWith(n, d, "absent", FALSE, 0, FALSE, <<>>, "none") :
        n \in NameLists(MCNames), d \in {"absent", "said"}}

AllDrafts == MixedDrafts \cup ListDrafts
=============================================================================
