------------------------- MODULE ClarificationDialog -------------------------
(***************************************************************************)
(* From a parsed draft to an executable plan, with the clarification       *)
(* dialogue in between: plan_validation.py, entity_resolution.py,          *)
(* clarification_service.py, the clarify node and                          *)
(* AgentService._apply_structured_answer / _handle_non_search_answer.      *)
(*                                                                         *)
(* The dialogue of one draft: every round validates it, resolves its       *)
(* entities through the Java service, asks about the first open item or    *)
(* saves the plan; the answer is applied to the stored draft and starts    *)
(* the next round.  What other requests do to the pending card is the      *)
(* subject of AgentService.                                                *)
(*                                                                         *)
(* company stands for the three list fields (company, school,              *)
(* school_level), which the code treats alike; `other' for the conditions  *)
(* that need no resolution.  Texts are model values, an entity code is     *)
(* known by where it comes from.                                           *)
(***************************************************************************)
EXTENDS Naturals, Sequences, SequencesExt

CONSTANTS
    Names,        \* company names a user may mention
    Drafts        \* the drafts the model may return, see Draft

Cities  == {"current_city", "expected_city"}
Scalars == Cities \cup {"minimum_degree"}
Fields  == Scalars \cup {"company", "work_years", "location.scope", "other"}

\* Java's answer for a text: one entity, several candidates, nothing.
Verdicts == {"one", "many", "none"}

\* The text of an item that is no company name.
NoText == "no text"

\* An Ambiguity: its field path has a position, index, for a list field only;
\* text is the company name it is about; options where its options come from.
Ambiguity == {a \in [field : Fields, index : Nat, text : Names \cup {NoText},
                     options : {"none", "model", "java"}] :
                 a.field = "company" <=> a.index > 0}

\* Where an entity code comes from: the model made it up in its draft, the user
\* chose an option the model had offered, or Java.
Codes == {"forged", "option", "java"}

\* A SearchPlanDraft.  value: a field is absent, as the user said it, or the
\* label of a chosen option.
Draft == [names       : Seq(Names),                       \* company.names
          codes       : Seq(Codes),                       \* company.resolved
          value       : [Scalars -> {"absent", "said", "chosen"}],
          code        : [Scalars -> Codes \cup {"none"}],
          other       : BOOLEAN,
          unsupported : Nat,                              \* unsupported_conditions
          unresolved  : BOOLEAN,                          \* unresolved_location
          ambiguities : Seq(Ambiguity)]

ASSUME DraftsAssumption == Drafts \subseteq Draft

Kinds == {"UNSUPPORTED_CONDITION", "LOCATION_SCOPE", "ENTITY_AMBIGUITY",
          "ENTITY_NOT_FOUND", "MESSAGE_INTENT"}

NoCard == [kind |-> "none", field |-> "other", index |-> 0, text |-> NoText,
           options |-> "none"]

VARIABLES
    verdict,    \* Java's answer for each text of the draft
    draft,      \* the draft of the run or of the pending card
    resolved,   \* AgentState.entities_resolved
    phase,      \* validate, resolve, clarify, asked, saved, dismissed
    card,       \* the pending card
    refused,    \* the last answer to the card was refused
    owed,       \* history: unsupported conditions the user has not given up
    consulted   \* history: Java has been asked about the draft

vars == <<verdict, draft, resolved, phase, card, refused, owed, consulted>>

Init ==
    /\ draft \in Drafts
    /\ verdict \in [ToSet(draft.names) \cup Scalars -> Verdicts]
    /\ resolved = FALSE
    /\ phase = "validate"
    /\ card = NoCard
    /\ refused = FALSE
    /\ owed = draft.unsupported
    /\ consulted = FALSE

-----------------------------------------------------------------------------
(* plan_validation.py, graph.py *)

NoConditions(d) ==
    d.names = <<>> /\ ~d.other /\ \A f \in Scalars : d.value[f] = "absent"

\* validate_draft: a city whose scope is not known is an ambiguity of its own.
Ambiguities(d) ==
    d.ambiguities \o (IF d.unresolved THEN <<[field |-> "location.scope", index |-> 0,
                                              text |-> NoText, options |-> "model"]>>
                      ELSE <<>>)

Executable(d) ==
    /\ Ambiguities(d) = <<>>
    /\ d.unsupported = 0
    /\ d.unresolved \/ ~NoConditions(d)

\* Mutated form: a saved plan leaves the card where it is.
CardKept(p) == card

\* the save_plan node clears the pending card.
CardOn(p) == IF p = "saved" THEN NoCard ELSE card

\* _after_validation
Validate ==
    /\ phase = "validate"
    /\ phase' = IF ~Executable(draft) THEN "clarify"
                ELSE IF resolved THEN "saved" ELSE "resolve"
    /\ card' = CardOn(phase')
    /\ UNCHANGED <<verdict, draft, resolved, refused, owed, consulted>>

-----------------------------------------------------------------------------
(* entity_resolution.py *)

\* Java knows the degrees of the closed list the model offers.
ScalarVerdict(d, f) == IF d.value[f] = "chosen" THEN "one" ELSE verdict[f]

Open(field, index, text, answer) ==
    IF answer = "one" THEN <<>>
    ELSE <<[field |-> field, index |-> index, text |-> text,
            options |-> IF answer = "many" THEN "java" ELSE "none"]>>

OpenScalar(d, f) ==
    IF d.value[f] = "absent" THEN <<>> ELSE Open(f, 0, NoText, ScalarVerdict(d, f))

\* Mutated form: what the model made up is kept.
CodesBeforeKept(d) == d.codes

\* The codes the draft has before Java's are written into it.
CodesBefore(d) == <<>>

\* resolve_draft_entities: only unique answers become codes; the rest is asked.
Resolved(d) ==
    LET unique == FlattenSeq([i \in DOMAIN d.names |->
                    IF verdict[d.names[i]] = "one" THEN <<"java">> ELSE <<>>])
        open == FlattenSeq([i \in DOMAIN d.names |->
                    Open("company", i, d.names[i], verdict[d.names[i]])])
    IN [d EXCEPT
          !.codes = CodesBefore(d) \o unique,
          !.code = [f \in Scalars |->
                      IF d.value[f] # "absent" /\ ScalarVerdict(d, f) = "one"
                      THEN "java" ELSE "none"],
          !.ambiguities = d.ambiguities \o OpenScalar(d, "minimum_degree") \o open
                          \o OpenScalar(d, "current_city") \o OpenScalar(d, "expected_city")]

\* Mutated form: what Java left open is not validated again.
ExecutableAnyway(d) == TRUE

\* _after_resolution
ExecutableNow(d) == Executable(d)

Resolve ==
    /\ phase = "resolve"
    /\ draft' = Resolved(draft)
    /\ phase' = IF ExecutableNow(draft') THEN "saved" ELSE "clarify"
    /\ card' = CardOn(phase')
    /\ consulted' = TRUE
    /\ UNCHANGED <<verdict, resolved, refused, owed>>

-----------------------------------------------------------------------------
(* The clarify node *)

\* One question at a time, about the first open item.
CardFor(d) ==
    LET first == Head(Ambiguities(d)) IN
    IF d.unsupported > 0 THEN [NoCard EXCEPT !.kind = "UNSUPPORTED_CONDITION"]
    ELSE IF d.unresolved THEN
        [NoCard EXCEPT !.kind = "LOCATION_SCOPE", !.field = "location.scope"]
    ELSE IF Ambiguities(d) # <<>> THEN
        [kind |-> IF first.options = "none" THEN "ENTITY_NOT_FOUND" ELSE "ENTITY_AMBIGUITY",
         field |-> first.field, index |-> first.index, text |-> first.text,
         options |-> first.options]
    ELSE [NoCard EXCEPT !.kind = "MESSAGE_INTENT"]

Clarify ==
    /\ phase = "clarify"
    /\ card' = CardFor(draft)
    /\ phase' = "asked"
    /\ refused' = FALSE
    /\ UNCHANGED <<verdict, draft, resolved, owed, consulted>>

-----------------------------------------------------------------------------
(* Answers to the pending card *)

\* Written without SelectSeq, which the provers do not know.
Without(d, field, index) ==
    LET answered(a) == a.field = field /\ a.index = index
        items == d.ambiguities
    IN [d EXCEPT !.ambiguities =
          FlattenSeq([i \in DOMAIN items |-> IF answered(items[i]) THEN <<>> ELSE <<items[i]>>])]

\* The next round starts with the changed draft; the card stays until the
\* round asks again or saves.
Continue(d, skipResolution) ==
    /\ draft' = d
    /\ resolved' = skipResolution
    /\ phase' = "validate"
    /\ refused' = FALSE
    /\ UNCHANGED <<verdict, card, consulted>>

\* The answer cannot be applied: the request fails and the card stays.
Refuse ==
    /\ refused' = TRUE
    /\ UNCHANGED <<verdict, draft, resolved, phase, card, owed, consulted>>

\* RESTATE, and any answer to an intent card, end the dialogue.
Dismiss ==
    /\ phase = "asked"
    /\ card.kind \in {"UNSUPPORTED_CONDITION", "ENTITY_NOT_FOUND", "MESSAGE_INTENT"}
    /\ phase' = "dismissed"
    /\ card' = NoCard
    /\ refused' = FALSE
    /\ UNCHANGED <<verdict, draft, resolved, owed, consulted>>

\* `data["unsupported_conditions"][1:]`
Remaining(n) == n - 1

IgnoreUnsupported ==
    /\ phase = "asked" /\ card.kind = "UNSUPPORTED_CONDITION"
    /\ Continue([draft EXCEPT !.unsupported = Remaining(@)], FALSE)
    /\ owed' = owed - 1

\* apply_location_answer
ChooseScope ==
    /\ phase = "asked" /\ card.kind = "LOCATION_SCOPE"
    /\ \E f \in Cities :
        Continue([Without(draft, "location.scope", 0) EXCEPT
                    !.unresolved = FALSE, !.value[f] = "said", !.code[f] = "none"], FALSE)
    /\ UNCHANGED owed

\* An option becomes a code as it is, whether Java or the model offered it.
CodeOf(c) == IF c.options = "java" THEN "java" ELSE "option"

\* apply_entity_answer: what choosing an option of the card does to the draft.
Chosen(d, c) ==
    CASE c.field = "work_years"     -> [d EXCEPT !.other = TRUE]
      [] c.field = "minimum_degree" -> [d EXCEPT !.value[c.field] = "chosen",
                                                 !.code[c.field] = "none"]
      [] c.field \in Cities         -> [d EXCEPT !.code[c.field] = CodeOf(c)]
      [] OTHER                      -> [d EXCEPT !.codes = Append(@, CodeOf(c))]

\* The code has to be written into a condition that is there; a span of work
\* years may turn out to be unreadable.
Choosable(d, c) ==
    \/ c.field \in {"minimum_degree", "work_years"}
    \/ c.field \in Cities /\ d.value[c.field] # "absent"
    \/ c.field = "company" /\ d.names # <<>>

\* `card.field not in {"minimum_degree", "work_years"}`
SkipsResolution(field) == field \notin {"minimum_degree", "work_years"}

ChooseOption ==
    /\ phase = "asked" /\ card.kind = "ENTITY_AMBIGUITY"
    /\ \/ /\ Choosable(draft, card)
          /\ Continue(Without(Chosen(draft, card), card.field, card.index),
                      SkipsResolution(card.field))
          /\ UNCHANGED owed
       \/ (card.field = "work_years" \/ ~Choosable(draft, card)) /\ Refuse

\* Mutated form: the value stays, only the question is removed.
DroppedNothing(names, index) == names

\* The value at the index is dropped, if the list still reaches that far.
Dropped(names, index) ==
    IF index \in DOMAIN names THEN RemoveAt(names, index) ELSE names

\* _remove_unresolved_entity
IgnoreNotFound ==
    /\ phase = "asked" /\ card.kind = "ENTITY_NOT_FOUND"
    /\ \/ /\ card.field = "company"
          /\ LET names == Dropped(draft.names, card.index) IN
             Continue([Without(draft, "company", card.index) EXCEPT
                         !.names = names,
                         !.codes = IF names = <<>> THEN <<>> ELSE @], FALSE)
          /\ UNCHANGED owed
       \/ /\ card.field \in Scalars
          /\ Continue([Without(draft, card.field, 0) EXCEPT
                         !.value[card.field] = "absent", !.code[card.field] = "none"], FALSE)
          /\ UNCHANGED owed
       \/ card.field \notin Scalars \cup {"company"} /\ Refuse

Answer == Dismiss \/ IgnoreUnsupported \/ ChooseScope \/ ChooseOption \/ IgnoreNotFound

Next == Validate \/ Resolve \/ Clarify \/ Answer

Spec == Init /\ [][Next]_vars

\* The graph runs, and the user answers every card in a way it accepts.
FairSpec ==
    /\ Spec
    /\ WF_vars(Validate \/ Resolve \/ Clarify)
    /\ WF_vars(Answer /\ ~refused')

-----------------------------------------------------------------------------
TypeOK ==
    /\ draft \in Draft
    /\ resolved \in BOOLEAN
    /\ phase \in {"validate", "resolve", "clarify", "asked", "saved", "dismissed"}
    /\ card \in [kind : Kinds \cup {"none"}, field : Fields, index : Nat,
                 text : Names \cup {NoText}, options : {"none", "model", "java"}]
    /\ phase = "asked" => card # NoCard
    /\ phase \in {"saved", "dismissed"} => card = NoCard
    /\ refused \in BOOLEAN
    /\ owed \in Nat
    /\ consulted \in BOOLEAN

\* Once Java has been asked about a draft, no code the model made up in it reaches
\* the saved plan, through any number of rounds, also those that skip the
\* resolution (resolve_draft_entities clears the codes).
NoForgedCode ==
    phase = "saved" /\ consulted =>
        /\ \A i \in DOMAIN draft.codes : draft.codes[i] # "forged"
        /\ \A f \in Scalars : draft.code[f] # "forged"

\* A plan is saved only when nothing is left to ask and the user has given up
\* every unsupported condition, one by one.
NothingGivenUpSilently ==
    phase = "saved" => /\ owed = 0
                       /\ Ambiguities(draft) = <<>>
                       /\ ~NoConditions(draft)

\* A card that refuses every answer: its options belong to a condition that is
\* not there, or that no option can be written into.
DeadEnd == phase = "asked" /\ card.kind = "ENTITY_AMBIGUITY" /\ ~Choosable(draft, card)

\* A user who goes on choosing and ignoring comes to the end of the questions,
\* although answers send the draft back to be resolved and asked about again.
DialogEnds == <>(phase \in {"saved", "dismissed"} \/ DeadEnd)

-----------------------------------------------------------------------------
(* What the documentation says and the code does not keep; see README. *)

\* agent_service.py, _apply_structured_answer: when resolution is skipped, the
\* other codes of the draft come from the last call of Java, so every condition
\* of a saved plan has one.
SavedIsResolved ==
    phase = "saved" =>
        /\ \A f \in Scalars :
              draft.value[f] # "absent" => draft.code[f] \notin {"none", "forged"}
        /\ draft.names # <<>> => draft.codes # <<>>
=============================================================================
