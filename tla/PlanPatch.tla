------------------------------ MODULE PlanPatch ------------------------------
(***************************************************************************)
(* The turns of a conversation that make and change one search plan:       *)
(* domain/plan.py, parse_plan, resolve_entities, save_plan and             *)
(* compile_search of orchestration/nodes.py, plan_validation.py and        *)
(* search_compiler.py.                                                     *)
(*                                                                         *)
(* A turn has the model write a new draft, or a patch whose operations are *)
(* applied one after the other to a copy of the current conditions; any of *)
(* them may be refused, and the plan then stays.  The model's output is    *)
(* whatever passes the outer schema: an operation carries a payload that   *)
(* nobody has looked into.  One turn at a time: AgentService says what     *)
(* happens when several overlap, ClarificationDialog how a question is     *)
(* answered; a turn that has to ask ends here.                             *)
(*                                                                         *)
(* A condition is abstracted to how often each text occurs in it, the      *)
(* codes it carries and one attribute.  The order of a list decides only   *)
(* which index a card names (ClarificationDialog).                         *)
(***************************************************************************)
EXTENDS Naturals, Functions

CONSTANTS
    Fields,         \* the supported fields in use
    Words,          \* what the user may say: a name, a label, a degree, a city
    Letters,        \* the characters of a word, as texts of their own
    NumericCodes,   \* the texts whose Java code is a number
    Payloads,       \* the values the model may write into an operation
    Drafts,         \* the conditions the model may write into a first draft
    MaxValues,      \* max_length of the list conditions
    MaxOperations,  \* max_length of PlanPatch.operations
    MaxVersion,     \* bound on the number of plans
    Forged          \* a code the model made up

SupportedField == {"applicant_name", "candidate_position", "minimum_degree",
                   "work_years", "company", "school", "expected_city",
                   "current_city", "school_level"}
ListFields == {"company", "school", "school_level"}
CityFields == {"current_city", "expected_city"}
\* The fields whose values Java turns into codes, and those with an attribute.
CodedFields == ListFields \cup CityFields \cup {"minimum_degree"}
SpecialFields == CityFields \cup {"applicant_name", "candidate_position", "company",
                                  "school_level"}

Texts == Words \cup UNION {Letters[w] : w \in Words}

Nothing == [t \in Texts |-> 0]
NoCodes == [t \in Texts \cup {Forged} |-> 0]

\* special: FUZZY, CURRENT, first_degree_only, or a city scope that is not the
\* field's own.
Condition == [values : [Texts -> Nat], codes : [Texts \cup {Forged} -> Nat],
              special : BOOLEAN]
NoCondition == [values |-> Nothing, codes |-> NoCodes, special |-> FALSE]
Present(c) == c.values # Nothing

\* The JSON of PlanPatchItem.value.  shape: the values under the right key, or
\* under `value`, `name` or `label`; a list key with a plain string, or with
\* nothing; no object at all.  extra: a key the condition does not have.
Payload == [shape : {"object", "alias", "text", "none", "bare"}, values : [Texts -> Nat],
            special : BOOLEAN, forged : BOOLEAN, extra : BOOLEAN]

ASSUME PatchAssumption ==
    /\ Fields \subseteq SupportedField
    /\ Letters \in [Words -> SUBSET Texts]
    /\ Forged \notin Texts
    /\ Payloads \subseteq Payload
    /\ MaxValues \in Nat \ {0} /\ MaxOperations \in Nat /\ MaxVersion \in Nat

VARIABLES
    version,     \* of the current plan, 0 before the first
    conditions,  \* the conditions of the current plan
    phase,       \* idle, patching, drafted, resolve, save, search
    edit,        \* `values` of apply_plan_patch, then the draft
    done,        \* operations applied so far
    cue,         \* the messages of the turn say what a city is to the candidate
    basis,       \* previous_conditions, all absent when the draft is a new one
    outcome,     \* how the last turn ended
    touched      \* history: the operations of this turn on each field

vars == <<version, conditions, phase, edit, done, cue, basis, outcome, touched>>

NoConditions == [f \in Fields |-> NoCondition]
Untouched == [f \in Fields |-> {}]

Init ==
    /\ version = 0
    /\ conditions = NoConditions
    /\ phase = "idle"
    /\ edit = NoConditions
    /\ done = 0
    /\ cue = FALSE
    /\ basis = NoConditions
    /\ outcome = "none"
    /\ touched = Untouched

\* The turn is over; nothing of its draft stays.
EndTurn(result) ==
    /\ phase' = "idle"
    /\ edit' = NoConditions
    /\ done' = 0
    /\ cue' = FALSE
    /\ basis' = NoConditions
    /\ touched' = Untouched
    /\ outcome' = result

-----------------------------------------------------------------------------
(* The condition models and _normalize_patch_value *)

\* names, labels: Field(min_length=1, max_length=20); one value elsewhere.
SizeFits(f, values) ==
    /\ values # Nothing
    /\ SumFunction(values) <= (IF f \in ListFields THEN MaxValues ELSE 1)

\* validate_location_scopes
ScopesFit(values) == \A f \in Fields \cap CityFields : ~values[f].special

\* SearchConditions, as parsing and the database hand it over.
Conditions ==
    {c \in [Fields -> Condition] :
        /\ \A f \in Fields :
            /\ Present(c[f]) => SizeFits(f, c[f].values)
            /\ ~Present(c[f]) => c[f] = NoCondition
            /\ f \notin CodedFields => c[f].codes = NoCodes
        /\ ScopesFit(c)}

ASSUME DraftAssumption == Drafts \subseteq Conditions

\* A single value of a list under another key is put under the right one.
Normalized(f, p) ==
    IF f \in ListFields /\ p.shape = "alias" THEN [p EXCEPT !.shape = "object"] ELSE p

\* model_validate: StrictModel forbids keys the condition does not have.
WellFormed(f, p) ==
    /\ p.shape = "object"
    /\ ~p.extra
    /\ p.special => f \in SpecialFields
    /\ p.forged => f \in CodedFields
    /\ SizeFits(f, p.values)

Written(p) ==
    [values |-> p.values, special |-> p.special,
     codes |-> IF p.forged THEN [NoCodes EXCEPT ![Forged] = 1] ELSE NoCodes]

-----------------------------------------------------------------------------
(* _merge_add_value *)

\* `list(incoming.get(list_key) or [])`: a plain string becomes its characters.
Incoming(p) ==
    CASE p.shape = "object" -> p.values
      [] p.shape = "text" ->
            [t \in Texts |->
                IF \E w \in Words : p.values[w] > 0 /\ t \in Letters[w] THEN 1 ELSE 0]
      [] OTHER -> Nothing

\* Mutated form: the incoming list takes the place of the existing one.
IncomingOnly(existing, incoming) == incoming

\* Mutated form: values that are there already are added once more.
Concatenated(existing, incoming) == [t \in Texts |-> existing[t] + incoming[t]]

\* Incoming values that are not in the list yet are appended.
Union(existing, incoming) ==
    [t \in Texts |-> IF existing[t] > 0 THEN existing[t] ELSE incoming[t]]

\* The other attributes stay, but first_degree_only is kept once it was said.
Merged(f, c, p) ==
    [values |-> Union(c.values, Incoming(p)), codes |-> c.codes,
     special |-> c.special \/ (f = "school_level" /\ p.special)]

-----------------------------------------------------------------------------
(* apply_plan_patch: the body of its loop, for ADD and REPLACE *)

Merges(op, f, c) == op = "ADD" /\ f \in ListFields /\ Present(c)

\* Mutated form: the merged list is stored as it is.
MergeAccepted(f, c, p) == p.shape # "bare"

\* Only an object has a list to merge; the result is validated again.
MergeFits(f, c, p) == p.shape # "bare" /\ SizeFits(f, Merged(f, c, p).values)

Accepts(op, f, c, p) ==
    IF Merges(op, f, c) THEN MergeFits(f, c, p) ELSE WellFormed(f, p)

Changed(op, f, c, p) == IF Merges(op, f, c) THEN Merged(f, c, p) ELSE Written(p)

\* Mutated form: the exception leaves the node as it was raised.
RefusalUnmapped(op, f, c, p) == IF p.shape = "bare" THEN "AttributeError" ELSE "ValidationError"

\* A payload that is no object raises AttributeError in the merge; everything
\* else a ValidationError, which parse_plan turns into a ModelOutputError.
Refusal(op, f, c, p) ==
    IF Merges(op, f, c) /\ p.shape = "bare" THEN "INTERNAL_ERROR" ELSE "MODEL_ERROR"

-----------------------------------------------------------------------------
(* The turn: parse_plan *)

\* The model sees the current plan and answers with a patch based on it; a
\* patch based on another version is refused.
StartPatch ==
    /\ phase = "idle" /\ version \in 1..(MaxVersion - 1)
    /\ \/ /\ phase' = "patching"
          /\ edit' = conditions
          /\ basis' = conditions
          /\ cue' \in BOOLEAN
          /\ UNCHANGED <<done, outcome, touched>>
       \/ EndTurn("MODEL_ERROR")
    /\ UNCHANGED <<version, conditions>>

\* Any other route, also an answer in free text, and every turn before the
\* first plan: parse_search_draft starts from nothing.
StartDraft ==
    /\ phase = "idle" /\ version < MaxVersion
    /\ phase' = "drafted"
    /\ edit' \in Drafts
    /\ cue' \in BOOLEAN
    /\ touched' = [f \in Fields |-> {"RESET"}]
    /\ UNCHANGED <<version, conditions, done, basis, outcome>>

\* One operation took effect on some fields.
Applied(op, fields, values) ==
    /\ edit' = values
    /\ done' = done + 1
    /\ touched' = [f \in Fields |-> IF f \in fields THEN touched[f] \cup {op}
                                    ELSE touched[f]]
    /\ UNCHANGED <<version, conditions, phase, cue, basis, outcome>>

CanApply == phase = "patching" /\ done < MaxOperations

Reset == CanApply /\ Applied("RESET", Fields, NoConditions)

\* Mutated form: every condition goes.
AllCleared(values, f) == NoConditions

Cleared(values, f) == [values EXCEPT ![f] = NoCondition]

Remove(f) == CanApply /\ Applied("REMOVE", {f}, Cleared(edit, f))

AddOrReplace(op, f, p) ==
    /\ CanApply
    /\ \/ /\ Accepts(op, f, edit[f], p)
          /\ Applied(op, {f}, [edit EXCEPT ![f] = Changed(op, f, edit[f], p)])
       \/ /\ ~Accepts(op, f, edit[f], p)
          /\ EndTurn(Refusal(op, f, edit[f], p))
          /\ UNCHANGED <<version, conditions>>

\* The last operation was applied: SearchConditions.model_validate.
FinishPatch ==
    /\ phase = "patching"
    /\ \/ ScopesFit(edit) /\ phase' = "drafted"
          /\ UNCHANGED <<edit, done, cue, basis, outcome, touched>>
       \/ ~ScopesFit(edit) /\ EndTurn("MODEL_ERROR")
    /\ UNCHANGED <<version, conditions>>

-----------------------------------------------------------------------------
(* plan_validation.py *)

Cities(values) == {f \in Fields \cap CityFields : Present(values[f])}

\* enforce_location_scope_clarification: a bare city that the model has put into
\* one field is asked about.
BareCity == ~cue /\ Cities(basis) = {} /\ \E f \in CityFields : Cities(edit) = {f}

Empty(values) == \A f \in Fields : ~Present(values[f])

\* validate_draft, and the conditional edge after it: the draft goes on unless
\* something has to be asked, which the model may also demand by itself; a patch
\* without operations always does.
Validate ==
    /\ phase = "drafted"
    /\ \/ EndTurn("NEEDS_CLARIFICATION")
       \/ /\ ~BareCity /\ ~Empty(edit) /\ (touched # Untouched)
          /\ phase' = "resolve"
          /\ UNCHANGED <<edit, done, cue, basis, outcome, touched>>
    /\ UNCHANGED <<version, conditions>>

-----------------------------------------------------------------------------
(* entity_resolution.py: Java knows every value, or there is something to ask *)

\* Mutated form: codes that are there already are kept.
ResolvedOnce(f, c) ==
    [c EXCEPT !.codes =
        IF f \in CodedFields /\ @ = NoCodes
        THEN [t \in Texts \cup {Forged} |-> IF t \in Texts THEN c.values[t] ELSE 0]
        ELSE @]

\* The code Java has for a text is named after the text.
ResolvedCondition(f, c) ==
    [c EXCEPT !.codes =
        IF f \in CodedFields
        THEN [t \in Texts \cup {Forged} |-> IF t \in Texts THEN c.values[t] ELSE 0]
        ELSE @]

Asks(values) == \E f \in Fields \cap CodedFields : Present(values[f])

Resolve ==
    /\ phase = "resolve"
    /\ \/ /\ edit' = [f \in Fields |-> ResolvedCondition(f, edit[f])]
          /\ phase' = "save"
          /\ UNCHANGED <<done, cue, basis, outcome, touched>>
       \/ Asks(edit) /\ EndTurn("NEEDS_CLARIFICATION")
       \/ Asks(edit) /\ EndTurn("DEPENDENCY_ERROR")
    /\ UNCHANGED <<version, conditions>>

\* save_plan
Save ==
    /\ phase = "save"
    /\ version' = version + 1
    /\ conditions' = edit
    /\ phase' = "search"
    /\ UNCHANGED <<edit, done, cue, basis, outcome, touched>>

-----------------------------------------------------------------------------
(* search_compiler.py *)

\* What the request asks Java for: codes where there are codes, never a name.
Request(values) ==
    [f \in Fields |-> IF f \in CodedFields THEN [t \in Texts |-> values[f].codes[t]]
                      ELSE values[f].values]

\* A degree or city without a code, or a code of a current city that is no
\* number, raises ValueError.
Compiles(values) ==
    \A f \in Fields \ ListFields : f \in CodedFields /\ Present(values[f]) =>
        /\ values[f].codes # NoCodes
        /\ f = "current_city" =>
              \A t \in Texts \cup {Forged} : values[f].codes[t] > 0 => t \in NumericCodes

\* compile_search and search_candidates; the plan has been saved.
Search ==
    /\ phase = "search"
    /\ \/ Compiles(conditions) /\ (EndTurn("OK") \/ EndTurn("DEPENDENCY_ERROR"))
       \/ ~Compiles(conditions) /\ EndTurn("INTERNAL_ERROR")
    /\ UNCHANGED <<version, conditions>>

-----------------------------------------------------------------------------
Operate ==
    \/ Reset
    \/ \E f \in Fields :
        \/ Remove(f)
        \/ \E op \in {"ADD", "REPLACE"}, p \in Payloads : AddOrReplace(op, f, Normalized(f, p))

Next ==
    \/ StartPatch \/ StartDraft \/ Operate \/ FinishPatch
    \/ Validate \/ Resolve \/ Save \/ Search

Spec == Init /\ [][Next]_vars

-----------------------------------------------------------------------------
TypeOK ==
    /\ version \in Nat
    /\ conditions \in [Fields -> Condition]
    /\ phase \in {"idle", "patching", "drafted", "resolve", "save", "search"}
    /\ edit \in [Fields -> Condition]
    /\ done \in Nat
    /\ cue \in BOOLEAN
    /\ basis \in [Fields -> Condition]
    /\ outcome \in {"none", "OK", "NEEDS_CLARIFICATION", "MODEL_ERROR", "INTERNAL_ERROR",
                    "DEPENDENCY_ERROR"}
    /\ touched \in [Fields -> SUBSET {"ADD", "REPLACE", "REMOVE", "RESET"}]

\* What a condition says, without the codes Java has for it.
Meaning(c) == <<c.values, c.special>>

Saves == version' # version

\* A condition no operation of the turn has named comes out of it as it was,
\* whatever other operations came before or after, were merged or replaced
\* (docstring of apply_plan_patch: all conditions not mentioned are kept).
UnmentionedKept ==
    [][\A f \in Fields : Saves /\ touched[f] = {}
          => Meaning(conditions'[f]) = Meaning(conditions[f])]_vars

\* A list that was only added to keeps every value as often as it had it, and its
\* attribute: first_degree_only, once said, stays through any number of additions.
AdditionsKeep ==
    [][\A f \in Fields \cap ListFields :
          Saves /\ touched[f] = {"ADD"} /\ Present(conditions[f]) =>
            /\ \A t \in Texts : conditions[f].values[t] > 0
                    => conditions'[f].values[t] = conditions[f].values[t]
            /\ conditions[f].special => conditions'[f].special
            /\ f = "company" => conditions'[f].special = conditions[f].special]_vars

\* An addition that is made again, after another one, changes nothing: a message
\* that no plan has absorbed is shown to the model with the next one and may be
\* turned into the same operation twice.
RepeatedAdditionChangesNothing ==
    phase = "patching" => \A f \in Fields \cap ListFields, p, q \in Payloads :
        LET once  == Changed("ADD", f, edit[f], Normalized(f, p))
            other == Changed("ADD", f, once, Normalized(f, q))
        IN Accepts("ADD", f, edit[f], Normalized(f, p)) /\ Accepts("ADD", f, once, Normalized(f, q))
           => /\ Accepts("ADD", f, other, Normalized(f, p))
              /\ Changed("ADD", f, other, Normalized(f, p)) = other

\* The stored plan can be read again: get_current validates it anew, and a plan
\* that fails there would make its session unusable.
PlanLoadable ==
    /\ \A f \in Fields : Present(conditions[f]) => SizeFits(f, conditions[f].values)
    /\ ScopesFit(conditions)

\* The request compiled from the saved plan asks for exactly the values of the
\* plan, by codes Java has given for them: codes of an earlier turn that a merged
\* condition carries along, or that the model made up, do not reach it.
RequestMeansPlan ==
    \A f \in Fields : /\ Request(conditions)[f] = conditions[f].values
                      /\ conditions[f].codes[Forged] = 0
=============================================================================
