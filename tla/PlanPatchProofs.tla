--------------------------- MODULE PlanPatchProofs ---------------------------
(* The properties of PlanPatch, for any fields, words, payloads and bounds. *)
EXTENDS PlanPatch, TLAPS

\* What every condition keeps through a patch: the conditions of a plan, but for
\* the scope of a city, which is looked at when the patch is finished.
Sound(c) ==
    \A f \in Fields :
        /\ Present(c[f]) => SizeFits(f, c[f].values)
        /\ ~Present(c[f]) => c[f] = NoCondition
        /\ f \notin CodedFields => c[f].codes = NoCodes

Resolved(c) ==
    \A f \in Fields \cap CodedFields :
        c[f].codes = [t \in Texts \cup {Forged} |-> IF t \in Texts THEN c[f].values[t] ELSE 0]

\* d has what was in c, as AdditionsKeep says it.
Kept(f, c, d) ==
    /\ \A t \in Texts : c.values[t] > 0 => d.values[t] = c.values[t]
    /\ c.special => d.special
    /\ f = "company" => d.special = c.special

\* The draft of a turn against the plan it started from.
FromPlan ==
    \A f \in Fields :
        /\ touched[f] = {} => Meaning(edit[f]) = Meaning(conditions[f])
        /\ touched[f] \subseteq {"ADD"} /\ f \in ListFields /\ Present(conditions[f])
               => Kept(f, conditions[f], edit[f])

IInv ==
    /\ TypeOK
    /\ Sound(conditions)
    /\ ScopesFit(conditions)
    /\ Resolved(conditions)
    /\ Sound(edit)
    /\ phase \in {"drafted", "resolve", "save", "search"} => ScopesFit(edit)
    /\ phase = "save" => Resolved(edit)
    /\ phase # "idle" => FromPlan

-----------------------------------------------------------------------------
(* Single conditions *)

\* Nothing is a condition that holds nothing.
LEMMA NothingTyped ==
    /\ Nothing \in [Texts -> Nat] /\ NoCodes \in [Texts \cup {Forged} -> Nat]
    /\ NoCondition \in Condition /\ NoConditions \in [Fields -> Condition]
BY DEF Nothing, NoCodes, NoCondition, NoConditions, Condition

\* The absence of every condition is sound, resolved and without a city.
LEMMA NothingSound ==
    Sound(NoConditions) /\ ScopesFit(NoConditions) /\ Resolved(NoConditions)
BY NothingTyped DEF Sound, ScopesFit, Resolved, NoConditions, NoCondition, Present, Nothing, NoCodes

\* Normalising a payload leaves it a payload.
LEMMA NormalizedTyped ==
    ASSUME NEW f, NEW p \in Payload
    PROVE  Normalized(f, p) \in Payload
BY DEF Normalized, Payload

\* A validated payload is a sound condition that is there.
LEMMA WrittenSound ==
    ASSUME NEW f \in Fields, NEW p \in Payload, WellFormed(f, p)
    PROVE  /\ Written(p) \in Condition
           /\ Present(Written(p))
           /\ SizeFits(f, Written(p).values)
           /\ f \notin CodedFields => Written(p).codes = NoCodes
<1>1. p.values \in [Texts -> Nat] /\ p.special \in BOOLEAN /\ p.forged \in BOOLEAN
  BY DEF Payload
<1>2. Written(p).codes \in [Texts \cup {Forged} -> Nat]
  BY NothingTyped DEF Written
<1>3. Written(p) \in Condition
  BY <1>1, <1>2 DEF Written, Condition
<1>4. SizeFits(f, Written(p).values) /\ Written(p).values = p.values
  BY DEF WellFormed, Written
<1>5. Present(Written(p))
  BY <1>4 DEF SizeFits, Present
<1>6. f \notin CodedFields => Written(p).codes = NoCodes
  BY DEF WellFormed, Written
<1> QED  BY <1>3, <1>4, <1>5, <1>6

\* A payload that can be merged brings a bag of texts.
LEMMA IncomingTyped ==
    ASSUME NEW p \in Payload
    PROVE  Incoming(p) \in [Texts -> Nat]
<1>1. p.values \in [Texts -> Nat]
  BY DEF Payload
<1> QED  BY <1>1, NothingTyped DEF Incoming

\* Merging keeps every value and the attribute, and touches no code.
LEMMA MergedKeeps ==
    ASSUME NEW f \in Fields, NEW c \in Condition, NEW p \in Payload, f \in ListFields
    PROVE  /\ Merged(f, c, p) \in Condition
           /\ Merged(f, c, p).codes = c.codes
           /\ Kept(f, c, Merged(f, c, p))
<1>1. c.values \in [Texts -> Nat] /\ Incoming(p) \in [Texts -> Nat]
  BY IncomingTyped DEF Condition
<1>2. Union(c.values, Incoming(p)) \in [Texts -> Nat]
  BY <1>1 DEF Union
<1>3. c = [values |-> c.values, codes |-> c.codes, special |-> c.special]
  BY DEF Condition
<1>4. c.special \in BOOLEAN /\ c.codes \in [Texts \cup {Forged} -> Nat] /\ p.special \in BOOLEAN
  BY DEF Condition, Payload
<1>5. Merged(f, c, p) =
        [values |-> Union(c.values, Incoming(p)), codes |-> c.codes,
         special |-> c.special \/ (f = "school_level" /\ p.special)]
  BY DEF Merged
<1>6. Merged(f, c, p) \in Condition
  BY <1>2, <1>4, <1>5 DEF Condition
<1>7. \A t \in Texts : c.values[t] > 0 => Union(c.values, Incoming(p))[t] = c.values[t]
  BY <1>1 DEF Union
<1>8. Kept(f, c, Merged(f, c, p))
  BY <1>4, <1>5, <1>7 DEF Kept
<1> QED  BY <1>5, <1>6, <1>8

\* An accepted operation leaves a sound condition.
LEMMA ChangedSound ==
    ASSUME NEW op, NEW f \in Fields, NEW c \in Condition, NEW p \in Payload,
           Accepts(op, f, c, p),
           f \notin CodedFields => c.codes = NoCodes
    PROVE  /\ Changed(op, f, c, p) \in Condition
           /\ Present(Changed(op, f, c, p))
           /\ SizeFits(f, Changed(op, f, c, p).values)
           /\ f \notin CodedFields => Changed(op, f, c, p).codes = NoCodes
<1>1. CASE Merges(op, f, c)
  <2>1. f \in ListFields /\ Changed(op, f, c, p) = Merged(f, c, p)
    BY <1>1 DEF Merges, Changed
  <2>2. SizeFits(f, Merged(f, c, p).values)
    BY <1>1 DEF Accepts, MergeFits
  <2>3. Merged(f, c, p).values # Nothing
    BY <2>2 DEF SizeFits
  <2> QED  BY <2>1, <2>2, <2>3, MergedKeeps DEF Present
<1>2. CASE ~Merges(op, f, c)
  BY <1>2, WrittenSound DEF Accepts, Changed
<1> QED  BY <1>1, <1>2

\* Resolving gives every text its code and changes nothing a condition says.
LEMMA ResolvedSound ==
    ASSUME NEW f \in Fields, NEW c \in Condition
    PROVE  /\ ResolvedCondition(f, c) \in Condition
           /\ Meaning(ResolvedCondition(f, c)) = Meaning(c)
           /\ f \notin CodedFields => ResolvedCondition(f, c) = c
           /\ f \in CodedFields => ResolvedCondition(f, c).codes =
                 [t \in Texts \cup {Forged} |-> IF t \in Texts THEN c.values[t] ELSE 0]
<1> DEFINE codes == [t \in Texts \cup {Forged} |-> IF t \in Texts THEN c.values[t] ELSE 0]
<1>1. c = [values |-> c.values, codes |-> c.codes, special |-> c.special]
  BY DEF Condition
<1>2. codes \in [Texts \cup {Forged} -> Nat]
  BY DEF Condition
<1>3. CASE f \in CodedFields
  <2>1. ResolvedCondition(f, c) = [values |-> c.values, codes |-> codes, special |-> c.special]
    BY <1>1, <1>3 DEF ResolvedCondition
  <2>2. ResolvedCondition(f, c) \in Condition
    BY <1>2, <2>1 DEF Condition
  <2> QED  BY <1>3, <2>1, <2>2 DEF Meaning
<1>4. CASE f \notin CodedFields
  BY <1>1, <1>4 DEF ResolvedCondition, Meaning
<1> QED  BY <1>3, <1>4

-----------------------------------------------------------------------------
(* Steps *)

\* The end of a turn, with the plan as it is.
LEMMA EndTurnKeeps ==
    ASSUME IInv, NEW result,
           result \in {"OK", "NEEDS_CLARIFICATION", "MODEL_ERROR", "INTERNAL_ERROR",
                       "DEPENDENCY_ERROR"},
           EndTurn(result), UNCHANGED <<version, conditions>>
    PROVE  IInv'
<1>1. TypeOK'
  BY NothingTyped DEF IInv, TypeOK, EndTurn, Untouched
<1>2. Sound(conditions)' /\ ScopesFit(conditions)' /\ Resolved(conditions)'
  BY DEF IInv, Sound, ScopesFit, Resolved
<1>3. Sound(edit)'
  BY NothingSound DEF EndTurn, Sound
<1>4. phase' = "idle"
  BY DEF EndTurn
<1> QED  BY <1>1, <1>2, <1>3, <1>4 DEF IInv

\* A patch begins with the conditions of the plan.
LEMMA StartPatchKeeps ==
    ASSUME IInv, StartPatch
    PROVE  IInv'
<1>1. CASE EndTurn("MODEL_ERROR")
  BY <1>1, EndTurnKeeps DEF StartPatch
<1>2. CASE /\ phase' = "patching" /\ edit' = conditions /\ basis' = conditions
           /\ cue' \in BOOLEAN /\ UNCHANGED <<done, outcome, touched>>
  <2>1. UNCHANGED <<version, conditions>>
    BY DEF StartPatch
  <2>2. TypeOK'
    BY <1>2, <2>1 DEF IInv, TypeOK
  <2>3. Sound(conditions)' /\ ScopesFit(conditions)' /\ Resolved(conditions)' /\ Sound(edit)'
    BY <1>2, <2>1 DEF IInv, Sound, ScopesFit, Resolved
  <2>4. FromPlan'
    <3> SUFFICES ASSUME NEW f \in Fields
                 PROVE  Meaning(conditions[f]) = Meaning(conditions[f])
                        /\ Kept(f, conditions[f], conditions[f])
      BY <1>2, <2>1 DEF FromPlan
    <3> QED  BY DEF Kept
  <2> QED  BY <1>2, <2>2, <2>3, <2>4 DEF IInv
<1> QED  BY <1>1, <1>2 DEF StartPatch

\* A draft of the model begins every field anew.
LEMMA StartDraftKeeps ==
    ASSUME IInv, StartDraft
    PROVE  IInv'
<1>1. edit' \in Conditions
  BY DraftAssumption DEF StartDraft
<1>2. TypeOK'
  BY <1>1 DEF IInv, TypeOK, StartDraft, Conditions
<1>3. Sound(conditions)' /\ ScopesFit(conditions)' /\ Resolved(conditions)'
  BY DEF IInv, Sound, ScopesFit, Resolved, StartDraft
<1>4. Sound(edit)' /\ ScopesFit(edit)'
  BY <1>1 DEF Conditions, Sound, ScopesFit
<1>5. FromPlan'
  <2>1. \A f \in Fields : touched'[f] = {"RESET"}
    BY DEF StartDraft
  <2> QED  BY <2>1 DEF FromPlan
<1>6. phase' = "drafted"
  BY DEF StartDraft
<1> QED  BY <1>2, <1>3, <1>4, <1>5, <1>6 DEF IInv

\* An operation on some fields keeps the draft sound, and leaves the others alone.
LEMMA AppliedKeeps ==
    ASSUME IInv, CanApply, NEW op \in {"ADD", "REPLACE", "REMOVE", "RESET"},
           NEW fields \in SUBSET Fields, NEW values \in [Fields -> Condition],
           Applied(op, fields, values), Sound(values),
           \A f \in Fields \ fields : values[f] = edit[f],
           op = "ADD" => \A f \in fields : f \in ListFields /\ Present(edit[f])
                                              => Kept(f, edit[f], values[f])
    PROVE  IInv'
<1>1. UNCHANGED <<version, conditions, phase, cue, basis, outcome>> /\ edit' = values
  BY DEF Applied
<1>2. phase = "patching"
  BY DEF CanApply
<1>3. touched' = [f \in Fields |-> IF f \in fields THEN touched[f] \cup {op} ELSE touched[f]]
  BY DEF Applied
<1>4. TypeOK'
  BY <1>1, <1>3 DEF IInv, TypeOK, Applied
<1>5. Sound(conditions)' /\ ScopesFit(conditions)' /\ Resolved(conditions)' /\ Sound(edit)'
  BY <1>1 DEF IInv, Sound, ScopesFit, Resolved
<1>6. FromPlan'
  <2> SUFFICES ASSUME NEW f \in Fields
               PROVE  /\ touched'[f] = {} => Meaning(values[f]) = Meaning(conditions[f])
                      /\ touched'[f] \subseteq {"ADD"} /\ f \in ListFields
                            /\ Present(conditions[f]) => Kept(f, conditions[f], values[f])
    BY <1>1 DEF FromPlan
  <2>1. /\ touched[f] = {} => Meaning(edit[f]) = Meaning(conditions[f])
        /\ touched[f] \subseteq {"ADD"} /\ f \in ListFields /\ Present(conditions[f])
               => Kept(f, conditions[f], edit[f])
    BY <1>2 DEF IInv, FromPlan
  <2>2. CASE f \notin fields
    BY <1>3, <2>1, <2>2
  <2>3. CASE f \in fields
    <3>1. touched'[f] = touched[f] \cup {op}
      BY <1>3, <2>3
    <3>2. SUFFICES ASSUME touched'[f] \subseteq {"ADD"}, f \in ListFields, Present(conditions[f])
                   PROVE  Kept(f, conditions[f], values[f])
      BY <3>1
    <3>3. op = "ADD" /\ Kept(f, conditions[f], edit[f])
      BY <2>1, <3>1, <3>2
    <3>4. conditions[f] \in Condition /\ edit[f] \in Condition /\ values[f] \in Condition
      BY DEF IInv, TypeOK
    <3>5. PICK t \in Texts : conditions[f].values[t] > 0
      BY <3>2, <3>4 DEF Present, Nothing, Condition
    <3>6. Present(edit[f])
      BY <3>3, <3>5 DEF Kept, Present, Nothing
    <3>7. Kept(f, edit[f], values[f])
      BY <2>3, <3>2, <3>3, <3>6
    <3> QED  BY <3>3, <3>7 DEF Kept
  <2> QED  BY <2>2, <2>3
<1> QED  BY <1>1, <1>2, <1>4, <1>5, <1>6 DEF IInv

\* RESET
LEMMA ResetKeeps ==
    ASSUME IInv, Reset
    PROVE  IInv'
BY AppliedKeeps, NothingTyped, NothingSound DEF Reset

\* REMOVE
LEMMA RemoveKeeps ==
    ASSUME IInv, NEW f \in Fields, Remove(f)
    PROVE  IInv'
<1>1. Cleared(edit, f) \in [Fields -> Condition]
  BY NothingTyped DEF IInv, TypeOK, Cleared
<1>2. /\ \A g \in Fields \ {f} : Cleared(edit, f)[g] = edit[g]
      /\ Cleared(edit, f)[f] = NoConditions[f]
  BY DEF IInv, TypeOK, Cleared, NoConditions
<1>3. Sound(Cleared(edit, f))
  BY <1>2, NothingSound DEF IInv, Sound
<1> QED  BY <1>1, <1>2, <1>3, AppliedKeeps DEF Remove

\* ADD and REPLACE
LEMMA AddOrReplaceKeeps ==
    ASSUME IInv, NEW f \in Fields, NEW op \in {"ADD", "REPLACE"}, NEW p \in Payload,
           AddOrReplace(op, f, p)
    PROVE  IInv'
<1>1. CASE Accepts(op, f, edit[f], p)
           /\ Applied(op, {f}, [edit EXCEPT ![f] = Changed(op, f, edit[f], p)])
  <2> DEFINE after == [edit EXCEPT ![f] = Changed(op, f, edit[f], p)]
  <2>1. edit \in [Fields -> Condition] /\ edit[f] \in Condition
        /\ (f \notin CodedFields => edit[f].codes = NoCodes)
    BY DEF IInv, TypeOK, Sound
  <2>2. /\ Changed(op, f, edit[f], p) \in Condition
        /\ Present(Changed(op, f, edit[f], p))
        /\ SizeFits(f, Changed(op, f, edit[f], p).values)
        /\ f \notin CodedFields => Changed(op, f, edit[f], p).codes = NoCodes
    BY <1>1, <2>1, ChangedSound
  <2>3. /\ after \in [Fields -> Condition]
        /\ after[f] = Changed(op, f, edit[f], p)
        /\ \A g \in Fields \ {f} : after[g] = edit[g]
    BY <2>1, <2>2
  <2> HIDE DEF after
  <2>4. Sound(after)
    BY <2>2, <2>3 DEF IInv, Sound
  <2>5. op = "ADD" /\ f \in ListFields /\ Present(edit[f]) => Kept(f, edit[f], after[f])
    <3> SUFFICES ASSUME op = "ADD", f \in ListFields, Present(edit[f])
                 PROVE  Kept(f, edit[f], after[f])
      OBVIOUS
    <3>1. after[f] = Merged(f, edit[f], p)
      BY <2>3 DEF Changed, Merges
    <3>2. Kept(f, edit[f], Merged(f, edit[f], p))
      BY <2>1, MergedKeeps
    <3> QED  BY <3>1, <3>2
  <2>6. CanApply
    BY DEF AddOrReplace
  <2>7. Applied(op, {f}, after)
    BY <1>1 DEF after
  <2>8. /\ \A g \in Fields \ {f} : after[g] = edit[g]
        /\ op = "ADD" => \A g \in {f} : g \in ListFields /\ Present(edit[g])
                                            => Kept(g, edit[g], after[g])
    BY <2>3, <2>5
  <2>9. op \in {"ADD", "REPLACE", "REMOVE", "RESET"} /\ {f} \in SUBSET Fields
    OBVIOUS
  <2> QED  BY <2>3, <2>4, <2>6, <2>7, <2>8, <2>9, AppliedKeeps
<1>2. CASE EndTurn(Refusal(op, f, edit[f], p)) /\ UNCHANGED <<version, conditions>>
  BY <1>2, EndTurnKeeps DEF Refusal
<1> QED  BY <1>1, <1>2 DEF AddOrReplace

\* The patched conditions are validated as a whole.
LEMMA FinishPatchKeeps ==
    ASSUME IInv, FinishPatch
    PROVE  IInv'
<1>1. CASE ScopesFit(edit) /\ phase' = "drafted"
           /\ UNCHANGED <<edit, done, cue, basis, outcome, touched>>
  <2>1. UNCHANGED <<version, conditions>> /\ phase = "patching"
    BY DEF FinishPatch
  <2> QED  BY <1>1, <2>1 DEF IInv, TypeOK, Sound, ScopesFit, Resolved, FromPlan
<1>2. CASE EndTurn("MODEL_ERROR")
  BY <1>2, EndTurnKeeps DEF FinishPatch
<1> QED  BY <1>1, <1>2 DEF FinishPatch

\* A valid draft goes on as it is.
LEMMA ValidateKeeps ==
    ASSUME IInv, Validate
    PROVE  IInv'
<1>1. CASE phase' = "resolve" /\ UNCHANGED <<edit, done, cue, basis, outcome, touched>>
  <2>1. UNCHANGED <<version, conditions>> /\ phase = "drafted"
    BY DEF Validate
  <2> QED  BY <1>1, <2>1 DEF IInv, TypeOK, Sound, ScopesFit, Resolved, FromPlan
<1>2. CASE EndTurn("NEEDS_CLARIFICATION")
  BY <1>2, EndTurnKeeps DEF Validate
<1> QED  BY <1>1, <1>2 DEF Validate

\* Resolution gives the draft its codes and keeps what it says.
LEMMA ResolveKeeps ==
    ASSUME IInv, Resolve
    PROVE  IInv'
<1>1. CASE /\ edit' = [f \in Fields |-> ResolvedCondition(f, edit[f])]
           /\ phase' = "save" /\ UNCHANGED <<done, cue, basis, outcome, touched>>
  <2>1. UNCHANGED <<version, conditions>> /\ phase = "resolve"
    BY DEF Resolve
  <2>2. ASSUME NEW f \in Fields
        PROVE  /\ edit'[f] = ResolvedCondition(f, edit[f])
               /\ edit'[f] \in Condition
               /\ edit'[f].values = edit[f].values
               /\ edit'[f].special = edit[f].special
               /\ f \notin CodedFields => edit'[f] = edit[f]
               /\ f \in CodedFields => edit'[f].codes =
                     [t \in Texts \cup {Forged} |-> IF t \in Texts THEN edit'[f].values[t] ELSE 0]
    <3>1. edit[f] \in Condition
      BY DEF IInv, TypeOK
    <3>2. edit'[f] = ResolvedCondition(f, edit[f])
      BY <1>1
    <3>3. /\ edit'[f] \in Condition
          /\ Meaning(edit'[f]) = Meaning(edit[f])
          /\ f \notin CodedFields => edit'[f] = edit[f]
          /\ f \in CodedFields => edit'[f].codes =
                [t \in Texts \cup {Forged} |-> IF t \in Texts THEN edit[f].values[t] ELSE 0]
      BY <3>1, <3>2, ResolvedSound
    <3>4. edit'[f].values = edit[f].values /\ edit'[f].special = edit[f].special
      BY <3>3 DEF Meaning
    <3> QED  BY <3>2, <3>3, <3>4
  <2>3. TypeOK'
    <3>1. edit' \in [Fields -> Condition]
      BY <1>1, <2>2
    <3> QED  BY <1>1, <2>1, <3>1 DEF IInv, TypeOK
  <2>4. Sound(conditions)' /\ ScopesFit(conditions)' /\ Resolved(conditions)'
    BY <2>1 DEF IInv, Sound, ScopesFit, Resolved
  <2>5. Sound(edit)'
    <3> SUFFICES ASSUME NEW f \in Fields
                 PROVE  /\ Present(edit'[f]) => SizeFits(f, edit'[f].values)
                        /\ ~Present(edit'[f]) => edit'[f] = NoCondition
                        /\ f \notin CodedFields => edit'[f].codes = NoCodes
      BY DEF Sound
    <3>1. /\ Present(edit[f]) => SizeFits(f, edit[f].values)
          /\ ~Present(edit[f]) => edit[f] = NoCondition
          /\ f \notin CodedFields => edit[f].codes = NoCodes
      BY DEF IInv, Sound
    <3>2. Present(edit'[f]) <=> Present(edit[f])
      BY <2>2 DEF Present
    <3>3. ASSUME ~Present(edit'[f])
          PROVE  edit'[f] = NoCondition
      <4>1. edit[f] = NoCondition
        BY <3>1, <3>2, <3>3
      <4>2. edit'[f].values = NoCondition.values /\ edit'[f].special = NoCondition.special
        BY <2>2, <4>1
      <4>3. edit'[f].codes = NoCondition.codes
        <5>1. NoCondition.values = Nothing /\ NoCondition.codes = NoCodes
          BY DEF NoCondition
        <5>2. [t \in Texts \cup {Forged} |-> IF t \in Texts THEN Nothing[t] ELSE 0] = NoCodes
          BY DEF Nothing, NoCodes
        <5> QED  BY <2>2, <4>1, <4>2, <5>1, <5>2
      <4>4. \A c \in Condition :
                c = [values |-> c.values, codes |-> c.codes, special |-> c.special]
        BY DEF Condition
      <4> QED  BY <2>2, <4>2, <4>3, <4>4, NothingTyped
    <3> QED  BY <2>2, <3>1, <3>2, <3>3
  <2>6. Resolved(edit)'
    BY <2>2 DEF Resolved
  <2>7. ScopesFit(edit)'
    BY <2>1, <2>2 DEF IInv, ScopesFit
  <2>8. FromPlan'
    <3> SUFFICES ASSUME NEW f \in Fields
                 PROVE  /\ touched[f] = {} => Meaning(edit'[f]) = Meaning(conditions[f])
                        /\ touched[f] \subseteq {"ADD"} /\ f \in ListFields
                              /\ Present(conditions[f]) => Kept(f, conditions[f], edit'[f])
      BY <1>1, <2>1 DEF FromPlan
    <3>1. /\ touched[f] = {} => Meaning(edit[f]) = Meaning(conditions[f])
          /\ touched[f] \subseteq {"ADD"} /\ f \in ListFields
                /\ Present(conditions[f]) => Kept(f, conditions[f], edit[f])
      BY <2>1 DEF IInv, FromPlan
    <3>2. edit'[f].values = edit[f].values /\ edit'[f].special = edit[f].special
      BY <2>2
    <3> QED  BY <3>1, <3>2 DEF Meaning, Kept
  <2> QED  BY <1>1, <2>3, <2>4, <2>5, <2>6, <2>7, <2>8 DEF IInv
<1>2. CASE EndTurn("NEEDS_CLARIFICATION") \/ EndTurn("DEPENDENCY_ERROR")
  BY <1>2, EndTurnKeeps DEF Resolve
<1> QED  BY <1>1, <1>2 DEF Resolve

\* What is saved is the resolved draft.
LEMMA SaveKeeps ==
    ASSUME IInv, Save
    PROVE  IInv'
<1>1. /\ phase = "save" /\ phase' = "search" /\ version' = version + 1
      /\ conditions' = edit /\ UNCHANGED <<edit, done, cue, basis, outcome, touched>>
  BY DEF Save
<1>2. TypeOK'
  BY <1>1 DEF IInv, TypeOK
<1>3. Sound(conditions)' /\ ScopesFit(conditions)' /\ Resolved(conditions)' /\ Sound(edit)'
      /\ ScopesFit(edit)'
  BY <1>1 DEF IInv, Sound, ScopesFit, Resolved
<1>4. FromPlan'
  BY <1>1 DEF FromPlan, Kept
<1> QED  BY <1>1, <1>2, <1>3, <1>4 DEF IInv

\* The search reads the plan.
LEMMA SearchKeeps ==
    ASSUME IInv, Search
    PROVE  IInv'
BY EndTurnKeeps DEF Search

\* Every step of a turn, over the operations of a patch and its refusals.
THEOREM InductiveInvariant == Spec => []IInv
<1>1. Init => IInv
  <2> SUFFICES ASSUME Init PROVE IInv
    OBVIOUS
  <2>1. TypeOK
    BY NothingTyped DEF Init, TypeOK, Untouched
  <2>2. Sound(conditions) /\ ScopesFit(conditions) /\ Resolved(conditions) /\ Sound(edit)
    BY NothingSound DEF Init
  <2> QED  BY <2>1, <2>2 DEF Init, IInv
<1>2. IInv /\ [Next]_vars => IInv'
  <2> SUFFICES ASSUME IInv, [Next]_vars PROVE IInv'
    OBVIOUS
  <2>1. CASE Operate
    <3>1. ASSUME NEW f \in Fields, NEW op \in {"ADD", "REPLACE"}, NEW p \in Payloads,
                 AddOrReplace(op, f, Normalized(f, p))
          PROVE  IInv'
      <4>1. Normalized(f, p) \in Payload
        BY PatchAssumption, NormalizedTyped
      <4> QED  BY <3>1, <4>1, AddOrReplaceKeeps
    <3> QED  BY <2>1, <3>1, ResetKeeps, RemoveKeeps DEF Operate
  <2>2. CASE UNCHANGED vars
    <3>1. UNCHANGED <<version, conditions, phase, edit, done, cue, basis, outcome, touched>>
      BY <2>2 DEF vars
    <3>2. TypeOK'
      BY <3>1 DEF IInv, TypeOK
    <3>3. /\ Sound(conditions)' /\ ScopesFit(conditions)' /\ Resolved(conditions)'
          /\ Sound(edit)'
      BY <3>1 DEF IInv, Sound, ScopesFit, Resolved
    <3>4. /\ phase' \in {"drafted", "resolve", "save", "search"} => ScopesFit(edit)'
          /\ phase' = "save" => Resolved(edit)'
      BY <3>1 DEF IInv, ScopesFit, Resolved
    <3>5. phase' # "idle" => FromPlan'
      BY <3>1 DEF IInv, FromPlan
    <3> QED  BY <3>2, <3>3, <3>4, <3>5 DEF IInv
  <2> QED  BY <2>1, <2>2, StartPatchKeeps, StartDraftKeeps, FinishPatchKeeps, ValidateKeeps,
              ResolveKeeps, SaveKeeps, SearchKeeps DEF Next
<1> QED  BY <1>1, <1>2, PTL DEF Spec

\* The plan, the draft and the operations stay well typed through any patches.
THEOREM TypeCorrect == Spec => []TypeOK
<1>1. IInv => TypeOK
  BY DEF IInv
<1> QED  BY <1>1, InductiveInvariant, PTL

\* get_current can always read the stored plan again: no sequence of additions,
\* whatever its payloads, saves a list longer than its model allows
\* (apply_plan_patch validates every merged value).
THEOREM PlansLoad == Spec => []PlanLoadable
<1>1. IInv => PlanLoadable
  BY DEF IInv, Sound, PlanLoadable
<1> QED  BY <1>1, InductiveInvariant, PTL

\* The request asks for the values of the plan by Java's codes, whatever codes
\* the model or an earlier plan carried (resolve_draft_entities, compile_search_request).
THEOREM RequestsMeanPlans == Spec => []RequestMeansPlan
<1>1. IInv => RequestMeansPlan
  <2> SUFFICES ASSUME IInv, NEW f \in Fields
               PROVE  Request(conditions)[f] = conditions[f].values
                      /\ conditions[f].codes[Forged] = 0
    BY DEF RequestMeansPlan
  <2>1. conditions[f].values \in [Texts -> Nat] /\ Forged \notin Texts
    BY PatchAssumption DEF IInv, TypeOK, Condition
  <2>2. CASE f \in CodedFields
    <3>1. conditions[f].codes =
            [t \in Texts \cup {Forged} |-> IF t \in Texts THEN conditions[f].values[t] ELSE 0]
      BY <2>2 DEF IInv, Resolved
    <3>2. Request(conditions)[f] = [t \in Texts |-> conditions[f].codes[t]]
      BY <2>2 DEF Request
    <3> QED  BY <2>1, <3>1, <3>2
  <2>3. CASE f \notin CodedFields
    BY <2>3 DEF IInv, Sound, Request, NoCodes
  <2> QED  BY <2>2, <2>3
<1> QED  BY <1>1, InductiveInvariant, PTL

\* All conditions a patch does not mention are in the plan it saves
\* (docstring of apply_plan_patch).
THEOREM UnmentionedConditionsStay == Spec => UnmentionedKept
<1>1. IInv /\ [Next]_vars =>
        [\A f \in Fields : Saves /\ touched[f] = {}
              => Meaning(conditions'[f]) = Meaning(conditions[f])]_vars
  <2> SUFFICES ASSUME IInv, Next, NEW f \in Fields, Saves, touched[f] = {}
               PROVE  Meaning(conditions'[f]) = Meaning(conditions[f])
    BY DEF vars
  <2>1. Save
    BY DEF Next, Operate, StartPatch, StartDraft, Reset, Remove, AddOrReplace, Applied,
           FinishPatch, Validate, Resolve, Search, Saves
  <2> QED  BY <2>1 DEF Save, IInv, FromPlan
<1> QED  BY <1>1, InductiveInvariant, PTL DEF Spec, UnmentionedKept

\* A list that a patch only adds to loses nothing (_merge_add_value).
THEOREM AdditionsLoseNothing == Spec => AdditionsKeep
<1> DEFINE A == \A f \in Fields \cap ListFields :
          Saves /\ touched[f] = {"ADD"} /\ Present(conditions[f]) =>
            Kept(f, conditions[f], conditions'[f])
<1>1. IInv /\ [Next]_vars => [A]_vars
  <2> SUFFICES ASSUME IInv, Next, NEW f \in Fields \cap ListFields, Saves,
                      touched[f] = {"ADD"}, Present(conditions[f])
               PROVE  Kept(f, conditions[f], conditions'[f])
    BY DEF vars
  <2>1. Save
    BY DEF Next, Operate, StartPatch, StartDraft, Reset, Remove, AddOrReplace, Applied,
           FinishPatch, Validate, Resolve, Search, Saves
  <2> QED  BY <2>1 DEF Save, IInv, FromPlan
<1> QED  BY <1>1, InductiveInvariant, PTL DEF Spec, AdditionsKeep, Kept

-----------------------------------------------------------------------------
(* Additions made twice *)

\* A list holds what was just added to it, and its attribute.
LEMMA AddedIsThere ==
    ASSUME NEW f \in Fields, f \in ListFields, NEW c \in Condition, NEW p \in Payload,
           Accepts("ADD", f, c, p)
    PROVE  /\ p.shape # "bare"
           /\ \A t \in Texts : Incoming(p)[t] > 0 => Changed("ADD", f, c, p).values[t] > 0
           /\ f = "school_level" /\ p.special => Changed("ADD", f, c, p).special
<1>1. c.values \in [Texts -> Nat] /\ Incoming(p) \in [Texts -> Nat]
  BY IncomingTyped DEF Condition
<1>2. CASE Merges("ADD", f, c)
  <2>1. Changed("ADD", f, c, p) = Merged(f, c, p) /\ p.shape # "bare"
    BY <1>2 DEF Accepts, Changed, MergeFits
  <2>2. \A t \in Texts : Incoming(p)[t] > 0 => Union(c.values, Incoming(p))[t] > 0
    BY <1>1 DEF Union
  <2>3. Merged(f, c, p).values = Union(c.values, Incoming(p))
    BY DEF Merged
  <2>4. f = "school_level" /\ p.special => Merged(f, c, p).special
    BY Zenon DEF Merged
  <2> QED  BY <2>1, <2>2, <2>3, <2>4
<1>3. CASE ~Merges("ADD", f, c)
  <2>1. Changed("ADD", f, c, p) = Written(p) /\ p.shape = "object"
    BY <1>3 DEF Accepts, Changed, WellFormed
  <2> QED  BY <2>1 DEF Written, Incoming
<1> QED  BY <1>2, <1>3

\* Adding to a list that holds all of it already leaves the list as it is.
LEMMA MergedAgain ==
    ASSUME NEW f \in Fields, f \in ListFields, NEW c \in Condition, NEW p \in Payload,
           \A t \in Texts : Incoming(p)[t] > 0 => c.values[t] > 0,
           f = "school_level" /\ p.special => c.special
    PROVE  Merged(f, c, p) = c
<1>1. c.values \in [Texts -> Nat] /\ Incoming(p) \in [Texts -> Nat]
      /\ c.special \in BOOLEAN /\ p.special \in BOOLEAN
  BY IncomingTyped DEF Condition, Payload
<1>2. \A t \in Texts : Union(c.values, Incoming(p))[t] = c.values[t]
  BY <1>1 DEF Union
<1>3. Union(c.values, Incoming(p)) = c.values
  BY <1>1, <1>2 DEF Union
<1>4. (c.special \/ (f = "school_level" /\ p.special)) = c.special
  BY <1>1
<1>5. c = [values |-> c.values, codes |-> c.codes, special |-> c.special]
  BY DEF Condition
<1> QED  BY <1>3, <1>4, <1>5 DEF Merged

\* A message that is turned into the same addition twice, with others between,
\* changes nothing the second time (_merge_add_value).
THEOREM RepeatedAdditionsChangeNothing == Spec => []RepeatedAdditionChangesNothing
<1>1. IInv => RepeatedAdditionChangesNothing
  <2> SUFFICES ASSUME IInv, NEW f \in Fields \cap ListFields, NEW p0 \in Payloads,
                      NEW q0 \in Payloads
               PROVE  LET once  == Changed("ADD", f, edit[f], Normalized(f, p0))
                          other == Changed("ADD", f, once, Normalized(f, q0))
                      IN Accepts("ADD", f, edit[f], Normalized(f, p0))
                         /\ Accepts("ADD", f, once, Normalized(f, q0))
                         => /\ Accepts("ADD", f, other, Normalized(f, p0))
                            /\ Changed("ADD", f, other, Normalized(f, p0)) = other
    BY DEF RepeatedAdditionChangesNothing
  <2> DEFINE p == Normalized(f, p0)
             q == Normalized(f, q0)
             once == Changed("ADD", f, edit[f], p)
             other == Changed("ADD", f, once, q)
  <2>1. p \in Payload /\ q \in Payload
    BY PatchAssumption, NormalizedTyped
  <2> HIDE DEF p, q
  <2> SUFFICES ASSUME Accepts("ADD", f, edit[f], p), Accepts("ADD", f, once, q)
               PROVE  Accepts("ADD", f, other, p) /\ Changed("ADD", f, other, p) = other
    BY DEF p, q
  <2>2. edit[f] \in Condition /\ f \in Fields /\ f \in ListFields /\ f \in CodedFields
    BY DEF IInv, TypeOK, CodedFields
  <2>3. once \in Condition /\ Present(once)
    BY <2>1, <2>2, ChangedSound
  <2>4. /\ p.shape # "bare"
        /\ \A t \in Texts : Incoming(p)[t] > 0 => once.values[t] > 0
        /\ f = "school_level" /\ p.special => once.special
    BY <2>1, <2>2, AddedIsThere
  <2> HIDE DEF once
  <2>5. other \in Condition /\ Present(other) /\ SizeFits(f, other.values)
    BY <2>1, <2>2, <2>3, ChangedSound
  <2>6. Kept(f, once, other)
    <3>1. other = Merged(f, once, q)
      BY <2>2, <2>3 DEF Changed, Merges
    <3> QED  BY <2>1, <2>2, <2>3, <3>1, MergedKeeps
  <2> HIDE DEF other
  <2>7. \A t \in Texts : Incoming(p)[t] > 0 => other.values[t] > 0
    <3> SUFFICES ASSUME NEW t \in Texts, Incoming(p)[t] > 0 PROVE other.values[t] > 0
      OBVIOUS
    <3>1. once.values[t] > 0
      BY <2>4
    <3> QED  BY <2>6, <3>1 DEF Kept
  <2>8. f = "school_level" /\ p.special => other.special
    BY <2>4, <2>6 DEF Kept
  <2>9. Merged(f, other, p) = other
    BY <2>1, <2>2, <2>5, <2>7, <2>8, MergedAgain
  <2>10. Merges("ADD", f, other)
    BY <2>2, <2>5 DEF Merges
  <2> QED  BY <2>4, <2>5, <2>9, <2>10 DEF Accepts, MergeFits, Changed
<1> QED  BY <1>1, InductiveInvariant, PTL
=============================================================================
