---------------------- MODULE ClarificationDialogProofs ----------------------
(* Theorems about ClarificationDialog, for any set of names and drafts. *)
EXTENDS ClarificationDialog, SequenceTheorems, WellFoundedInduction, TLAPS

-----------------------------------------------------------------------------
(* Lists that are flattened *)

\* A set of natural numbers has a least one: induction by a least counterexample.
LEMMA LeastNatural ==
    ASSUME NEW T, T \subseteq Nat, T # {}
    PROVE  \E n \in T : \A m \in T : n <= m
<1>1. PICK n \in T : \A m \in T : ~(<<m, n>> \in OpToRel(<, Nat))
  BY WFMin, NatLessThanWellFounded
<1>2. \A m \in T : ~(m < n)
  BY <1>1 DEF OpToRel
<1> QED
  BY <1>2

\* f holds the concatenations of the first lists of s, up to the n-th.
Concatenates(f, s, n) ==
    f = [i \in 1..n |-> IF i = 1 THEN s[i] ELSE f[i-1] \o s[i]]

\* Such an f exists, for any number of lists.
LEMMA ConcatenationsExist ==
    ASSUME NEW S, NEW s \in Seq(Seq(S)), NEW n \in 1..Len(s)
    PROVE  \E f \in [1..n -> Seq(S)] : Concatenates(f, s, n)
<1> DEFINE T == {k \in 1..Len(s) : ~ \E f \in [1..k -> Seq(S)] : Concatenates(f, s, k)}
<1>1. SUFFICES ASSUME T # {}
               PROVE  FALSE
  OBVIOUS
<1>2. PICK k \in T : \A m \in T : k <= m
  <2>1. T \subseteq Nat
    OBVIOUS
  <2> QED
    BY <1>1, <2>1, LeastNatural
<1>3. k \in 1..Len(s) /\ s[k] \in Seq(S) /\ s[1] \in Seq(S)
  OBVIOUS
<1>4. CASE k = 1
  <2> DEFINE g == [i \in 1..1 |-> s[1]]
  <2>1. g \in [1..1 -> Seq(S)]
    BY <1>3
  <2>2. Concatenates(g, s, 1)
    BY DEF Concatenates
  <2> QED
    BY <1>4, <2>1, <2>2
<1>5. CASE k # 1
  <2>1. k - 1 \in 1..Len(s) /\ k - 1 \notin T
    <3>1. k - 1 \in 1..Len(s) /\ ~(k <= k - 1)
      BY <1>3, <1>5
    <3> HIDE DEF T
    <3> QED
      BY <1>2, <3>1
  <2>2. PICK f \in [1..(k-1) -> Seq(S)] : Concatenates(f, s, k - 1)
    BY <2>1
  <2> DEFINE g == [i \in 1..k |-> IF i = k THEN f[k-1] \o s[k] ELSE f[i]]
  <2>3. f[k-1] \o s[k] \in Seq(S)
    BY <1>3, <2>1
  <2>4. g \in [1..k -> Seq(S)]
    BY <1>3, <2>3
  <2>5. \A i \in 1..k : g[i] = IF i = 1 THEN s[i] ELSE g[i-1] \o s[i]
    <3>1. TAKE i \in 1..k
    <3>2. CASE i = k
      <4>1. k - 1 \in 1..k /\ k - 1 # k /\ k \in 1..k
        BY <2>1
      <4>2. g[k] = f[k-1] \o s[k] /\ g[k-1] = f[k-1]
        BY <4>1
      <4> QED
        BY <1>5, <3>2, <4>2
    <3>3. CASE i # k
      <4>1. i \in 1..(k-1) /\ (i # 1 => i - 1 \in 1..k /\ i - 1 # k)
        BY <1>3, <3>3
      <4>2. f[i] = IF i = 1 THEN s[i] ELSE f[i-1] \o s[i]
        BY <2>2, <4>1 DEF Concatenates
      <4>3. g[i] = f[i] /\ (i # 1 => g[i-1] = f[i-1])
        BY <3>3, <4>1
      <4> QED
        BY <4>2, <4>3
    <3> QED
      BY <3>2, <3>3
  <2>6. Concatenates(g, s, k)
    BY <2>5 DEF Concatenates
  <2> QED
    BY <2>4, <2>6
<1> QED
  BY <1>4, <1>5

\* Lists of elements of S are flattened to a list of elements of S.
LEMMA FlattenType ==
    ASSUME NEW S, NEW s \in Seq(Seq(S))
    PROVE  FlattenSeq(s) \in Seq(S)
<1>1. CASE Len(s) = 0
  <2>1. FlattenSeq(s) = s
    BY <1>1 DEF FlattenSeq
  <2>2. s = <<>>
    BY <1>1
  <2> QED
    BY <2>1, <2>2
<1>2. CASE Len(s) # 0
  <2> DEFINE F == CHOOSE f : Concatenates(f, s, Len(s))
  <2>1. FlattenSeq(s) = F[Len(s)]
    BY <1>2 DEF FlattenSeq, Concatenates
  <2>2. Len(s) \in 1..Len(s)
    BY <1>2
  <2>3. Concatenates(F, s, Len(s))
    BY <2>2, ConcatenationsExist
  <2> HIDE DEF F
  <2> DEFINE T == {k \in 1..Len(s) : F[k] \notin Seq(S)}
  <2>4. T = {}
    <3>1. SUFFICES ASSUME T # {}
                   PROVE  FALSE
      OBVIOUS
    <3>2. PICK k \in T : \A m \in T : k <= m
      <4>1. T \subseteq Nat
        OBVIOUS
      <4> QED
        BY <3>1, <4>1, LeastNatural
    <3>3. F[k] = IF k = 1 THEN s[k] ELSE F[k-1] \o s[k]
      BY <2>3 DEF Concatenates
    <3>4. s[k] \in Seq(S)
      OBVIOUS
    <3>5. k # 1 => F[k-1] \in Seq(S)
      <4>1. k # 1 => k - 1 \in 1..Len(s) /\ ~(k <= k - 1)
        OBVIOUS
      <4>2. \A m \in 1..Len(s) : F[m] \notin Seq(S) => k <= m
        BY <3>2
      <4> QED
        BY <4>1, <4>2
    <3>6. F[k] \in Seq(S)
      BY <3>3, <3>4, <3>5
    <3> QED
      BY <3>2, <3>6
  <2> QED
    BY <2>1, <2>2, <2>4
<1> QED
  BY <1>1, <1>2

\* The same of a list that is given as a function.
LEMMA FlattenFcnType ==
    ASSUME NEW S, NEW n \in Nat, NEW f \in [1..n -> Seq(S)]
    PROVE  FlattenSeq(f) \in Seq(S)
<1>1. f \in Seq(Seq(S))
  OBVIOUS
<1> QED
  BY <1>1, FlattenType

\* Lists of at most one element, of which the first is empty, are flattened to
\* fewer elements than there are lists.
LEMMA FlattenShorter ==
    ASSUME NEW S, NEW n \in Nat, n # 0, NEW s \in [1..n -> Seq(S)],
           s[1] = <<>>,
           \A i \in 1..n : Len(s[i]) <= 1
    PROVE  Len(FlattenSeq(s)) < n
<1> DEFINE F == CHOOSE f : Concatenates(f, s, n)
<1>1. s \in Seq(Seq(S)) /\ Len(s) = n /\ n \in 1..n
  OBVIOUS
<1>2. FlattenSeq(s) = F[n]
  BY <1>1 DEF FlattenSeq, Concatenates
<1>3. PICK f \in [1..n -> Seq(S)] : Concatenates(f, s, n)
  BY <1>1, ConcatenationsExist
<1>4. Concatenates(F, s, n)
  BY <1>3
<1> HIDE DEF F
<1> DEFINE T == {k \in 1..n : ~(F[k] \in Seq(S) /\ Len(F[k]) < k)}
<1>5. T = {}
  <2>1. SUFFICES ASSUME T # {}
                 PROVE  FALSE
    OBVIOUS
  <2>2. PICK k \in T : \A m \in T : k <= m
    <3>1. T \subseteq Nat
      OBVIOUS
    <3> QED
      BY <2>1, <3>1, LeastNatural
  <2>3. k \in 1..n /\ s[k] \in Seq(S) /\ Len(s[k]) <= 1
    OBVIOUS
  <2>4. F[k] = IF k = 1 THEN s[k] ELSE F[k-1] \o s[k]
    BY <1>4, <2>3 DEF Concatenates
  <2>5. CASE k = 1
    <3>1. F[k] = <<>>
      BY <2>4, <2>5
    <3> QED
      BY <2>2, <2>5, <3>1
  <2>6. CASE k # 1
    <3>1. k - 1 \in 1..n /\ ~(k <= k - 1)
      BY <2>3, <2>6
    <3>2. F[k-1] \in Seq(S) /\ Len(F[k-1]) < k - 1
      BY <2>2, <3>1
    <3>3. F[k] \in Seq(S) /\ Len(F[k]) = Len(F[k-1]) + Len(s[k])
      BY <2>3, <2>4, <2>6, <3>2
    <3>4. Len(F[k-1]) \in Nat /\ Len(s[k]) \in Nat
      <4>1. \A q \in Seq(S) : Len(q) \in Nat
        OBVIOUS
      <4> QED
        BY <2>3, <3>2, <4>1
    <3>5. Len(F[k]) < k
      <4> HIDE DEF T
      <4>1. k \in Nat /\ Len(s[k]) <= 1 /\ Len(F[k-1]) < k - 1
        BY <2>3, <3>2
      <4>2. \A a, b \in Nat : b <= 1 /\ a < k - 1 => a + b < k
        BY <4>1
      <4>3. Len(F[k-1]) + Len(s[k]) < k
        BY <3>4, <4>1, <4>2
      <4> QED
        BY <3>3, <4>3
    <3> QED
      BY <2>2, <3>3, <3>5
  <2> QED
    BY <2>5, <2>6
<1> QED
  BY <1>1, <1>2, <1>5

-----------------------------------------------------------------------------
(* The inductive invariant *)

\* Only an answer gives up an unsupported condition, and only the card that asks
\* about it.
OwedStands == owed = draft.unsupported

\* The pending card is the question about the first open item of the draft that
\* is stored beside it.
AskedAboutDraft == phase = "asked" => card = CardFor(draft)

\* Nothing is saved that the validation would have asked about.
SavedIsExecutable == phase = "saved" => Executable(draft)

\* Java is asked about drafts that leave nothing else to ask.
ResolvesWhatIsClear == phase = "resolve" => Executable(draft) /\ ~resolved

\* Java's answer clears what the model made up; later answers add options only.
CodesAreClean ==
    consulted => /\ draft.codes \in Seq({"option", "java"})
                 /\ \A f \in Scalars : draft.code[f] # "forged"

IInv ==
    /\ TypeOK
    /\ OwedStands
    /\ AskedAboutDraft
    /\ SavedIsExecutable
    /\ ResolvesWhatIsClear
    /\ CodesAreClean

\* The pending card, or none.
Cards == [kind : Kinds \cup {"none"}, field : Fields, index : Nat,
          text : Names \cup {NoText}, options : {"none", "model", "java"}]

-----------------------------------------------------------------------------
(* What the operators do to a draft *)

\* The validation asks about well-formed items.
LEMMA AmbiguitiesType ==
    ASSUME NEW d \in Draft
    PROVE  /\ Ambiguities(d) \in Seq(Ambiguity)
           /\ d.unresolved => Ambiguities(d) # <<>>
<1>1. d.ambiguities \in Seq(Ambiguity)
  BY DEF Draft
<1> DEFINE item == [field |-> "location.scope", index |-> 0, text |-> NoText,
                    options |-> "model"]
<1>2. item \in Ambiguity
  BY DEF Ambiguity, Fields
<1>3. Ambiguities(d) = d.ambiguities \o (IF d.unresolved THEN <<item>> ELSE <<>>)
  BY DEF Ambiguities
<1> HIDE DEF item
<1>4. <<item>> \in Seq(Ambiguity) /\ <<>> \in Seq(Ambiguity) /\ Len(<<item>>) = 1
  BY <1>2
<1>5. d.ambiguities \o <<item>> # <<>>
  BY <1>1, <1>4
<1> QED
  BY <1>1, <1>3, <1>4, <1>5

\* The card of a draft is well typed, and is about something.
LEMMA CardType ==
    ASSUME NEW d \in Draft
    PROVE  CardFor(d) \in Cards /\ CardFor(d) # NoCard
<1>1. Ambiguities(d) # <<>> => Head(Ambiguities(d)) \in Ambiguity
  BY AmbiguitiesType
<1>2. NoCard \in Cards
  BY DEF NoCard, Cards, Fields
<1> DEFINE first == Head(Ambiguities(d))
           asked == [kind |-> IF first.options = "none" THEN "ENTITY_NOT_FOUND"
                              ELSE "ENTITY_AMBIGUITY",
                     field |-> first.field, index |-> first.index, text |-> first.text,
                     options |-> first.options]
<1>3. Ambiguities(d) # <<>> => asked \in Cards /\ asked.kind # "none"
  BY <1>1 DEF Ambiguity, Cards, Kinds
<1>4. /\ [NoCard EXCEPT !.kind = "UNSUPPORTED_CONDITION"] \in Cards
      /\ [NoCard EXCEPT !.kind = "MESSAGE_INTENT"] \in Cards
      /\ [NoCard EXCEPT !.kind = "LOCATION_SCOPE", !.field = "location.scope"] \in Cards
  BY DEF NoCard, Cards, Kinds, Fields
<1>5. NoCard.kind = "none"
  BY DEF NoCard
<1>6. CASE d.unsupported > 0
  BY <1>4, <1>5, <1>6 DEF CardFor, NoCard
<1>7. CASE ~(d.unsupported > 0) /\ d.unresolved
  BY <1>4, <1>5, <1>7 DEF CardFor, NoCard
<1>8. CASE ~(d.unsupported > 0) /\ ~d.unresolved /\ Ambiguities(d) # <<>>
  <2>1. CardFor(d) = asked
    BY <1>8 DEF CardFor
  <2> QED
    BY <1>3, <1>5, <1>8, <2>1
<1>9. CASE ~(d.unsupported > 0) /\ ~d.unresolved /\ Ambiguities(d) = <<>>
  BY <1>4, <1>5, <1>9 DEF CardFor, NoCard
<1> QED
  BY <1>6, <1>7, <1>8, <1>9

\* Taking an answered item away changes nothing else.
LEMMA WithoutType ==
    ASSUME NEW d \in Draft, NEW field, NEW index
    PROVE  LET w == Without(d, field, index) IN
           /\ w \in Draft
           /\ w.codes = d.codes /\ w.code = d.code /\ w.unsupported = d.unsupported
           /\ w.names = d.names /\ w.value = d.value /\ w.unresolved = d.unresolved
<1> DEFINE items == d.ambiguities
           lists == [i \in DOMAIN items |-> IF items[i].field = field /\ items[i].index = index
                                            THEN <<>> ELSE <<items[i]>>]
<1>1. items \in Seq(Ambiguity)
  BY DEF Draft
<1>2. \A i \in DOMAIN items : items[i] \in Ambiguity
  BY <1>1
<1>3. \A i \in DOMAIN items : lists[i] \in Seq(Ambiguity)
  BY <1>2
<1>4. DOMAIN items = 1..Len(items) /\ Len(items) \in Nat
  BY <1>1
<1>5. lists \in [1..Len(items) -> Seq(Ambiguity)]
  BY <1>3, <1>4
<1>6. FlattenSeq(lists) \in Seq(Ambiguity)
  <2> HIDE DEF lists, items
  <2> QED
    BY <1>4, <1>5, FlattenFcnType
<1>7. Without(d, field, index) = [d EXCEPT !.ambiguities = FlattenSeq(lists)]
  BY DEF Without
<1> HIDE DEF lists
<1> QED
  BY <1>6, <1>7 DEF Draft

\* What Java leaves open about one text.
LEMMA OpenType ==
    ASSUME NEW field \in Fields, NEW index \in Nat, field = "company" <=> index > 0,
           NEW text \in Names \cup {NoText}, NEW answer
    PROVE  Open(field, index, text, answer) \in Seq(Ambiguity)
<1> DEFINE item == [field |-> field, index |-> index, text |-> text,
                    options |-> IF answer = "many" THEN "java" ELSE "none"]
<1>1. item \in Ambiguity
  BY DEF Ambiguity
<1>2. Open(field, index, text, answer) = IF answer = "one" THEN <<>> ELSE <<item>>
  BY DEF Open
<1> HIDE DEF item
<1> QED
  BY <1>1, <1>2

\* The draft stays well typed when it is resolved, and holds Java's codes only.
LEMMA ResolvedType ==
    ASSUME NEW d \in Draft
    PROVE  /\ Resolved(d) \in Draft
           /\ Resolved(d).unsupported = d.unsupported
           /\ Resolved(d).codes \in Seq({"option", "java"})
           /\ \A f \in Scalars : Resolved(d).code[f] # "forged"
<1> DEFINE ones == [i \in DOMAIN d.names |->
                      IF verdict[d.names[i]] = "one" THEN <<"java">> ELSE <<>>]
           opens == [i \in DOMAIN d.names |->
                      Open("company", i, d.names[i], verdict[d.names[i]])]
           code == [f \in Scalars |->
                      IF d.value[f] # "absent" /\ ScalarVerdict(d, f) = "one"
                      THEN "java" ELSE "none"]
           codes == CodesBefore(d) \o FlattenSeq(ones)
           items == d.ambiguities \o OpenScalar(d, "minimum_degree") \o FlattenSeq(opens)
                    \o OpenScalar(d, "current_city") \o OpenScalar(d, "expected_city")
<1>1. /\ d.names \in Seq(Names) /\ d.ambiguities \in Seq(Ambiguity)
      /\ DOMAIN d.names = 1..Len(d.names) /\ Len(d.names) \in Nat
      /\ \A i \in DOMAIN d.names : d.names[i] \in Names
  BY DEF Draft
<1>2. codes \in Seq({"option", "java"})
  <2>1. <<"java">> \in Seq({"option", "java"}) /\ <<>> \in Seq({"option", "java"})
    OBVIOUS
  <2>2. ones \in [1..Len(d.names) -> Seq({"option", "java"})]
    <3>1. \A i \in DOMAIN d.names :
            (IF verdict[d.names[i]] = "one" THEN <<"java">> ELSE <<>>) \in Seq({"option", "java"})
      BY <2>1
    <3> QED
      BY <1>1, <3>1
  <2> HIDE DEF ones
  <2>3. FlattenSeq(ones) \in Seq({"option", "java"})
    BY <1>1, <2>2, FlattenFcnType
  <2> QED
    BY <2>1, <2>3 DEF CodesBefore
<1>3. \A f \in Scalars : OpenScalar(d, f) \in Seq(Ambiguity)
  <2>1. TAKE f \in Scalars
  <2>2. Open(f, 0, NoText, ScalarVerdict(d, f)) \in Seq(Ambiguity)
    BY OpenType DEF Fields, Scalars, Cities
  <2> QED
    BY <2>2 DEF OpenScalar
<1>4. items \in Seq(Ambiguity)
  <2>1. ASSUME NEW i \in DOMAIN d.names
        PROVE  Open("company", i, d.names[i], verdict[d.names[i]]) \in Seq(Ambiguity)
    <3>1. /\ "company" \in Fields
          /\ i \in Nat /\ i > 0
          /\ d.names[i] \in Names \cup {NoText}
      BY <1>1 DEF Fields
    <3> QED
      BY <3>1, OpenType
  <2>2. opens \in [1..Len(d.names) -> Seq(Ambiguity)]
    BY <1>1, <2>1
  <2> HIDE DEF opens
  <2>3. FlattenSeq(opens) \in Seq(Ambiguity)
    BY <1>1, <2>2, FlattenFcnType
  <2>4. "minimum_degree" \in Scalars /\ "current_city" \in Scalars
        /\ "expected_city" \in Scalars
    BY DEF Scalars, Cities
  <2>5. /\ OpenScalar(d, "minimum_degree") \in Seq(Ambiguity)
        /\ OpenScalar(d, "current_city") \in Seq(Ambiguity)
        /\ OpenScalar(d, "expected_city") \in Seq(Ambiguity)
    BY <1>3, <2>4
  <2> QED
    BY <1>1, <2>3, <2>5
<1>5. code \in [Scalars -> Codes \cup {"none"}] /\ \A f \in Scalars : code[f] # "forged"
  BY DEF Codes
<1>6. Resolved(d) = [d EXCEPT !.codes = codes, !.code = code, !.ambiguities = items]
  BY DEF Resolved
<1>7. codes \in Seq(Codes)
  BY <1>2 DEF Codes
<1> HIDE DEF codes, code, items
<1> QED
  BY <1>2, <1>4, <1>5, <1>6, <1>7 DEF Draft

-----------------------------------------------------------------------------
(* Every step keeps the invariant *)

\* It holds of every draft the model may return.
LEMMA InitStep == Init => IInv
<1>1. SUFFICES ASSUME Init
               PROVE  IInv
  OBVIOUS
<1>2. draft \in Draft
  BY <1>1, DraftsAssumption DEF Init
<1>3. draft.unsupported \in Nat
  BY <1>2 DEF Draft
<1>4. NoCard \in Cards
  BY DEF NoCard, Cards, Fields
<1>5. TypeOK
  BY <1>1, <1>2, <1>3, <1>4 DEF Init, TypeOK, Cards
<1> QED
  BY <1>1, <1>5 DEF Init, IInv, OwedStands, AskedAboutDraft, SavedIsExecutable,
         ResolvesWhatIsClear, CodesAreClean

\* The validation saves a plan, if any, that it has nothing to ask about.
LEMMA ValidateStep ==
    ASSUME IInv, Validate
    PROVE  IInv'
<1>1. /\ phase' \in {"clarify", "saved", "resolve"}
      /\ phase' = "saved" => Executable(draft)
      /\ phase' = "resolve" => Executable(draft) /\ ~resolved
  BY DEF Validate
<1>2. card' \in Cards /\ (phase' = "saved" => card' = NoCard)
  BY DEF Validate, CardOn, IInv, TypeOK, NoCard, Cards, Fields
<1>3. UNCHANGED <<verdict, draft, resolved, refused, owed, consulted>>
  BY DEF Validate
<1>4. TypeOK'
  BY <1>1, <1>2, <1>3 DEF IInv, TypeOK, Cards
<1>5. Executable(draft)' <=> Executable(draft)
  BY <1>3 DEF Executable, Ambiguities, NoConditions
<1> QED
  BY <1>1, <1>3, <1>4, <1>5 DEF IInv, OwedStands, AskedAboutDraft, SavedIsExecutable,
         ResolvesWhatIsClear, CodesAreClean

\* Java's answer leaves only its own codes in the draft.
LEMMA ResolveStep ==
    ASSUME IInv, Resolve
    PROVE  IInv'
<1>1. draft \in Draft /\ draft' = Resolved(draft)
  BY DEF IInv, TypeOK, Resolve
<1>2. /\ draft' \in Draft
      /\ draft'.unsupported = draft.unsupported
      /\ draft'.codes \in Seq({"option", "java"})
      /\ \A f \in Scalars : draft'.code[f] # "forged"
  BY <1>1, ResolvedType
<1>3. phase' \in {"clarify", "saved"} /\ (phase' = "saved" => Executable(draft)')
  BY DEF Resolve, ExecutableNow, Executable, Ambiguities, NoConditions
<1>4. card' \in Cards /\ (phase' = "saved" => card' = NoCard)
  BY DEF Resolve, CardOn, IInv, TypeOK, NoCard, Cards, Fields
<1>5. UNCHANGED <<verdict, resolved, refused, owed>> /\ consulted' = TRUE
  BY DEF Resolve
<1>6. TypeOK'
  BY <1>2, <1>3, <1>4, <1>5 DEF IInv, TypeOK, Cards
<1> QED
  BY <1>2, <1>3, <1>5, <1>6 DEF IInv, OwedStands, AskedAboutDraft, SavedIsExecutable,
         ResolvesWhatIsClear, CodesAreClean

\* The question is the one about the stored draft.
LEMMA ClarifyStep ==
    ASSUME IInv, Clarify
    PROVE  IInv'
<1>1. UNCHANGED <<verdict, draft, resolved, owed, consulted>> /\ phase' = "asked"
      /\ refused' = FALSE /\ card' = CardFor(draft)
  BY DEF Clarify
<1>2. CardFor(draft)' = CardFor(draft)
  BY <1>1 DEF CardFor, Ambiguities
<1>3. card' \in Cards /\ card' # NoCard
  BY <1>1, CardType DEF IInv, TypeOK
<1>4. TypeOK'
  BY <1>1, <1>3 DEF IInv, TypeOK, Cards
<1> QED
  BY <1>1, <1>2, <1>4 DEF IInv, OwedStands, AskedAboutDraft, SavedIsExecutable,
         ResolvesWhatIsClear, CodesAreClean

\* The dialogue ends without a card.
LEMMA DismissStep ==
    ASSUME IInv, Dismiss
    PROVE  IInv'
<1>1. UNCHANGED <<verdict, draft, resolved, owed, consulted>> /\ phase' = "dismissed"
      /\ refused' = FALSE /\ card' = NoCard
  BY DEF Dismiss
<1>2. NoCard \in Cards
  BY DEF NoCard, Cards, Fields
<1>3. TypeOK'
  BY <1>1, <1>2 DEF IInv, TypeOK, Cards
<1> QED
  BY <1>1, <1>3 DEF IInv, OwedStands, AskedAboutDraft, SavedIsExecutable,
         ResolvesWhatIsClear, CodesAreClean

\* An answer that is refused changes nothing.
LEMMA RefuseStep ==
    ASSUME IInv, Refuse
    PROVE  IInv'
<1>1. UNCHANGED <<verdict, draft, resolved, phase, card, owed, consulted>> /\ refused' = TRUE
  BY DEF Refuse
<1>2. TypeOK'
  BY <1>1 DEF IInv, TypeOK
<1>3. CardFor(draft)' = CardFor(draft) /\ (Executable(draft)' <=> Executable(draft))
  BY <1>1 DEF CardFor, Executable, Ambiguities, NoConditions
<1> QED
  BY <1>1, <1>2, <1>3 DEF IInv, OwedStands, AskedAboutDraft, SavedIsExecutable,
         ResolvesWhatIsClear, CodesAreClean

\* What an answer has to leave in the draft for the next round to start well.
LEMMA ContinueStep ==
    ASSUME IInv,
           NEW d \in Draft, NEW skip \in BOOLEAN, Continue(d, skip),
           d.unsupported = owed',
           consulted => /\ d.codes \in Seq({"option", "java"})
                        /\ \A f \in Scalars : d.code[f] # "forged"
    PROVE  IInv'
<1>1. /\ draft' = d /\ resolved' = skip /\ phase' = "validate" /\ refused' = FALSE
      /\ UNCHANGED <<verdict, card, consulted>>
  BY DEF Continue
<1>2. owed' \in Nat
  BY DEF Draft
<1>3. TypeOK'
  BY <1>1, <1>2 DEF IInv, TypeOK
<1> QED
  BY <1>1, <1>3 DEF IInv, OwedStands, AskedAboutDraft, SavedIsExecutable,
         ResolvesWhatIsClear, CodesAreClean

\* The user is asked to give up a condition only while one is left.
LEMMA IgnoreUnsupportedStep ==
    ASSUME IInv, IgnoreUnsupported
    PROVE  IInv'
<1>1. draft \in Draft /\ card = CardFor(draft) /\ owed = draft.unsupported
  BY DEF IgnoreUnsupported, IInv, TypeOK, AskedAboutDraft, OwedStands
<1>2. draft.unsupported > 0
  <2>1. SUFFICES ASSUME ~(draft.unsupported > 0)
                 PROVE  CardFor(draft).kind # "UNSUPPORTED_CONDITION"
    BY <1>1 DEF IgnoreUnsupported
  <2>2. CASE draft.unresolved
    BY <2>1, <2>2 DEF CardFor, NoCard
  <2>3. CASE ~draft.unresolved
    BY <2>1, <2>3 DEF CardFor, NoCard
  <2> QED
    BY <2>2, <2>3
<1> DEFINE d == [draft EXCEPT !.unsupported = Remaining(@)]
<1>3. d \in Draft /\ d.unsupported = draft.unsupported - 1
      /\ d.codes = draft.codes /\ d.code = draft.code
  <2>1. /\ Remaining(draft.unsupported) = draft.unsupported - 1
        /\ draft.unsupported - 1 \in Nat
    BY <1>1, <1>2 DEF Draft, Remaining
  <2> QED
    BY <1>1, <2>1 DEF Draft
<1>4. Continue(d, FALSE) /\ owed' = owed - 1
  BY DEF IgnoreUnsupported
<1>5. consulted => /\ d.codes \in Seq({"option", "java"})
                   /\ \A f \in Scalars : d.code[f] # "forged"
  BY <1>3 DEF IInv, CodesAreClean
<1> HIDE DEF d
<1> QED
  BY <1>1, <1>3, <1>4, <1>5, ContinueStep

\* The chosen scope is a city as the user said it.
LEMMA ChooseScopeStep ==
    ASSUME IInv, ChooseScope
    PROVE  IInv'
<1>1. PICK f \in Cities :
        Continue([Without(draft, "location.scope", 0) EXCEPT
                    !.unresolved = FALSE, !.value[f] = "said", !.code[f] = "none"], FALSE)
  BY DEF ChooseScope
<1>2. draft \in Draft /\ f \in Scalars /\ owed' = owed
  BY DEF ChooseScope, IInv, TypeOK, Scalars
<1> DEFINE w == Without(draft, "location.scope", 0)
           d == [w EXCEPT !.unresolved = FALSE, !.value[f] = "said", !.code[f] = "none"]
<1>3. w \in Draft /\ w.codes = draft.codes /\ w.code = draft.code
      /\ w.unsupported = draft.unsupported
  BY <1>2, WithoutType
<1>4. Continue(d, FALSE)
  BY <1>1
<1> HIDE DEF w
<1>5. d \in Draft /\ d.unsupported = w.unsupported /\ d.codes = w.codes
      /\ d.code = [w.code EXCEPT ![f] = "none"]
  BY <1>2, <1>3 DEF Draft
<1>6. w.code \in [Scalars -> Codes \cup {"none"}]
  BY <1>3 DEF Draft
<1>7. consulted => /\ d.codes \in Seq({"option", "java"})
                   /\ \A g \in Scalars : d.code[g] # "forged"
  BY <1>2, <1>3, <1>5, <1>6 DEF IInv, CodesAreClean
<1> HIDE DEF d
<1> QED
  BY <1>2, <1>3, <1>4, <1>5, <1>7, ContinueStep DEF IInv, OwedStands

\* An option the user has chosen is never a code the model made up.
LEMMA ChosenType ==
    ASSUME NEW d \in Draft, NEW c \in Cards, Choosable(d, c)
    PROVE  /\ Chosen(d, c) \in Draft
           /\ Chosen(d, c).unsupported = d.unsupported
           /\ d.codes \in Seq({"option", "java"}) =>
                  Chosen(d, c).codes \in Seq({"option", "java"})
           /\ (\A f \in Scalars : d.code[f] # "forged") =>
                  \A f \in Scalars : Chosen(d, c).code[f] # "forged"
<1>1. CodeOf(c) \in {"option", "java"} /\ CodeOf(c) \in Codes
  BY DEF CodeOf, Codes
<1>2. d.codes \in Seq(Codes) /\ d.code \in [Scalars -> Codes \cup {"none"}]
  BY DEF Draft
<1>3. CASE c.field = "work_years"
  <2>1. Chosen(d, c) = [d EXCEPT !.other = TRUE]
    BY <1>3 DEF Chosen, Cities
  <2> QED
    BY <2>1 DEF Draft
<1>4. CASE c.field = "minimum_degree"
  <2> DEFINE value == [d.value EXCEPT !["minimum_degree"] = "chosen"]
             code == [d.code EXCEPT !["minimum_degree"] = "none"]
  <2>1. Chosen(d, c) = [d EXCEPT !.value = value, !.code = code]
    BY <1>4 DEF Chosen, Cities
  <2>2. "minimum_degree" \in Scalars
    BY DEF Scalars
  <2>3. value \in [Scalars -> {"absent", "said", "chosen"}]
    BY <2>2 DEF Draft
  <2>4. code \in [Scalars -> Codes \cup {"none"}]
    BY <1>2, <2>2
  <2>5. (\A f \in Scalars : d.code[f] # "forged") => \A f \in Scalars : code[f] # "forged"
    BY <1>2, <2>2
  <2> HIDE DEF value, code
  <2> QED
    BY <2>1, <2>3, <2>4, <2>5 DEF Draft
<1>5. CASE c.field \in Cities
  <2>1. c.field # "work_years" /\ c.field # "minimum_degree" /\ c.field \in Scalars
    BY <1>5 DEF Cities, Scalars
  <2> DEFINE code == [d.code EXCEPT ![c.field] = CodeOf(c)]
  <2>2. Chosen(d, c) = [d EXCEPT !.code = code]
    BY <1>5, <2>1 DEF Chosen, Cities
  <2>3. code \in [Scalars -> Codes \cup {"none"}]
    BY <1>1, <1>2, <2>1
  <2>4. (\A f \in Scalars : d.code[f] # "forged") => \A f \in Scalars : code[f] # "forged"
    BY <1>1, <1>2, <2>1
  <2> HIDE DEF code
  <2> QED
    BY <2>2, <2>3, <2>4 DEF Draft
<1>6. CASE c.field = "company"
  <2>1. Chosen(d, c) = [d EXCEPT !.codes = Append(@, CodeOf(c))]
    BY <1>6 DEF Chosen, Cities
  <2>2. Append(d.codes, CodeOf(c)) \in Seq(Codes)
    BY <1>1, <1>2
  <2>3. Chosen(d, c) \in Draft /\ Chosen(d, c).unsupported = d.unsupported
        /\ Chosen(d, c).codes = Append(d.codes, CodeOf(c))
        /\ Chosen(d, c).code = d.code
    BY <2>1, <2>2 DEF Draft
  <2> QED
    BY <1>1, <2>3
<1> QED
  BY <1>3, <1>4, <1>5, <1>6 DEF Choosable

\* The other items of the draft and its unsupported conditions stay as they are.
LEMMA ChooseOptionStep ==
    ASSUME IInv, ChooseOption
    PROVE  IInv'
<1>1. draft \in Draft /\ card \in Cards
  BY DEF IInv, TypeOK, Cards
<1>2. CASE Refuse
  BY <1>2, RefuseStep
<1>3. CASE /\ Choosable(draft, card)
           /\ Continue(Without(Chosen(draft, card), card.field, card.index),
                       SkipsResolution(card.field))
           /\ UNCHANGED owed
  <2> DEFINE c == Chosen(draft, card)
             d == Without(c, card.field, card.index)
  <2>1. /\ c \in Draft /\ c.unsupported = draft.unsupported
        /\ consulted => /\ c.codes \in Seq({"option", "java"})
                        /\ \A f \in Scalars : c.code[f] # "forged"
    BY <1>1, <1>3, ChosenType DEF IInv, CodesAreClean
  <2> HIDE DEF c
  <2>2. /\ d \in Draft /\ d.codes = c.codes /\ d.code = c.code
        /\ d.unsupported = c.unsupported
    BY <2>1, WithoutType
  <2>3. Continue(d, SkipsResolution(card.field)) /\ owed' = owed
    BY <1>3 DEF c
  <2>4. SkipsResolution(card.field) \in BOOLEAN
    BY DEF SkipsResolution
  <2>5. /\ d.unsupported = owed'
        /\ consulted => /\ d.codes \in Seq({"option", "java"})
                        /\ \A f \in Scalars : d.code[f] # "forged"
    BY <2>1, <2>2, <2>3 DEF IInv, OwedStands
  <2> HIDE DEF d
  <2> QED
    BY <2>2, <2>3, <2>4, <2>5, ContinueStep
<1> QED
  BY <1>2, <1>3 DEF ChooseOption

\* Dropping a value leaves a list of names.
LEMMA DroppedType ==
    ASSUME NEW names \in Seq(Names), NEW index \in Nat
    PROVE  Dropped(names, index) \in Seq(Names)
<1>1. CASE index \in DOMAIN names
  <2>1. index \in 1..Len(names)
    BY <1>1
  <2>2. /\ SubSeq(names, 1, index - 1) \in Seq(Names)
        /\ SubSeq(names, index + 1, Len(names)) \in Seq(Names)
    BY <2>1
  <2> QED
    BY <1>1, <2>2 DEF Dropped, RemoveAt
<1> QED
  BY <1>1 DEF Dropped

\* A value Java does not know is dropped, and nothing is coded instead.
LEMMA IgnoreNotFoundStep ==
    ASSUME IInv, IgnoreNotFound
    PROVE  IInv'
<1>1. draft \in Draft /\ card \in Cards
  BY DEF IInv, TypeOK, Cards
<1>2. card.index \in Nat
  BY <1>1 DEF Cards
<1>3. CASE Refuse
  BY <1>3, RefuseStep
<1>4. CASE /\ card.field = "company"
           /\ LET names == Dropped(draft.names, card.index) IN
              Continue([Without(draft, "company", card.index) EXCEPT
                          !.names = names,
                          !.codes = IF names = <<>> THEN <<>> ELSE @], FALSE)
           /\ UNCHANGED owed
  <2> DEFINE names == Dropped(draft.names, card.index)
             w == Without(draft, "company", card.index)
             d == [w EXCEPT !.names = names, !.codes = IF names = <<>> THEN <<>> ELSE @]
  <2>1. names \in Seq(Names)
    BY <1>1, <1>2, DroppedType DEF Draft
  <2>2. w \in Draft /\ w.codes = draft.codes /\ w.code = draft.code
        /\ w.unsupported = draft.unsupported
    BY <1>1, WithoutType
  <2>3. Continue(d, FALSE) /\ owed' = owed
    BY <1>4
  <2> HIDE DEF names, w
  <2> DEFINE codes == IF names = <<>> THEN <<>> ELSE w.codes
  <2>4. codes \in Seq(Codes) /\ (w.codes \in Seq({"option", "java"}) =>
                                  codes \in Seq({"option", "java"}))
    BY <2>2 DEF Draft
  <2>5. d = [w EXCEPT !.names = names, !.codes = codes]
    OBVIOUS
  <2> HIDE DEF codes, d
  <2>6. d \in Draft /\ d.unsupported = w.unsupported /\ d.codes = codes /\ d.code = w.code
    BY <2>1, <2>2, <2>4, <2>5 DEF Draft
  <2>7. /\ d.unsupported = owed'
        /\ consulted => /\ d.codes \in Seq({"option", "java"})
                        /\ \A f \in Scalars : d.code[f] # "forged"
    BY <2>2, <2>3, <2>4, <2>6 DEF IInv, OwedStands, CodesAreClean
  <2> QED
    BY <2>3, <2>6, <2>7, ContinueStep
<1>5. CASE /\ card.field \in Scalars
           /\ Continue([Without(draft, card.field, 0) EXCEPT
                          !.value[card.field] = "absent", !.code[card.field] = "none"], FALSE)
           /\ UNCHANGED owed
  <2> DEFINE w == Without(draft, card.field, 0)
             d == [w EXCEPT !.value[card.field] = "absent", !.code[card.field] = "none"]
  <2>1. w \in Draft /\ w.codes = draft.codes /\ w.code = draft.code
        /\ w.unsupported = draft.unsupported
    BY <1>1, WithoutType
  <2>2. Continue(d, FALSE) /\ owed' = owed /\ card.field \in Scalars
    BY <1>5
  <2> HIDE DEF w
  <2>3. d \in Draft /\ d.unsupported = w.unsupported /\ d.codes = w.codes
        /\ d.code = [w.code EXCEPT ![card.field] = "none"]
    BY <2>1, <2>2 DEF Draft
  <2>4. w.code \in [Scalars -> Codes \cup {"none"}]
    BY <2>1 DEF Draft
  <2>5. /\ d.unsupported = owed'
        /\ consulted => /\ d.codes \in Seq({"option", "java"})
                        /\ \A f \in Scalars : d.code[f] # "forged"
    BY <2>1, <2>2, <2>3, <2>4 DEF IInv, OwedStands, CodesAreClean
  <2> HIDE DEF d
  <2> QED
    BY <2>2, <2>3, <2>5, ContinueStep
<1> QED
  BY <1>3, <1>4, <1>5 DEF IgnoreNotFound

-----------------------------------------------------------------------------
(* The theorems *)

\* What is true of every dialogue, however many rounds it takes.
THEOREM InductiveInvariant == Spec => []IInv
<1>1. Init => IInv
  BY InitStep
<1>2. IInv /\ [Next]_vars => IInv'
  <2>1. SUFFICES ASSUME IInv, [Next]_vars
                 PROVE  IInv'
    OBVIOUS
  <2>2. CASE Validate
    BY <2>1, <2>2, ValidateStep
  <2>3. CASE Resolve
    BY <2>1, <2>3, ResolveStep
  <2>4. CASE Clarify
    BY <2>1, <2>4, ClarifyStep
  <2>5. CASE Answer
    <3>1. CASE Dismiss
      BY <2>1, <3>1, DismissStep
    <3>2. CASE IgnoreUnsupported
      BY <2>1, <3>2, IgnoreUnsupportedStep
    <3>3. CASE ChooseScope
      BY <2>1, <3>3, ChooseScopeStep
    <3>4. CASE ChooseOption
      BY <2>1, <3>4, ChooseOptionStep
    <3>5. CASE IgnoreNotFound
      BY <2>1, <3>5, IgnoreNotFoundStep
    <3> QED
      BY <2>5, <3>1, <3>2, <3>3, <3>4, <3>5 DEF Answer
  <2>6. CASE UNCHANGED vars
    <3>1. UNCHANGED <<verdict, draft, resolved, phase, card, refused, owed, consulted>>
      BY <2>6 DEF vars
    <3>2. TypeOK'
      BY <2>1, <3>1 DEF IInv, TypeOK
    <3>3. CardFor(draft)' = CardFor(draft) /\ (Executable(draft)' <=> Executable(draft))
      BY <3>1 DEF CardFor, Executable, Ambiguities, NoConditions
    <3> QED
      BY <2>1, <3>1, <3>2, <3>3
         DEF IInv, OwedStands, AskedAboutDraft, SavedIsExecutable,
         ResolvesWhatIsClear, CodesAreClean
  <2> QED
    BY <2>1, <2>2, <2>3, <2>4, <2>5, <2>6 DEF Next
<1> QED
  BY <1>1, <1>2, PTL DEF Spec

\* The draft and the card are well typed for any names and drafts, lists of any
\* length included: the graph never asks without a card.
THEOREM TypeCorrect == Spec => []TypeOK
<1>1. IInv => TypeOK
  BY DEF IInv
<1> QED
  BY <1>1, InductiveInvariant, PTL

\* No code the model made up reaches a plan that is saved after Java was asked
\* (resolve_draft_entities), whatever is answered afterwards.
THEOREM SavedCodesAreNotForged == Spec => []NoForgedCode
<1>1. IInv => NoForgedCode
  <2>1. SUFFICES ASSUME IInv, consulted
                 PROVE  /\ \A i \in DOMAIN draft.codes : draft.codes[i] # "forged"
                        /\ \A f \in Scalars : draft.code[f] # "forged"
    BY DEF NoForgedCode
  <2>2. draft.codes \in Seq({"option", "java"}) /\ \A f \in Scalars : draft.code[f] # "forged"
    BY <2>1 DEF IInv, CodesAreClean
  <2>3. \A i \in DOMAIN draft.codes : draft.codes[i] \in {"option", "java"}
    BY <2>2
  <2> QED
    BY <2>2, <2>3
<1> QED
  BY <1>1, InductiveInvariant, PTL

\* Both ways to save, the validation and the resolution, leave nothing to ask and
\* nothing the user has not given up, and never an empty plan.
THEOREM SavedPlansOweNothing == Spec => []NothingGivenUpSilently
<1>1. IInv => NothingGivenUpSilently
  <2>1. SUFFICES ASSUME IInv, phase = "saved"
                 PROVE  owed = 0 /\ Ambiguities(draft) = <<>> /\ ~NoConditions(draft)
    BY DEF NothingGivenUpSilently
  <2>2. draft \in Draft /\ owed = draft.unsupported /\ Executable(draft)
    BY <2>1 DEF IInv, TypeOK, OwedStands, SavedIsExecutable
  <2>3. /\ Ambiguities(draft) = <<>>
        /\ draft.unsupported = 0
        /\ draft.unresolved \/ ~NoConditions(draft)
    BY <2>2 DEF Executable
  <2>4. draft.unresolved => Ambiguities(draft) # <<>>
    BY <2>2, AmbiguitiesType
  <2> QED
    BY <2>2, <2>3, <2>4
<1> QED
  BY <1>1, InductiveInvariant, PTL

-----------------------------------------------------------------------------
(* Why the questions come to an end *)

\* How many conditions of a draft Java may still have to be asked about.
Said(d, f) == IF d.value[f] = "said" THEN 1 ELSE 0

Askable(d) ==
    Len(d.names) + Said(d, "minimum_degree") + Said(d, "current_city")
                 + Said(d, "expected_city")

\* Items that lead to another resolution only after a condition has become
\* settled: those Java has just left open.  What the model left open, or an index
\* that has moved, may send the draft back unchanged.
Settling(d) ==
    {a \in Ambiguity :
        \/ /\ a.field \in Scalars /\ d.value[a.field] = "said"
           /\ a.options = "none" \/ a.field = "minimum_degree"
        \/ a.field = "company" /\ a.options = "none" /\ a.index \in DOMAIN d.names
        \/ a.options # "none" /\ SkipsResolution(a.field)}

LastRound(d, skip) == d.ambiguities \in Seq(Settling(d)) /\ (d.ambiguities = <<>> => skip)

\* A bound on the resolutions to come.
Rounds(d, skip) == Askable(d) + IF LastRound(d, skip) THEN 0 ELSE 1

\* How far a round has come.
Rank(p) == CASE p = "validate" -> 4 [] p = "resolve" -> 3 [] p = "clarify" -> 2
             [] p = "asked" -> 1 [] OTHER -> 0

\* Lexicographically: unsupported conditions, the scope of the city, resolutions
\* to come, open items, the rest of the round.
Sooner(d, skip, p) ==
    \/ d.unsupported < draft.unsupported
    \/ /\ d.unsupported = draft.unsupported
       /\ \/ draft.unresolved /\ ~d.unresolved
          \/ /\ d.unresolved = draft.unresolved
             /\ \/ Rounds(d, skip) < Rounds(draft, resolved)
                \/ /\ Rounds(d, skip) = Rounds(draft, resolved)
                   /\ \/ Len(d.ambiguities) < Len(draft.ambiguities)
                      \/ Len(d.ambiguities) = Len(draft.ambiguities) /\ Rank(p) < Rank(phase)

\* Every step but a refused answer brings the end of the dialogue closer.
EndComesCloser == [][Sooner(draft', resolved', phase') \/ Refuse]_vars

\* The counts are natural numbers.
LEMMA RoundsType ==
    ASSUME NEW d \in Draft, NEW skip
    PROVE  /\ Askable(d) \in Nat
           /\ Rounds(d, skip) \in Nat
           /\ LastRound(d, skip) => Rounds(d, skip) = Askable(d)
           /\ ~LastRound(d, skip) => Rounds(d, skip) = Askable(d) + 1
           /\ Len(d.ambiguities) \in Nat
<1>1. Len(d.names) \in Nat /\ Len(d.ambiguities) \in Nat
  <2>1. d.names \in Seq(Names) /\ d.ambiguities \in Seq(Ambiguity)
    BY DEF Draft
  <2> QED
    BY <2>1
<1>2. \A f : Said(d, f) \in {0, 1}
  BY DEF Said
<1>3. Askable(d) \in Nat
  BY <1>1, <1>2 DEF Askable
<1> QED
  BY <1>1, <1>3 DEF Rounds

\* What a draft without the answered items consists of.
LEMMA WithoutItems ==
    ASSUME NEW d \in Draft, NEW S, d.ambiguities \in Seq(S), NEW field, NEW index
    PROVE  Without(d, field, index).ambiguities \in Seq(S)
<1> DEFINE items == d.ambiguities
           lists == [i \in DOMAIN items |-> IF items[i].field = field /\ items[i].index = index
                                            THEN <<>> ELSE <<items[i]>>]
<1>1. DOMAIN items = 1..Len(items) /\ Len(items) \in Nat
  OBVIOUS
<1>2. \A i \in DOMAIN items : items[i] \in S
  OBVIOUS
<1>3. lists \in [1..Len(items) -> Seq(S)]
  BY <1>1, <1>2
<1>4. Without(d, field, index).ambiguities = FlattenSeq(lists)
  BY DEF Without, Draft
<1> HIDE DEF lists, items
<1> QED
  BY <1>1, <1>3, <1>4, FlattenFcnType

\* The item a card was about is gone after its answer.
LEMMA WithoutShorter ==
    ASSUME NEW d \in Draft, d.ambiguities # <<>>
    PROVE  LET a == Head(d.ambiguities) IN
           Len(Without(d, a.field, a.index).ambiguities) < Len(d.ambiguities)
<1> DEFINE items == d.ambiguities
           a == Head(items)
           lists == [i \in DOMAIN items |-> IF items[i].field = a.field /\ items[i].index = a.index
                                            THEN <<>> ELSE <<items[i]>>]
<1>1. items \in Seq(Ambiguity) /\ items # <<>>
  BY DEF Draft
<1>2. DOMAIN items = 1..Len(items) /\ Len(items) \in Nat /\ Len(items) # 0 /\ a = items[1]
  BY <1>1
<1>3. \A i \in DOMAIN items : items[i] \in Ambiguity
  BY <1>1
<1>4. \A i \in DOMAIN items : lists[i] \in Seq(Ambiguity) /\ Len(lists[i]) <= 1
  BY <1>3
<1>5. lists \in [1..Len(items) -> Seq(Ambiguity)]
  BY <1>2, <1>4
<1>6. lists[1] = <<>>
  BY <1>2
<1>7. Without(d, a.field, a.index).ambiguities = FlattenSeq(lists)
  BY DEF Without, Draft
<1> HIDE DEF lists, items, a
<1>8. Len(FlattenSeq(lists)) < Len(items)
  BY <1>2, <1>4, <1>5, <1>6, FlattenShorter
<1> QED
  BY <1>7, <1>8 DEF a, items

\* Java leaves open only items that settle something when they are answered.
LEMMA ResolvedSettles ==
    ASSUME NEW d \in Draft, d.ambiguities = <<>>
    PROVE  LET n == Resolved(d) IN
           /\ n.names = d.names /\ n.value = d.value /\ n.unresolved = d.unresolved
           /\ n.ambiguities \in Seq(Settling(d))
<1> DEFINE opens == [i \in DOMAIN d.names |->
                      Open("company", i, d.names[i], verdict[d.names[i]])]
           items == d.ambiguities \o OpenScalar(d, "minimum_degree") \o FlattenSeq(opens)
                    \o OpenScalar(d, "current_city") \o OpenScalar(d, "expected_city")
<1>1. /\ d.names \in Seq(Names)
      /\ DOMAIN d.names = 1..Len(d.names) /\ Len(d.names) \in Nat
      /\ \A i \in DOMAIN d.names : d.names[i] \in Names
      /\ d.value \in [Scalars -> {"absent", "said", "chosen"}]
  BY DEF Draft
<1>2. ASSUME NEW f \in Scalars
      PROVE  OpenScalar(d, f) \in Seq(Settling(d))
  <2> DEFINE item == [field |-> f, index |-> 0, text |-> NoText,
                      options |-> IF ScalarVerdict(d, f) = "many" THEN "java" ELSE "none"]
  <2>1. OpenScalar(d, f) = IF d.value[f] = "absent" \/ ScalarVerdict(d, f) = "one"
                           THEN <<>> ELSE <<item>>
    BY DEF OpenScalar, Open
  <2>2. CASE d.value[f] = "absent" \/ ScalarVerdict(d, f) = "one"
    BY <2>1, <2>2
  <2>3. CASE ~(d.value[f] = "absent" \/ ScalarVerdict(d, f) = "one")
    <3>1. d.value[f] = "said"
      BY <1>1, <2>3 DEF ScalarVerdict
    <3>2. item \in Ambiguity
      BY DEF Ambiguity, Fields, Scalars, Cities
    <3>3. item.field = f /\ (item.options = "none" \/ item.options = "java")
      OBVIOUS
    <3>4. f = "minimum_degree" \/ SkipsResolution(f)
      BY DEF SkipsResolution, Scalars, Cities
    <3> HIDE DEF item
    <3>5. item \in Settling(d)
      BY <3>1, <3>2, <3>3, <3>4 DEF Settling
    <3> QED
      BY <2>1, <2>3, <3>5
  <2> QED
    BY <2>2, <2>3
<1>3. ASSUME NEW i \in DOMAIN d.names
      PROVE  opens[i] \in Seq(Settling(d))
  <2> DEFINE answer == verdict[d.names[i]]
             item == [field |-> "company", index |-> i, text |-> d.names[i],
                      options |-> IF answer = "many" THEN "java" ELSE "none"]
  <2>1. opens[i] = IF answer = "one" THEN <<>> ELSE <<item>>
    BY DEF Open
  <2>2. item \in Ambiguity
    BY <1>1 DEF Ambiguity, Fields
  <2>3. /\ item.field = "company" /\ item.index = i
        /\ item.options = "none" \/ item.options = "java"
    OBVIOUS
  <2>4. SkipsResolution("company")
    BY DEF SkipsResolution
  <2> HIDE DEF item, answer, opens
  <2>5. item \in Settling(d)
    BY <2>2, <2>3, <2>4 DEF Settling
  <2> QED
    BY <2>1, <2>5
<1>4. opens \in [1..Len(d.names) -> Seq(Settling(d))]
  BY <1>1, <1>3
<1> HIDE DEF opens
<1>5. FlattenSeq(opens) \in Seq(Settling(d))
  BY <1>1, <1>4, FlattenFcnType
<1>6. items \in Seq(Settling(d))
  <2>1. "minimum_degree" \in Scalars /\ "current_city" \in Scalars /\ "expected_city" \in Scalars
    BY DEF Scalars, Cities
  <2>2. /\ OpenScalar(d, "minimum_degree") \in Seq(Settling(d))
        /\ OpenScalar(d, "current_city") \in Seq(Settling(d))
        /\ OpenScalar(d, "expected_city") \in Seq(Settling(d))
    BY <1>2, <2>1
  <2>3. d.ambiguities \in Seq(Settling(d))
    OBVIOUS
  <2> QED
    BY <1>5, <2>2, <2>3
<1>7. Resolved(d).ambiguities = items /\ Resolved(d).names = d.names
      /\ Resolved(d).value = d.value /\ Resolved(d).unresolved = d.unresolved
  BY DEF Resolved, opens, Draft
<1> QED
  BY <1>6, <1>7

\* An answer that takes an item away brings the end closer, if it settles a
\* condition, or if the last round stays the last one.
LEMMA AnswerIsCloser ==
    ASSUME draft \in Draft, NEW d \in Draft, NEW skip,
           d.unsupported = draft.unsupported, d.unresolved = draft.unresolved,
           Len(d.ambiguities) < Len(draft.ambiguities),
           \/ Askable(d) < Askable(draft)
           \/ /\ Askable(d) = Askable(draft)
              /\ LastRound(draft, resolved) => LastRound(d, skip)
    PROVE  Sooner(d, skip, "validate")
<1>1. /\ Askable(d) \in Nat /\ Rounds(d, skip) \in Nat
      /\ LastRound(d, skip) => Rounds(d, skip) = Askable(d)
      /\ ~LastRound(d, skip) => Rounds(d, skip) = Askable(d) + 1
      /\ Askable(draft) \in Nat /\ Rounds(draft, resolved) \in Nat
      /\ LastRound(draft, resolved) => Rounds(draft, resolved) = Askable(draft)
      /\ ~LastRound(draft, resolved) => Rounds(draft, resolved) = Askable(draft) + 1
  BY RoundsType
<1>2. Rounds(d, skip) < Rounds(draft, resolved) \/ Rounds(d, skip) = Rounds(draft, resolved)
  BY <1>1
<1> QED
  BY <1>2 DEF Sooner

\* A card about an entity is the question about the first open item.
LEMMA CardIsHead ==
    ASSUME IInv, phase = "asked", card.kind \in {"ENTITY_AMBIGUITY", "ENTITY_NOT_FOUND"}
    PROVE  LET a == Head(draft.ambiguities) IN
           /\ draft \in Draft
           /\ draft.ambiguities # <<>> /\ a \in Ambiguity
           /\ card.field = a.field /\ card.index = a.index /\ card.options = a.options
           /\ card.kind = "ENTITY_NOT_FOUND" <=> a.options = "none"
           /\ LastRound(draft, resolved) => a \in Settling(draft)
<1>1. draft \in Draft /\ card = CardFor(draft)
  BY DEF IInv, TypeOK, AskedAboutDraft
<1>2. draft.ambiguities \in Seq(Ambiguity)
  BY <1>1 DEF Draft
<1>3. ~(draft.unsupported > 0) /\ ~draft.unresolved /\ Ambiguities(draft) # <<>>
  <2>1. CASE draft.unsupported > 0
    BY <1>1, <2>1 DEF CardFor, NoCard
  <2>2. CASE ~(draft.unsupported > 0) /\ draft.unresolved
    BY <1>1, <2>2 DEF CardFor, NoCard
  <2>3. CASE ~(draft.unsupported > 0) /\ ~draft.unresolved /\ Ambiguities(draft) = <<>>
    BY <1>1, <2>3 DEF CardFor, NoCard
  <2> QED
    BY <2>1, <2>2, <2>3
<1>4. Ambiguities(draft) = draft.ambiguities
  BY <1>2, <1>3 DEF Ambiguities
<1> DEFINE a == Head(draft.ambiguities)
<1>5. card = [kind |-> IF a.options = "none" THEN "ENTITY_NOT_FOUND" ELSE "ENTITY_AMBIGUITY",
              field |-> a.field, index |-> a.index, text |-> a.text, options |-> a.options]
  BY <1>1, <1>3, <1>4 DEF CardFor
<1>6. a \in Ambiguity
  BY <1>2, <1>3, <1>4
<1>7. LastRound(draft, resolved) => a \in Settling(draft)
  <2>1. SUFFICES ASSUME draft.ambiguities \in Seq(Settling(draft))
                 PROVE  a \in Settling(draft)
    BY DEF LastRound
  <2> QED
    BY <1>3, <1>4, <2>1
<1> HIDE DEF a
<1>8. card.field = a.field /\ card.index = a.index /\ card.options = a.options
      /\ (card.kind = "ENTITY_NOT_FOUND" <=> a.options = "none")
  BY <1>5
<1> QED
  BY <1>1, <1>3, <1>4, <1>6, <1>7, <1>8 DEF a

\* What is said of a condition counts towards what may be asked.
LEMMA SettledCounts ==
    ASSUME NEW d \in Draft, NEW e \in Draft, NEW f \in Scalars, NEW v \in {"absent", "chosen"},
           e.names = d.names, e.value = [d.value EXCEPT ![f] = v]
    PROVE  /\ d.value[f] = "said" => Askable(e) < Askable(d)
           /\ d.value[f] # "said" => Askable(e) = Askable(d)
<1>1. Said(e, f) = 0 /\ \A g \in Scalars \ {f} : Said(e, g) = Said(d, g)
  BY DEF Said, Draft
<1>2. d.value[f] = "said" => Said(d, f) = 1
  BY DEF Said
<1>3. d.value[f] # "said" => Said(d, f) = 0
  BY DEF Said
<1>4. \A g \in Scalars : Said(d, g) \in {0, 1}
  BY DEF Said
<1>5. Len(d.names) \in Nat
  <2>1. d.names \in Seq(Names)
    BY DEF Draft
  <2> QED
    BY <2>1
<1>6. Scalars = {"current_city", "expected_city", "minimum_degree"}
  BY DEF Scalars, Cities
<1>7. CASE f = "minimum_degree"
  BY <1>1, <1>2, <1>3, <1>4, <1>5, <1>6, <1>7 DEF Askable
<1>8. CASE f = "current_city"
  BY <1>1, <1>2, <1>3, <1>4, <1>5, <1>6, <1>8 DEF Askable
<1>9. CASE f = "expected_city"
  BY <1>1, <1>2, <1>3, <1>4, <1>5, <1>6, <1>9 DEF Askable
<1> QED
  BY <1>6, <1>7, <1>8, <1>9

\* Choosing an option settles the degree; a chosen code ends the last round.
LEMMA ChooseOptionCloser ==
    ASSUME IInv, ChooseOption, ~Refuse
    PROVE  Sooner(draft', resolved', phase')
<1> DEFINE a == Head(draft.ambiguities)
           c == Chosen(draft, card)
           d == Without(c, a.field, a.index)
           skip == SkipsResolution(a.field)
<1>1. /\ draft \in Draft /\ card \in Cards
      /\ draft.ambiguities # <<>> /\ a \in Ambiguity
      /\ card.field = a.field /\ card.index = a.index /\ a.options # "none"
      /\ LastRound(draft, resolved) => a \in Settling(draft)
  BY CardIsHead DEF ChooseOption, IInv, TypeOK, Cards
<1>2. /\ Choosable(draft, card)
      /\ draft' = d /\ resolved' = skip /\ phase' = "validate"
  BY <1>1 DEF ChooseOption, Continue
<1>3. c \in Draft /\ c.unsupported = draft.unsupported
  BY <1>1, <1>2, ChosenType
<1>4. /\ c.names = draft.names /\ c.unresolved = draft.unresolved
      /\ c.ambiguities = draft.ambiguities
      /\ c.value = IF a.field = "minimum_degree"
                   THEN [draft.value EXCEPT !["minimum_degree"] = "chosen"] ELSE draft.value
  <2>1. CASE a.field = "work_years"
    <3>1. c = [draft EXCEPT !.other = TRUE]
      BY <1>1, <2>1 DEF Chosen, Cities
    <3> QED
      BY <1>1, <2>1, <3>1 DEF Draft
  <2>2. CASE a.field = "minimum_degree"
    <3>1. c = [draft EXCEPT !.value = [draft.value EXCEPT !["minimum_degree"] = "chosen"],
                            !.code = [draft.code EXCEPT !["minimum_degree"] = "none"]]
      BY <1>1, <2>2 DEF Chosen, Cities
    <3> HIDE DEF c, a
    <3> QED
      BY <1>1, <2>2, <3>1 DEF Draft
  <2>3. CASE a.field \in Cities
    <3>1. c = [draft EXCEPT !.code = [draft.code EXCEPT ![card.field] = CodeOf(card)]]
      BY <1>1, <2>3 DEF Chosen, Cities
    <3>2. a.field # "minimum_degree"
      BY <2>3 DEF Cities
    <3> HIDE DEF c, a
    <3> QED
      BY <1>1, <3>1, <3>2 DEF Draft
  <2>4. CASE a.field = "company"
    <3>1. c = [draft EXCEPT !.codes = Append(draft.codes, CodeOf(card))]
      BY <1>1, <2>4 DEF Chosen, Cities
    <3> HIDE DEF c, a
    <3> QED
      BY <1>1, <2>4, <3>1 DEF Draft
  <2> QED
    BY <1>1, <1>2, <2>1, <2>2, <2>3, <2>4 DEF Choosable
<1> HIDE DEF c
<1>5. /\ d \in Draft /\ d.unsupported = c.unsupported
      /\ d.names = c.names /\ d.value = c.value /\ d.unresolved = c.unresolved
  BY <1>3, WithoutType
<1>6. Len(d.ambiguities) < Len(draft.ambiguities)
  BY <1>1, <1>3, <1>4, WithoutShorter
<1>7. \/ Askable(d) < Askable(draft)
      \/ /\ Askable(d) = Askable(draft)
         /\ LastRound(draft, resolved) => LastRound(d, skip)
  <2>1. CASE a.field = "minimum_degree"
    <3>1. "minimum_degree" \in Scalars
      BY DEF Scalars
    <3>2. /\ draft.value["minimum_degree"] = "said" => Askable(d) < Askable(draft)
          /\ draft.value["minimum_degree"] # "said" => Askable(d) = Askable(draft)
      <4>1. d.names = draft.names
            /\ d.value = [draft.value EXCEPT !["minimum_degree"] = "chosen"]
        BY <1>4, <1>5, <2>1
      <4> HIDE DEF d
      <4> QED
        BY <1>1, <1>5, <3>1, <4>1, SettledCounts
    <3>3. LastRound(draft, resolved) => draft.value["minimum_degree"] = "said"
      BY <1>1, <2>1 DEF Settling, SkipsResolution
    <3> QED
      BY <3>2, <3>3
  <2>2. CASE a.field # "minimum_degree"
    <3>1. d.names = draft.names /\ d.value = draft.value
      BY <1>4, <1>5, <2>2
    <3>2. Askable(d) = Askable(draft) /\ Settling(d) = Settling(draft)
      BY <3>1 DEF Askable, Said, Settling
    <3>3. ASSUME LastRound(draft, resolved)
          PROVE  LastRound(d, skip)
      <4>1. a.field # "work_years"
        BY <1>1, <3>3 DEF Settling, SkipsResolution, Scalars, Cities
      <4>2. skip
        BY <2>2, <4>1 DEF SkipsResolution
      <4>3. c.ambiguities \in Seq(Settling(draft))
        BY <1>4, <3>3 DEF LastRound
      <4>4. d.ambiguities \in Seq(Settling(draft))
        BY <1>3, <4>3, WithoutItems
      <4> QED
        BY <3>2, <4>2, <4>4 DEF LastRound
    <3> QED
      BY <3>2, <3>3
  <2> QED
    BY <2>1, <2>2
<1> HIDE DEF d, skip
<1> QED
  BY <1>1, <1>2, <1>3, <1>4, <1>5, <1>6, <1>7, AnswerIsCloser

\* A name is gone from a list that reaches as far as its index.
LEMMA DroppedShorter ==
    ASSUME NEW names \in Seq(Names), NEW index \in DOMAIN names
    PROVE  Len(Dropped(names, index)) < Len(names)
<1>1. index \in 1..Len(names) /\ Len(names) \in Nat
  OBVIOUS
<1> DEFINE s == SubSeq(names, 1, index - 1)
           t == SubSeq(names, index + 1, Len(names))
<1>2. s \in Seq(Names) /\ Len(s) = index - 1
  BY <1>1
<1>3. t \in Seq(Names) /\ Len(t) = Len(names) - index
  BY <1>1
<1>4. Dropped(names, index) = s \o t
  BY DEF Dropped, RemoveAt
<1> HIDE DEF s, t
<1>5. Len(s \o t) = Len(s) + Len(t)
  BY <1>2, <1>3, ConcatProperties
<1>6. Len(s \o t) = Len(names) - 1
  BY <1>1, <1>2, <1>3, <1>5
<1> QED
  BY <1>1, <1>4, <1>6

\* Ignoring a value settles its condition, unless the item had gone stale.
LEMMA IgnoreNotFoundCloser ==
    ASSUME IInv, IgnoreNotFound, ~Refuse
    PROVE  Sooner(draft', resolved', phase')
<1> DEFINE a == Head(draft.ambiguities)
           w == Without(draft, a.field, a.index)
<1>1. /\ draft \in Draft /\ draft.ambiguities # <<>> /\ a \in Ambiguity
      /\ card.field = a.field /\ card.index = a.index /\ a.options = "none"
      /\ LastRound(draft, resolved) => a \in Settling(draft)
  BY CardIsHead DEF IgnoreNotFound
<1>2. /\ w \in Draft /\ w.unsupported = draft.unsupported
      /\ w.names = draft.names /\ w.value = draft.value /\ w.unresolved = draft.unresolved
      /\ w.codes = draft.codes /\ w.code = draft.code
  BY <1>1, WithoutType
<1>3. Len(w.ambiguities) < Len(draft.ambiguities)
  BY <1>1, WithoutShorter
<1>4. CASE a.field = "company"
  <2> DEFINE names == Dropped(draft.names, card.index)
             codes == IF names = <<>> THEN <<>> ELSE w.codes
             d == [w EXCEPT !.names = names, !.codes = codes]
  <2>1. draft' = d /\ resolved' = FALSE /\ phase' = "validate"
    BY <1>1, <1>4 DEF IgnoreNotFound, Continue, Scalars, Cities
  <2>2. names \in Seq(Names)
    BY <1>1, DroppedType DEF Draft, Ambiguity
  <2>3. codes \in Seq(Codes)
    BY <1>2 DEF Draft
  <2>4. card.index \in DOMAIN draft.names => Len(names) < Len(draft.names)
    BY <1>1, DroppedShorter DEF Draft
  <2>5. card.index \notin DOMAIN draft.names => names = draft.names
    BY DEF Dropped
  <2>6. Len(names) \in Nat /\ Len(draft.names) \in Nat
    <3>1. draft.names \in Seq(Names)
      BY <1>1 DEF Draft
    <3> HIDE DEF names
    <3> QED
      BY <2>2, <3>1
  <2> HIDE DEF names, codes, w, a
  <2>7. /\ d \in Draft /\ d.unsupported = w.unsupported /\ d.unresolved = w.unresolved
        /\ d.names = names /\ d.value = w.value /\ d.ambiguities = w.ambiguities
    BY <1>2, <2>2, <2>3 DEF Draft
  <2> HIDE DEF d
  <2>8. Said(d, "minimum_degree") = Said(draft, "minimum_degree")
        /\ Said(d, "current_city") = Said(draft, "current_city")
        /\ Said(d, "expected_city") = Said(draft, "expected_city")
    BY <1>2, <2>7 DEF Said
  <2>9. \A f : Said(draft, f) \in {0, 1}
    BY DEF Said
  <2>10. CASE card.index \in DOMAIN draft.names
    <3>1. Askable(d) < Askable(draft)
      BY <2>4, <2>6, <2>7, <2>8, <2>9, <2>10 DEF Askable
    <3> QED
      BY <1>1, <1>2, <1>3, <2>1, <2>7, <3>1, AnswerIsCloser
  <2>11. CASE card.index \notin DOMAIN draft.names
    <3>1. Askable(d) = Askable(draft)
      BY <2>5, <2>7, <2>8, <2>11 DEF Askable
    <3>2. ~LastRound(draft, resolved)
      BY <1>1, <1>4, <2>11 DEF Settling, Scalars, Cities
    <3> QED
      BY <1>1, <1>2, <1>3, <2>1, <2>7, <3>1, <3>2, AnswerIsCloser
  <2> QED
    BY <2>10, <2>11
<1>5. CASE a.field \in Scalars
  <2> DEFINE f == a.field
             value == [w.value EXCEPT ![f] = "absent"]
             code == [w.code EXCEPT ![f] = "none"]
             d == [w EXCEPT !.value = value, !.code = code]
  <2>1. card.field # "company" /\ card.field = f /\ a.index = 0
    BY <1>1, <1>5 DEF Scalars, Cities, Ambiguity
  <2>2. draft' = [w EXCEPT !.value[f] = "absent", !.code[f] = "none"]
        /\ resolved' = FALSE /\ phase' = "validate"
    BY <1>5, <2>1 DEF IgnoreNotFound, Continue
  <2>3. draft' = d
    BY <2>2
  <2>4. value \in [Scalars -> {"absent", "said", "chosen"}]
        /\ code \in [Scalars -> Codes \cup {"none"}]
    BY <1>2, <1>5 DEF Draft
  <2>5. value = [draft.value EXCEPT ![f] = "absent"] /\ f \in Scalars
    BY <1>2, <1>5
  <2> HIDE DEF value, code, w, f
  <2>6. /\ d \in Draft /\ d.unsupported = w.unsupported /\ d.unresolved = w.unresolved
        /\ d.names = w.names /\ d.value = value /\ d.ambiguities = w.ambiguities
    BY <1>2, <2>4 DEF Draft
  <2> HIDE DEF d
  <2>7. /\ draft.value[f] = "said" => Askable(d) < Askable(draft)
        /\ draft.value[f] # "said" => Askable(d) = Askable(draft)
    <3>1. /\ draft \in Draft /\ d \in Draft /\ f \in Scalars
          /\ d.names = draft.names /\ d.value = [draft.value EXCEPT ![f] = "absent"]
      BY <1>1, <1>2, <2>5, <2>6
    <3> QED
      BY <3>1, SettledCounts
  <2>8. LastRound(draft, resolved) => draft.value[f] = "said"
    BY <1>1, <1>5 DEF Settling, f, Scalars, Cities
  <2> QED
    BY <1>1, <1>2, <1>3, <2>2, <2>3, <2>6, <2>7, <2>8, AnswerIsCloser
<1> QED
  BY <1>1, <1>4, <1>5 DEF IgnoreNotFound

\* Java is asked at the start of a last round, or again after one that settled
\* something.
LEMMA ResolveCloser ==
    ASSUME IInv, Resolve
    PROVE  Sooner(draft', resolved', phase')
<1>1. draft \in Draft /\ Executable(draft) /\ ~resolved /\ phase = "resolve"
  BY DEF IInv, TypeOK, ResolvesWhatIsClear, Resolve
<1>2. draft.ambiguities \in Seq(Ambiguity)
  BY <1>1 DEF Draft
<1>3. draft.ambiguities = <<>>
  <2>1. Ambiguities(draft) = <<>>
    BY <1>1 DEF Executable
  <2>2. ~draft.unresolved
    BY <1>1, <2>1, AmbiguitiesType
  <2> QED
    BY <1>2, <2>1, <2>2 DEF Ambiguities
<1>4. /\ draft' = Resolved(draft) /\ resolved' = resolved /\ phase' \in {"saved", "clarify"}
  BY DEF Resolve
<1>5. /\ draft' \in Draft /\ draft'.unsupported = draft.unsupported
      /\ draft'.names = draft.names /\ draft'.value = draft.value
      /\ draft'.unresolved = draft.unresolved
      /\ draft'.ambiguities \in Seq(Settling(draft))
  BY <1>1, <1>3, <1>4, ResolvedType, ResolvedSettles
<1>6. Askable(draft') = Askable(draft) /\ Settling(draft') = Settling(draft)
  BY <1>5 DEF Askable, Said, Settling
<1>7. ~LastRound(draft, resolved)
  BY <1>1, <1>3 DEF LastRound
<1>8. /\ Askable(draft) \in Nat
      /\ Rounds(draft, resolved) = Askable(draft) + 1
      /\ LastRound(draft', resolved') => Rounds(draft', resolved') = Askable(draft')
      /\ ~LastRound(draft', resolved') => Rounds(draft', resolved') = Askable(draft') + 1
  BY <1>1, <1>5, <1>7, RoundsType
<1>9. CASE draft'.ambiguities = <<>>
  <2>1. ~LastRound(draft', resolved')
    BY <1>1, <1>4, <1>9 DEF LastRound
  <2>2. Rounds(draft', resolved') = Rounds(draft, resolved)
        /\ Len(draft'.ambiguities) = Len(draft.ambiguities)
    BY <1>3, <1>6, <1>8, <1>9, <2>1
  <2>3. Rank(phase') < Rank(phase)
    BY <1>1, <1>4 DEF Rank
  <2> QED
    BY <1>5, <2>2, <2>3 DEF Sooner
<1>10. CASE draft'.ambiguities # <<>>
  <2>1. LastRound(draft', resolved')
    BY <1>5, <1>6, <1>10 DEF LastRound
  <2>2. Rounds(draft', resolved') < Rounds(draft, resolved)
    BY <1>6, <1>8, <2>1
  <2> QED
    BY <1>5, <2>2 DEF Sooner
<1> QED
  BY <1>9, <1>10

\* The rest of a round goes through its phases in one direction.
LEMMA PhaseCloser ==
    ASSUME draft' = draft, resolved' = resolved, Rank(phase') < Rank(phase)
    PROVE  Sooner(draft', resolved', phase')
BY DEF Sooner

\* Every accepted answer, every question and every call of Java brings the end of
\* the dialogue closer, in a well-founded order, for lists of any length and any
\* answers of Java: _apply_structured_answer and the graph do not send a draft
\* back and forth for ever.
THEOREM EndComesEverCloser == Spec => EndComesCloser
<1>1. ASSUME IInv, [Next]_vars
      PROVE  [Sooner(draft', resolved', phase') \/ Refuse]_vars
  <2>1. SUFFICES ASSUME Next, ~Refuse
                 PROVE  Sooner(draft', resolved', phase')
    BY <1>1
  <2>2. CASE Validate
    <3>1. draft' = draft /\ resolved' = resolved /\ phase = "validate"
          /\ phase' \in {"clarify", "saved", "resolve"}
      BY <2>2 DEF Validate
    <3>2. Rank(phase') < Rank(phase)
      BY <3>1 DEF Rank
    <3> QED
      BY <3>1, <3>2, PhaseCloser
  <2>3. CASE Resolve
    BY <1>1, <2>3, ResolveCloser
  <2>4. CASE Clarify
    <3>1. draft' = draft /\ resolved' = resolved /\ phase = "clarify" /\ phase' = "asked"
      BY <2>4 DEF Clarify
    <3>2. Rank(phase') < Rank(phase)
      BY <3>1 DEF Rank
    <3> QED
      BY <3>1, <3>2, PhaseCloser
  <2>5. CASE Dismiss
    <3>1. draft' = draft /\ resolved' = resolved /\ phase = "asked" /\ phase' = "dismissed"
      BY <2>5 DEF Dismiss
    <3>2. Rank(phase') < Rank(phase)
      BY <3>1 DEF Rank
    <3> QED
      BY <3>1, <3>2, PhaseCloser
  <2>6. CASE IgnoreUnsupported
    <3>1. draft \in Draft /\ draft' = [draft EXCEPT !.unsupported = Remaining(@)]
      BY <1>1, <2>6 DEF IgnoreUnsupported, Continue, IInv, TypeOK
    <3>2. draft.unsupported \in Nat /\ draft'.unsupported = draft.unsupported - 1
      BY <3>1 DEF Draft, Remaining
    <3>3. draft'.unsupported < draft.unsupported
      BY <3>2
    <3> QED
      BY <3>3 DEF Sooner
  <2>7. CASE ChooseScope
    <3>1. PICK f \in Cities :
            draft' = [Without(draft, "location.scope", 0) EXCEPT
                        !.unresolved = FALSE, !.value[f] = "said", !.code[f] = "none"]
      BY <2>7 DEF ChooseScope, Continue
    <3>2. draft \in Draft /\ card = CardFor(draft) /\ card.kind = "LOCATION_SCOPE"
      BY <1>1, <2>7 DEF ChooseScope, IInv, TypeOK, AskedAboutDraft
    <3>3. draft.unresolved
      <4>1. CASE draft.unsupported > 0
        BY <3>2, <4>1 DEF CardFor, NoCard
      <4>2. CASE ~(draft.unsupported > 0) /\ ~draft.unresolved /\ Ambiguities(draft) # <<>>
        BY <3>2, <4>2 DEF CardFor
      <4>3. CASE ~(draft.unsupported > 0) /\ ~draft.unresolved /\ Ambiguities(draft) = <<>>
        BY <3>2, <4>3 DEF CardFor, NoCard
      <4> QED
        BY <4>1, <4>2, <4>3
    <3> DEFINE w == Without(draft, "location.scope", 0)
    <3>4. w \in Draft /\ w.unsupported = draft.unsupported
      BY <3>2, WithoutType
    <3>5. draft' = [w EXCEPT !.unresolved = FALSE, !.value[f] = "said", !.code[f] = "none"]
      BY <3>1
    <3> HIDE DEF w
    <3>6. draft'.unsupported = w.unsupported /\ ~draft'.unresolved
      BY <3>4, <3>5 DEF Draft
    <3> QED
      BY <3>3, <3>4, <3>6 DEF Sooner
  <2>8. CASE ChooseOption
    BY <1>1, <2>1, <2>8, ChooseOptionCloser
  <2>9. CASE IgnoreNotFound
    BY <1>1, <2>1, <2>9, IgnoreNotFoundCloser
  <2> QED
    BY <2>1, <2>2, <2>3, <2>4, <2>5, <2>6, <2>7, <2>8, <2>9 DEF Next, Answer
<1> QED
  BY <1>1, InductiveInvariant, PTL DEF Spec, EndComesCloser
=============================================================================
