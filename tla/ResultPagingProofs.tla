-------------------------- MODULE ResultPagingProofs --------------------------
(* The properties of ResultPaging, for any page sizes and any lists. *)
EXTENDS ResultPaging, TLAPS

\* What was sent is a page of a saved plan, and its reference to the next page
\* is there exactly when Java has more.
Faithful(r) ==
    /\ r.version \in 1..version
    /\ r.candidates = Candidates(r.version, r.page)
    /\ r.next = 0 => r.page * ServerSize >= hits[r.version]
    /\ r.next # 0 => r.next = r.page + 1 /\ r.page * ServerSize < hits[r.version]

IInv ==
    /\ TypeOK
    /\ search.stage = "fetch" => version > 0
    /\ \A q \in fetching : q.version <= version
    /\ \A r \in delivered : Faithful(r)

-----------------------------------------------------------------------------
(* Arithmetic of pages *)

\* Multiplication by a positive size keeps the order.
LEMMA ProductsKeepOrder ==
    ASSUME NEW a \in Int, NEW b \in Int, a <= b, NEW s \in Nat \ {0}
    PROVE  a * s <= b * s
<1>1. (b - a) \in Nat
  OBVIOUS
<1>2. (b - a) * s >= 0
  BY <1>1
<1>3. (b - a) * s = b * s - a * s
  OBVIOUS
<1> QED  BY <1>2, <1>3

\* The quotient of n + s - 1 by s is the page on which position n is.
LEMMA PageOfPosition ==
    ASSUME NEW n \in Nat, NEW s \in Nat \ {0}
    PROVE  LET p == (n + s - 1) \div s IN
           /\ p \in Nat
           /\ p * s >= n
           /\ n > 0 => p > 0
           /\ (p - 1) * s < n
<1> DEFINE p == (n + s - 1) \div s
<1>1. p \in Int /\ s * p <= n + s - 1 /\ n + s - 1 < s * (p + 1)
  OBVIOUS
<1> HIDE DEF p
<1>2. p * s >= n /\ (p - 1) * s < n
  BY <1>1
<1>3. p >= 0
  <2> SUFFICES ASSUME p <= -1  PROVE FALSE
    BY <1>1
  <2>1. p * s <= (-1) * s
    BY <1>1, ProductsKeepOrder
  <2> QED  BY <2>1, <1>1, <1>2
<1>4. ASSUME n > 0  PROVE p > 0
  <2> SUFFICES ASSUME p <= 0  PROVE FALSE
    BY <1>1
  <2>1. p * s <= 0 * s
    BY <1>1, ProductsKeepOrder
  <2> QED  BY <2>1, <1>1, <1>2, <1>4
<1> QED  BY <1>1, <1>2, <1>3, <1>4 DEF p

-----------------------------------------------------------------------------
(* Single results *)

\* The positions Java serves, or the client keeps, are positions of the list.
LEMMA CandidatesTyped ==
    ASSUME TypeOK, NEW v \in 1..MaxPlans, NEW page
    PROVE  Candidates(v, page) \in SUBSET (1..MaxHits)
BY PagingAssumption DEF TypeOK, Candidates, Served

\* Both ways of recognising the last page mean the same.
LEMMA LastPageMeaning ==
    ASSUME TypeOK, NEW v \in 1..MaxPlans, NEW page \in Nat \ {0}, NEW form
    PROVE  LastPage(form, v, page) <=> page * ServerSize >= hits[v]
<1> DEFINE p == PageCount(v)
<1>1. hits[v] \in Nat /\ ServerSize \in Nat \ {0}
  BY PagingAssumption DEF TypeOK
<1>2. p \in Nat /\ p * ServerSize >= hits[v] /\ (p - 1) * ServerSize < hits[v]
  <2>1. PageCount(v) = (hits[v] + ServerSize - 1) \div ServerSize
    BY DEF PageCount
  <2> QED  BY <1>1, <2>1, PageOfPosition
<1> HIDE DEF p
<1>3. ASSUME page >= p  PROVE page * ServerSize >= hits[v]
  <2>1. p * ServerSize <= page * ServerSize
    BY <1>1, <1>2, <1>3, ProductsKeepOrder
  <2>2. p * ServerSize \in Int /\ page * ServerSize \in Int
    BY <1>1, <1>2
  <2> QED  BY <1>1, <1>2, <2>1, <2>2
<1>4. ASSUME ~(page >= p)  PROVE ~(page * ServerSize >= hits[v])
  <2>1. page * ServerSize <= (p - 1) * ServerSize
    BY <1>1, <1>2, <1>4, ProductsKeepOrder
  <2>2. (p - 1) * ServerSize \in Int /\ page * ServerSize \in Int
    BY <1>1, <1>2
  <2> QED  BY <1>1, <1>2, <2>1, <2>2
<1> QED  BY <1>3, <1>4 DEF LastPage, p

\* A page of a saved plan is a result, and a faithful one.
LEMMA PageOfFits ==
    ASSUME TypeOK, NEW v \in 1..MaxPlans, v <= version, NEW page \in Nat \ {0}, NEW form
    PROVE  PageOf(form, v, page) \in Result /\ Faithful(PageOf(form, v, page))
<1> DEFINE r == PageOf(form, v, page)
<1>1. Candidates(v, page) \in SUBSET (1..MaxHits)
  BY CandidatesTyped
<1>2. NextPage(form, v, page) = IF LastPage(form, v, page) THEN 0 ELSE page + 1
  BY DEF NextPage
<1>3. /\ r.status \in {"EMPTY", "OK"} /\ r.version = v /\ r.page = page
      /\ r.candidates = Candidates(v, page) /\ r.next = NextPage(form, v, page)
  BY DEF PageOf
<1>4. PageOf(form, v, page) \in Result
  BY <1>1, <1>2 DEF PageOf, Result
<1>5. r.version \in 1..version /\ r.candidates = Candidates(r.version, r.page)
  BY <1>3 DEF TypeOK
<1>6. hits[v] \in Nat /\ page * ServerSize \in Nat
  BY PagingAssumption DEF TypeOK
<1> HIDE DEF r
<1>7. Faithful(r)
  BY <1>2, <1>3, <1>5, <1>6, LastPageMeaning DEF Faithful
<1> QED  BY <1>4, <1>7 DEF r

\* What was faithful stays so as long as its plan keeps its hits.
LEMMA FaithfulStays ==
    ASSUME NEW r, Faithful(r), version \in Nat, version' \in Nat, version <= version',
           \A v \in 1..version : hits'[v] = hits[v]
    PROVE  Faithful(r)'
<1>1. r.version \in 1..version /\ r.version \in 1..version'
  BY DEF Faithful
<1>2. hits'[r.version] = hits[r.version]
  BY <1>1
<1>3. Candidates(r.version, r.page)' = Candidates(r.version, r.page)
  BY <1>2 DEF Candidates, Served
<1> QED  BY <1>1, <1>2, <1>3 DEF Faithful

\* When no plan is saved, what was delivered stays faithful.
LEMMA DeliveredStays ==
    ASSUME IInv, UNCHANGED <<version, hits>>
    PROVE  \A r \in delivered : Faithful(r)'
BY FaithfulStays DEF IInv, TypeOK

-----------------------------------------------------------------------------
(* The invariant *)

LEMMA InitHolds == Init => IInv
BY PagingAssumption DEF Init, IInv, TypeOK, NoResult, NoSearch, Result

LEMMA BeginSearchKeeps == IInv /\ BeginSearch => IInv'
<1> SUFFICES ASSUME IInv, BeginSearch  PROVE IInv'
  OBVIOUS
<1>1. TypeOK'
  BY PagingAssumption DEF IInv, TypeOK, BeginSearch, NoResult, Result
<1> QED  BY <1>1, DeliveredStays DEF IInv, BeginSearch

LEMMA SearchEndsKeeps == IInv /\ (SearchEnds \/ StopSearch) => IInv'
<1> SUFFICES ASSUME IInv, SearchEnds \/ StopSearch  PROVE IInv'
  OBVIOUS
<1>1. current' \in Result
  <2>1. CASE SearchEnds
    <3>1. PICK status \in {"ERROR", "NEEDS_CLARIFICATION"} :
            current' = IF StillActive
                       THEN [NoResult EXCEPT !.status = status,
                                 !.version = IF status = "ERROR" THEN 0 ELSE version]
                       ELSE current
      BY <2>1 DEF SearchEnds
    <3>2. ASSUME NEW v \in Nat
          PROVE  [NoResult EXCEPT !.status = status, !.version = v] \in Result
      <4>1. NoResult \in Result
        BY DEF NoResult, Result
      <4> QED  BY <4>1 DEF Result
    <3>3. version \in Nat /\ 0 \in Nat /\ current \in Result
      BY PagingAssumption DEF IInv, TypeOK
    <3>4. CASE StillActive /\ status = "ERROR"
      BY <3>1, <3>2, <3>3, <3>4
    <3>5. CASE StillActive /\ status # "ERROR"
      BY <3>1, <3>2, <3>3, <3>5
    <3>6. CASE ~StillActive
      BY <3>1, <3>3, <3>6
    <3> QED  BY <3>4, <3>5, <3>6
  <2>2. CASE StopSearch
    BY <2>2 DEF IInv, TypeOK, StopSearch
  <2> QED  BY <2>1, <2>2
<1>2. search' = NoSearch /\ UNCHANGED <<version, hits, runs, active, fetching, delivered>>
  BY DEF SearchEnds, StopSearch
<1>3. TypeOK'
  BY <1>1, <1>2 DEF IInv, TypeOK, NoSearch
<1> QED  BY <1>2, <1>3, DeliveredStays DEF IInv, NoSearch

LEMMA SavePlanKeeps == IInv /\ SavePlan => IInv'
<1> SUFFICES ASSUME IInv, SavePlan  PROVE IInv'
  OBVIOUS
<1>1. PICK n \in 0..MaxHits : hits' = [hits EXCEPT ![version + 1] = n]
  BY DEF SavePlan
<1>2. version \in Nat /\ version' = version + 1 /\ version' \in 0..MaxPlans
  BY PagingAssumption DEF IInv, TypeOK, SavePlan
<1>3. hits' \in [1..MaxPlans -> 0..MaxHits]
  BY <1>1 DEF IInv, TypeOK
<1>4. TypeOK'
  BY <1>2, <1>3 DEF IInv, TypeOK, SavePlan
<1>5. \A v \in 1..version : hits'[v] = hits[v]
  BY <1>1, <1>2 DEF IInv, TypeOK
<1>6. \A r \in delivered : Faithful(r)'
  BY <1>2, <1>5, FaithfulStays DEF IInv
<1>7. \A q \in fetching : q.version <= version'
  BY <1>2, PagingAssumption DEF IInv, TypeOK
<1> QED  BY <1>2, <1>4, <1>6, <1>7 DEF IInv, SavePlan

LEMMA SearchAnswersKeeps == IInv /\ SearchAnswers => IInv'
<1> SUFFICES ASSUME IInv, SearchAnswers  PROVE IInv'
  OBVIOUS
<1>1. PICK form \in Forms :
        IF StillActive
        THEN /\ current' = PageOf(form, version, 1)
             /\ delivered' = delivered \cup {PageOf(form, version, 1)}
        ELSE UNCHANGED <<current, delivered>>
  BY DEF SearchAnswers
<1>2. version \in 1..MaxPlans
  BY PagingAssumption DEF IInv, TypeOK, SearchAnswers
<1>3. PageOf(form, version, 1) \in Result /\ Faithful(PageOf(form, version, 1))
  BY <1>2, PageOfFits DEF IInv
<1>4. TypeOK'
  BY <1>1, <1>3 DEF IInv, TypeOK, SearchAnswers, NoSearch
<1>5. \A r \in delivered \cup {PageOf(form, version, 1)} : Faithful(r)'
  BY <1>3, FaithfulStays DEF IInv, TypeOK, SearchAnswers
<1>6. \A r \in delivered' : Faithful(r)'
  BY <1>1, <1>5
<1> QED  BY <1>4, <1>6 DEF IInv, SearchAnswers, NoSearch

\* A page of the current plan is asked for.
LEMMA StartPageKeeps ==
    ASSUME IInv, NEW v, NEW page \in Nat \ {0}, StartPage(v, page)
    PROVE  IInv'
<1> DEFINE q == [run |-> runs + 1, version |-> v, page |-> page, previous |-> active]
<1>1. v = version /\ v \in 1..MaxPlans /\ page \in 1..MaxPage
  BY PagingAssumption DEF IInv, TypeOK, StartPage
<1>2. q \in [run : Nat, version : 1..MaxPlans, page : 1..MaxPage, previous : Nat]
  BY <1>1 DEF IInv, TypeOK
<1>3. fetching' = fetching \cup {q} /\ q.version = v
  BY DEF StartPage
<1> HIDE DEF q
<1>4. TypeOK'
  BY <1>2, <1>3 DEF IInv, TypeOK, StartPage
<1>5. \A x \in fetching' : x.version <= version
  BY <1>1, <1>3 DEF IInv, TypeOK
<1> QED  BY <1>4, <1>5, DeliveredStays DEF IInv, StartPage

LEMMA PageAskedKeeps == IInv /\ (FollowReference \/ TurnPage) => IInv'
<1> SUFFICES ASSUME IInv, FollowReference \/ TurnPage  PROVE IInv'
  OBVIOUS
<1>1. CASE FollowReference
  <2>1. PICK r \in delivered : r.next # 0 /\ StartPage(r.version, r.next)
    BY <1>1 DEF FollowReference
  <2>2. r.next \in Nat \ {0}
    BY <2>1 DEF IInv, TypeOK, Result
  <2> QED  BY <2>1, <2>2, StartPageKeeps
<1>2. CASE TurnPage
  <2>1. PICK delta \in {1, -1} : StartPage(version, AtLeastOne(current.page + delta))
    BY <1>2 DEF TurnPage
  <2>2. AtLeastOne(current.page + delta) \in Nat \ {0}
    BY DEF IInv, TypeOK, Result, AtLeastOne
  <2> QED  BY <2>1, <2>2, StartPageKeeps
<1> QED  BY <1>1, <1>2

LEMMA PageFailsKeeps == ASSUME IInv, NEW q, PageFails(q)  PROVE IInv'
<1>1. TypeOK'
  BY DEF IInv, TypeOK, PageFails
<1> QED  BY <1>1, DeliveredStays DEF IInv, PageFails

LEMMA PageAnswersKeeps == ASSUME IInv, NEW q, PageAnswers(q)  PROVE IInv'
<1>1. PICK form \in Forms :
        /\ delivered' = delivered \cup {PageOf(form, q.version, q.page)}
        /\ IF MayLead(q) THEN active' = q.run /\ current' = PageOf(form, q.version, q.page)
           ELSE UNCHANGED <<active, current>>
  BY DEF PageAnswers
<1>2. /\ q.version \in 1..MaxPlans /\ q.version <= version /\ q.run \in Nat
      /\ q.page \in Nat \ {0}
  BY PagingAssumption DEF IInv, TypeOK, PageAnswers
<1>3. /\ PageOf(form, q.version, q.page) \in Result
      /\ Faithful(PageOf(form, q.version, q.page))
  BY <1>2, PageOfFits DEF IInv
<1>4. TypeOK'
  BY <1>1, <1>2, <1>3 DEF IInv, TypeOK, PageAnswers
<1>5. \A r \in delivered \cup {PageOf(form, q.version, q.page)} : Faithful(r)'
  BY <1>3, FaithfulStays DEF IInv, TypeOK, PageAnswers
<1>6. \A r \in delivered' : Faithful(r)'
  BY <1>1, <1>5
<1> QED  BY <1>4, <1>6 DEF IInv, PageAnswers

LEMMA StepKeeps == IInv /\ [Next]_vars => IInv'
<1> SUFFICES ASSUME IInv, [Next]_vars  PROVE IInv'
  OBVIOUS
<1>1. CASE Next
  BY <1>1, BeginSearchKeeps, SearchEndsKeeps, SavePlanKeeps, SearchAnswersKeeps,
     PageAskedKeeps, PageFailsKeeps, PageAnswersKeeps DEF Next
<1>2. CASE UNCHANGED vars
  <2>1. TypeOK'
    BY <1>2 DEF IInv, TypeOK, vars
  <2> QED  BY <1>2, <2>1, DeliveredStays DEF IInv, vars
<1> QED  BY <1>1, <1>2

\* What was sent is faithful to Java's list, in every reachable state.
THEOREM InductiveInvariant == Spec => []IInv
BY InitHolds, StepKeeps, PTL DEF Spec

\* The rows, the pages under way and the results are well typed; in particular
\* no page before the first one is ever asked for (get_page, _handle_message).
THEOREM TypeCorrect == Spec => []TypeOK
<1>1. IInv => TypeOK
  BY DEF IInv
<1> QED  BY <1>1, InductiveInvariant, PTL

-----------------------------------------------------------------------------
(* The list *)

\* A next page that is offered is not empty.
LEMMA NextPageHasCandidates ==
    ASSUME IInv, NEW r \in delivered, r.next # 0
    PROVE  Candidates(r.version, r.next) # {}
<1> DEFINE n == r.page * ServerSize
<1>1. /\ ServerSize \in Nat \ {0} /\ PageSize \in Nat \ {0}
      /\ r.page \in Nat \ {0} /\ r.version \in 1..MaxPlans
  BY PagingAssumption DEF IInv, TypeOK, Result, Faithful
<1>2. r.next = r.page + 1 /\ n < hits[r.version] /\ hits[r.version] \in Nat /\ n \in Nat
  BY <1>1 DEF IInv, TypeOK, Faithful
<1>3. (r.next - 1) * ServerSize = n /\ r.next * ServerSize = n + ServerSize
  BY <1>1, <1>2
<1> HIDE DEF n
<1>4. n + 1 \in Candidates(r.version, r.next)
  BY <1>1, <1>2, <1>3 DEF Candidates, Served
<1> QED  BY <1>4

\* Every position up to the end of a page is on that page or on one before it.
LEMMA PositionsAreOnPages ==
    ASSUME IInv, ServerSize <= PageSize, NEW v \in 1..MaxPlans, NEW last \in Nat,
           NEW i \in 1..hits[v], i <= last * ServerSize
    PROVE  \E p \in 1..last : i \in Candidates(v, p)
<1> DEFINE p == (i + ServerSize - 1) \div ServerSize
<1>1. ServerSize \in Nat \ {0} /\ PageSize \in Nat \ {0} /\ i \in Nat \ {0}
      /\ hits[v] \in Nat
  BY PagingAssumption DEF IInv, TypeOK
<1>2. p \in Nat /\ p * ServerSize >= i /\ p > 0 /\ (p - 1) * ServerSize < i
  BY <1>1, PageOfPosition
<1> HIDE DEF p
<1>3. p <= last
  <2> SUFFICES ASSUME last <= p - 1  PROVE FALSE
    BY <1>2
  <2>1. last * ServerSize <= (p - 1) * ServerSize
    BY <1>1, <1>2, ProductsKeepOrder
  <2>2. last * ServerSize \in Int /\ (p - 1) * ServerSize \in Int
    BY <1>1, <1>2
  <2> QED  BY <1>1, <1>2, <2>1, <2>2
<1>4. p * ServerSize = (p - 1) * ServerSize + ServerSize
  BY <1>1, <1>2
<1>5. i \in Candidates(v, p)
  <2>1. (p - 1) * ServerSize \in Int /\ p * ServerSize \in Int
    BY <1>1, <1>2
  <2> QED  BY <1>1, <1>2, <1>4, <2>1 DEF Candidates, Served
<1> QED  BY <1>2, <1>3, <1>5

\* Who has seen every page up to the last one has seen every candidate.
LEMMA ListIsComplete ==
    ASSUME IInv, ServerSize <= PageSize, NEW r \in delivered, r.next = 0, SeenUpTo(r)
    PROVE  UNION {s.candidates : s \in {x \in delivered : x.version = r.version}}
              = 1..hits[r.version]
<1> DEFINE seen == {x \in delivered : x.version = r.version}
<1>1. /\ r.version \in 1..MaxPlans /\ r.page \in Nat
      /\ r.page * ServerSize >= hits[r.version] /\ hits[r.version] \in Nat
      /\ r.page * ServerSize \in Nat
  BY PagingAssumption DEF IInv, TypeOK, Result, Faithful
<1>2. \A s \in seen : s.candidates = Candidates(r.version, s.page)
  BY DEF IInv, Faithful
<1>3. \A s \in seen : s.candidates \subseteq 1..hits[r.version]
  BY <1>2 DEF Candidates, Served
<1>4. ASSUME NEW i \in 1..hits[r.version]  PROVE \E s \in seen : i \in s.candidates
  <2>1. PICK p \in 1..r.page : i \in Candidates(r.version, p)
    BY <1>1, PositionsAreOnPages
  <2>2. PICK s \in delivered : s.version = r.version /\ s.page = p
    BY DEF SeenUpTo
  <2> QED  BY <1>2, <2>1, <2>2
<1> QED  BY <1>3, <1>4

\* When Java keeps to the page size it is asked for, or serves less, no candidate
\* falls between two pages, the list does not end early, and no reference leads to
\* an empty page, for lists and pages of any length.
THEOREM ListsEndWithLastCandidate ==
    Spec => [](ServerSize <= PageSize => ListEndsWithLastCandidate)
<1>1. IInv => (ServerSize <= PageSize => ListEndsWithLastCandidate)
  BY NextPageHasCandidates, ListIsComplete DEF ListEndsWithLastCandidate
<1> QED  BY <1>1, InductiveInvariant, PTL

-----------------------------------------------------------------------------
\* A page that becomes the current result is a page of the current plan, however
\* many pages and searches overlap (the WHERE clause of get_page).
THEOREM LeadersStayCurrent == Spec => LeadersAreCurrent
<1> DEFINE Current == active' # active /\ current'.status # "none" => current'.version = version'
<1>1. ASSUME Next  PROVE Current
  <2>1. CASE BeginSearch
    BY <2>1 DEF BeginSearch, NoResult
  <2>2. CASE \E q \in fetching : PageAnswers(q)
    <3>1. PICK q \in fetching : PageAnswers(q)
      BY <2>2
    <3>2. PICK form \in Forms :
            IF MayLead(q) THEN active' = q.run /\ current' = PageOf(form, q.version, q.page)
            ELSE UNCHANGED <<active, current>>
      BY <3>1 DEF PageAnswers
    <3>3. version' = version
      BY <3>1 DEF PageAnswers
    <3> QED  BY <3>2, <3>3 DEF MayLead, PageOf
  <2>3. CASE UNCHANGED active
    BY <2>3
  <2> QED
    BY <1>1, <2>1, <2>2, <2>3 DEF Next, SearchEnds, StopSearch, SavePlan, SearchAnswers,
       FollowReference, TurnPage, StartPage, PageFails
<1>2. [Next]_vars => [Current]_vars
  BY <1>1
<1> QED  BY <1>2, PTL DEF Spec, LeadersAreCurrent
=============================================================================
