---------------------------- MODULE ResultPaging ----------------------------
(***************************************************************************)
(* The pages of a search result: search_candidates of java_talent.py,      *)
(* finalize, get_result, get_page and the PAGE_ACTION branch of            *)
(* _handle_message.                                                        *)
(*                                                                         *)
(* Java keeps the hits of each plan in a fixed order and serves them page  *)
(* by page; what is modelled is which of them the user comes to see.  A    *)
(* search may run and any number of pages may be fetched at once.  The     *)
(* client asks for a page with a reference it was given, however old, or   *)
(* with the words next page and previous page, which go by the stored      *)
(* result of the active run.  A newer search replaces the one before it    *)
(* (TaskRegistry, AgentService); everything a request reads before it asks *)
(* Java is one action here (AgentService has the steps).                   *)
(***************************************************************************)
EXTENDS Integers

CONSTANTS
    PageSize,    \* settings.default_page_size
    ServerSize,  \* the page size Java really uses
    MaxPage,     \* the greatest page of PageReference and SearchResult
    MaxHits,     \* bound on the hits of a plan
    MaxPlans,    \* bound on the number of plans
    MaxRuns      \* bound on the number of runs

ASSUME PagingAssumption ==
    /\ PageSize \in Nat \ {0} /\ ServerSize \in Nat \ {0}
    /\ MaxPage \in Nat /\ MaxPage >= 2
    /\ MaxHits \in Nat /\ MaxPlans \in Nat /\ MaxRuns \in Nat

VARIABLES
    version,    \* of the current plan
    hits,       \* how many candidates Java has for each plan
    runs,       \* the runs created so far; a run is its number
    active,     \* active_run_id, 0 when there is none
    current,    \* the stored result of the active run (get_result)
    search,     \* the search that is running
    fetching,   \* the pages being fetched
    delivered   \* history: the results with candidates the client was sent

vars == <<version, hits, runs, active, current, search, fetching, delivered>>

NoResult == [status |-> "none", version |-> 0, page |-> 1, candidates |-> {}, next |-> 0]
NoSearch == [run |-> 0, stage |-> "none"]

Init ==
    /\ version = 0
    /\ hits = [v \in 1..MaxPlans |-> 0]
    /\ runs = 0
    /\ active = 0
    /\ current = NoResult
    /\ search = NoSearch
    /\ fetching = {}
    /\ delivered = {}

-----------------------------------------------------------------------------
(* search_candidates *)

\* A page of Java's list, by position.
Served(v, page) == {i \in 1..hits[v] : i > (page - 1) * ServerSize /\ i <= page * ServerSize}

\* `items[: request.pageSize]`
Candidates(v, page) == {i \in Served(v, page) : i <= (page - 1) * ServerSize + PageSize}

\* PageResult.pages, counted by Java
PageCount(v) == (hits[v] + ServerSize - 1) \div ServerSize

\* Mutated form: the comparison with the number of pages is off by one.
LastPageEarly(form, v, page) == page + 1 >= PageCount(v)

\* lastPage or isLastPage when it is a boolean, the number of pages otherwise.
LastPage(form, v, page) ==
    IF form = "flag" THEN page * ServerSize >= hits[v] ELSE page >= PageCount(v)

-----------------------------------------------------------------------------
(* finalize and get_page: the result and the reference to the next page *)

NextPage(form, v, page) == IF LastPage(form, v, page) THEN 0 ELSE page + 1

PageOf(form, v, page) ==
    [status |-> IF Candidates(v, page) = {} THEN "EMPTY" ELSE "OK", version |-> v,
     page |-> page, candidates |-> Candidates(v, page), next |-> NextPage(form, v, page)]

Forms == {"flag", "pages"}

-----------------------------------------------------------------------------
(* Searches *)

\* _start_search_run: the run is active at once; what ran before is replaced.
BeginSearch ==
    /\ runs < MaxRuns
    /\ runs' = runs + 1
    /\ active' = runs + 1
    /\ current' = NoResult
    /\ search' = [run |-> runs + 1, stage |-> "parse"]
    /\ UNCHANGED <<version, hits, fetching, delivered>>

StillActive == active = search.run

\* The search ends without candidates: an error is stored in any case
\* (_finish_error), a card only by the active run (clarify).
SearchEnds ==
    /\ search # NoSearch
    /\ \E status \in {"ERROR"} \cup (IF search.stage = "parse" THEN {"NEEDS_CLARIFICATION"}
                                     ELSE {}) :
        current' = IF StillActive
                   THEN [NoResult EXCEPT !.status = status,
                             !.version = IF status = "ERROR" THEN 0 ELSE version]
                   ELSE current
    /\ search' = NoSearch
    /\ UNCHANGED <<version, hits, runs, active, fetching, delivered>>

\* The user stops the search: its run has no result (_stop).
StopSearch ==
    /\ search # NoSearch
    /\ search' = NoSearch
    /\ UNCHANGED <<version, hits, runs, active, current, fetching, delivered>>

\* save_plan
SavePlan ==
    /\ search.stage = "parse" /\ version < MaxPlans
    /\ version' = version + 1
    /\ \E n \in 0..MaxHits : hits' = [hits EXCEPT ![version + 1] = n]
    /\ search' = [search EXCEPT !.stage = "fetch"]
    /\ UNCHANGED <<runs, active, current, fetching, delivered>>

\* search_candidates and finalize; a run that is no longer active is answered
\* SUPERSEDED.
SearchAnswers ==
    /\ search.stage = "fetch"
    /\ \E form \in Forms :
        IF StillActive
        THEN /\ current' = PageOf(form, version, 1)
             /\ delivered' = delivered \cup {PageOf(form, version, 1)}
        ELSE UNCHANGED <<current, delivered>>
    /\ search' = NoSearch
    /\ UNCHANGED <<version, hits, runs, active, fetching>>

-----------------------------------------------------------------------------
(* Pages *)

\* get_page up to its call of Java; the run does not become active.
StartPage(v, page) ==
    /\ runs < MaxRuns
    /\ v = version /\ v > 0
    /\ page <= MaxPage
    /\ runs' = runs + 1
    /\ fetching' = fetching \cup
            {[run |-> runs + 1, version |-> v, page |-> page, previous |-> active]}
    /\ UNCHANGED <<version, hits, active, current, search, delivered>>

\* A reference of any result the client was sent.
FollowReference ==
    \E r \in delivered : r.next # 0 /\ StartPage(r.version, r.next)

\* Mutated form: the page before the first one can be asked for.
AtLeastOneNot(n) == n

\* max(1, current_result.page + page_delta)
AtLeastOne(n) == IF n < 1 THEN 1 ELSE n

\* A message: one page on, or back, from the stored result.
TurnPage ==
    /\ current.status # "none"
    /\ \E delta \in {1, -1} : StartPage(version, AtLeastOne(current.page + delta))

\* Java refuses the page, or it is the last page a reference can name and Java
\* has more: building that reference fails.
PageFails(q) ==
    /\ q \in fetching
    /\ fetching' = fetching \ {q}
    /\ UNCHANGED <<version, hits, runs, active, current, search, delivered>>

\* Mutated form: whatever plan is current now.
MayLeadAnyPlan(q) == active = q.previous

\* The WHERE clause of the final update.
MayLead(q) == active = q.previous /\ version = q.version

\* The page is delivered, and becomes the current result if it may.
PageAnswers(q) ==
    /\ q \in fetching
    /\ \E form \in Forms :
        LET result == PageOf(form, q.version, q.page) IN
        /\ result.next <= MaxPage
        /\ delivered' = delivered \cup {result}
        /\ IF MayLead(q) THEN active' = q.run /\ current' = result
           ELSE UNCHANGED <<active, current>>
    /\ fetching' = fetching \ {q}
    /\ UNCHANGED <<version, hits, runs, search>>

-----------------------------------------------------------------------------
Next ==
    \/ BeginSearch \/ SearchEnds \/ StopSearch \/ SavePlan \/ SearchAnswers
    \/ FollowReference \/ TurnPage
    \/ \E q \in fetching : PageFails(q) \/ PageAnswers(q)

Spec == Init /\ [][Next]_vars

-----------------------------------------------------------------------------
Result == [status : {"none", "OK", "EMPTY", "ERROR", "NEEDS_CLARIFICATION"},
           version : Nat, page : Nat \ {0}, candidates : SUBSET (1..MaxHits), next : Nat]

TypeOK ==
    /\ version \in 0..MaxPlans
    /\ hits \in [1..MaxPlans -> 0..MaxHits]
    /\ runs \in Nat /\ active \in Nat
    /\ current \in Result
    /\ search \in [run : Nat, stage : {"none", "parse", "fetch"}]
    /\ fetching \subseteq [run : Nat, version : 1..MaxPlans, page : 1..MaxPage, previous : Nat]
    /\ delivered \subseteq Result

\* The pages of a plan up to this one have been delivered.
SeenUpTo(r) == \A p \in 1..r.page : \E s \in delivered : s.version = r.version /\ s.page = p

\* The list goes on exactly as long as there is somebody left to show: a next
\* page that is offered has candidates on it, and a user who has seen every page
\* up to one that offers none has seen every candidate Java has for the plan.  No
\* candidate falls between two pages, the list does not end early, and no
\* reference leads to an empty page (search_candidates, finalize, get_page).
ListEndsWithLastCandidate ==
    \A r \in delivered :
        /\ r.next # 0 => Candidates(r.version, r.next) # {}
        /\ r.next = 0 /\ SeenUpTo(r) =>
              UNION {s.candidates : s \in {x \in delivered : x.version = r.version}}
                  = 1..hits[r.version]

\* A page that becomes the current result is a page of the current plan: a plan
\* saved while the page was fetched does not find an older plan's candidates in
\* its place (the WHERE clause of get_page).
LeadersAreCurrent ==
    [][active' # active /\ current'.status # "none" => current'.version = version']_vars
=============================================================================
