---------------------------- MODULE SessionStore ----------------------------
(***************************************************************************)
(* The database of one session (infrastructure/persistence): the session   *)
(* row, its messages, plan versions, runs and the one pending              *)
(* clarification, with the repositories' reads and writes as operators.    *)
(*                                                                         *)
(* A request, the message it appends, the run it creates and the task that *)
(* executes the run correspond one to one, so one identifier names all     *)
(* four.  What a message or a plan says is abstracted to the set of        *)
(* messages whose conditions the plan contains.                            *)
(*                                                                         *)
(* A write transaction is one action of the modules that extend this one:  *)
(* SQLite admits one writer, and a repository reads the row it changes     *)
(* inside the transaction.  Where the code decides on a row before its     *)
(* first write (SQLite holds no lock then, other databases at their        *)
(* default isolation neither), the read and the write are two actions.     *)
(***************************************************************************)
EXTENDS Naturals, FiniteSets

CONSTANTS
    Searches,   \* requests routed to SEARCH_NEW
    Patches,    \* requests routed to SEARCH_PATCH
    Answers,    \* structured answers to a clarification card
    Unknowns,   \* messages the router may find unclear
    Chats,      \* messages it may take for CASUAL_CHAT or STATUS_QUERY
    Stops,      \* CONTROL_STOP messages and calls of the cancel endpoint
    Pages,      \* PAGE_ACTION messages and calls of the page endpoint
    Endpoints,  \* the stops and pages that arrive without a message
    Failing,    \* the requests whose model or HTTP calls may fail
    Blocking,   \* the runs whose draft may keep an item to clarify
    None        \* no run, no card

Searching == Searches \cup Patches \cup Answers
Requests  == Searching \cup Unknowns \cup Chats \cup Stops \cup Pages
Messages  == Requests \ Endpoints

ASSUME StoreAssumption ==
    /\ IsFiniteSet(Requests)
    /\ None \notin Requests
    /\ Endpoints \subseteq Stops \cup Pages
    /\ Failing \subseteq Requests /\ Blocking \subseteq Searching
    /\ Searches \cap Patches = {} /\ Answers \cap (Searches \cup Patches) = {}
    /\ Searching \cap (Unknowns \cup Chats \cup Stops \cup Pages) = {}
    /\ (Unknowns \cup Chats) \cap (Stops \cup Pages) = {} /\ Stops \cap Pages = {}

VARIABLES
    active,       \* AgentSessionRecord.active_run_id
    planVersion,  \* AgentSessionRecord.current_plan_version
    plans,        \* the SearchPlanRecord rows
    runs,         \* the RunRecord row of each request
    card,         \* the PendingClarificationRecord row, or None
    seq,          \* MessageRecord.sequence of each message, 0 before it is stored
    routed        \* the messages whose route_type is stored

storeVars == <<active, planVersion, plans, runs, card, seq, routed>>

RunStatuses == {"absent", "QUEUED", "RUNNING", "NEEDS_CLARIFICATION",
                "SUCCEEDED", "FAILED", "CANCELLED", "SUPERSEDED"}
ResultStatuses == {"OK", "NEEDS_CLARIFICATION", "ERROR", "CANCELLED", "SUPERSEDED"}

\* A SearchResult: OK stands for OK and EMPTY, ERROR for the four error kinds.
Result(status, version) == [status |-> status, version |-> version]
NoResult == Result("none", 0)

AbsentRun == [status |-> "absent", replacedBy |-> None, result |-> NoResult, born |-> 0]

StoreInit ==
    /\ active = None
    /\ planVersion = 0
    /\ plans = {}
    /\ runs = [r \in Requests |-> AbsentRun]
    /\ card = None
    /\ seq = [m \in Messages |-> 0]
    /\ routed = {}

-----------------------------------------------------------------------------
(* MessageRepository *)

\* append_user: the next sequence number, under the message write lock.
NextSequence == Cardinality({m \in Messages : seq[m] > 0}) + 1

\* list_after: the stored search messages of a window of sequence numbers.
ListAfter(after, through) ==
    {m \in routed : m \in Searching /\ seq[m] > after /\ seq[m] <= through}

-----------------------------------------------------------------------------
(* PlanRepository *)

NoPlan == [version |-> 0, by |-> None, through |-> 0, content |-> {}]

\* get_current: the stored plan with the greatest version.
CurrentPlan ==
    IF plans = {} THEN NoPlan
    ELSE CHOOSE p \in plans : \A q \in plans : q.version <= p.version

\* Mutated form: the table has no unique constraint on (session, version).
VersionFreeAlways(version) == TRUE

\* uq_plan_session_version: an insert of an existing version is refused.
VersionFree(version) == \A p \in plans : p.version # version

\* Mutated form: the pending card is not cleared.
SavePlanOnly(plan) ==
    IF VersionFree(plan.version)
    THEN plans' = plans \cup {plan} /\ planVersion' = plan.version /\ UNCHANGED card
    ELSE UNCHANGED <<plans, planVersion, card>>

\* save, with clear in the same transaction: all of it or, when the insert is
\* refused, none of it.
SavePlan(plan) ==
    IF VersionFree(plan.version)
    THEN /\ plans' = plans \cup {plan}
         /\ planVersion' = plan.version
         /\ card' = None
    ELSE UNCHANGED <<plans, planVersion, card>>

-----------------------------------------------------------------------------
(* RunRepository, as functions on the table so that one action can use two *)

\* create: a queued run; the session row is the caller's business.
WithRun(table, r) ==
    [table EXCEPT ![r] =
        [AbsentRun EXCEPT !.status = "QUEUED",
                          !.born = Cardinality({x \in Requests : table[x].born > 0}) + 1]]

\* Mutated form: finished runs are marked too.
KeepsStatusNever(status) == FALSE

\* Runs mark_superseded leaves as they are.
KeepsStatus(status) == status \in {"SUCCEEDED", "FAILED"}

\* mark_superseded(old, new)
WithSuperseded(table, old, new) ==
    IF old \in Requests /\ ~KeepsStatus(table[old].status)
    THEN [table EXCEPT ![old].status = "SUPERSEDED", ![old].replacedBy = new]
    ELSE table

\* Mutated form: the stage is stored as the status.
WithStageAsStatus(table, r, status) == [table EXCEPT ![r].status = "cancelled"]

\* Mutated form: the result is returned but not stored.
WithResultLost(table, r, result) == table

\* update(status) and update(status, result_json)
WithStatus(table, r, status) == [table EXCEPT ![r].status = status]
WithResult(table, r, result) == [table EXCEPT ![r].result = result]

-----------------------------------------------------------------------------
(* Types of the tables. *)

Plan == [version : Nat \ {0}, by : Searching, through : Nat, content : SUBSET Searching]

Card == [by : Requests, draft : BOOLEAN, base : Nat, content : SUBSET Searching]

Run == [status : RunStatuses, replacedBy : Requests \cup {None},
        result : [status : ResultStatuses \cup {"none"}, version : Nat], born : Nat]

StoreTypeOK ==
    /\ active \in Requests \cup {None}
    /\ planVersion \in Nat
    /\ plans \subseteq Plan
    /\ runs \in [Requests -> Run]
    /\ card = None \/ card \in Card
    /\ seq \in [Messages -> Nat]
    /\ routed \subseteq Messages
=============================================================================
