----------------------------- MODULE SearchGraph -----------------------------
(***************************************************************************)
(* One run of the search graph inside its task: orchestration/nodes.py,    *)
(* orchestration/graph.py and AgentService._execute_graph / _finish_error. *)
(*                                                                         *)
(* Each action is the code between two awaits that other tasks can see, so *)
(* nodes that touch no shared state are folded into the next that does:    *)
(* parse_plan, validate and resolve_entities are one step whose outcome is *)
(* chosen (clarify, save, error), and so are search_candidates and the     *)
(* first read of finalize.  Every action moves the task of TaskRegistry    *)
(* along: the cancellation rules are that module's.                        *)
(*                                                                         *)
(* A write whose action is enabled although a CancelledError is pending is *)
(* a commit already handed to the database when the task was cancelled: it *)
(* may land or be rolled back, and the task learns neither.                *)
(***************************************************************************)
EXTENDS SessionStore

VARIABLES
    current, previous, phase, pending, cancelling, save, rank, total,
    node,       \* where the graph of each task is, see Nodes
    work,       \* the AgentState of each task, see NoWork
    draft,      \* the draft a structured answer starts its run with
    out         \* what the task returned; NoResult while it runs or if it raised

Registry == INSTANCE TaskRegistry WITH Tasks <- Searching, NoTask <- None

registryVars == <<current, previous, phase, pending, cancelling, save, rank, total>>
graphVars == <<registryVars, node, work, draft, out>>

\* begin     RUNNING not yet written   begun   written, its commit interrupted
\* written   a node's write landed while its task was being cancelled
\* failRead, failWrite   _finish_error;    failed   the same for its write
\* handlerRead, handlerWrite, handled      the CancelledError handler
InTry == {"load", "parse", "clarify", "clarifyWrite", "clarifyResult",
          "save", "search", "finalizeWrite", "written"}
Nodes == InTry \cup {"none", "begin", "begun", "failRead", "failWrite", "failed",
                     "handlerRead", "handlerWrite", "handled", "end"}

\* base: version of current_plan at load_context; content: the messages in the
\* draft; slot: whose card the clarification row held when clarify read it.
NoWork == [base |-> 0, content |-> {}, slot |-> None]

\* No initial draft.
NoDraft == [given |-> FALSE, content |-> {}]

GraphInit ==
    /\ Registry!Init
    /\ node = [t \in Searching |-> "none"]
    /\ work = [t \in Searching |-> NoWork]
    /\ draft = [t \in Searching |-> NoDraft]
    /\ out = [t \in Searching |-> NoResult]

At(t, n) == node[t] = n /\ t \notin pending
Go(t, n) == node' = [node EXCEPT ![t] = n]

\* The task returns a result.
Return(t, result) ==
    /\ Registry!Finish(t)
    /\ Go(t, "end")
    /\ out' = [out EXCEPT ![t] = result]

\* A write has landed: the task goes on, or it is being cancelled and resumes
\* with the CancelledError.
GoUnlessCancelled(t, n, interrupted) ==
    /\ UNCHANGED <<registryVars, out>>
    /\ Go(t, IF t \in pending THEN interrupted ELSE n)
ReturnUnlessCancelled(t, result, interrupted) ==
    \/ t \notin pending /\ Return(t, result)
    \/ t \in pending /\ Go(t, interrupted) /\ UNCHANGED <<registryVars, out>>

-----------------------------------------------------------------------------
(* The task starts: run_in_order, then the RUNNING update. *)

\* The operation of t starts, at once or after its predecessor.
TaskBegins(t) ==
    /\ Registry!BeginAtOnce(t) \/ Registry!Resume(t)
    /\ Go(t, "begin")
    /\ UNCHANGED <<storeVars, work, draft, out>>

TaskWaits(t) ==
    /\ Registry!CancelPrevious(t)
    /\ UNCHANGED <<storeVars, node, work, draft, out>>

TaskSkipped(t) ==
    /\ Registry!SkipUnstarted(t)
    /\ Go(t, "end")
    /\ UNCHANGED <<storeVars, work, draft, out>>

\* _execute_graph: runs.update(RUNNING), whatever the status has become.
MarkRunning(t) ==
    /\ node[t] = "begin"
    /\ runs' = WithStatus(runs, t, "RUNNING")
    /\ GoUnlessCancelled(t, "load", "begun")
    /\ UNCHANGED <<active, planVersion, plans, card, seq, routed, work, draft>>

-----------------------------------------------------------------------------
(* load_context and the parsing nodes. *)

\* The conditions the draft will express: those of the given draft; those of
\* the loaded plan and the new messages for a patch; else the new messages.
DraftContent(t, plan, messages) ==
    IF draft[t].given THEN draft[t].content
    ELSE IF t \in Patches THEN plan.content \cup messages
    ELSE messages

\* load_context: current plan, and the messages it has not absorbed yet up to
\* the message of this run.
LoadContext(t) ==
    /\ At(t, "load")
    /\ LET plan == CurrentPlan
           messages == ListAfter(plan.through, seq[t])
       IN work' = [work EXCEPT ![t] =
                    [NoWork EXCEPT !.base = plan.version,
                                   !.content = DraftContent(t, plan, messages)]]
    /\ Go(t, "parse")
    /\ UNCHANGED <<storeVars, registryVars, draft, out>>

\* parse_plan, validate, resolve_entities: a blocking item is left.
ParseBlocked(t) ==
    /\ t \in Blocking
    /\ At(t, "parse")
    /\ Go(t, "clarify")
    /\ UNCHANGED <<storeVars, registryVars, work, draft, out>>

\* The draft is executable: save_plan starts its shielded operation.
ParseExecutable(t) ==
    /\ At(t, "parse")
    /\ Registry!BeginSave(t)
    /\ Go(t, "save")
    /\ UNCHANGED <<storeVars, work, draft, out>>

\* The model or the entity service failed.
ParseFails(t) ==
    /\ t \in Failing
    /\ At(t, "parse")
    /\ Go(t, "failRead")
    /\ UNCHANGED <<storeVars, registryVars, work, draft, out>>

-----------------------------------------------------------------------------
(* clarify *)

\* `session_record.active_run_id == run_id`
StillActive(t) == active = t

\* _superseded_result; finalize has put the saved plan into the state.
Superseded(t) ==
    Result("SUPERSEDED", IF node[t] = "search" THEN work[t].base + 1 ELSE work[t].base)

CardSlot == IF card = None THEN None ELSE card.by

\* clarify reads the session row and the pending card.
Clarify(t) ==
    /\ At(t, "clarify")
    /\ \/ /\ ~StillActive(t)
          /\ Return(t, Superseded(t))
          /\ UNCHANGED work
       \/ /\ StillActive(t)
          /\ work' = [work EXCEPT ![t].slot = CardSlot]
          /\ Go(t, "clarifyWrite")
          /\ UNCHANGED <<registryVars, out>>
    /\ UNCHANGED <<storeVars, draft>>

\* Mutated form: the run's status is not part of the transaction.
ClarifyStatusKept(table, t) == table

ClarifyStatus(table, t) == WithStatus(table, t, "NEEDS_CLARIFICATION")

\* The transaction replaces the card it has read and marks the run.
ClarifyWrite(t) ==
    /\ node[t] = "clarifyWrite" /\ CardSlot = work[t].slot
    /\ card' = [by |-> t, draft |-> TRUE, base |-> work[t].base,
                content |-> work[t].content]
    /\ runs' = ClarifyStatus(runs, t)
    /\ GoUnlessCancelled(t, "clarifyResult", "written")
    /\ UNCHANGED <<active, planVersion, plans, seq, routed, work, draft>>

\* The card has changed since: the insert or the update of the row fails.
ClarifyConflict(t) ==
    /\ At(t, "clarifyWrite") /\ CardSlot # work[t].slot
    /\ Go(t, "failRead")
    /\ UNCHANGED <<storeVars, registryVars, work, draft, out>>

\* The second transaction stores the result.
ClarifyResult(t) ==
    LET result == Result("NEEDS_CLARIFICATION", work[t].base) IN
    /\ node[t] = "clarifyResult"
    /\ runs' = WithResult(runs, t, result)
    /\ ReturnUnlessCancelled(t, result, "written")
    /\ UNCHANGED <<active, planVersion, plans, card, seq, routed, work, draft>>

-----------------------------------------------------------------------------
(* save_plan, under complete_before_cancel *)

Saved(t) == \E p \in plans : p.by = t

\* Mutated form: the plan is numbered after the version pointer.
NewVersionFromPointer(t) == planVersion + 1

\* The version save_plan gives to its plan.
NewVersion(t) == work[t].base + 1

\* The transaction of save_plan commits or fails, in a task of its own.
SaveLands(t) ==
    /\ Registry!SaveSettles(t)
    /\ SavePlan([version |-> NewVersion(t), by |-> t, through |-> seq[t],
                 content |-> work[t].content])
    /\ UNCHANGED <<active, runs, seq, routed, node, work, draft, out>>

SaveReturns(t) ==
    /\ Registry!SaveReturns(t)
    /\ Go(t, IF Saved(t) THEN "search" ELSE "failRead")
    /\ UNCHANGED <<storeVars, work, draft, out>>

SaveInterrupted(t) ==
    /\ Registry!InterruptSave(t)
    /\ UNCHANGED <<storeVars, node, work, draft, out>>

SaveSettled(t) ==
    /\ Registry!SaveSettled(t)
    /\ phase'[t] = (IF Saved(t) THEN "cleanup" ELSE "body")
    /\ Go(t, IF Saved(t) THEN "handlerRead" ELSE "failRead")
    /\ UNCHANGED <<storeVars, work, draft, out>>

SaveAbandoned(t) ==
    /\ Registry!AbandonSave(t)
    /\ Go(t, "handlerRead")
    /\ UNCHANGED <<storeVars, work, draft, out>>

-----------------------------------------------------------------------------
(* compile_search, search_candidates and finalize *)

SearchFails(t) ==
    /\ t \in Failing
    /\ At(t, "search")
    /\ Go(t, "failRead")
    /\ UNCHANGED <<storeVars, registryVars, work, draft, out>>

\* The search answered and finalize has read the session row.
SearchAnswers(t) ==
    /\ At(t, "search")
    /\ \/ ~StillActive(t) /\ Return(t, Superseded(t))
       \/ StillActive(t) /\ Go(t, "finalizeWrite") /\ UNCHANGED <<registryVars, out>>
    /\ UNCHANGED <<storeVars, work, draft>>

\* The result is bound to the plan this run has saved.
SearchResult(t) == Result("OK", work[t].base + 1)

Finalize(t) ==
    /\ node[t] = "finalizeWrite"
    /\ runs' = WithResult(WithStatus(runs, t, "SUCCEEDED"), t, SearchResult(t))
    /\ ReturnUnlessCancelled(t, SearchResult(t), "written")
    /\ UNCHANGED <<active, planVersion, plans, card, seq, routed, work, draft>>

-----------------------------------------------------------------------------
(* _finish_error and the CancelledError handler of _execute_graph *)

FailRead(t) ==
    /\ At(t, "failRead")
    /\ \/ /\ runs[t].status \in {"CANCELLED", "SUPERSEDED"}
          /\ Return(t, Result(runs[t].status, 0))
       \/ /\ runs[t].status \notin {"CANCELLED", "SUPERSEDED"}
          /\ Go(t, "failWrite")
          /\ UNCHANGED <<registryVars, out>>
    /\ UNCHANGED <<storeVars, work, draft>>

FailWrite(t) ==
    LET result == Result("ERROR", 0) IN
    /\ node[t] = "failWrite"
    /\ runs' = WithResult(WithStatus(runs, t, "FAILED"), t, result)
    /\ ReturnUnlessCancelled(t, result, "failed")
    /\ UNCHANGED <<active, planVersion, plans, card, seq, routed, work, draft>>

\* Mutated form: a node turns CancelledError into an ordinary error.
InterruptedAsError(t) ==
    /\ phase[t] = "body" /\ t \in pending
    /\ pending' = pending \ {t}
    /\ Go(t, "failRead")
    /\ UNCHANGED <<storeVars, current, previous, phase, cancelling, save, rank,
                   total, work, draft, out>>

\* CancelledError is thrown into a node: the handler runs.  Thrown into the
\* RUNNING update or into _finish_error it leaves the task at once.
Interrupted(t) ==
    /\ Registry!Interrupt(t)
    /\ phase'[t] = (IF node[t] \in InTry THEN "cleanup" ELSE "done")
    /\ Go(t, IF node[t] \in InTry THEN "handlerRead" ELSE "end")
    /\ UNCHANGED <<storeVars, work, draft, out>>

\* The handler reads the status.  CANCELLED stays; SUPERSEDED is written again,
\* which changes no status: only columns that differ are updated.
HandlerRead(t) ==
    /\ At(t, "handlerRead")
    /\ \/ /\ runs[t].status \in {"CANCELLED", "SUPERSEDED"}
          /\ Return(t, NoResult)
       \/ /\ runs[t].status \notin {"CANCELLED", "SUPERSEDED"}
          /\ Go(t, "handlerWrite")
          /\ UNCHANGED <<registryVars, out>>
    /\ UNCHANGED <<storeVars, work, draft>>

HandlerWrite(t) ==
    /\ node[t] = "handlerWrite"
    /\ runs' = WithStatus(runs, t, "SUPERSEDED")
    /\ ReturnUnlessCancelled(t, NoResult, "handled")
    /\ UNCHANGED <<active, planVersion, plans, card, seq, routed, work, draft>>

HandlerInterrupted(t) ==
    /\ Registry!InterruptCleanup(t)
    /\ Go(t, "end")
    /\ UNCHANGED <<storeVars, work, draft, out>>

-----------------------------------------------------------------------------
\* The steps the task of t takes by itself.
GraphStep(t) ==
    \/ TaskBegins(t) \/ TaskWaits(t) \/ TaskSkipped(t) \/ MarkRunning(t)
    \/ LoadContext(t) \/ ParseBlocked(t) \/ ParseExecutable(t) \/ ParseFails(t)
    \/ Clarify(t) \/ ClarifyWrite(t) \/ ClarifyConflict(t) \/ ClarifyResult(t)
    \/ SaveReturns(t) \/ SaveInterrupted(t) \/ SaveSettled(t)
    \/ SaveAbandoned(t) \/ SearchFails(t) \/ SearchAnswers(t) \/ Finalize(t)
    \/ FailRead(t) \/ FailWrite(t) \/ Interrupted(t) \/ HandlerRead(t)
    \/ HandlerWrite(t) \/ HandlerInterrupted(t)

GraphTypeOK ==
    /\ Registry!TypeOK
    /\ node \in [Searching -> Nodes]
    /\ work \in [Searching -> [base : Nat, content : SUBSET Searching,
                               slot : Requests \cup {None}]]
    /\ draft \in [Searching -> [given : BOOLEAN, content : SUBSET Searching]]
    /\ out \in [Searching -> [status : ResultStatuses \cup {"none"}, version : Nat]]
=============================================================================
