---------------------------- MODULE AgentService ----------------------------
(***************************************************************************)
(* The requests of one session: application/agent_service.py, reached from *)
(* api/v1/router.py.                                                       *)
(*                                                                         *)
(* A message is stored, the context is read, the router answers, the route *)
(* is stored and the message is acted upon; a search, a patch or an answer *)
(* creates a run, registers its task and waits for it.  Requests run       *)
(* concurrently: between two awaits of one of them any other may act on    *)
(* the same session, and what a request has read may be stale when it      *)
(* uses it.                                                                *)
(*                                                                         *)
(* Modelled: every path of _handle_message, cancel_current and get_page    *)
(* that changes state.  Each request is sent once (a retry of a stored     *)
(* message only reads) and the server does not crash.  A read transaction  *)
(* is one action.                                                          *)
(***************************************************************************)
EXTENDS SearchGraph

VARIABLES
    pc,         \* where the handler of each request is, see Places
    seen,       \* what _load_message_context, or get_page, returned
    reply       \* the result a request was answered with

handlerVars == <<pc, seen, reply>>
vars == <<storeVars, graphVars, handlerVars>>

\* idle   not sent yet              load    message stored
\* route  context read              act     route stored
\* start  run created               await   waiting for the task of the run
\* stopRead, stopWrite  _stop       page    waiting for the page
\* answered  response sent          failed  ended with an error response
Places == {"idle", "load", "route", "act", "start", "await", "stopRead",
           "stopWrite", "page", "answered", "failed"}

NothingSeen == [active |-> None, version |-> 0, card |-> None]

Init ==
    /\ StoreInit
    /\ GraphInit
    /\ pc = [r \in Requests |-> "idle"]
    /\ seen = [r \in Requests |-> NothingSeen]
    /\ reply = [r \in Requests |-> NoResult]

Move(r, place) == pc' = [pc EXCEPT ![r] = place]

\* What the handler has read is gone with it; the reference of a page stays, for
\* the properties.
Forget(r) == seen' = [seen EXCEPT ![r] = IF r \in Pages THEN @ ELSE NothingSeen]

Answer(r, result) ==
    /\ Move(r, "answered")
    /\ reply' = [reply EXCEPT ![r] = result]
    /\ Forget(r)

Fail(r) ==
    /\ Move(r, "failed")
    /\ Forget(r)
    /\ UNCHANGED reply

-----------------------------------------------------------------------------
(* _handle_message up to the routing decision *)

\* append_user under the message write lock.  A client answers a card it has
\* been shown: it remembers the card that is pending now.
Append(r) ==
    /\ pc[r] = "idle" /\ r \in Messages
    /\ r \in Answers => card # None
    /\ seq' = [seq EXCEPT ![r] = NextSequence]
    /\ seen' = [seen EXCEPT ![r].card = IF r \in Answers THEN card.by ELSE None]
    /\ Move(r, "load")
    /\ UNCHANGED <<active, planVersion, plans, runs, card, routed, graphVars, reply>>

\* _load_message_context
ReadContext(r) ==
    /\ \/ pc[r] = "load"
       \/ pc[r] = "idle" /\ r \in Stops \cap Endpoints
    /\ seen' = [seen EXCEPT ![r] =
                    [active |-> active, version |-> CurrentPlan.version,
                     card |-> IF r \in Answers THEN seen[r].card ELSE CardSlot]]
    /\ Move(r, IF r \in Endpoints THEN "act" ELSE "route")
    /\ UNCHANGED <<storeVars, graphVars, reply>>

\* The router has decided; route_type is stored.
Route(r) ==
    /\ pc[r] = "route"
    /\ routed' = routed \cup {r}
    /\ Move(r, "act")
    /\ UNCHANGED <<active, planVersion, plans, runs, card, seq, graphVars, seen, reply>>

\* classify_message failed; only free text reaches the model.
RouterFails(r) ==
    /\ r \in Failing /\ r \in Searches \cup Patches \cup Unknowns \cup Chats
    /\ pc[r] = "route"
    /\ Fail(r)
    /\ UNCHANGED <<storeVars, graphVars>>

\* CASUAL_CHAT and STATUS_QUERY
Chat(r) ==
    /\ pc[r] = "act" /\ r \in Chats
    /\ Answer(r, NoResult)
    /\ UNCHANGED <<storeVars, graphVars>>

-----------------------------------------------------------------------------
(* _store_intent_clarification *)

\* With a card shown and a run active nothing is stored.
RepeatCard(r) ==
    /\ pc[r] = "act" /\ r \in Unknowns
    /\ seen[r].card # None /\ seen[r].active # None
    /\ Answer(r, Result("NEEDS_CLARIFICATION", seen[r].version))
    /\ UNCHANGED <<storeVars, graphVars>>

\* Otherwise an intent card replaces the pending one and a run is recorded; it
\* becomes the active run if there was none when the context was read.
AskIntent(r) ==
    /\ pc[r] = "act" /\ r \in Unknowns
    /\ seen[r].card = None \/ seen[r].active = None
    /\ runs' = WithStatus(WithRun(runs, r), r, "NEEDS_CLARIFICATION")
    /\ active' = IF seen[r].active = None THEN r ELSE active
    /\ card' = [by |-> IF seen[r].card = None THEN r ELSE seen[r].card,
                draft |-> FALSE, base |-> 0, content |-> {}]
    /\ Answer(r, Result("NEEDS_CLARIFICATION", seen[r].version))
    /\ UNCHANGED <<planVersion, plans, seq, routed, graphVars>>

-----------------------------------------------------------------------------
(* Structured answers: _handle_non_search_answer, _apply_structured_answer *)

\* validate_answer: the card asked about is the pending one.
CardAsked(r) == card # None /\ card.by = seen[r].card

\* The answer ends the clarification without a search: an intent card, or the
\* user prefers to restate a condition.
DismissCard(r) ==
    /\ pc[r] = "act" /\ r \in Answers /\ CardAsked(r)
    /\ card' = None
    /\ Answer(r, NoResult)
    /\ UNCHANGED <<active, planVersion, plans, runs, seq, routed, graphVars>>

\* The card is gone or has been replaced.
RefuseAnswer(r) ==
    /\ pc[r] = "act" /\ r \in Answers /\ ~CardAsked(r) /\ ~draft[r].given
    /\ Fail(r)
    /\ UNCHANGED <<storeVars, graphVars>>

\* The answer is applied to the stored draft.
ApplyAnswer(r) ==
    /\ pc[r] = "act" /\ r \in Answers /\ CardAsked(r) /\ card.draft
    /\ ~draft[r].given
    /\ draft' = [draft EXCEPT ![r] = [given |-> TRUE, content |-> card.content]]
    /\ UNCHANGED <<storeVars, registryVars, node, work, out, handlerVars>>

-----------------------------------------------------------------------------
(* _start_search_run *)

\* One transaction: create and activate the run, mark the run that was active
\* when the context was read.
CreateRun(r) ==
    /\ pc[r] = "act" /\ r \in Searching
    /\ r \in Answers => draft[r].given
    /\ runs' = WithSuperseded(WithRun(runs, r), seen[r].active, r)
    /\ active' = r
    /\ Move(r, "start")
    /\ Forget(r)
    /\ UNCHANGED <<planVersion, plans, card, seq, routed, graphVars, reply>>

\* start_replacement
StartTask(r) ==
    /\ pc[r] = "start"
    /\ Registry!StartReplacement(r)
    /\ Move(r, "await")
    /\ UNCHANGED <<storeVars, node, work, draft, out, seen, reply>>

\* What the request answers when its task is done: the task's result, or the
\* fixed SUPERSEDED result when the task was cancelled.
TaskResult(r) ==
    IF out[r] = NoResult THEN Result("SUPERSEDED", 0) ELSE out[r]

\* The awaited task is done; the finally clause removes it from the registry.
FinishRequest(r) ==
    /\ pc[r] = "await" /\ Registry!IsDone(r)
    /\ \/ Registry!Remove(r)
       \/ ~Registry!StillRegistered(r) /\ UNCHANGED registryVars
    /\ Answer(r, TaskResult(r))
    /\ UNCHANGED <<storeVars, node, work, draft, out>>

-----------------------------------------------------------------------------
(* _stop, from a CONTROL_STOP message or cancel_current *)

\* tasks.cancel: whatever task is registered now is cancelled.
StopTask(r) ==
    /\ pc[r] = "act" /\ r \in Stops
    /\ \/ Registry!RegistryCancel
       \/ /\ current # None => Registry!IsDone(current)
          /\ UNCHANGED registryVars
    /\ IF seen[r].active = None THEN Answer(r, NoResult)
       ELSE Move(r, "stopRead") /\ UNCHANGED <<seen, reply>>
    /\ UNCHANGED <<storeVars, node, work, draft, out>>

Terminal == {"SUCCEEDED", "FAILED", "CANCELLED", "SUPERSEDED"}

\* The status of the run seen in the context, read after the cancellation.
StopRead(r) ==
    /\ pc[r] = "stopRead"
    /\ IF runs[seen[r].active].status \in Terminal THEN Answer(r, NoResult)
       ELSE Move(r, "stopWrite") /\ UNCHANGED <<seen, reply>>
    /\ UNCHANGED <<storeVars, graphVars>>

StopWrite(r) ==
    /\ pc[r] = "stopWrite"
    /\ runs' = WithStatus(runs, seen[r].active, "CANCELLED")
    /\ Answer(r, NoResult)
    /\ UNCHANGED <<active, planVersion, plans, card, seq, routed, graphVars>>

-----------------------------------------------------------------------------
(* get_page *)

\* get_result: the active run has a stored result.
HasResult == active # None /\ runs[active].result # NoResult

\* The reference is valid: its plan is the current one.  A message refers to
\* the plan and needs a stored result of the active run.
PageStart(r) ==
    /\ r \in Pages /\ plans # {}
    /\ IF r \in Endpoints THEN pc[r] = "idle"
       ELSE /\ pc[r] = "act" /\ seen[r].version = CurrentPlan.version
            /\ HasResult
    /\ runs' = WithRun(runs, r)
    /\ seen' = [seen EXCEPT ![r] = [active |-> active, version |-> CurrentPlan.version,
                                    card |-> None]]
    /\ Move(r, "page")
    /\ UNCHANGED <<active, planVersion, plans, card, seq, routed, graphVars, reply>>

\* No plan, no result to page through, or a newer plan.
PageRefused(r) ==
    /\ pc[r] = "act" /\ r \in Pages
    /\ \/ seen[r].version = 0 \/ seen[r].version # CurrentPlan.version
       \/ ~HasResult
    /\ Fail(r)
    /\ UNCHANGED <<storeVars, graphVars>>

\* The search service refused the page: the request fails.
PageFails(r) ==
    /\ r \in Failing
    /\ pc[r] = "page"
    /\ Fail(r)
    /\ UNCHANGED <<storeVars, graphVars>>

\* Mutated form: the page becomes the active run unless the plan has changed.
PageMayLeadAnyRun(r) == planVersion = seen[r].version

\* The WHERE clause of the final update.
PageMayLead(r) == active = seen[r].active /\ planVersion = seen[r].version

\* Mutated form: the page result is labelled with the newest plan.
PageResultOfPointer(r) == Result("OK", planVersion)

PageResult(r) == Result("OK", seen[r].version)

\* The page answered: one transaction stores it and moves the active pointer.
PageAnswers(r) ==
    /\ pc[r] = "page"
    /\ runs' = WithResult(WithStatus(runs, r, "SUCCEEDED"), r, PageResult(r))
    /\ active' = IF PageMayLead(r) THEN r ELSE active
    /\ Answer(r, PageResult(r))
    /\ UNCHANGED <<planVersion, plans, card, seq, routed, graphVars>>

-----------------------------------------------------------------------------
\* The steps a request takes by itself once it has been sent.
HandlerStep(r) ==
    \/ pc[r] # "idle" /\ ReadContext(r)
    \/ Route(r) \/ RouterFails(r) \/ Chat(r)
    \/ RepeatCard(r) \/ AskIntent(r) \/ DismissCard(r) \/ RefuseAnswer(r)
    \/ ApplyAnswer(r) \/ CreateRun(r) \/ StartTask(r) \/ FinishRequest(r)
    \/ StopTask(r) \/ StopRead(r) \/ StopWrite(r)
    \/ pc[r] # "idle" /\ PageStart(r)
    \/ PageRefused(r) \/ PageFails(r) \/ PageAnswers(r)

\* A client sends a request.
Send(r) ==
    \/ Append(r)
    \/ pc[r] = "idle" /\ (ReadContext(r) \/ PageStart(r))

Next ==
    \/ \E r \in Requests : Send(r) \/ HandlerStep(r)
    \/ \E t \in Searching :
        \/ GraphStep(t) /\ UNCHANGED handlerVars
        \/ SaveLands(t) /\ UNCHANGED handlerVars

Spec == Init /\ [][Next]_vars

\* Every handler and every task proceeds: database calls return, and the model
\* and HTTP clients give up after their timeouts.  No client must send anything.
FairSpec ==
    /\ Spec
    /\ \A r \in Requests : WF_vars(HandlerStep(r))
    /\ \A t \in Searching :
        /\ WF_vars(GraphStep(t) /\ UNCHANGED handlerVars)
        /\ WF_vars(SaveLands(t) /\ UNCHANGED handlerVars)

-----------------------------------------------------------------------------
TypeOK ==
    /\ StoreTypeOK
    /\ GraphTypeOK
    /\ pc \in [Requests -> Places]
    /\ seen \in [Requests -> [active : Requests \cup {None}, version : Nat,
                              card : Requests \cup {None}]]
    /\ reply \in [Requests -> [status : ResultStatuses \cup {"none"}, version : Nat]]

\* A stop has hit an unstarted task, or a task was cancelled twice.
Disturbed ==
    \E t \in Searching : phase[t] = "skipped" \/ cancelling[t] = Registry!CancelCap

\* The plan versions of a session are 1, 2, 3, ... without gap or repetition,
\* and the session row points at the last, however saves overlap: two graphs
\* may save at once after a second cancellation (plans.save).
PlanChain ==
    /\ {p.version : p \in plans} = 1..planVersion
    /\ Cardinality(plans) = planVersion

\* A patch never loses a condition accepted before it: the plan a patch saves
\* contains the plan it follows (save_plan numbers it after the plan it read).
PatchesAccumulate ==
    \A p, q \in plans :
        q.version = p.version + 1 /\ q.by \in Patches => p.content \subseteq q.content

\* A stored search result names the plan its own run has saved, a stored page
\* the plan that was current when the page was requested (finalize, get_page).
ResultBoundToPlan ==
    \A r \in Requests : runs[r].result.status = "OK" =>
        IF r \in Pages THEN runs[r].result.version = seen[r].version
        ELSE \E p \in plans : p.by = r /\ p.version = runs[r].result.version

\* What a search or page request was answered is what a retry of the message
\* reads from the run, unless the run was superseded or stopped.
AnswerIsStored ==
    \A r \in Searching \cup Pages :
        pc[r] = "answered" /\ reply[r].status \in {"OK", "ERROR", "NEEDS_CLARIFICATION"}
        => runs[r].result = reply[r]

\* A pending card that keeps a draft was parsed against the current plan: a
\* card and a newer plan do not coexist (clarify checks the active run and
\* save_plan clears the card), unless a stop or a second cancellation let two
\* graphs overlap.
CardFresh ==
    card # None /\ ~Disturbed => (card.draft => card.base = planVersion)

\* The active run is not left behind: when the task of the active run has
\* finished and nobody cancelled it, its status is final.
ActiveRunSettles ==
    \A t \in Searching :
        active = t /\ Registry!IsDone(t) /\ cancelling[t] = 0
        => runs[t].status \notin {"QUEUED", "RUNNING"}

\* A page never takes the active pointer from a search that was created after
\* the page had been requested (the WHERE clause of get_page).
PageKeepsNewerSearch ==
    [][\A p \in Pages, s \in Searching :
          active' = p /\ active # p => runs[s].born <= runs[p].born]_vars

\* A result that was delivered keeps its SUCCEEDED run, except when a stop
\* that read the run before it succeeded writes last (mark_superseded skips
\* finished runs, and only the run's own task writes otherwise).
DeliveredRunStays ==
    [][\A r \in Searching \cup Pages :
          pc[r] = "answered" /\ runs[r].status = "SUCCEEDED"
          => \/ runs'[r].status = "SUCCEEDED"
             \/ \E s \in Stops : pc[s] = "stopWrite" /\ seen[s].active = r]_vars

\* The tasks of the session behave as TaskRegistry says.
RefinesRegistry == Registry!Spec

\* Every request that was sent is answered or fails, whatever is cancelled,
\* stopped or waited for in the meantime.
RequestsReturn ==
    \A r \in Requests : pc[r] # "idle" ~> pc[r] \in {"answered", "failed"}
==============================================================================
