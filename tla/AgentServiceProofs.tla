------------------------- MODULE AgentServiceProofs -------------------------
(***************************************************************************)
(* Proofs about AgentService, for every set of requests.                   *)
(*                                                                         *)
(* The tasks of the session take the steps of TaskRegistry, so what        *)
(* TaskRegistryProofs proves of a conversation's tasks holds of them.  The *)
(* invariants of the service need more: where a request can be (PlaceFits),*)
(* how the node of a graph, the phase of its task and its request go       *)
(* together (NodeFits), that a plan is numbered after the plan its run has *)
(* loaded (PlansFit), that a graph which may still ask loaded the newest   *)
(* plan (LoadFresh), and which run the active pointer and a page's         *)
(* reference can name (RunFits, PageFits).                                 *)
(***************************************************************************)
EXTENDS AgentService, FiniteSetTheorems, TLAPS

RegistryFacts == INSTANCE TaskRegistryProofs WITH Tasks <- Searching, NoTask <- None

-----------------------------------------------------------------------------
(* The inductive invariant. *)

\* Only the requests that can be there are at a place.
PlaceFits ==
    \A r \in Requests :
        /\ pc[r] \in {"load", "route"} => r \in Messages
        /\ pc[r] \in {"start", "await"} => r \in Searching
        /\ pc[r] = "page" => r \in Pages
        /\ pc[r] \in {"stopRead", "stopWrite"} => r \in Stops

\* The nodes of each phase of a task; the others belong to phase body.
NodesOf(p) ==
    IF p \in {"new", "created", "waiting"} THEN {"none"}
    ELSE IF p \in {"saving", "settling"} THEN {"save"}
    ELSE IF p = "cleanup" THEN {"handlerRead", "handlerWrite", "handled"}
    ELSE IF p = "body"
         THEN Nodes \ {"none", "save", "handlerRead", "handlerWrite", "handled", "end"}
    ELSE {"end"}

\* The nodes up to the parsing of the message, before anything is saved.
Unsaved == {"none", "begin", "begun", "load", "parse", "clarify", "clarifyWrite",
            "clarifyResult"}

\* The task of a request exists once the request waits for it, and the request
\* answers when the task is done; the node tells what has happened.
NodeFits ==
    \A t \in Searching :
        /\ node[t] \in NodesOf(phase[t])
        /\ pc[t] = "await" => phase[t] # "new"
        /\ pc[t] = "answered" => phase[t] = "new" \/ Registry!IsDone(t)
        /\ phase[t] # "new" => pc[t] \in {"await", "answered"}
        /\ node[t] \in Unsaved => save[t] = "none"
        /\ node[t] \in {"search", "finalizeWrite"} => Saved(t)
        /\ out[t] # NoResult => node[t] = "end"
        /\ draft[t].given => t \in Answers

\* A plan is numbered after the plan its run loaded, which a patch contains.
PlansFit ==
    /\ IsFiniteSet(plans)
    /\ \A p, q \in plans : p.version = q.version => p = q
    /\ \A t \in Searching : work[t].base <= planVersion
    /\ \A p \in plans : save[p.by] = "settled" /\ p.version = work[p.by].base + 1
    /\ \A t \in Patches, p \in plans :
            p.version = work[t].base => p.content \subseteq work[t].content

\* A graph that may still ask has loaded the newest plan.
LoadFresh ==
    ~Disturbed => \A t \in Searching :
        node[t] \in {"parse", "clarify", "clarifyWrite"} => work[t].base = planVersion

\* Runs are numbered as they are created, and a stored OK is the run's own.
RunFits ==
    \A r \in Requests :
        /\ runs[r].born > 0 => pc[r] \in {"start", "await", "page", "answered", "failed"}
        /\ runs[r].born <= Cardinality({x \in Requests : runs[x].born > 0})
        /\ runs[r].result.status = "OK" => r \in Searching \cup Pages
        /\ runs[r].result.status = "OK" /\ r \in Pages => pc[r] = "answered"

\* What the task of a request returned is stored, and the question it asked has
\* marked its run.
OutFits ==
    \A t \in Searching :
        /\ out[t].status \in {"OK", "ERROR", "NEEDS_CLARIFICATION"}
              => runs[t].result = out[t]
        /\ node[t] = "clarifyResult" => runs[t].status \notin {"QUEUED", "RUNNING"}

\* The active run was created, and while it is the one a page refers to no
\* search is newer than the page.
PageFits ==
    /\ active # None => pc[active] \in {"start", "await", "answered"}
    /\ \A p \in Pages : pc[p] = "page" =>
        /\ seen[p].active # None => pc[seen[p].active] \in {"start", "await", "answered"}
        /\ active = seen[p].active => \A s \in Searching : runs[s].born <= runs[p].born

\* The inductive invariant: the properties, and what their steps rely on.
IInv ==
    /\ TypeOK /\ PlaceFits /\ NodeFits
    /\ RegistryFacts!IInv
    /\ PlanChain /\ PlansFit /\ PatchesAccumulate
    /\ RunFits /\ ResultBoundToPlan /\ OutFits /\ AnswerIsStored
    /\ ActiveRunSettles
    /\ LoadFresh /\ CardFresh
    /\ PageFits

-----------------------------------------------------------------------------
(* The steps of the service are steps of TaskRegistry. *)

\* What TaskRegistryProofs assumes of its constants.
LEMMA NoneIsNoTask == None \notin Searching
  BY StoreAssumption DEF Requests

\* SearchGraph and the proofs instantiate TaskRegistry alike.
LEMMA SameRegistry ==
    /\ Registry!Init <=> RegistryFacts!Init
    /\ Registry!Next <=> RegistryFacts!Next
    /\ Registry!TypeOK <=> RegistryFacts!TypeOK
  BY DEF Registry!Init, Registry!Next, Registry!TypeOK, Registry!Phases, Registry!Running,
     Registry!Finished, Registry!CancelCap, Registry!IsDone, Registry!TaskStep,
     Registry!StartReplacement, Registry!Captured, Registry!SaveSettles, Registry!Remove,
     Registry!RegistryCancel, Registry!BeginAtOnce, Registry!CancelPrevious,
     Registry!SkipUnstarted, Registry!Resume, Registry!BeginSave, Registry!SaveReturns,
     Registry!InterruptSave, Registry!SaveSettled, Registry!AbandonSave,
     Registry!Interrupt, Registry!Finish, Registry!InterruptCleanup,
     Registry!StillRegistered, Registry!MyTurn, Registry!NothingToAwait, Registry!Cancel,
     Registry!CancelReach, Registry!AfterFirstCancel, Registry!AwaitedReplaced,
     RegistryFacts!Init, RegistryFacts!Next, RegistryFacts!TypeOK, RegistryFacts!Phases,
     RegistryFacts!Running, RegistryFacts!Finished, RegistryFacts!CancelCap,
     RegistryFacts!IsDone, RegistryFacts!TaskStep, RegistryFacts!StartReplacement,
     RegistryFacts!Captured, RegistryFacts!SaveSettles, RegistryFacts!Remove,
     RegistryFacts!RegistryCancel, RegistryFacts!BeginAtOnce, RegistryFacts!CancelPrevious,
     RegistryFacts!SkipUnstarted, RegistryFacts!Resume, RegistryFacts!BeginSave,
     RegistryFacts!SaveReturns, RegistryFacts!InterruptSave, RegistryFacts!SaveSettled,
     RegistryFacts!AbandonSave, RegistryFacts!Interrupt,
     RegistryFacts!Finish, RegistryFacts!InterruptCleanup, RegistryFacts!StillRegistered,
     RegistryFacts!MyTurn, RegistryFacts!NothingToAwait, RegistryFacts!Cancel,
     RegistryFacts!CancelReach, RegistryFacts!AfterFirstCancel,
     RegistryFacts!AwaitedReplaced

\* A step of a task's graph is a step of the task or leaves the tasks alone.
LEMMA GraphMaps ==
    ASSUME NEW t \in Searching, GraphStep(t)
    PROVE  Registry!TaskStep(t) \/ UNCHANGED registryVars
<1> USE DEF Registry!TaskStep
<1>1. CASE TaskBegins(t) \/ TaskWaits(t) \/ TaskSkipped(t)
  BY <1>1 DEF TaskBegins, TaskWaits, TaskSkipped
<1>2. CASE MarkRunning(t) \/ LoadContext(t) \/ ParseBlocked(t)
           \/ ParseExecutable(t) \/ ParseFails(t)
  BY <1>2 DEF MarkRunning, GoUnlessCancelled, LoadContext, ParseBlocked,
     ParseExecutable, ParseFails
<1>3. CASE Clarify(t) \/ ClarifyWrite(t) \/ ClarifyConflict(t) \/ ClarifyResult(t)
  BY <1>3 DEF Clarify, ClarifyWrite, ClarifyConflict, ClarifyResult, GoUnlessCancelled,
     ReturnUnlessCancelled, Return
<1>4. CASE SaveReturns(t) \/ SaveInterrupted(t) \/ SaveSettled(t) \/ SaveAbandoned(t)
  BY <1>4 DEF SaveReturns, SaveInterrupted, SaveSettled, SaveAbandoned
<1>5. CASE SearchFails(t) \/ SearchAnswers(t) \/ Finalize(t)
  BY <1>5 DEF SearchFails, SearchAnswers, Finalize, ReturnUnlessCancelled, Return
<1>6. CASE FailRead(t) \/ FailWrite(t) \/ Interrupted(t) \/ HandlerRead(t)
           \/ HandlerWrite(t) \/ HandlerInterrupted(t)
  BY <1>6 DEF FailRead, FailWrite, Interrupted, HandlerRead, HandlerWrite,
     HandlerInterrupted, ReturnUnlessCancelled, Return
<1>7. QED
  BY <1>1, <1>2, <1>3, <1>4, <1>5, <1>6 DEF GraphStep

\* What a request does to the tasks, and what it never touches.
LEMMA HandlerFrame ==
    ASSUME NEW r \in Requests, Send(r) \/ HandlerStep(r)
    PROVE  /\ UNCHANGED <<planVersion, plans, node, work, out, save>>
           /\ \/ StartTask(r) /\ Registry!StartReplacement(r)
              \/ UNCHANGED <<previous, phase, rank, total>>
           /\ \/ StartTask(r) /\ Registry!StartReplacement(r)
              \/ FinishRequest(r) /\ Registry!Remove(r)
              \/ Registry!RegistryCancel
              \/ UNCHANGED registryVars
<1> USE DEF storeVars, graphVars, registryVars, handlerVars
<1>1. CASE Append(r) \/ ReadContext(r) \/ Route(r) \/ RouterFails(r) \/ Chat(r)
  BY <1>1 DEF Append, ReadContext, Route, RouterFails, Chat
<1>2. CASE RepeatCard(r) \/ AskIntent(r) \/ DismissCard(r) \/ RefuseAnswer(r)
           \/ ApplyAnswer(r) \/ CreateRun(r)
  BY <1>2 DEF RepeatCard, AskIntent, DismissCard, RefuseAnswer, ApplyAnswer, CreateRun
<1>3. CASE StartTask(r)
  BY <1>3 DEF StartTask, Registry!StartReplacement
<1>4. CASE FinishRequest(r)
  BY <1>4 DEF FinishRequest, Registry!Remove
<1>5. CASE StopTask(r)
  BY <1>5 DEF StopTask, Registry!RegistryCancel
<1>6. CASE StopRead(r) \/ StopWrite(r) \/ PageStart(r) \/ PageRefused(r)
           \/ PageFails(r) \/ PageAnswers(r)
  BY <1>6 DEF StopRead, StopWrite, PageStart, PageRefused, PageFails, PageAnswers
<1>7. QED
  BY <1>1, <1>2, <1>3, <1>4, <1>5, <1>6 DEF Send, HandlerStep

\* Every step of the service is a step of its tasks or leaves them alone.
LEMMA StepMaps ==
    ASSUME PlaceFits, [Next]_vars
    PROVE  [Registry!Next]_registryVars
<1>1. ASSUME NEW r \in Requests, Send(r) \/ HandlerStep(r)
      PROVE  [Registry!Next]_registryVars
  <2>1. r \in Searching \/ ~(StartTask(r) \/ FinishRequest(r))
    BY DEF PlaceFits, StartTask, FinishRequest
  <2>2. QED
    BY <1>1, <2>1, HandlerFrame DEF Registry!Next
<1>2. ASSUME NEW t \in Searching, GraphStep(t) PROVE [Registry!Next]_registryVars
  BY <1>2, GraphMaps DEF Registry!Next
<1>3. ASSUME NEW t \in Searching, SaveLands(t) PROVE [Registry!Next]_registryVars
  BY <1>3 DEF Registry!Next, SaveLands
<1>4. CASE UNCHANGED vars
  BY <1>4 DEF vars, graphVars
<1>5. QED
  BY <1>1, <1>2, <1>3, <1>4 DEF Next

\* So the invariant of TaskRegistry is kept.
LEMMA RegistryKept ==
    ASSUME RegistryFacts!IInv, PlaceFits, [Next]_vars
    PROVE  RegistryFacts!IInv'
<1>1. [RegistryFacts!Next]_(RegistryFacts!vars)
  BY StepMaps, SameRegistry DEF registryVars, RegistryFacts!vars
<1>2. QED
  BY <1>1, NoneIsNoTask, RegistryFacts!TypeStep, RegistryFacts!OrderStep,
     RegistryFacts!RegisteredStep, RegistryFacts!LinksStep, RegistryFacts!OneGraphStep,
     RegistryFacts!ToldStep, RegistryFacts!SaveHeldStep DEF RegistryFacts!IInv

-----------------------------------------------------------------------------
(* The tables: what the repositories' operators return. *)

\* The runs that were created can be counted, and so can the messages.
LEMMA Counted ==
    /\ \A table : Cardinality({x \in Requests : table[x].born > 0}) \in Nat
    /\ NextSequence \in Nat
<1>1. \A S : S \subseteq Requests => Cardinality(S) \in Nat
  BY StoreAssumption, FS_Subset, FS_CardinalityType
<1>2. QED
  BY <1>1 DEF NextSequence, Messages

\* create: the run of r is queued and newer than all, the others stay.
LEMMA WithRunIs ==
    ASSUME NEW table \in [Requests -> Run], NEW r \in Requests
    PROVE  /\ WithRun(table, r) \in [Requests -> Run]
           /\ \A x \in Requests : x # r => WithRun(table, r)[x] = table[x]
           /\ WithRun(table, r)[r].status = "QUEUED"
           /\ WithRun(table, r)[r].result = NoResult
           /\ WithRun(table, r)[r].born
                = Cardinality({x \in Requests : table[x].born > 0}) + 1
<1> DEFINE count == Cardinality({x \in Requests : table[x].born > 0})
           new == [AbsentRun EXCEPT !.status = "QUEUED", !.born = count + 1]
<1>1. count + 1 \in Nat
  BY Counted
<1>2. AbsentRun \in Run /\ AbsentRun.result = NoResult
  BY DEF AbsentRun, Run, RunStatuses, NoResult, Result
<1> HIDE DEF count
<1>3. /\ new \in Run /\ new.status = "QUEUED" /\ new.born = count + 1
      /\ new.result = AbsentRun.result
  BY <1>1, <1>2 DEF Run, RunStatuses
<1>4. WithRun(table, r) = [table EXCEPT ![r] = new]
  BY DEF WithRun, count
<1> HIDE DEF new
<1>5. QED
  BY <1>2, <1>3, <1>4 DEF count

\* update(status): only the status of r changes.
LEMMA WithStatusIs ==
    ASSUME NEW table \in [Requests -> Run], NEW r, NEW status \in RunStatuses
    PROVE  /\ WithStatus(table, r, status) \in [Requests -> Run]
           /\ \A x \in Requests :
                /\ WithStatus(table, r, status)[x].status =
                       IF x = r THEN status ELSE table[x].status
                /\ WithStatus(table, r, status)[x].result = table[x].result
                /\ WithStatus(table, r, status)[x].born = table[x].born
  BY DEF WithStatus, Run

\* update(result_json): only the result of r changes.
LEMMA WithResultIs ==
    ASSUME NEW table \in [Requests -> Run], NEW r,
           NEW result \in [status : ResultStatuses \cup {"none"}, version : Nat]
    PROVE  /\ WithResult(table, r, result) \in [Requests -> Run]
           /\ \A x \in Requests :
                /\ WithResult(table, r, result)[x].status = table[x].status
                /\ WithResult(table, r, result)[x].result =
                       IF x = r THEN result ELSE table[x].result
                /\ WithResult(table, r, result)[x].born = table[x].born
  BY DEF WithResult, Run

\* mark_superseded: a run is marked unless it has succeeded or failed.
LEMMA WithSupersededIs ==
    ASSUME NEW table \in [Requests -> Run], NEW old, NEW new \in Requests
    PROVE  /\ WithSuperseded(table, old, new) \in [Requests -> Run]
           /\ \A x \in Requests :
                /\ WithSuperseded(table, old, new)[x].status =
                       IF x = old /\ table[x].status \notin {"SUCCEEDED", "FAILED"}
                       THEN "SUPERSEDED" ELSE table[x].status
                /\ WithSuperseded(table, old, new)[x].result = table[x].result
                /\ WithSuperseded(table, old, new)[x].born = table[x].born
<1>1. CASE old \in Requests /\ ~KeepsStatus(table[old].status)
  <2> DEFINE row == [table[old] EXCEPT !.status = "SUPERSEDED", !.replacedBy = new]
  <2>1. /\ row \in Run /\ row.status = "SUPERSEDED"
        /\ row.result = table[old].result /\ row.born = table[old].born
    BY <1>1 DEF Run, RunStatuses
  <2>2. WithSuperseded(table, old, new) = [table EXCEPT ![old] = row]
    BY <1>1 DEF WithSuperseded
  <2> HIDE DEF row
  <2>3. QED
    BY <1>1, <2>1, <2>2 DEF KeepsStatus
<1>2. CASE ~(old \in Requests /\ ~KeepsStatus(table[old].status))
  BY <1>2 DEF WithSuperseded, KeepsStatus
<1>3. QED
  BY <1>1, <1>2

\* get_current returns the plan the session row points at.
LEMMA CurrentPlanIs ==
    ASSUME TypeOK, PlanChain
    PROVE  /\ CurrentPlan.version = planVersion
           /\ CurrentPlan \in plans \/ (plans = {} /\ CurrentPlan = NoPlan)
           /\ CurrentPlan.version \in Nat /\ CurrentPlan.through \in Nat
           /\ CurrentPlan.content \subseteq Searching
<1>1. planVersion \in Nat /\ plans \subseteq Plan
  BY DEF TypeOK, StoreTypeOK
<1>2. CASE plans = {}
  <2>1. planVersion \notin 1..planVersion
    BY <1>2 DEF PlanChain
  <2>2. planVersion = 0
    BY <1>1, <2>1
  <2>3. QED
    BY <1>2, <2>2 DEF CurrentPlan, NoPlan
<1>3. CASE plans # {}
  <2>1. \A p \in plans : p.version \in 1..planVersion
    BY DEF PlanChain
  <2>2. planVersion \in 1..planVersion
    BY <1>1, <1>3, <2>1
  <2>3. PICK p \in plans : p.version = planVersion
    BY <2>2 DEF PlanChain
  <2>4. \A q \in plans : q.version <= p.version
    BY <1>1, <2>1, <2>3
  <2>5. CurrentPlan \in plans /\ \A q \in plans : q.version <= CurrentPlan.version
    BY <1>3, <2>4 DEF CurrentPlan
  <2>6. CurrentPlan.version = planVersion
    BY <1>1, <2>1, <2>3, <2>5
  <2>7. QED
    BY <1>1, <2>5, <2>6 DEF Plan
<1>4. QED
  BY <1>2, <1>3

-----------------------------------------------------------------------------
(* Frames: what the steps of a request and of a graph leave alone. *)

\* How a step of request r can move it.
PlaceMoves(r) ==
    \/ pc[r] = "act" /\ pc'[r] = "act"
    \/ pc[r] = "idle" /\ pc'[r] = "load" /\ r \in Messages
    \/ pc[r] \in {"idle", "load"} /\ pc'[r] = "act"
    \/ pc[r] \in {"idle", "load"} /\ pc'[r] = "route" /\ r \notin Endpoints
    \/ pc[r] = "route" /\ pc'[r] = "act"
    \/ pc[r] = "act" /\ pc'[r] = "start" /\ r \in Searching
    \/ pc[r] = "act" /\ pc'[r] = "answered" /\ (r \in Searching => r \in Answers)
    \/ pc[r] = "start" /\ pc'[r] = "await" /\ StartTask(r)
    \/ pc[r] = "await" /\ pc'[r] = "answered" /\ FinishRequest(r)
    \/ pc[r] = "act" /\ pc'[r] = "stopRead" /\ r \in Stops
    \/ pc[r] = "stopRead" /\ pc'[r] \in {"stopWrite", "answered"}
    \/ pc[r] = "stopWrite" /\ pc'[r] = "answered"
    \/ pc[r] \in {"idle", "act"} /\ pc'[r] = "page" /\ r \in Pages
    \/ pc[r] = "page" /\ pc'[r] \in {"answered", "failed"}
    \/ pc[r] \in {"route", "act"} /\ pc'[r] = "failed"

\* The kinds of requests are disjoint where the places depend on it.
LEMMA Kinds ==
    /\ Searching \cap (Unknowns \cup Chats \cup Stops \cup Pages) = {}
    /\ Pages \cap (Unknowns \cup Chats \cup Stops) = {}
    /\ Patches \cap Answers = {} /\ Searching \subseteq Messages
    /\ Patches \subseteq Searching /\ Answers \subseteq Searching
    /\ Searching \cup Pages \cup Stops \cup Unknowns \subseteq Requests
  BY StoreAssumption DEF Searching, Requests, Messages

\* A request moves alone, and its places are those of Places.
LEMMA HandlerMoves ==
    ASSUME pc \in [Requests -> Places], NEW r \in Requests, Send(r) \/ HandlerStep(r)
    PROVE  /\ pc' \in [Requests -> Places]
           /\ \A q \in Requests : q # r => pc'[q] = pc[q]
           /\ PlaceMoves(r)
<1> USE DEF Places, Move, PlaceMoves
<1>1. CASE Append(r) \/ Route(r)
  BY <1>1 DEF Append, Route
<1>2. CASE ReadContext(r)
  BY <1>2 DEF ReadContext
<1>3. CASE RouterFails(r) \/ Chat(r) \/ RepeatCard(r) \/ AskIntent(r)
  BY <1>3, Kinds DEF RouterFails, Chat, RepeatCard, AskIntent, Fail, Answer
<1>4. CASE DismissCard(r) \/ RefuseAnswer(r) \/ ApplyAnswer(r)
  BY <1>4 DEF DismissCard, RefuseAnswer, ApplyAnswer, Fail, Answer, handlerVars
<1>5. CASE CreateRun(r) \/ StartTask(r)
  BY <1>5 DEF CreateRun, StartTask
<1>6. CASE FinishRequest(r)
  BY <1>6 DEF FinishRequest, Answer
<1>7. CASE StopTask(r)
  BY <1>7, Kinds DEF StopTask, Answer
<1>8. CASE StopRead(r) \/ StopWrite(r)
  BY <1>8 DEF StopRead, StopWrite, Answer
<1>9. CASE PageStart(r)
  BY <1>9 DEF PageStart
<1>10. CASE PageRefused(r) \/ PageFails(r) \/ PageAnswers(r)
  BY <1>10 DEF PageRefused, PageFails, PageAnswers, Answer, Fail
<1>11. QED
  BY <1>1, <1>2, <1>3, <1>4, <1>5, <1>6, <1>7, <1>8, <1>9, <1>10 DEF Send, HandlerStep

\* A step of a task changes the phase and the save of that task only.
LEMMA TaskFrame ==
    ASSUME Registry!TypeOK, NEW t \in Searching, Registry!TaskStep(t) \/ Registry!SaveSettles(t)
    PROVE  \A u \in Searching : u # t => phase'[u] = phase[u] /\ save'[u] = save[u]
  BY DEF Registry!TypeOK, Registry!TaskStep, Registry!SaveSettles, Registry!BeginAtOnce,
     Registry!CancelPrevious, Registry!SkipUnstarted, Registry!Resume,
     Registry!BeginSave, Registry!SaveReturns, Registry!InterruptSave,
     Registry!SaveSettled, Registry!AbandonSave, Registry!Interrupt,
     Registry!Finish, Registry!InterruptCleanup

\* A graph step leaves the session row, the messages and the plans alone, ...
LEMMA GraphFrame ==
    ASSUME NEW t \in Searching, GraphStep(t)
    PROVE  UNCHANGED <<active, seq, routed, draft, plans, planVersion>>
<1> USE DEF storeVars
<1>1. CASE TaskBegins(t) \/ TaskWaits(t) \/ TaskSkipped(t) \/ MarkRunning(t)
           \/ LoadContext(t) \/ ParseBlocked(t)
           \/ ParseExecutable(t) \/ ParseFails(t)
  BY <1>1 DEF TaskBegins, TaskWaits, TaskSkipped, MarkRunning, LoadContext,
     ParseBlocked, ParseExecutable, ParseFails
<1>2. CASE Clarify(t) \/ ClarifyWrite(t) \/ ClarifyConflict(t) \/ ClarifyResult(t)
           \/ SaveReturns(t) \/ SaveInterrupted(t) \/ SaveSettled(t)
           \/ SaveAbandoned(t) \/ SearchFails(t) \/ SearchAnswers(t)
  BY <1>2 DEF Clarify, ClarifyWrite, ClarifyConflict, ClarifyResult, SaveReturns,
     SaveInterrupted, SaveSettled, SaveAbandoned, SearchFails, SearchAnswers
<1>3. CASE Finalize(t) \/ FailRead(t) \/ FailWrite(t) \/ Interrupted(t)
           \/ HandlerRead(t) \/ HandlerWrite(t) \/ HandlerInterrupted(t)
  BY <1>3 DEF Finalize, FailRead, FailWrite, Interrupted, HandlerRead, HandlerWrite,
     HandlerInterrupted
<1>4. QED
  BY <1>1, <1>2, <1>3 DEF GraphStep

\* ... stays among the nodes, and moves only its own.
LEMMA GraphMoves ==
    ASSUME node \in [Searching -> Nodes], NEW t \in Searching, GraphStep(t)
    PROVE  /\ node' \in [Searching -> Nodes]
           /\ \A u \in Searching : u # t => node'[u] = node[u]
<1> USE DEF Go, Nodes, InTry, Return, GoUnlessCancelled, ReturnUnlessCancelled
<1>1. CASE TaskBegins(t) \/ TaskWaits(t) \/ TaskSkipped(t) \/ MarkRunning(t)
  BY <1>1 DEF TaskBegins, TaskWaits, TaskSkipped, MarkRunning
<1>2. CASE LoadContext(t) \/ ParseBlocked(t)
           \/ ParseExecutable(t) \/ ParseFails(t)
  BY <1>2 DEF LoadContext, ParseBlocked, ParseExecutable, ParseFails
<1>3. CASE Clarify(t) \/ ClarifyWrite(t) \/ ClarifyConflict(t) \/ ClarifyResult(t)
  BY <1>3 DEF Clarify, ClarifyWrite, ClarifyConflict, ClarifyResult
<1>4. CASE SaveReturns(t) \/ SaveInterrupted(t) \/ SaveSettled(t) \/ SaveAbandoned(t)
  BY <1>4 DEF SaveReturns, SaveInterrupted, SaveSettled, SaveAbandoned
<1>5. CASE SearchFails(t) \/ SearchAnswers(t) \/ Finalize(t)
  BY <1>5 DEF SearchFails, SearchAnswers, Finalize
<1>6. CASE FailRead(t) \/ FailWrite(t) \/ Interrupted(t)
  BY <1>6 DEF FailRead, FailWrite, Interrupted
<1>7. CASE HandlerRead(t) \/ HandlerWrite(t) \/ HandlerInterrupted(t)
  BY <1>7 DEF HandlerRead, HandlerWrite, HandlerInterrupted
<1>8. QED
  BY <1>1, <1>2, <1>3, <1>4, <1>5, <1>6, <1>7 DEF GraphStep

-----------------------------------------------------------------------------
(* What the steps of a graph write. *)

WorkRow == [base : Nat, content : SUBSET Searching, slot : Requests \cup {None}]
ResultRow == [status : ResultStatuses \cup {"none"}, version : Nat]

\* load_context takes the newest plan, and what the draft will say.
LEMMA LoadContextIs ==
    ASSUME TypeOK, PlanChain, NEW t \in Searching, LoadContext(t)
    PROVE  /\ work' \in [Searching -> WorkRow]
           /\ \A u \in Searching : u # t => work'[u] = work[u]
           /\ work'[t].base = planVersion
           /\ work'[t].content =
                DraftContent(t, CurrentPlan, ListAfter(CurrentPlan.through, seq[t]))
<1> DEFINE content == DraftContent(t, CurrentPlan, ListAfter(CurrentPlan.through, seq[t]))
           row == [NoWork EXCEPT !.base = CurrentPlan.version, !.content = content]
<1>1. CurrentPlan.version = planVersion /\ CurrentPlan.version \in Nat
      /\ CurrentPlan.content \subseteq Searching
  BY CurrentPlanIs
<1>2. content \in SUBSET Searching
  BY <1>1 DEF DraftContent, ListAfter, TypeOK, GraphTypeOK
<1>3. NoWork \in WorkRow
  BY DEF NoWork, WorkRow
<1>4. work \in [Searching -> WorkRow] /\ work' = [work EXCEPT ![t] = row]
  BY DEF LoadContext, TypeOK, GraphTypeOK, WorkRow
<1> HIDE DEF content
<1>5. row \in WorkRow /\ row.base = CurrentPlan.version /\ row.content = content
  BY <1>1, <1>2, <1>3 DEF WorkRow
<1> HIDE DEF row
<1>6. QED
  BY <1>1, <1>4, <1>5 DEF content

\* Only load_context changes what a draft is based on; clarify notes a card.
LEMMA GraphWork ==
    ASSUME TypeOK, PlanChain, NEW t \in Searching, GraphStep(t)
    PROVE  /\ work' \in [Searching -> WorkRow]
           /\ \A u \in Searching : u # t => work'[u] = work[u]
           /\ \/ LoadContext(t)
              \/ work'[t].base = work[t].base /\ work'[t].content = work[t].content
<1>0. work \in [Searching -> WorkRow]
  BY DEF TypeOK, GraphTypeOK, WorkRow
<1>1. CASE LoadContext(t)
  BY <1>1, LoadContextIs
<1>2. CASE Clarify(t) /\ ~UNCHANGED work
  <2>1. work' = [work EXCEPT ![t].slot = CardSlot]
    BY <1>2 DEF Clarify
  <2>2. CardSlot \in Requests \cup {None}
    BY DEF CardSlot, TypeOK, StoreTypeOK, Card
  <2>3. QED
    BY <1>0, <2>1, <2>2 DEF WorkRow
<1>3. CASE UNCHANGED work
  BY <1>0, <1>3
<1>4. CASE TaskBegins(t) \/ TaskWaits(t) \/ TaskSkipped(t) \/ MarkRunning(t)
           \/ ParseBlocked(t) \/ ParseExecutable(t) \/ ParseFails(t)
           \/ ClarifyWrite(t) \/ ClarifyConflict(t) \/ ClarifyResult(t) \/ SaveReturns(t)
           \/ SaveInterrupted(t) \/ SaveSettled(t) \/ SaveAbandoned(t) \/ SearchFails(t)
  BY <1>3, <1>4 DEF TaskBegins, TaskWaits, TaskSkipped, MarkRunning,
     ParseBlocked, ParseExecutable, ParseFails, ClarifyWrite, ClarifyConflict,
     ClarifyResult, SaveReturns, SaveInterrupted, SaveSettled, SaveAbandoned, SearchFails
<1>5. CASE SearchAnswers(t) \/ Finalize(t) \/ FailRead(t) \/ FailWrite(t) \/ Interrupted(t)
           \/ HandlerRead(t) \/ HandlerWrite(t) \/ HandlerInterrupted(t)
  BY <1>3, <1>5 DEF SearchAnswers, Finalize, FailRead, FailWrite, Interrupted,
     HandlerRead, HandlerWrite, HandlerInterrupted
<1>6. QED
  BY <1>1, <1>2, <1>3, <1>4, <1>5 DEF GraphStep

\* The results of the four nodes that return one.
LEMMA ResultRows ==
    ASSUME TypeOK, NEW t \in Searching
    PROVE  /\ SearchResult(t) \in ResultRow /\ SearchResult(t).status = "OK"
           /\ SearchResult(t).version = work[t].base + 1
           /\ Superseded(t) \in ResultRow /\ Superseded(t).status = "SUPERSEDED"
           /\ NoResult \in ResultRow /\ NoResult.status = "none"
           /\ Result("ERROR", 0) \in ResultRow
           /\ Result("NEEDS_CLARIFICATION", work[t].base) \in ResultRow
           /\ \A status \in {"CANCELLED", "SUPERSEDED"} :
                Result(status, 0) \in ResultRow /\ Result(status, 0).status = status
<1>1. work[t].base \in Nat
  BY DEF TypeOK, GraphTypeOK
<1>2. QED
  BY <1>1 DEF SearchResult, Superseded, NoResult, Result, ResultRow, ResultStatuses

\* A graph step writes to its own run only, and when its task returns a result
\* that a retry may ask for, it has stored it.
LEMMA GraphRuns ==
    ASSUME TypeOK, NEW t \in Searching, GraphStep(t)
    PROVE  /\ runs' \in [Requests -> Run]
           /\ \A r \in Requests : r # t => runs'[r].status = runs[r].status
                                          /\ runs'[r].result = runs[r].result
           /\ \A r \in Requests : runs'[r].born = runs[r].born
           /\ \/ runs'[t].status = runs[t].status
              \/ node[t] = "begin" /\ runs'[t].status = "RUNNING"
              \/ /\ node[t] \in {"clarifyWrite", "finalizeWrite", "failWrite", "handlerWrite"}
                 /\ runs'[t].status \notin {"QUEUED", "RUNNING"}
           /\ \/ runs'[t].result = runs[t].result
              \/ node[t] = "clarifyResult" /\ runs'[t].result.status = "NEEDS_CLARIFICATION"
              \/ Finalize(t) /\ runs'[t].result = SearchResult(t)
              \/ node[t] = "failWrite" /\ runs'[t].result.status = "ERROR"
<1>0. t \in Requests /\ runs \in [Requests -> Run]
  BY Kinds DEF TypeOK, StoreTypeOK
<1>1. CASE MarkRunning(t)
  BY <1>0, <1>1, WithStatusIs DEF MarkRunning, RunStatuses
<1>2. CASE ClarifyWrite(t)
  BY <1>0, <1>2, WithStatusIs DEF ClarifyWrite, ClarifyStatus, RunStatuses
<1>3. CASE ClarifyResult(t)
  <2>1. Result("NEEDS_CLARIFICATION", work[t].base) \in ResultRow
    BY ResultRows
  <2>2. runs' = WithResult(runs, t, Result("NEEDS_CLARIFICATION", work[t].base))
    BY <1>3 DEF ClarifyResult
  <2>3. Result("NEEDS_CLARIFICATION", work[t].base).status = "NEEDS_CLARIFICATION"
    BY DEF Result
  <2>4. QED
    BY <1>0, <1>3, <2>1, <2>2, <2>3, WithResultIs DEF ClarifyResult, ResultRow
<1>4. CASE Finalize(t)
  <2>1. WithStatus(runs, t, "SUCCEEDED") \in [Requests -> Run]
    BY <1>0, WithStatusIs DEF RunStatuses
  <2>2. QED
    BY <1>0, <1>4, <2>1, ResultRows, WithStatusIs, WithResultIs
       DEF Finalize, RunStatuses, ResultRow
<1>5. CASE FailWrite(t)
  <2>1. WithStatus(runs, t, "FAILED") \in [Requests -> Run]
    BY <1>0, WithStatusIs DEF RunStatuses
  <2>2. Result("ERROR", 0).status = "ERROR"
    BY DEF Result
  <2>3. runs' = WithResult(WithStatus(runs, t, "FAILED"), t, Result("ERROR", 0))
    BY <1>5 DEF FailWrite
  <2>4. QED
    BY <1>0, <1>5, <2>1, <2>2, <2>3, ResultRows, WithStatusIs, WithResultIs
       DEF FailWrite, RunStatuses, ResultRow
<1>6. CASE HandlerWrite(t)
  BY <1>0, <1>6, WithStatusIs DEF HandlerWrite, RunStatuses
<1>7. CASE UNCHANGED runs
  BY <1>0, <1>7
<1>8. CASE TaskBegins(t) \/ TaskWaits(t) \/ TaskSkipped(t) \/ LoadContext(t)
           \/ ParseBlocked(t) \/ ParseExecutable(t) \/ ParseFails(t)
           \/ Clarify(t) \/ ClarifyConflict(t) \/ SaveReturns(t) \/ SaveInterrupted(t)
           \/ SaveSettled(t) \/ SaveAbandoned(t) \/ SearchFails(t) \/ SearchAnswers(t)
           \/ FailRead(t) \/ Interrupted(t) \/ HandlerRead(t) \/ HandlerInterrupted(t)
  BY <1>7, <1>8 DEF TaskBegins, TaskWaits, TaskSkipped, LoadContext,
     ParseBlocked, ParseExecutable, ParseFails, Clarify, ClarifyConflict, SaveReturns,
     SaveInterrupted, SaveSettled, SaveAbandoned, SearchFails, SearchAnswers, FailRead,
     Interrupted, HandlerRead, HandlerInterrupted, storeVars
<1>9. QED
  BY <1>1, <1>2, <1>3, <1>4, <1>5, <1>6, <1>8 DEF GraphStep

\* What a task returns and a retry may ask for has been stored with it.
LEMMA GraphOut ==
    ASSUME TypeOK, NEW t \in Searching, GraphStep(t)
    PROVE  /\ out' \in [Searching -> ResultRow]
           /\ \A u \in Searching : u # t => out'[u] = out[u]
           /\ \/ out'[t] = out[t]
              \/ /\ node'[t] = "end"
                 /\ out'[t].status \in {"OK", "ERROR", "NEEDS_CLARIFICATION"}
                        => runs'[t].result = out'[t]
<1> USE DEF Return, Go, ReturnUnlessCancelled
<1>0. /\ t \in Requests /\ runs \in [Requests -> Run] /\ out \in [Searching -> ResultRow]
      /\ node \in [Searching -> Nodes]
  BY Kinds DEF TypeOK, StoreTypeOK, GraphTypeOK, ResultRow
<1>1. CASE Clarify(t) \/ SearchAnswers(t)
  BY <1>0, <1>1, ResultRows DEF Clarify, SearchAnswers
<1>2. CASE ClarifyResult(t)
  <2>1. Result("NEEDS_CLARIFICATION", work[t].base) \in ResultRow
    BY ResultRows
  <2>2. runs'[t].result = Result("NEEDS_CLARIFICATION", work[t].base)
    BY <1>0, <1>2, <2>1, WithResultIs DEF ClarifyResult, ResultRow
  <2>3. QED
    BY <1>0, <1>2, <2>1, <2>2 DEF ClarifyResult
<1>3. CASE Finalize(t)
  <2>1. WithStatus(runs, t, "SUCCEEDED") \in [Requests -> Run]
    BY <1>0, WithStatusIs DEF RunStatuses
  <2>2. runs'[t].result = SearchResult(t)
    BY <1>0, <1>3, <2>1, ResultRows, WithResultIs DEF Finalize, ResultRow
  <2>3. QED
    BY <1>0, <1>3, <2>2, ResultRows DEF Finalize
<1>4. CASE FailWrite(t)
  <2>1. WithStatus(runs, t, "FAILED") \in [Requests -> Run]
    BY <1>0, WithStatusIs DEF RunStatuses
  <2>2. runs'[t].result = Result("ERROR", 0)
    BY <1>0, <1>4, <2>1, ResultRows, WithResultIs DEF FailWrite, ResultRow
  <2>3. QED
    BY <1>0, <1>4, <2>2, ResultRows DEF FailWrite
<1>5. CASE FailRead(t)
  <2>1. CASE runs[t].status \in {"CANCELLED", "SUPERSEDED"}
    BY <1>0, <1>5, <2>1, ResultRows DEF FailRead
  <2>2. CASE runs[t].status \notin {"CANCELLED", "SUPERSEDED"}
    BY <1>0, <1>5, <2>2 DEF FailRead
  <2>3. QED
    BY <2>1, <2>2
<1>6. CASE HandlerRead(t) \/ HandlerWrite(t)
  BY <1>0, <1>6, ResultRows DEF HandlerRead, HandlerWrite
<1>7. CASE UNCHANGED out
  BY <1>0, <1>7
<1>8. CASE TaskBegins(t) \/ TaskWaits(t) \/ TaskSkipped(t) \/ MarkRunning(t)
           \/ LoadContext(t) \/ ParseBlocked(t) \/ ParseExecutable(t)
           \/ ParseFails(t) \/ ClarifyWrite(t) \/ ClarifyConflict(t) \/ SaveReturns(t)
           \/ SaveInterrupted(t) \/ SaveSettled(t) \/ SaveAbandoned(t) \/ SearchFails(t)
           \/ Interrupted(t) \/ HandlerInterrupted(t)
  BY <1>7, <1>8 DEF TaskBegins, TaskWaits, TaskSkipped, MarkRunning, LoadContext,
     ParseBlocked, ParseExecutable, ParseFails, ClarifyWrite,
     ClarifyConflict, SaveReturns, SaveInterrupted, SaveSettled, SaveAbandoned,
     SearchFails, Interrupted, HandlerInterrupted, GoUnlessCancelled
<1>9. QED
  BY <1>1, <1>2, <1>3, <1>4, <1>5, <1>6, <1>8 DEF GraphStep

-----------------------------------------------------------------------------
(* The places of requests and the nodes of graphs. *)

\* Requests stay where only their kind can be.
LEMMA PlaceStep ==
    ASSUME TypeOK, PlaceFits, [Next]_vars
    PROVE  PlaceFits'
<1>1. ASSUME NEW r \in Requests, Send(r) \/ HandlerStep(r) PROVE PlaceFits'
  BY <1>1, HandlerMoves, Kinds DEF PlaceFits, PlaceMoves, TypeOK, Messages
<1>2. CASE UNCHANGED pc
  BY <1>2 DEF PlaceFits
<1>3. QED
  BY <1>1, <1>2 DEF Next, vars, handlerVars

\* A request creates the task of its run and answers when that task is done.
LEMMA NodeStepOfHandler ==
    ASSUME TypeOK, PlaceFits, NodeFits, NEW r \in Requests, Send(r) \/ HandlerStep(r)
    PROVE  NodeFits'
<1>1. SUFFICES ASSUME NEW t \in Searching
               PROVE  /\ node'[t] \in NodesOf(phase'[t])
                      /\ pc'[t] = "await" => phase'[t] # "new"
                      /\ pc'[t] = "answered" =>
                            phase'[t] = "new" \/ phase'[t] \in {"done", "skipped"}
                      /\ phase'[t] # "new" => pc'[t] \in {"await", "answered"}
                      /\ node'[t] \in Unsaved => save'[t] = "none"
                      /\ node'[t] \in {"search", "finalizeWrite"} => Saved(t)'
                      /\ out'[t] # NoResult => node'[t] = "end"
                      /\ draft'[t].given => t \in Answers
  BY DEF NodeFits, Registry!IsDone, Registry!Finished
<1>2. /\ node[t] \in NodesOf(phase[t])
      /\ pc[t] = "await" => phase[t] # "new"
      /\ pc[t] = "answered" => phase[t] = "new" \/ phase[t] \in {"done", "skipped"}
      /\ phase[t] # "new" => pc[t] \in {"await", "answered"}
      /\ node[t] \in Unsaved => save[t] = "none"
      /\ node[t] \in {"search", "finalizeWrite"} => Saved(t)
      /\ out[t] # NoResult => node[t] = "end"
      /\ draft[t].given => t \in Answers
  BY DEF NodeFits, Registry!IsDone, Registry!Finished
<1>3. UNCHANGED <<planVersion, plans, node, work, out, save>>
  BY HandlerFrame
<1>4. draft'[t].given => t \in Answers
  <2>1. draft' = draft \/ ApplyAnswer(r)
    BY DEF Send, HandlerStep, Append, ReadContext, Route, RouterFails, Chat, RepeatCard,
       AskIntent, DismissCard, RefuseAnswer, CreateRun, StartTask, FinishRequest,
       StopTask, StopRead, StopWrite, PageStart, PageRefused, PageFails, PageAnswers,
       graphVars
  <2>2. QED
    BY <1>2, <2>1 DEF ApplyAnswer, TypeOK, GraphTypeOK
<1>5. Saved(t)' <=> Saved(t)
  BY <1>3 DEF Saved
<1>6. /\ t # r => pc'[t] = pc[t]
      /\ PlaceMoves(r) /\ t \in Requests
  BY HandlerMoves, Kinds DEF TypeOK
<1>7. CASE StartTask(r)
  <2>1. /\ phase \in [Searching -> Registry!Phases] /\ phase[r] = "new"
        /\ phase' = [phase EXCEPT ![r] = "created"] /\ pc[r] = "start"
        /\ pc' = [pc EXCEPT ![r] = "await"] /\ pc \in [Requests -> Places]
    BY <1>7, SameRegistry DEF StartTask, Registry!StartReplacement, Move, TypeOK,
       GraphTypeOK, Registry!TypeOK
  <2>2. CASE t = r
    BY <1>2, <1>3, <1>4, <1>5, <2>1, <2>2 DEF NodesOf
  <2>3. CASE t # r
    BY <1>2, <1>3, <1>4, <1>5, <2>1, <2>3
  <2>4. QED
    BY <2>2, <2>3
<1>8. CASE ~StartTask(r)
  <2>1. phase' = phase
    BY <1>8, HandlerFrame
  <2>2. FinishRequest(r) => phase[r] \in {"done", "skipped"}
    BY DEF FinishRequest, Registry!IsDone, Registry!Finished
  <2>3. CASE t # r
    BY <1>2, <1>3, <1>4, <1>5, <1>6, <2>1, <2>3
  <2>4. CASE t = r
    BY <1>2, <1>3, <1>4, <1>5, <1>6, <1>8, <2>1, <2>2, <2>4, Kinds DEF PlaceMoves
  <2>5. QED
    BY <2>3, <2>4
<1>9. QED
  BY <1>7, <1>8

\* A graph moves from node to node as its task moves from phase to phase.
LEMMA NodeStepOfGraph ==
    ASSUME TypeOK, NodeFits, NEW t \in Searching, GraphStep(t), UNCHANGED handlerVars
    PROVE  NodeFits'
<1> DEFINE Fits ==
        /\ node'[t] \in NodesOf(phase'[t]) /\ phase'[t] # "new"
        /\ node'[t] \in Unsaved => save'[t] = "none"
        /\ node'[t] \in {"search", "finalizeWrite"} => Saved(t)
        /\ out'[t] # NoResult => node'[t] = "end"
        /\ phase[t] # "new" /\ ~Registry!IsDone(t)
<1>0. /\ phase \in [Searching -> Registry!Phases] /\ node \in [Searching -> Nodes]
      /\ save \in [Searching -> {"none", "open", "settled"}]
      /\ out \in [Searching -> ResultRow] /\ Registry!TypeOK
  BY DEF TypeOK, GraphTypeOK, Registry!TypeOK, ResultRow
<1>1. /\ node[t] \in NodesOf(phase[t])
      /\ node[t] \in Unsaved => save[t] = "none"
      /\ node[t] \in {"search", "finalizeWrite"} => Saved(t)
      /\ out[t] # NoResult => node[t] = "end"
  BY DEF NodeFits
<1>2. Fits
  <2> USE <1>0, <1>1 DEF NodesOf, Nodes, InTry, Unsaved, Go, At, GoUnlessCancelled,
          ReturnUnlessCancelled, Return, registryVars, Registry!Phases,
          Registry!Running, Registry!Finished, Registry!IsDone
  <2>1. CASE TaskBegins(t)
    BY <2>1 DEF TaskBegins, Registry!BeginAtOnce, Registry!Resume
  <2>2. CASE TaskWaits(t)
    BY <2>2 DEF TaskWaits, Registry!CancelPrevious
  <2>3. CASE TaskSkipped(t)
    BY <2>3 DEF TaskSkipped, Registry!SkipUnstarted
  <2>4. CASE MarkRunning(t) \/ LoadContext(t)
    BY <2>4 DEF MarkRunning, LoadContext
  <2>5. CASE ParseBlocked(t)
    BY <2>5 DEF ParseBlocked
  <2>6. CASE ParseFails(t)
    BY <2>6 DEF ParseFails
  <2>7. CASE ParseExecutable(t)
    BY <2>7 DEF ParseExecutable, Registry!BeginSave
  <2>8. CASE Clarify(t)
    BY <2>8 DEF Clarify, Registry!Finish
  <2>9. CASE ClarifyWrite(t) \/ ClarifyConflict(t)
    BY <2>9 DEF ClarifyWrite, ClarifyConflict
  <2>10. CASE ClarifyResult(t)
    BY <2>10 DEF ClarifyResult, Registry!Finish
  <2>11. CASE SaveReturns(t)
    BY <2>11 DEF SaveReturns, Registry!SaveReturns
  <2>12. CASE SaveInterrupted(t)
    BY <2>12 DEF SaveInterrupted, Registry!InterruptSave, Registry!AfterFirstCancel
  <2>13. CASE SaveSettled(t)
    BY <2>13 DEF SaveSettled, Registry!SaveSettled
  <2>14. CASE SaveAbandoned(t)
    BY <2>14 DEF SaveAbandoned, Registry!AbandonSave
  <2>15. CASE SearchFails(t)
    BY <2>15 DEF SearchFails
  <2>16. CASE SearchAnswers(t)
    BY <2>16 DEF SearchAnswers, Registry!Finish
  <2>17. CASE Finalize(t)
    BY <2>17 DEF Finalize, Registry!Finish
  <2>18. CASE FailRead(t)
    BY <2>18 DEF FailRead, Registry!Finish
  <2>19. CASE FailWrite(t)
    BY <2>19 DEF FailWrite, Registry!Finish
  <2>20. CASE Interrupted(t)
    BY <2>20 DEF Interrupted, Registry!Interrupt
  <2>21. CASE HandlerRead(t)
    BY <2>21 DEF HandlerRead, Registry!Finish
  <2>22. CASE HandlerWrite(t)
    BY <2>22 DEF HandlerWrite, Registry!Finish
  <2>23. CASE HandlerInterrupted(t)
    BY <2>23 DEF HandlerInterrupted, Registry!InterruptCleanup
  <2>24. QED
    BY <2>1, <2>2, <2>3, <2>4, <2>5, <2>6, <2>7, <2>8, <2>9, <2>10, <2>11, <2>12, <2>13,
       <2>14, <2>15, <2>16, <2>17, <2>18, <2>19, <2>20, <2>21, <2>22, <2>23 DEF GraphStep
<1> HIDE DEF Fits
<1>3. /\ UNCHANGED <<pc, draft, plans>>
      /\ \A u \in Searching : u # t =>
            /\ node'[u] = node[u] /\ out'[u] = out[u]
            /\ phase'[u] = phase[u] /\ save'[u] = save[u]
  <2>1. Registry!TaskStep(t) \/ UNCHANGED registryVars
    BY GraphMaps
  <2>2. \A u \in Searching : u # t => phase'[u] = phase[u] /\ save'[u] = save[u]
    BY <1>0, <2>1, TaskFrame DEF registryVars
  <2>3. QED
    BY <1>0, <2>2, GraphFrame, GraphMoves, GraphOut DEF handlerVars
<1>4. \A u \in Searching : Saved(u)' <=> Saved(u)
  BY <1>3 DEF Saved
<1>5. QED
  BY <1>2, <1>3, <1>4 DEF NodeFits, Fits, Registry!IsDone

\* How a graph gets to the nodes before its save.
LEMMA GraphPath ==
    ASSUME TypeOK, NodeFits, NEW t \in Searching, GraphStep(t)
    PROVE  /\ node'[t] = "clarifyResult" => ClarifyWrite(t)
           /\ node'[t] = "parse" => LoadContext(t)
           /\ node'[t] \in {"clarify", "clarifyWrite"} => node[t] \in {"parse", "clarify"}
<1> USE DEF Go, Return, GoUnlessCancelled, ReturnUnlessCancelled
<1>0. node \in [Searching -> Nodes]
  BY DEF TypeOK, GraphTypeOK
<1>1. CASE TaskBegins(t) \/ TaskSkipped(t) \/ MarkRunning(t)
  BY <1>0, <1>1 DEF TaskBegins, TaskSkipped, MarkRunning
<1>2. CASE TaskWaits(t)
  BY <1>2 DEF TaskWaits, Registry!CancelPrevious, NodeFits, NodesOf
<1>3. CASE LoadContext(t) \/ ParseBlocked(t)
           \/ ParseExecutable(t) \/ ParseFails(t)
  BY <1>0, <1>3 DEF LoadContext, ParseBlocked, ParseExecutable, ParseFails, At
<1>4. CASE Clarify(t) \/ ClarifyWrite(t) \/ ClarifyConflict(t) \/ ClarifyResult(t)
  BY <1>0, <1>4 DEF Clarify, ClarifyWrite, ClarifyConflict, ClarifyResult, At
<1>5. CASE SaveInterrupted(t)
  BY <1>5 DEF SaveInterrupted, Registry!InterruptSave, NodeFits, NodesOf
<1>6. CASE SaveReturns(t) \/ SaveSettled(t) \/ SaveAbandoned(t)
  BY <1>0, <1>6 DEF SaveReturns, SaveSettled, SaveAbandoned
<1>7. CASE SearchFails(t) \/ SearchAnswers(t) \/ Finalize(t)
  BY <1>0, <1>7 DEF SearchFails, SearchAnswers, Finalize
<1>8. CASE FailRead(t) \/ FailWrite(t) \/ Interrupted(t)
  BY <1>0, <1>8 DEF FailRead, FailWrite, Interrupted
<1>9. CASE HandlerRead(t) \/ HandlerWrite(t) \/ HandlerInterrupted(t)
  BY <1>0, <1>9 DEF HandlerRead, HandlerWrite, HandlerInterrupted
<1>10. QED
  BY <1>1, <1>2, <1>3, <1>4, <1>5, <1>6, <1>7, <1>8, <1>9 DEF GraphStep

\* A save that lands leaves every graph where it is.
LEMMA NodeStepOfSave ==
    ASSUME TypeOK, NodeFits, NEW t \in Searching, SaveLands(t), UNCHANGED handlerVars
    PROVE  NodeFits'
<1>1. /\ UNCHANGED <<node, out, draft, phase, pc>>
      /\ plans \subseteq plans'
      /\ save[t] = "open" /\ save' = [save EXCEPT ![t] = "settled"]
      /\ save \in [Searching -> {"none", "open", "settled"}]
  BY DEF SaveLands, SavePlan, Registry!SaveSettles, handlerVars, TypeOK, GraphTypeOK,
     Registry!TypeOK
<1>2. \A u \in Searching : Saved(u) => Saved(u)'
  BY <1>1 DEF Saved
<1>3. QED
  BY <1>1, <1>2 DEF NodeFits, Registry!IsDone

\* Every step keeps the places of the graphs.
LEMMA NodeStep ==
    ASSUME TypeOK, PlaceFits, NodeFits, [Next]_vars
    PROVE  NodeFits'
<1>1. CASE UNCHANGED vars
  BY <1>1 DEF vars, storeVars, graphVars, registryVars, handlerVars, NodeFits,
     Registry!IsDone, Saved
<1>2. QED
  BY <1>1, NodeStepOfHandler, NodeStepOfGraph, NodeStepOfSave DEF Next

-----------------------------------------------------------------------------
(* The plans of the session. *)

\* Only a save changes the plans, a load what a draft is based on.
LEMMA PlansFrame ==
    ASSUME [Next]_vars
    PROVE  \/ \E t \in Searching : SaveLands(t) /\ UNCHANGED handlerVars
           \/ \E t \in Searching : GraphStep(t) /\ UNCHANGED <<plans, planVersion, handlerVars>>
           \/ /\ \E r \in Requests : Send(r) \/ HandlerStep(r)
              /\ UNCHANGED <<plans, planVersion, work, node, save, out>>
           \/ UNCHANGED vars
<1>1. ASSUME NEW r \in Requests, Send(r) \/ HandlerStep(r)
      PROVE  UNCHANGED <<plans, planVersion, work, node, save, out>>
  BY <1>1, HandlerFrame
<1>2. QED
  BY <1>1, GraphFrame DEF Next

\* A save commits a plan numbered after the newest or, when another plan has
\* that number, nothing.
LEMMA SaveLandsIs ==
    ASSUME TypeOK, PlanChain, PlansFit, NEW t \in Searching, SaveLands(t)
    PROVE  /\ UNCHANGED work
           /\ save[t] = "open" /\ save' = [save EXCEPT ![t] = "settled"]
           /\ \/ UNCHANGED <<plans, planVersion, card>>
              \/ \E plan \in Plan :
                    /\ plan.by = t /\ plan.content = work[t].content
                    /\ plan.version = work[t].base + 1 /\ work[t].base = planVersion
                    /\ plans' = plans \cup {plan} /\ planVersion' = planVersion + 1
                    /\ card' = None
<1> DEFINE plan == [version |-> NewVersion(t), by |-> t, through |-> seq[t],
                    content |-> work[t].content]
<1>1. /\ UNCHANGED work
      /\ save[t] = "open" /\ save' = [save EXCEPT ![t] = "settled"]
      /\ SavePlan(plan)
  BY DEF SaveLands, Registry!SaveSettles
<1>2. work[t].base \in Nat /\ work[t].base <= planVersion /\ planVersion \in Nat
  BY DEF PlansFit, TypeOK, StoreTypeOK, GraphTypeOK
<1>3. plan \in Plan /\ plan.version = work[t].base + 1
  <2>1. seq[t] \in Nat /\ work[t].content \subseteq Searching
    BY Kinds DEF TypeOK, StoreTypeOK, GraphTypeOK
  <2>2. QED
    BY <1>2, <2>1 DEF Plan, NewVersion
<1>4. CASE VersionFree(plan.version)
  <2>1. plan.version \notin 1..planVersion
    BY <1>4 DEF PlanChain, VersionFree
  <2>2. work[t].base = planVersion
    BY <1>2, <1>3, <2>1
  <2>3. plans' = plans \cup {plan} /\ planVersion' = plan.version /\ card' = None
    BY <1>1, <1>4 DEF SavePlan
  <2>4. plan.by = t /\ plan.content = work[t].content
    OBVIOUS
  <2> HIDE DEF plan
  <2>5. QED
    BY <1>1, <1>3, <2>2, <2>3, <2>4
<1>5. CASE ~VersionFree(plan.version)
  BY <1>1, <1>5 DEF SavePlan
<1>6. QED
  BY <1>4, <1>5

\* The plan chain grows by one plan at its end.
LEMMA PlanChainStep ==
    ASSUME TypeOK, PlanChain, PlansFit, [Next]_vars
    PROVE  PlanChain' /\ IsFiniteSet(plans)'
<1>1. CASE UNCHANGED <<plans, planVersion>>
  BY <1>1 DEF PlanChain, PlansFit
<1>2. ASSUME NEW t \in Searching, SaveLands(t), ~UNCHANGED <<plans, planVersion>>
      PROVE  PlanChain' /\ IsFiniteSet(plans)'
  <2>1. PICK plan \in Plan :
            /\ plan.version = planVersion + 1
            /\ plans' = plans \cup {plan} /\ planVersion' = planVersion + 1
    BY <1>2, SaveLandsIs
  <2>2. planVersion \in Nat /\ IsFiniteSet(plans) /\ Cardinality(plans) = planVersion
        /\ {p.version : p \in plans} = 1..planVersion
    BY DEF TypeOK, StoreTypeOK, PlansFit, PlanChain
  <2>3. plan \notin plans
    BY <2>1, <2>2
  <2>4. IsFiniteSet(plans') /\ Cardinality(plans') = planVersion'
    BY <2>1, <2>2, <2>3, FS_AddElement
  <2>5. 1..planVersion' = (1..planVersion) \cup {planVersion + 1}
    BY <2>1, <2>2
  <2>6. {p.version : p \in plans'} = {p.version : p \in plans} \cup {plan.version}
    BY <2>1
  <2>7. QED
    BY <2>1, <2>2, <2>4, <2>5, <2>6 DEF PlanChain
<1>3. QED
  BY <1>1, <1>2, PlansFrame DEF vars, storeVars

\* A plan keeps its number, its run keeps what it loaded, and patches contain
\* what they loaded.
LEMMA PlansStep ==
    ASSUME TypeOK, NodeFits, PlanChain, PlansFit, [Next]_vars
    PROVE  PlansFit'
<1>0. /\ planVersion \in Nat /\ plans \subseteq Plan
      /\ work \in [Searching -> WorkRow] /\ IsFiniteSet(plans)'
      /\ \A p \in plans : p.version \in 1..planVersion
  BY PlanChainStep DEF TypeOK, StoreTypeOK, GraphTypeOK, WorkRow, PlanChain
<1>1. ASSUME NEW t \in Searching, SaveLands(t) PROVE PlansFit'
  <2>1. CASE UNCHANGED <<plans, planVersion, card>>
    BY <1>0, <1>1, <2>1, SaveLandsIs DEF PlansFit, TypeOK, GraphTypeOK, Registry!TypeOK, Plan
  <2>2. CASE ~UNCHANGED <<plans, planVersion, card>>
    <3>1. PICK plan \in Plan :
            /\ plan.by = t /\ plan.content = work[t].content
            /\ plan.version = work[t].base + 1 /\ work[t].base = planVersion
            /\ plans' = plans \cup {plan} /\ planVersion' = planVersion + 1
      BY <1>1, <2>2, SaveLandsIs
    <3>2. UNCHANGED work /\ save' = [save EXCEPT ![t] = "settled"]
          /\ save \in [Searching -> {"none", "open", "settled"}]
      BY <1>1, SaveLandsIs DEF TypeOK, GraphTypeOK, Registry!TypeOK
    <3>3. \A u \in Searching : work[u].base \in Nat /\ work[u].base <= planVersion
      BY <1>0 DEF PlansFit, WorkRow
    <3>4. \A p, q \in plans' : p.version = q.version => p = q
      BY <1>0, <3>1 DEF PlansFit
    <3>5. \A u \in Searching : work'[u].base <= planVersion'
      BY <1>0, <3>1, <3>2, <3>3
    <3>6. \A p \in plans' : save'[p.by] = "settled" /\ p.version = work'[p.by].base + 1
      BY <1>0, <3>1, <3>2 DEF PlansFit, Plan
    <3>7. \A u \in Patches, p \in plans' :
                p.version = work'[u].base => p.content \subseteq work'[u].content
      <4>1. \A u \in Patches : work[u].base # plan.version
        BY <1>0, <3>1, <3>3, Kinds
      <4>2. QED
        BY <3>1, <3>2, <4>1 DEF PlansFit
    <3>8. QED
      BY <1>0, <3>4, <3>5, <3>6, <3>7 DEF PlansFit
  <2>3. QED
    BY <2>1, <2>2
<1>2. ASSUME NEW t \in Searching, GraphStep(t), UNCHANGED <<plans, planVersion>> PROVE PlansFit'
  <2>1. \A u \in Searching : save[u] = "settled" => save'[u] = "settled"
    <3>1. Registry!TaskStep(t) \/ UNCHANGED registryVars
      BY <1>2, GraphMaps
    <3>2. QED
      BY <3>1 DEF Registry!TaskStep, registryVars, Registry!BeginAtOnce,
         Registry!CancelPrevious, Registry!SkipUnstarted, Registry!Resume,
         Registry!BeginSave, Registry!SaveReturns, Registry!InterruptSave,
         Registry!SaveSettled, Registry!AbandonSave, Registry!Interrupt,
         Registry!Finish, Registry!InterruptCleanup,
         TypeOK, GraphTypeOK, Registry!TypeOK
  <2>2. CASE ~LoadContext(t)
    <3>1. \A u \in Searching :
            work'[u].base = work[u].base /\ work'[u].content = work[u].content
      BY <1>2, <2>2, GraphWork
    <3>2. QED
      BY <1>0, <1>2, <2>1, <3>1, Kinds DEF PlansFit, Plan
  <2>3. CASE LoadContext(t)
    <3>1. /\ \A u \in Searching : u # t => work'[u] = work[u]
          /\ work'[t].base = planVersion
          /\ work'[t].content =
                DraftContent(t, CurrentPlan, ListAfter(CurrentPlan.through, seq[t]))
      BY <2>3, LoadContextIs
    <3>2. \A p \in plans : p.by # t
      <4>1. save[t] = "none"
        BY <2>3 DEF LoadContext, At, NodeFits, Unsaved
      <4>2. QED
        BY <4>1 DEF PlansFit
    <3>3. ASSUME t \in Patches, NEW p \in plans, p.version = planVersion
          PROVE  p.content \subseteq work'[t].content
      <4>1. p = CurrentPlan
        BY <3>3, CurrentPlanIs DEF PlansFit
      <4>2. ~draft[t].given
        BY <3>3, Kinds DEF NodeFits
      <4>3. QED
        BY <3>1, <3>3, <4>1, <4>2 DEF DraftContent
    <3>4. \A u \in Patches, p \in plans :
            p.version = work'[u].base => p.content \subseteq work'[u].content
      BY <3>1, <3>3, Kinds DEF PlansFit
    <3>5. QED
      BY <1>0, <1>2, <2>1, <3>1, <3>2, <3>4 DEF PlansFit, Plan
  <2>4. QED
    BY <2>2, <2>3
<1>3. CASE UNCHANGED <<plans, planVersion, work, save>>
  BY <1>3 DEF PlansFit
<1>4. QED
  BY <1>1, <1>2, <1>3, PlansFrame DEF vars, storeVars, graphVars, registryVars

\* A plan that is saved contains its predecessor if it is a patch.
LEMMA PatchesStep ==
    ASSUME TypeOK, PlanChain, PlansFit, PatchesAccumulate, [Next]_vars
    PROVE  PatchesAccumulate'
<1>1. CASE UNCHANGED plans
  BY <1>1 DEF PatchesAccumulate
<1>2. ASSUME NEW t \in Searching, SaveLands(t), ~UNCHANGED plans
      PROVE  PatchesAccumulate'
  <2>1. PICK plan \in Plan :
            /\ plan.by = t /\ plan.content = work[t].content
            /\ plan.version = work[t].base + 1 /\ work[t].base = planVersion
            /\ plans' = plans \cup {plan}
    BY <1>2, SaveLandsIs
  <2>2. /\ planVersion \in Nat
        /\ \A p \in plans : p.version \in 1..planVersion
    BY DEF TypeOK, StoreTypeOK, PlanChain
  <2>3. \A q \in plans : q.version # plan.version + 1
    BY <2>1, <2>2
  <2>4. \A p \in plans : plan.version = p.version + 1 /\ plan.by \in Patches
            => p.content \subseteq plan.content
    BY <2>1, <2>2 DEF PlansFit
  <2>5. plan.version # plan.version + 1
    BY <2>1, <2>2
  <2>6. QED
    BY <2>1, <2>3, <2>4, <2>5 DEF PatchesAccumulate
<1>3. QED
  BY <1>1, <1>2, PlansFrame DEF vars, storeVars

-----------------------------------------------------------------------------
(* The runs. *)

\* Creates the run of r: AskIntent, CreateRun or PageStart.
NewRun(r) ==
    /\ pc[r] \in {"idle", "act"} /\ pc'[r] \in {"start", "page", "answered"}
    /\ runs'[r].result = NoResult
    /\ runs'[r].born = Cardinality({x \in Requests : runs[x].born > 0}) + 1
    /\ \/ AskIntent(r) /\ r \in Unknowns
       \/ CreateRun(r) /\ r \in Searching
       \/ PageStart(r) /\ r \in Pages

\* How a step of request r can change the run of x.
RunWrites(r, x) ==
    \/ x = r /\ NewRun(r)
    \/ /\ runs'[x].born = runs[x].born
       /\ \/ runs'[x].result = runs[x].result
          \/ x = r /\ PageAnswers(r) /\ runs'[x].result = PageResult(r)
       /\ \/ runs'[x].status = runs[x].status
          \/ runs'[x].status = "SUPERSEDED" /\ runs[x].status \notin {"SUCCEEDED", "FAILED"}
          \/ runs'[x].status = "CANCELLED" /\ StopWrite(r) /\ x = seen[r].active
          \/ runs'[x].status = "SUCCEEDED" /\ x = r /\ PageAnswers(r)

\* A request writes runs in these ways only, and creates one when NewRun.
LEMMA HandlerRuns ==
    ASSUME TypeOK, NEW r \in Requests, Send(r) \/ HandlerStep(r)
    PROVE  /\ runs' \in [Requests -> Run]
           /\ \A x \in Requests : RunWrites(r, x)
           /\ CreateRun(r) \/ PageStart(r) \/ AskIntent(r) => NewRun(r)
<1> DEFINE count == Cardinality({x \in Requests : runs[x].born > 0})
<1>0. /\ runs \in [Requests -> Run] /\ pc \in [Requests -> Places]
      /\ WithRun(runs, r) \in [Requests -> Run]
      /\ \A x \in Requests : x # r => WithRun(runs, r)[x] = runs[x]
      /\ WithRun(runs, r)[r].result = NoResult /\ WithRun(runs, r)[r].born = count + 1
  BY WithRunIs DEF TypeOK, StoreTypeOK
<1> USE DEF Places, Move
<1>1. CASE AskIntent(r)
  <2>1. runs' = WithStatus(WithRun(runs, r), r, "NEEDS_CLARIFICATION")
        /\ pc[r] = "act" /\ pc'[r] = "answered" /\ r \in Unknowns
    BY <1>0, <1>1 DEF AskIntent, Answer
  <2>2. /\ runs' \in [Requests -> Run]
        /\ \A x \in Requests : /\ runs'[x].result = WithRun(runs, r)[x].result
                               /\ runs'[x].born = WithRun(runs, r)[x].born
                               /\ x # r => runs'[x].status = WithRun(runs, r)[x].status
    BY <1>0, <2>1, WithStatusIs DEF RunStatuses
  <2>3. NewRun(r)
    BY <1>0, <1>1, <2>1, <2>2 DEF NewRun
  <2>4. QED
    BY <1>0, <2>2, <2>3 DEF RunWrites
<1>2. CASE CreateRun(r)
  <2>1. runs' = WithSuperseded(WithRun(runs, r), seen[r].active, r)
        /\ pc[r] = "act" /\ pc'[r] = "start" /\ r \in Searching
    BY <1>0, <1>2 DEF CreateRun
  <2>2. /\ runs' \in [Requests -> Run]
        /\ \A x \in Requests :
              /\ runs'[x].result = WithRun(runs, r)[x].result
              /\ runs'[x].born = WithRun(runs, r)[x].born
              /\ \/ runs'[x].status = WithRun(runs, r)[x].status
                 \/ /\ runs'[x].status = "SUPERSEDED"
                    /\ WithRun(runs, r)[x].status \notin {"SUCCEEDED", "FAILED"}
    BY <1>0, <2>1, WithSupersededIs
  <2>3. NewRun(r)
    BY <1>0, <1>2, <2>1, <2>2 DEF NewRun
  <2>4. QED
    BY <1>0, <2>2, <2>3 DEF RunWrites
<1>3. CASE PageStart(r)
  <2>1. runs' = WithRun(runs, r) /\ r \in Pages
        /\ pc[r] \in {"idle", "act"} /\ pc'[r] = "page"
    BY <1>0, <1>3 DEF PageStart
  <2>2. NewRun(r)
    BY <1>0, <1>3, <2>1 DEF NewRun
  <2>3. QED
    BY <1>0, <2>1, <2>2 DEF RunWrites
<1>4. CASE StopWrite(r)
  <2>1. runs' = WithStatus(runs, seen[r].active, "CANCELLED")
        /\ pc[r] = "stopWrite" /\ ~CreateRun(r) /\ ~PageStart(r) /\ ~AskIntent(r)
    BY <1>4 DEF StopWrite, CreateRun, PageStart, AskIntent
  <2>2. QED
    BY <1>0, <1>4, <2>1, WithStatusIs DEF RunWrites, RunStatuses
<1>5. CASE PageAnswers(r)
  <2> DEFINE done == WithStatus(runs, r, "SUCCEEDED")
  <2>1. runs' = WithResult(done, r, PageResult(r))
        /\ pc[r] = "page" /\ ~CreateRun(r) /\ ~PageStart(r) /\ ~AskIntent(r)
    BY <1>5 DEF PageAnswers, CreateRun, PageStart, AskIntent
  <2>2. PageResult(r) \in ResultRow
    BY DEF PageResult, Result, ResultRow, ResultStatuses, TypeOK
  <2>3. /\ done \in [Requests -> Run]
        /\ \A x \in Requests : /\ done[x].status = IF x = r THEN "SUCCEEDED"
                                                          ELSE runs[x].status
                               /\ done[x].result = runs[x].result
                               /\ done[x].born = runs[x].born
    BY <1>0, WithStatusIs DEF RunStatuses
  <2> HIDE DEF done
  <2>4. /\ runs' \in [Requests -> Run]
        /\ \A x \in Requests : /\ runs'[x].status = done[x].status
                               /\ runs'[x].result = IF x = r THEN PageResult(r)
                                                           ELSE done[x].result
                               /\ runs'[x].born = done[x].born
    BY <2>1, <2>2, <2>3, WithResultIs DEF ResultRow
  <2>5. QED
    BY <1>5, <2>1, <2>3, <2>4 DEF RunWrites
<1>6. CASE UNCHANGED runs /\ ~CreateRun(r) /\ ~PageStart(r) /\ ~AskIntent(r)
  BY <1>0, <1>6 DEF RunWrites
<1>7. CASE Append(r) \/ ReadContext(r) \/ Route(r) \/ RouterFails(r) \/ Chat(r)
           \/ RepeatCard(r) \/ DismissCard(r) \/ RefuseAnswer(r) \/ ApplyAnswer(r)
           \/ StartTask(r) \/ FinishRequest(r) \/ StopTask(r) \/ StopRead(r)
           \/ PageRefused(r) \/ PageFails(r)
  <2>1. UNCHANGED runs
    BY <1>7 DEF Append, ReadContext, Route, RouterFails, Chat, RepeatCard, DismissCard,
       RefuseAnswer, ApplyAnswer, StartTask, FinishRequest, StopTask, StopRead,
       PageRefused, PageFails, storeVars
  <2>2. QED
    BY <1>1, <1>2, <1>3, <1>6, <2>1
<1>8. QED
  BY <1>1, <1>2, <1>3, <1>4, <1>5, <1>7 DEF Send, HandlerStep

\* A step creates one run at most, and the others keep their number.
LEMMA BornStep ==
    ASSUME TypeOK, RunFits, [Next]_vars
    PROVE  \A r \in Requests :
             /\ runs[r].born > 0 => runs'[r].born = runs[r].born
             /\ runs'[r].born \in Nat
             /\ runs'[r].born <= Cardinality({x \in Requests : runs'[x].born > 0})
<1> DEFINE Count == {x \in Requests : runs[x].born > 0}
           CountP == {x \in Requests : runs'[x].born > 0}
<1>0. /\ IsFiniteSet(Requests) /\ \A x \in Requests : runs[x].born \in Nat
      /\ \A r \in Requests : runs[r].born <= Cardinality(Count)
  BY StoreAssumption DEF RunFits, TypeOK, StoreTypeOK, Run
<1>1. IsFiniteSet(Count) /\ Cardinality(Count) \in Nat
  BY <1>0, FS_Subset, FS_CardinalityType
<1>2. CASE \A x \in Requests : runs'[x].born = runs[x].born
  <2>1. CountP = Count
    BY <1>2
  <2>2. QED
    BY <1>0, <1>2, <2>1
<1>3. ASSUME NEW r \in Requests, NewRun(r), \A x \in Requests : RunWrites(r, x)
      PROVE  \A x \in Requests :
               /\ runs[x].born > 0 => runs'[x].born = runs[x].born
               /\ runs'[x].born \in Nat
               /\ runs'[x].born <= Cardinality(CountP)
  <2>1. runs[r].born = 0
    BY <1>0, <1>3 DEF RunFits, NewRun
  <2>2. \A x \in Requests : x # r => runs'[x].born = runs[x].born
    BY <1>3 DEF RunWrites
  <2>3. runs'[r].born = Cardinality(Count) + 1
    BY <1>3 DEF NewRun
  <2>4. CountP = Count \cup {r} /\ r \notin Count
    BY <1>1, <2>1, <2>2, <2>3
  <2>5. Cardinality(CountP) = Cardinality(Count) + 1
    BY <1>1, <2>4, FS_AddElement
  <2> HIDE DEF Count, CountP
  <2>6. QED
    BY <1>0, <1>1, <2>1, <2>2, <2>3, <2>5
<1>4. ASSUME NEW r \in Requests, Send(r) \/ HandlerStep(r)
      PROVE  NewRun(r) \/ \A x \in Requests : runs'[x].born = runs[x].born
  BY <1>4, HandlerRuns DEF RunWrites
<1>5. ASSUME NEW t \in Searching, GraphStep(t) \/ SaveLands(t)
      PROVE  \A x \in Requests : runs'[x].born = runs[x].born
  BY <1>5, GraphRuns DEF SaveLands
<1>6. CASE UNCHANGED vars
  BY <1>2, <1>6 DEF vars, storeVars
<1>7. QED
  BY <1>2, <1>3, <1>4, <1>5, <1>6, HandlerRuns DEF Next

\* A run is created on the way, and OK is stored by its own search or page.
LEMMA RunStep ==
    ASSUME TypeOK, PlaceFits, RunFits, [Next]_vars
    PROVE  RunFits'
<1> DEFINE Way == {"start", "await", "page", "answered", "failed"}
           Fits(r) ==
                /\ runs'[r].born > 0 => pc'[r] \in Way
                /\ runs'[r].result.status = "OK" => r \in Searching \cup Pages
                /\ runs'[r].result.status = "OK" /\ r \in Pages => pc'[r] = "answered"
<1>0. \A r \in Requests :
        /\ runs[r].born > 0 => pc[r] \in Way
        /\ runs[r].result.status = "OK" => r \in Searching \cup Pages
        /\ runs[r].result.status = "OK" /\ r \in Pages => pc[r] = "answered"
  BY DEF RunFits
<1>1. ASSUME NEW r \in Requests, Send(r) \/ HandlerStep(r) PROVE \A x \in Requests : Fits(x)
  <2>1. /\ PlaceMoves(r) /\ \A x \in Requests : x # r => pc'[x] = pc[x]
        /\ \A x \in Requests : RunWrites(r, x)
    BY <1>1, HandlerMoves, HandlerRuns DEF TypeOK
  <2>2. PageAnswers(r) => r \in Pages /\ pc'[r] = "answered"
    BY DEF PageAnswers, Answer, Move, PlaceFits, TypeOK
  <2>3. ASSUME NEW x \in Requests, x # r PROVE Fits(x)
    BY <1>0, <2>1, <2>3 DEF RunWrites
  <2>4. CASE NewRun(r)
    <3>1. runs'[r].result.status # "OK" /\ pc'[r] \in Way
      BY <2>4 DEF NewRun, NoResult, Result
    <3>2. QED
      BY <2>3, <3>1
  <2>5. CASE ~NewRun(r)
    <3>1. /\ runs'[r].born = runs[r].born
          /\ runs'[r].result = runs[r].result \/ PageAnswers(r)
      BY <2>1, <2>5 DEF RunWrites
    <3>2. pc[r] \in Way => pc'[r] \in Way
      BY <2>1 DEF PlaceMoves
    <3>3. pc[r] = "answered" => pc'[r] = "answered"
      BY <2>1 DEF PlaceMoves
    <3>4. QED
      BY <1>0, <2>2, <2>3, <3>1, <3>2, <3>3
  <2>6. QED
    BY <2>4, <2>5
<1>2. ASSUME NEW t \in Searching, GraphStep(t), UNCHANGED pc PROVE \A x \in Requests : Fits(x)
  <2>1. /\ \A r \in Requests : runs'[r].born = runs[r].born
        /\ \A r \in Requests : r # t => runs'[r].result = runs[r].result
    BY <1>2, GraphRuns
  <2>2. QED
    BY <1>0, <1>2, <2>1, Kinds
<1>3. ASSUME UNCHANGED <<runs, pc>> PROVE \A x \in Requests : Fits(x)
  BY <1>0, <1>3
<1>4. \A x \in Requests : Fits(x)
  <2> HIDE DEF Fits
  <2>1. QED
    BY <1>1, <1>2, <1>3 DEF Next, SaveLands, vars, storeVars, handlerVars
<1>5. \A r \in Requests :
        runs'[r].born <= Cardinality({x \in Requests : runs'[x].born > 0})
  BY BornStep
<1>6. QED
  BY <1>4, <1>5 DEF RunFits

\* A plan once saved stays.
LEMMA PlansStay ==
    ASSUME [Next]_vars
    PROVE  plans \subseteq plans'
  BY PlansFrame DEF SaveLands, SavePlan, vars, storeVars

\* An OK result keeps naming the plan its run has saved, or its page's plan.
LEMMA ResultStep ==
    ASSUME TypeOK, PlaceFits, NodeFits, PlansFit, RunFits, ResultBoundToPlan, [Next]_vars
    PROVE  ResultBoundToPlan'
<1> SUFFICES ASSUME NEW x \in Requests, runs'[x].result.status = "OK"
             PROVE  IF x \in Pages THEN runs'[x].result.version = seen'[x].version
                    ELSE \E p \in plans' : p.by = x /\ p.version = runs'[x].result.version
  BY DEF ResultBoundToPlan
<1>1. CASE runs'[x].result = runs[x].result
  <2>1. CASE x \notin Pages
    BY <1>1, <2>1, PlansStay DEF ResultBoundToPlan
  <2>2. CASE x \in Pages
    <3>1. pc[x] = "answered" /\ runs[x].result.version = seen[x].version
      BY <1>1, <2>2 DEF RunFits, ResultBoundToPlan
    <3>2. seen'[x] = seen[x]
      <4>1. ASSUME NEW r \in Requests, Send(r) \/ HandlerStep(r) PROVE seen'[x] = seen[x]
        <5>1. \/ UNCHANGED seen \/ Forget(r)
              \/ Append(r) \/ ReadContext(r) \/ PageStart(r)
          BY <4>1 DEF Send, HandlerStep, Route, RouterFails, Chat, RepeatCard, AskIntent,
             DismissCard, RefuseAnswer, ApplyAnswer, CreateRun, StartTask, FinishRequest,
             StopTask, StopRead, StopWrite, PageRefused, PageFails, PageAnswers, Answer,
             Fail, handlerVars
        <5>2. r = x => ~(Append(r) \/ ReadContext(r) \/ PageStart(r))
          BY <3>1 DEF Append, ReadContext, PageStart
        <5>3. QED
          BY <2>2, <5>1, <5>2 DEF Forget, Append, ReadContext, PageStart, TypeOK
      <4>2. QED
        BY <4>1 DEF Next, vars, handlerVars
    <3>3. QED
      BY <1>1, <2>2, <3>1, <3>2
  <2>3. QED
    BY <2>1, <2>2
<1>2. ASSUME NEW r \in Requests, Send(r) \/ HandlerStep(r), runs'[x].result # runs[x].result
      PROVE  x \in Pages /\ runs'[x].result.version = seen'[x].version
  <2>1. RunWrites(r, x)
    BY <1>2, HandlerRuns
  <2>2. ~(x = r /\ NewRun(r))
    BY DEF NewRun, NoResult, Result
  <2>3. x = r /\ PageAnswers(r) /\ runs'[x].result = PageResult(r)
    BY <1>2, <2>1, <2>2 DEF RunWrites
  <2>4. x \in Pages /\ seen'[x] = seen[x]
    BY <2>3 DEF PageAnswers, PlaceFits, Answer, Forget, TypeOK
  <2>5. QED
    BY <2>3, <2>4 DEF PageResult, Result
<1>3. ASSUME NEW t \in Searching, GraphStep(t), runs'[x].result # runs[x].result
      PROVE  /\ x \notin Pages
             /\ \E p \in plans' : p.by = x /\ p.version = runs'[x].result.version
  <2>1. x = t /\ Finalize(t) /\ runs'[t].result = SearchResult(t)
    BY <1>3, GraphRuns
  <2>2. PICK p \in plans : p.by = t
    BY <2>1 DEF Finalize, NodeFits, Saved
  <2>3. p.version = work[t].base + 1
    BY <2>2 DEF PlansFit
  <2>4. QED
    BY <2>1, <2>2, <2>3, ResultRows, PlansStay, Kinds
<1>4. QED
  BY <1>1, <1>2, <1>3 DEF Next, SaveLands, vars, storeVars

\* The result of a finished task, and of an answered page, stays stored.
LEMMA OutStep ==
    ASSUME TypeOK, PlaceFits, NodeFits, OutFits, [Next]_vars
    PROVE  OutFits'
<1> DEFINE Stored == {"OK", "ERROR", "NEEDS_CLARIFICATION"}
<1> SUFFICES ASSUME NEW x \in Searching
             PROVE  /\ out'[x].status \in Stored => runs'[x].result = out'[x]
                    /\ node'[x] = "clarifyResult"
                          => runs'[x].status \notin {"QUEUED", "RUNNING"}
  BY DEF OutFits
<1>0. /\ out[x].status \in Stored => runs[x].result = out[x]
      /\ node[x] = "clarifyResult" => runs[x].status \notin {"QUEUED", "RUNNING"}
      /\ out[x] # NoResult => node[x] = "end"
      /\ NoResult.status = "none"
      /\ x \in Requests
  BY Kinds DEF OutFits, NodeFits, NoResult, Result
<1>1. ASSUME NEW r \in Requests, Send(r) \/ HandlerStep(r)
      PROVE  /\ out'[x].status \in Stored => runs'[x].result = out'[x]
             /\ node'[x] = "clarifyResult" => runs'[x].status \notin {"QUEUED", "RUNNING"}
  <2>1. UNCHANGED <<out, node>> /\ RunWrites(r, x)
    BY <1>0, <1>1, HandlerFrame, HandlerRuns
  <2>2. x = r /\ NewRun(r) => node[x] = "none"
    <3>1. pc[x] \in {"idle", "act"} => phase[x] = "new"
      BY DEF NodeFits
    <3>2. phase[x] = "new" => node[x] = "none"
      BY DEF NodeFits, NodesOf
    <3>3. QED
      BY <3>1, <3>2 DEF NewRun
  <2>3. ~(x = r /\ PageAnswers(r))
    BY Kinds DEF PageAnswers, PlaceFits
  <2>4. QED
    BY <1>0, <2>1, <2>2, <2>3 DEF RunWrites
<1>2. ASSUME NEW t \in Searching, GraphStep(t)
      PROVE  /\ out'[x].status \in Stored => runs'[x].result = out'[x]
             /\ node'[x] = "clarifyResult" => runs'[x].status \notin {"QUEUED", "RUNNING"}
  <2>0. node \in [Searching -> Nodes]
    BY DEF TypeOK, GraphTypeOK
  <2>1. CASE x # t
    BY <1>0, <1>2, <2>0, <2>1, GraphRuns, GraphOut, GraphMoves
  <2>2. CASE x = t
    <3>1. out'[x].status \in Stored => runs'[x].result = out'[x]
      <4>1. CASE out'[t] = out[t]
        <5>1. out[t].status \in Stored => node[t] = "end"
          BY <1>0, <2>2
        <5>2. node[t] = "end" => runs'[t].result = runs[t].result
          BY <1>2, GraphRuns DEF Finalize
        <5>3. QED
          BY <1>0, <2>2, <4>1, <5>1, <5>2
      <4>2. CASE out'[t] # out[t]
        BY <1>2, <2>2, <4>2, GraphOut
      <4>3. QED
        BY <4>1, <4>2
    <3>2. CASE node'[t] = "clarifyResult"
      <4>1. ClarifyWrite(t)
        BY <1>2, <3>2, GraphPath
      <4>2. runs'[t].status = "NEEDS_CLARIFICATION"
        BY <1>0, <2>2, <4>1, WithStatusIs
           DEF ClarifyWrite, ClarifyStatus, RunStatuses, TypeOK, StoreTypeOK
      <4>3. QED
        BY <2>2, <3>1, <4>2
    <3>3. CASE node'[t] # "clarifyResult"
      BY <2>2, <3>1, <3>3
    <3>4. QED
      BY <3>2, <3>3
  <2>3. QED
    BY <2>1, <2>2
<1>3. CASE UNCHANGED <<runs, out, node>>
  BY <1>0, <1>3
<1>4. QED
  BY <1>1, <1>2, <1>3 DEF Next, SaveLands, vars, storeVars, graphVars

-----------------------------------------------------------------------------
(* The answers. *)

\* A request is answered with the result of its task, of its page, or with
\* nothing a run stores.
LEMMA HandlerReplies ==
    ASSUME TypeOK, PlaceFits, NEW r \in Requests, Send(r) \/ HandlerStep(r)
    PROVE  /\ reply' \in [Requests -> ResultRow]
           /\ \A q \in Requests : q # r => reply'[q] = reply[q]
           /\ pc'[r] # "answered" => reply' = reply
           /\ pc'[r] = "answered" =>
                \/ FinishRequest(r) /\ reply'[r] = TaskResult(r)
                \/ PageAnswers(r) /\ reply'[r] = PageResult(r)
                \/ reply'[r].status = "none"
                \/ r \in Unknowns
<1>0. /\ pc \in [Requests -> Places] /\ reply \in [Requests -> ResultRow]
      /\ NoResult \in ResultRow /\ NoResult.status = "none"
      /\ Result("NEEDS_CLARIFICATION", seen[r].version) \in ResultRow
      /\ PageResult(r) \in ResultRow
      /\ FinishRequest(r) => TaskResult(r) \in ResultRow
  <2>1. Result("SUPERSEDED", 0) \in ResultRow
    BY DEF Result, ResultRow, ResultStatuses
  <2>2. FinishRequest(r) => out[r] \in ResultRow
    BY DEF FinishRequest, PlaceFits, TypeOK, GraphTypeOK, ResultRow
  <2>3. FinishRequest(r) => TaskResult(r) \in ResultRow
    BY <2>1, <2>2 DEF TaskResult
  <2>4. seen[r].version \in Nat
    BY DEF TypeOK
  <2>5. QED
    BY <2>3, <2>4 DEF NoResult, Result, PageResult, ResultRow, ResultStatuses, TypeOK
<1> USE DEF Answer, Fail, Move, handlerVars
<1>1. CASE Append(r) \/ ReadContext(r) \/ Route(r) \/ RouterFails(r) \/ Chat(r)
  BY <1>0, <1>1 DEF Append, ReadContext, Route, RouterFails, Chat, Places
<1>2. CASE RepeatCard(r) \/ AskIntent(r) \/ DismissCard(r) \/ RefuseAnswer(r)
           \/ ApplyAnswer(r) \/ CreateRun(r) \/ StartTask(r)
  BY <1>0, <1>2 DEF RepeatCard, AskIntent, DismissCard, RefuseAnswer, ApplyAnswer,
     CreateRun, StartTask
<1>3. CASE FinishRequest(r)
  BY <1>0, <1>3 DEF FinishRequest
<1>4. CASE StopTask(r) \/ StopRead(r) \/ StopWrite(r)
  BY <1>0, <1>4 DEF StopTask, StopRead, StopWrite
<1>5. CASE PageStart(r) \/ PageRefused(r) \/ PageFails(r)
  BY <1>0, <1>5 DEF PageStart, PageRefused, PageFails
<1>6. CASE PageAnswers(r)
  BY <1>0, <1>6 DEF PageAnswers
<1>7. QED
  BY <1>1, <1>2, <1>3, <1>4, <1>5, <1>6 DEF Send, HandlerStep

\* An answer that was given stays the one the run stores.
LEMMA AnswerStep ==
    ASSUME TypeOK, PlaceFits, NodeFits, OutFits, AnswerIsStored, [Next]_vars
    PROVE  AnswerIsStored'
<1> DEFINE Stored == {"OK", "ERROR", "NEEDS_CLARIFICATION"}
<1> SUFFICES ASSUME NEW x \in Searching \cup Pages,
                    pc'[x] = "answered", reply'[x].status \in Stored
             PROVE  runs'[x].result = reply'[x]
  BY DEF AnswerIsStored
<1>0. x \in Requests /\ x \notin Unknowns
  BY Kinds
<1>1. ASSUME NEW r \in Requests, Send(r) \/ HandlerStep(r) PROVE runs'[x].result = reply'[x]
  <2>1. RunWrites(r, x)
    BY <1>0, <1>1, HandlerRuns
  <2>2. CASE x # r
    <3>1. pc'[x] = pc[x] /\ reply'[x] = reply[x]
      BY <1>0, <1>1, <2>2, HandlerMoves, HandlerReplies DEF TypeOK
    <3>2. QED
      BY <2>1, <2>2, <3>1 DEF AnswerIsStored, RunWrites
  <2>3. CASE x = r
    <3>1. FinishRequest(r) \/ PageAnswers(r)
      BY <1>0, <1>1, <2>3, HandlerReplies
    <3>2. CASE FinishRequest(r)
      <4>1. r \in Searching /\ runs' = runs /\ reply'[r] = TaskResult(r)
        BY <3>2 DEF FinishRequest, PlaceFits, Answer, storeVars, TypeOK
      <4>2. Result("SUPERSEDED", 0).status = "SUPERSEDED"
        BY DEF Result
      <4>3. reply'[r] = out[r]
        BY <2>3, <4>1, <4>2 DEF TaskResult
      <4>4. QED
        BY <2>3, <4>1, <4>3 DEF OutFits
    <3>3. CASE PageAnswers(r)
      <4>1. reply'[r] = PageResult(r)
        BY <3>3 DEF PageAnswers, Answer, TypeOK
      <4>2. PageResult(r) \in ResultRow
        BY DEF PageResult, Result, ResultRow, ResultStatuses, TypeOK
      <4>3. WithStatus(runs, r, "SUCCEEDED") \in [Requests -> Run]
        BY WithStatusIs DEF RunStatuses, TypeOK, StoreTypeOK
      <4>4. runs'[r].result = PageResult(r)
        BY <3>3, <4>2, <4>3, WithResultIs DEF PageAnswers, ResultRow
      <4>5. QED
        BY <2>3, <4>1, <4>4
    <3>4. QED
      BY <3>1, <3>2, <3>3
  <2>4. QED
    BY <2>2, <2>3
<1>2. ASSUME NEW t \in Searching, GraphStep(t), UNCHANGED handlerVars
      PROVE  runs'[x].result = reply'[x]
  <2>1. pc[x] = "answered" /\ reply'[x] = reply[x] /\ runs[x].result = reply[x]
    BY <1>2 DEF AnswerIsStored, handlerVars
  <2>2. CASE x = t
    <3>1. node[t] \in {"none", "end"}
      BY <2>1, <2>2 DEF NodeFits, NodesOf, Registry!IsDone, Registry!Finished
    <3>2. runs'[t].result = runs[t].result
      BY <1>2, <3>1, GraphRuns DEF Finalize
    <3>3. QED
      BY <2>1, <2>2, <3>2
  <2>3. CASE x # t
    BY <1>0, <1>2, <2>1, <2>3, GraphRuns
  <2>4. QED
    BY <2>2, <2>3
<1>3. CASE UNCHANGED <<runs, pc, reply>>
  BY <1>3 DEF AnswerIsStored
<1>4. QED
  BY <1>1, <1>2, <1>3 DEF Next, SaveLands, vars, storeVars, handlerVars

-----------------------------------------------------------------------------
(* The active run. *)

\* A request takes the active pointer with a run of its own.
LEMMA HandlerActive ==
    ASSUME NEW r \in Requests, Send(r) \/ HandlerStep(r)
    PROVE  \/ active' = active
           \/ /\ active' = r
              /\ CreateRun(r) \/ AskIntent(r) \/ (PageAnswers(r) /\ active = seen[r].active)
  BY DEF Send, HandlerStep, Append, ReadContext, Route, RouterFails, Chat, RepeatCard,
     AskIntent, DismissCard, RefuseAnswer, ApplyAnswer, CreateRun, StartTask, FinishRequest,
     StopTask, StopRead, StopWrite, PageStart, PageRefused, PageFails, PageAnswers,
     PageMayLead, storeVars

\* A graph that ends without being cancelled has settled its run, unless the
\* run is not active any more.
LEMMA GraphEnds ==
    ASSUME TypeOK, NodeFits, OutFits, NEW t \in Searching, GraphStep(t),
           t \notin pending, active = t, node'[t] = "end"
    PROVE  runs'[t].status \notin {"QUEUED", "RUNNING"}
<1>0. /\ t \in Requests /\ runs \in [Requests -> Run] /\ node \in [Searching -> Nodes]
  BY Kinds DEF TypeOK, StoreTypeOK, GraphTypeOK
<1> USE DEF Go, Return, GoUnlessCancelled, ReturnUnlessCancelled, At
<1>1. CASE TaskWaits(t)
  BY <1>1 DEF TaskWaits, Registry!CancelPrevious, NodeFits, NodesOf
<1>2. CASE TaskSkipped(t) \/ SaveInterrupted(t) \/ SaveAbandoned(t) \/ Interrupted(t)
           \/ HandlerInterrupted(t)
  BY <1>2 DEF TaskSkipped, SaveInterrupted, SaveAbandoned, Interrupted, HandlerInterrupted,
     Registry!SkipUnstarted, Registry!InterruptSave, Registry!AbandonSave,
     Registry!Interrupt, Registry!InterruptCleanup
<1>3. CASE TaskBegins(t) \/ MarkRunning(t) \/ LoadContext(t)
           \/ ParseBlocked(t) \/ ParseExecutable(t) \/ ParseFails(t)
  BY <1>0, <1>3 DEF TaskBegins, MarkRunning, LoadContext, ParseBlocked,
     ParseExecutable, ParseFails
<1>4. CASE Clarify(t) \/ ClarifyWrite(t) \/ ClarifyConflict(t) \/ SaveReturns(t)
           \/ SaveSettled(t) \/ SearchFails(t) \/ SearchAnswers(t)
  BY <1>0, <1>4 DEF Clarify, ClarifyWrite, ClarifyConflict, SaveReturns, SaveSettled,
     SearchFails, SearchAnswers, StillActive
<1>5. CASE ClarifyResult(t)
  <2>1. runs[t].status \notin {"QUEUED", "RUNNING"} /\ node[t] = "clarifyResult"
    BY <1>5 DEF ClarifyResult, OutFits
  <2>2. runs'[t].status = runs[t].status
    BY <2>1, GraphRuns
  <2>3. QED
    BY <2>1, <2>2
<1>6. CASE Finalize(t) \/ FailWrite(t) \/ HandlerWrite(t)
  <2>1. CASE Finalize(t)
    <3>1. WithStatus(runs, t, "SUCCEEDED") \in [Requests -> Run]
          /\ WithStatus(runs, t, "SUCCEEDED")[t].status = "SUCCEEDED"
      BY <1>0, WithStatusIs DEF RunStatuses
    <3>2. runs'[t].status = "SUCCEEDED"
      BY <1>0, <2>1, <3>1, ResultRows, WithResultIs DEF Finalize, ResultRow
    <3>3. QED
      BY <3>2
  <2>2. CASE FailWrite(t)
    <3>1. WithStatus(runs, t, "FAILED") \in [Requests -> Run]
          /\ WithStatus(runs, t, "FAILED")[t].status = "FAILED"
      BY <1>0, WithStatusIs DEF RunStatuses
    <3>2. runs'[t].status = "FAILED"
      BY <1>0, <2>2, <3>1, ResultRows, WithResultIs DEF FailWrite, ResultRow
    <3>3. QED
      BY <3>2
  <2>3. CASE HandlerWrite(t)
    BY <1>0, <2>3, WithStatusIs DEF HandlerWrite, RunStatuses
  <2>4. QED
    BY <1>6, <2>1, <2>2, <2>3
<1>7. CASE FailRead(t) \/ HandlerRead(t)
  BY <1>0, <1>7 DEF FailRead, HandlerRead, storeVars
<1>8. QED
  BY <1>1, <1>2, <1>3, <1>4, <1>5, <1>6, <1>7 DEF GraphStep

\* What the registry's invariant says of the phases and the cancellations here.
LEMMA RegistrySays ==
    ASSUME RegistryFacts!IInv, PlaceFits, [Next]_vars
    PROVE  /\ \A t \in Searching :
                /\ cancelling[t] \in 0..2 /\ cancelling'[t] \in 0..2
                /\ cancelling'[t] >= cancelling[t]
                /\ phase[t] \in {"done", "skipped"} => phase'[t] = phase[t]
                /\ t \in pending => cancelling[t] >= 1
           /\ Registry!CancelCap = 2
<1>1. [RegistryFacts!Next]_(RegistryFacts!vars)
  BY StepMaps, SameRegistry DEF registryVars, RegistryFacts!vars
<1>2. RegistryFacts!TypeOK /\ RegistryFacts!Order /\ RegistryFacts!TypeOK'
  BY <1>1, NoneIsNoTask, RegistryFacts!TypeStep DEF RegistryFacts!IInv
<1>3. \A t \in Searching : cancelling'[t] >= cancelling[t]
  BY <1>1, <1>2, NoneIsNoTask, RegistryFacts!CancellingGrows
<1>4. \A t \in Searching : phase[t] \in {"done", "skipped"} => phase'[t] = phase[t]
  BY <1>1, <1>2, NoneIsNoTask, RegistryFacts!HistoryStable
     DEF RegistryFacts!IsDone, RegistryFacts!Finished
<1>5. QED
  BY <1>2, <1>3, <1>4 DEF RegistryFacts!IInv, RegistryFacts!SaveHeld, RegistryFacts!TypeOK,
     RegistryFacts!CancelCap, Registry!CancelCap

\* The active run is settled when its task ends.
LEMMA SettleStep ==
    ASSUME TypeOK, PlaceFits, NodeFits, RegistryFacts!IInv, OutFits, ActiveRunSettles,
           [Next]_vars
    PROVE  ActiveRunSettles'
<1> USE DEF Registry!IsDone, Registry!Finished
<1> SUFFICES ASSUME NEW x \in Searching, active' = x, phase'[x] \in {"done", "skipped"},
                    cancelling'[x] = 0
             PROVE  runs'[x].status \notin {"QUEUED", "RUNNING"}
  BY DEF ActiveRunSettles
<1>0. x \in Requests /\ cancelling[x] = 0 /\ x \notin pending
  BY RegistrySays, Kinds
<1>1. ASSUME NEW r \in Requests, Send(r) \/ HandlerStep(r)
      PROVE  runs'[x].status \notin {"QUEUED", "RUNNING"}
  <2>1. phase[x] \in {"done", "skipped"}
    BY <1>1, HandlerFrame DEF Registry!StartReplacement, TypeOK, GraphTypeOK, Registry!TypeOK
  <2>2. RunWrites(r, x)
    BY <1>0, <1>1, HandlerRuns
  <2>3. pc[x] \in {"await", "answered"}
    BY <2>1 DEF NodeFits
  <2>4. ~(x = r /\ NewRun(r))
    BY <2>3 DEF NewRun
  <2>5. active = x
    <3>1. active' = r => ~(CreateRun(r) \/ AskIntent(r) \/ PageAnswers(r))
      BY <2>3, Kinds DEF CreateRun, AskIntent, PageAnswers, PlaceFits
    <3>2. QED
      BY <1>1, <3>1, HandlerActive
  <2>6. runs[x].status \notin {"QUEUED", "RUNNING"}
    BY <1>0, <2>1, <2>5 DEF ActiveRunSettles
  <2>7. QED
    BY <2>2, <2>4, <2>6 DEF RunWrites
<1>2. ASSUME NEW t \in Searching, GraphStep(t)
      PROVE  runs'[x].status \notin {"QUEUED", "RUNNING"}
  <2>0. active = x
    BY <1>2, GraphFrame
  <2>1. CASE x # t
    <3>1. phase'[x] = phase[x]
      BY <1>2, <2>1, GraphMaps, TaskFrame DEF registryVars, TypeOK, GraphTypeOK
    <3>2. runs'[x].status = runs[x].status
      BY <1>0, <1>2, <2>1, GraphRuns
    <3>3. QED
      BY <1>0, <2>0, <3>1, <3>2 DEF ActiveRunSettles
  <2>2. CASE x = t
    <3>1. CASE phase[t] \in {"done", "skipped"}
      <4>1. node[t] = "end" /\ runs[t].status \notin {"QUEUED", "RUNNING"}
        BY <1>0, <2>0, <2>2, <3>1 DEF NodeFits, NodesOf, ActiveRunSettles
      <4>2. runs'[t].status = runs[t].status
        BY <1>2, <4>1, GraphRuns
      <4>3. QED
        BY <2>2, <4>1, <4>2
    <3>2. CASE phase[t] \notin {"done", "skipped"}
      <4>1. ~ UNCHANGED phase
        BY <2>2, <3>2
      <4>2. node'[t] = "end"
        <5>1. ~UNCHANGED registryVars
          BY <4>1 DEF registryVars
        <5> USE <1>0, <2>2, <5>1 DEF Go, Return, GoUnlessCancelled, ReturnUnlessCancelled
        <5>2. node \in [Searching -> Nodes] /\ phase \in [Searching -> Registry!Phases]
          BY DEF TypeOK, GraphTypeOK, Registry!TypeOK
        <5>3. CASE TaskBegins(t) \/ TaskWaits(t) \/ TaskSkipped(t) \/ MarkRunning(t)
                   \/ LoadContext(t) \/ ParseBlocked(t)
                   \/ ParseExecutable(t) \/ ParseFails(t)
          BY <5>2, <5>3 DEF TaskBegins, TaskWaits, TaskSkipped, MarkRunning, LoadContext,
             ParseBlocked, ParseExecutable, ParseFails, Registry!BeginAtOnce,
             Registry!Resume, Registry!CancelPrevious, Registry!SkipUnstarted,
             Registry!BeginSave
        <5>4. CASE Clarify(t) \/ ClarifyWrite(t) \/ ClarifyConflict(t) \/ ClarifyResult(t)
                   \/ SearchFails(t) \/ SearchAnswers(t) \/ Finalize(t)
          BY <5>2, <5>4 DEF Clarify, ClarifyWrite, ClarifyConflict, ClarifyResult,
             SearchFails, SearchAnswers, Finalize
        <5>5. CASE SaveReturns(t) \/ SaveInterrupted(t) \/ SaveSettled(t) \/ SaveAbandoned(t)
          BY <5>2, <5>5 DEF SaveReturns, SaveInterrupted, SaveSettled, SaveAbandoned,
             Registry!SaveReturns, Registry!InterruptSave, Registry!AfterFirstCancel,
             Registry!SaveSettled, Registry!AbandonSave
        <5>6. CASE FailRead(t) \/ FailWrite(t) \/ Interrupted(t)
                   \/ HandlerRead(t) \/ HandlerWrite(t) \/ HandlerInterrupted(t)
          BY <5>2, <5>6 DEF FailRead, FailWrite, Interrupted, HandlerRead, HandlerWrite,
             HandlerInterrupted, Registry!Interrupt
        <5>7. QED
          BY <1>2, <5>3, <5>4, <5>5, <5>6 DEF GraphStep
      <4>3. QED
        BY <1>0, <1>2, <2>0, <2>2, <4>2, GraphEnds
    <3>3. QED
      BY <3>1, <3>2
  <2>3. QED
    BY <2>1, <2>2
<1>3. CASE UNCHANGED <<runs, phase, active>>
  BY <1>0, <1>3 DEF ActiveRunSettles
<1>4. QED
  BY <1>1, <1>2, <1>3 DEF Next, SaveLands, Registry!SaveSettles, vars, storeVars, graphVars,
     registryVars

\* What a page refers to stays what it was, or the active run is another.
LEMMA PageStep ==
    ASSUME TypeOK, PlaceFits, RunFits, PageFits, [Next]_vars
    PROVE  PageFits'
<1> DEFINE Live == {"start", "await", "answered"}
<1>0. /\ pc \in [Requests -> Places]
      /\ active # None => active \in Requests /\ pc[active] \in Live
      /\ \A p \in Pages : pc[p] = "page" /\ seen[p].active # None =>
            seen[p].active \in Requests /\ pc[seen[p].active] \in Live
      /\ \A p \in Pages : pc[p] = "page" /\ active = seen[p].active =>
            \A s \in Searching : runs[s].born <= runs[p].born
      /\ \A r \in Requests : seen[r].active \in Requests \cup {None}
      /\ None \notin Requests
  BY Kinds, StoreAssumption DEF TypeOK, StoreTypeOK, PageFits
<1>1. ASSUME NEW r \in Requests, Send(r) \/ HandlerStep(r) PROVE PageFits'
  <2>1. /\ PlaceMoves(r) /\ \A q \in Requests : q # r => pc'[q] = pc[q]
        /\ \A x \in Requests : RunWrites(r, x)
        /\ CreateRun(r) \/ PageStart(r) \/ AskIntent(r) => NewRun(r)
    BY <1>0, <1>1, HandlerMoves, HandlerRuns
  <2>2. \A q \in Requests : pc[q] \in Live => pc'[q] \in Live
    BY <2>1 DEF PlaceMoves
  <2>3. active' # None => pc'[active'] \in Live
    <3>1. CASE active' = active
      BY <1>0, <2>2, <3>1
    <3>2. CASE active' # active
      <4>1. active' = r /\ (CreateRun(r) \/ AskIntent(r) \/ PageAnswers(r))
        BY <1>1, <3>2, HandlerActive
      <4>2. pc'[r] \in Live
        BY <1>0, <4>1 DEF CreateRun, AskIntent, PageAnswers, Answer, Move
      <4>3. QED
        BY <4>1, <4>2
    <3>3. QED
      BY <3>1, <3>2
  <2>4. ASSUME NEW p \in Pages, pc'[p] = "page"
        PROVE  /\ seen'[p].active # None => pc'[seen'[p].active] \in Live
               /\ active' = seen'[p].active => \A s \in Searching : runs'[s].born <= runs'[p].born
    <3>0. p \in Requests /\ \A s \in Searching : s \in Requests /\ s \notin Pages
      BY Kinds
    <3>1. CASE PageStart(r) /\ p = r
      <4>1. seen'[p].active = active /\ active' = active
        BY <3>0, <3>1 DEF PageStart, TypeOK
      <4>2. runs'[p].born = Cardinality({x \in Requests : runs[x].born > 0}) + 1
        BY <2>1, <3>1 DEF NewRun
      <4>3. \A s \in Searching : runs'[s].born = runs[s].born
        BY <2>1, <3>0, <3>1 DEF RunWrites
      <4>4. \A s \in Searching : runs[s].born <= Cardinality({x \in Requests : runs[x].born > 0})
                              /\ runs[s].born \in Nat
        BY <3>0 DEF RunFits, TypeOK, StoreTypeOK, Run
      <4>5. \A s \in Searching : runs'[s].born <= runs'[p].born
        BY <4>2, <4>3, <4>4, Counted
      <4>6. QED
        BY <1>0, <2>2, <4>1, <4>5
    <3>2. CASE ~(PageStart(r) /\ p = r)
      <4>1. pc[p] = "page"
        <5>1. CASE p # r
          BY <2>1, <2>4, <3>0, <5>1
        <5>2. CASE p = r
          BY <1>0, <1>1, <2>4, <3>2, <5>2 DEF Send, HandlerStep, Append, ReadContext, Route,
             RouterFails, Chat, RepeatCard, AskIntent, DismissCard, RefuseAnswer, ApplyAnswer,
             CreateRun, StartTask, FinishRequest, StopTask, StopRead, StopWrite, PageRefused,
             PageFails, PageAnswers, Answer, Fail, Move, handlerVars
        <5>3. QED
          BY <5>1, <5>2
      <4>2. p # r \/ ~(Append(r) \/ ReadContext(r) \/ PageStart(r))
        BY <3>2, <4>1 DEF Append, ReadContext
      <4>3. seen'[p] = seen[p]
        <5>1. \/ UNCHANGED seen \/ Forget(r)
              \/ Append(r) \/ ReadContext(r) \/ PageStart(r)
          BY <1>1 DEF Send, HandlerStep, Route, RouterFails, Chat, RepeatCard, AskIntent,
             DismissCard, RefuseAnswer, ApplyAnswer, CreateRun, StartTask, FinishRequest,
             StopTask, StopRead, StopWrite, PageRefused, PageFails, PageAnswers, Answer,
             Fail, handlerVars
        <5>2. QED
          BY <3>0, <4>2, <5>1 DEF Forget, Append, ReadContext, PageStart, TypeOK
      <4>4. ASSUME active' = seen'[p].active, NEW s \in Searching
            PROVE  runs'[s].born <= runs'[p].born
        <5>1. active' = active
          <6>1. CASE active' = r
            <7>1. seen[p].active # None /\ pc[r] \in Live
              BY <1>0, <4>1, <4>3, <4>4, <6>1
            <7>2. QED
              BY <1>1, <7>1, HandlerActive DEF CreateRun, AskIntent, PageAnswers
          <6>2. QED
            BY <1>1, <6>1, HandlerActive
        <5>2. runs[s].born <= runs[p].born
          BY <1>0, <4>1, <4>3, <4>4, <5>1
        <5>3. runs'[s].born = runs[s].born
          <6>1. CASE s = r /\ NewRun(r)
            <7>1. CreateRun(r)
              BY <6>1, Kinds DEF NewRun
            <7>2. active' = r /\ pc[r] = "act"
              BY <7>1 DEF CreateRun
            <7>3. QED
              BY <1>0, <5>1, <7>2
          <6>2. CASE ~(s = r /\ NewRun(r))
            BY <2>1, <3>0, <6>2 DEF RunWrites
          <6>3. QED
            BY <6>1, <6>2
        <5>4. runs'[p].born = runs[p].born
          BY <2>1, <3>0, <4>1 DEF RunWrites, NewRun
        <5>5. QED
          BY <5>2, <5>3, <5>4
      <4>5. QED
        BY <1>0, <2>2, <4>1, <4>3, <4>4
    <3>3. QED
      BY <3>1, <3>2
  <2>5. QED
    BY <2>3, <2>4 DEF PageFits
<1>2. ASSUME UNCHANGED <<active, pc, seen>>, \A x \in Requests : runs'[x].born = runs[x].born
      PROVE  PageFits'
  BY <1>2, Kinds DEF PageFits
<1>3. QED
  BY <1>1, <1>2, GraphFrame, GraphRuns DEF Next, SaveLands, vars, storeVars, handlerVars

-----------------------------------------------------------------------------
(* The clarification card. *)

\* What was cancelled twice or skipped stays so.
LEMMA DisturbedStays ==
    ASSUME RegistryFacts!IInv, PlaceFits, [Next]_vars, Disturbed
    PROVE  Disturbed'
<1>1. PICK t \in Searching : phase[t] = "skipped" \/ cancelling[t] = 2
  BY RegistrySays DEF Disturbed
<1>2. phase'[t] = "skipped" \/ cancelling'[t] = 2
  BY <1>1, RegistrySays
<1>3. QED
  BY <1>2, RegistrySays DEF Disturbed

\* While nothing is disturbed, no save lands next to a graph that has started
\* and has not begun its own: OneGraphAtATime and SaveHeld of TaskRegistry.
LEMMA NoSaveBeside ==
    ASSUME RegistryFacts!IInv, ~Disturbed, NEW t \in Searching, NEW u \in Searching,
           save[t] = "open", phase[u] = "body", save[u] = "none"
    PROVE  FALSE
<1> USE DEF RegistryFacts!Created, RegistryFacts!Older, RegistryFacts!IsDone,
        RegistryFacts!Finished, RegistryFacts!Running
<1>1. /\ \A s \in Searching : phase[s] # "skipped" /\ cancelling[s] # 2
      /\ RegistryFacts!CancelCap = 2
  BY DEF Disturbed, Registry!CancelCap, RegistryFacts!CancelCap
<1>2. \A v, w \in Searching : ~RegistryFacts!SkippedBetween(v, w)
  BY <1>1 DEF RegistryFacts!SkippedBetween
<1>3. phase[t] \in {"saving", "settling"}
  BY <1>1 DEF RegistryFacts!IInv, RegistryFacts!SaveHeld
<1>4. t # u
  OBVIOUS
<1>5. rank[t] # rank[u] /\ rank[t] \in Nat /\ rank[u] \in Nat
  BY <1>3, <1>4 DEF RegistryFacts!IInv, RegistryFacts!Order, RegistryFacts!TypeOK
<1>6. CASE rank[t] < rank[u]
  BY <1>2, <1>3, <1>6 DEF RegistryFacts!IInv, RegistryFacts!OneGraphAtATime
<1>7. CASE rank[u] < rank[t]
  BY <1>2, <1>3, <1>7 DEF RegistryFacts!IInv, RegistryFacts!OneGraphAtATime
<1>8. QED
  BY <1>5, <1>6, <1>7

\* A graph that may still ask keeps having loaded the newest plan.
LEMMA LoadFreshStep ==
    ASSUME TypeOK, PlaceFits, NodeFits, RegistryFacts!IInv, PlanChain, PlansFit, LoadFresh,
           [Next]_vars
    PROVE  LoadFresh'
<1> DEFINE Asking == {"parse", "clarify", "clarifyWrite"}
<1> SUFFICES ASSUME ~Disturbed', NEW x \in Searching, node'[x] \in Asking
             PROVE  work'[x].base = planVersion'
  BY DEF LoadFresh
<1>0. ~Disturbed
  BY DisturbedStays
<1>1. ASSUME NEW t \in Searching, SaveLands(t) PROVE work'[x].base = planVersion'
  <2>1. node[x] \in Asking /\ work' = work /\ save[t] = "open"
    BY <1>1 DEF SaveLands, Registry!SaveSettles
  <2>2. phase[x] = "body" /\ save[x] = "none"
    <3>1. phase[x] \in Registry!Phases
      BY DEF TypeOK, GraphTypeOK, Registry!TypeOK
    <3>2. node[x] \in NodesOf(phase[x])
      BY DEF NodeFits
    <3>3. save[x] = "none"
      BY <2>1 DEF NodeFits, Unsaved
    <3>4. QED
      BY <2>1, <3>1, <3>2, <3>3 DEF NodesOf, Registry!Phases, Registry!Running,
         Registry!Finished
  <2>3. QED
    BY <1>0, <2>1, <2>2, NoSaveBeside
<1>2. ASSUME NEW t \in Searching, GraphStep(t) PROVE work'[x].base = planVersion'
  <2>1. planVersion' = planVersion /\ node \in [Searching -> Nodes]
    BY <1>2, GraphFrame DEF TypeOK, GraphTypeOK
  <2>2. CASE x # t
    <3>1. node'[x] = node[x] /\ work'[x] = work[x]
      BY <1>2, <2>1, <2>2, GraphMoves, GraphWork
    <3>2. QED
      BY <1>0, <2>1, <3>1 DEF LoadFresh
  <2>3. CASE x = t
    <3>1. CASE LoadContext(t)
      BY <2>1, <2>3, <3>1, LoadContextIs
    <3>2. CASE ~LoadContext(t)
      <4>1. node[t] \in Asking
        BY <1>2, <2>3, <3>2, GraphPath
      <4>2. work'[t].base = work[t].base
        BY <1>2, <3>2, GraphWork
      <4>3. QED
        BY <1>0, <2>1, <2>3, <4>1, <4>2 DEF LoadFresh
    <3>3. QED
      BY <3>1, <3>2
  <2>4. QED
    BY <2>2, <2>3
<1>3. CASE UNCHANGED <<node, work, planVersion>>
  BY <1>0, <1>3 DEF LoadFresh
<1>4. QED
  BY <1>1, <1>2, <1>3, HandlerFrame DEF Next, vars, storeVars, graphVars

\* A request leaves the pending card, clears it or puts one without a draft.
LEMMA HandlerCard ==
    ASSUME NEW r \in Requests, Send(r) \/ HandlerStep(r)
    PROVE  \/ card' = card
           \/ card' = None
           \/ AskIntent(r)
  BY DEF Send, HandlerStep, Append, ReadContext, Route, RouterFails, Chat, RepeatCard,
     DismissCard, RefuseAnswer, ApplyAnswer, CreateRun, StartTask, FinishRequest,
     StopTask, StopRead, StopWrite, PageStart, PageRefused, PageFails, PageAnswers, storeVars

\* A graph leaves the pending card or puts its own.
LEMMA GraphCard ==
    ASSUME NEW t \in Searching, GraphStep(t)
    PROVE  card' = card \/ ClarifyWrite(t)
<1> USE DEF storeVars
<1>1. CASE TaskBegins(t) \/ TaskWaits(t) \/ TaskSkipped(t) \/ MarkRunning(t)
           \/ LoadContext(t) \/ ParseBlocked(t)
           \/ ParseExecutable(t) \/ ParseFails(t)
  BY <1>1 DEF TaskBegins, TaskWaits, TaskSkipped, MarkRunning, LoadContext,
     ParseBlocked, ParseExecutable, ParseFails
<1>2. CASE Clarify(t) \/ ClarifyConflict(t) \/ ClarifyResult(t)
           \/ SaveReturns(t) \/ SaveInterrupted(t) \/ SaveSettled(t)
           \/ SaveAbandoned(t) \/ SearchFails(t) \/ SearchAnswers(t)
  BY <1>2 DEF Clarify, ClarifyConflict, ClarifyResult, SaveReturns,
     SaveInterrupted, SaveSettled, SaveAbandoned, SearchFails, SearchAnswers
<1>3. CASE Finalize(t) \/ FailRead(t) \/ FailWrite(t) \/ Interrupted(t)
           \/ HandlerRead(t) \/ HandlerWrite(t) \/ HandlerInterrupted(t)
  BY <1>3 DEF Finalize, FailRead, FailWrite, Interrupted, HandlerRead, HandlerWrite,
     HandlerInterrupted
<1>4. QED
  BY <1>1, <1>2, <1>3 DEF GraphStep

\* The card that ClarifyWrite and AskIntent store.
LEMMA CardsAre ==
    ASSUME TypeOK
    PROVE  /\ \A t \in Searching : ClarifyWrite(t) =>
                card' \in Card /\ card'.base = work[t].base /\ node[t] = "clarifyWrite"
           /\ \A r \in Requests : AskIntent(r) => card' \in Card /\ ~card'.draft
<1>1. ASSUME NEW t \in Searching, ClarifyWrite(t)
      PROVE  card' \in Card /\ card'.base = work[t].base /\ node[t] = "clarifyWrite"
  <2>1. t \in Requests /\ work[t].base \in Nat /\ work[t].content \subseteq Searching
    BY Kinds DEF TypeOK, GraphTypeOK
  <2>2. card' = [by |-> t, draft |-> TRUE, base |-> work[t].base,
                 content |-> work[t].content]
    BY <1>1 DEF ClarifyWrite
  <2>3. QED
    BY <1>1, <2>1, <2>2 DEF Card, ClarifyWrite
<1>2. ASSUME NEW r \in Requests, AskIntent(r) PROVE card' \in Card /\ ~card'.draft
  <2>1. seen[r].card \in Requests \cup {None}
    BY DEF TypeOK
  <2>2. card' = [by |-> IF seen[r].card = None THEN r ELSE seen[r].card,
                 draft |-> FALSE, base |-> 0, content |-> {}]
    BY <1>2 DEF AskIntent
  <2>3. QED
    BY <2>1, <2>2 DEF Card
<1>3. QED
  BY <1>1, <1>2

\* A card with a draft is replaced or cleared with the plan it was parsed for.
LEMMA CardStep ==
    ASSUME TypeOK, PlaceFits, RegistryFacts!IInv, PlanChain, PlansFit, LoadFresh, CardFresh,
           [Next]_vars
    PROVE  CardFresh'
<1> SUFFICES ASSUME ~Disturbed', card' # None, card'.draft
             PROVE  card'.base = planVersion'
  BY DEF CardFresh
<1>0. ~Disturbed
  BY DisturbedStays
<1>1. CASE UNCHANGED <<card, planVersion>>
  BY <1>0, <1>1 DEF CardFresh
<1>2. ASSUME NEW t \in Searching, SaveLands(t) PROVE card'.base = planVersion'
  BY <1>1, <1>2, SaveLandsIs
<1>3. ASSUME NEW t \in Searching, ClarifyWrite(t) PROVE card'.base = planVersion'
  <2>1. planVersion' = planVersion /\ card'.base = work[t].base /\ node[t] = "clarifyWrite"
    BY <1>3, CardsAre DEF ClarifyWrite
  <2>2. QED
    BY <1>0, <2>1 DEF LoadFresh
<1>4. ASSUME NEW r \in Requests, AskIntent(r) PROVE FALSE
  BY <1>4, CardsAre
<1>5. ASSUME NEW r \in Requests, Send(r) \/ HandlerStep(r) PROVE card'.base = planVersion'
  BY <1>1, <1>4, <1>5, HandlerCard, HandlerFrame
<1>6. ASSUME NEW t \in Searching, GraphStep(t) PROVE card'.base = planVersion'
  BY <1>1, <1>3, <1>6, GraphCard, GraphFrame
<1>7. QED
  BY <1>1, <1>2, <1>5, <1>6 DEF Next, vars, storeVars

-----------------------------------------------------------------------------
(* Type correctness. *)

SeenRow == [active : Requests \cup {None}, version : Nat, card : Requests \cup {None}]

\* What a request reads, and the draft an answer brings, have their types.
LEMMA HandlerReads ==
    ASSUME TypeOK, PlanChain, NEW r \in Requests, Send(r) \/ HandlerStep(r)
    PROVE  /\ seen' \in [Requests -> SeenRow]
           /\ draft' \in [Searching -> [given : BOOLEAN, content : SUBSET Searching]]
<1>0. /\ seen \in [Requests -> SeenRow] /\ NothingSeen \in SeenRow
      /\ draft \in [Searching -> [given : BOOLEAN, content : SUBSET Searching]]
      /\ CurrentPlan.version \in Nat
      /\ active \in Requests \cup {None} /\ (card # None => card \in Card)
  BY CurrentPlanIs DEF TypeOK, StoreTypeOK, GraphTypeOK, SeenRow, NothingSeen
<1>1. CASE Append(r)
  <2>1. r \in Answers => card.by \in Requests
    BY <1>0, <1>1 DEF Append, Card
  <2>2. seen' \in [Requests -> SeenRow]
    BY <1>0, <1>1, <2>1 DEF Append, SeenRow
  <2>3. QED
    BY <1>0, <1>1, <2>2 DEF Append, graphVars
<1>2. CASE ReadContext(r)
  <2>1. CardSlot \in Requests \cup {None} /\ seen[r].card \in Requests \cup {None}
    BY <1>0 DEF CardSlot, Card, SeenRow
  <2>2. seen' \in [Requests -> SeenRow]
    BY <1>0, <1>2, <2>1 DEF ReadContext, SeenRow
  <2>3. QED
    BY <1>0, <1>2, <2>2 DEF ReadContext, graphVars
<1>3. CASE PageStart(r)
  <2>1. seen' \in [Requests -> SeenRow]
    BY <1>0, <1>3 DEF PageStart, SeenRow
  <2>2. QED
    BY <1>0, <1>3, <2>1 DEF PageStart, graphVars
<1>4. CASE ApplyAnswer(r)
  <2>1. card.content \subseteq Searching
    BY <1>0, <1>4 DEF ApplyAnswer, CardAsked, Card
  <2>2. draft' = [draft EXCEPT ![r] = [given |-> TRUE, content |-> card.content]]
        /\ seen' = seen
    BY <1>4 DEF ApplyAnswer, handlerVars
  <2>3. QED
    BY <1>0, <2>1, <2>2
<1>5. CASE UNCHANGED draft /\ (UNCHANGED seen \/ Forget(r))
  BY <1>0, <1>5 DEF Forget
<1>6. QED
  BY <1>1, <1>2, <1>3, <1>4, <1>5 DEF Send, HandlerStep, Route, RouterFails, Chat, RepeatCard,
     AskIntent, DismissCard, RefuseAnswer, CreateRun, StartTask, FinishRequest, StopTask,
     StopRead, StopWrite, PageRefused, PageFails, PageAnswers, Answer, Fail, graphVars

\* The session row and the messages have their types.
LEMMA HandlerRows ==
    ASSUME TypeOK, PlaceFits, NEW r \in Requests, Send(r) \/ HandlerStep(r)
    PROVE  /\ active' \in Requests \cup {None}
           /\ card' = None \/ card' \in Card
           /\ seq' \in [Messages -> Nat]
           /\ routed' \subseteq Messages
<1>0. /\ active \in Requests \cup {None} /\ (card = None \/ card \in Card)
      /\ seq \in [Messages -> Nat] /\ routed \subseteq Messages
  BY DEF TypeOK, StoreTypeOK
<1>1. active' \in Requests \cup {None}
  BY <1>0, HandlerActive
<1>2. card' = None \/ card' \in Card
  BY <1>0, HandlerCard, CardsAre
<1>3. Route(r) => r \in Messages
  BY DEF Route, PlaceFits
<1>4. \/ Append(r) /\ routed' = routed
      \/ Route(r) /\ seq' = seq
      \/ UNCHANGED <<seq, routed>>
  BY DEF Send, HandlerStep, Append, ReadContext, Route, RouterFails, Chat, RepeatCard,
     AskIntent, DismissCard, RefuseAnswer, ApplyAnswer, CreateRun, StartTask, FinishRequest,
     StopTask, StopRead, StopWrite, PageStart, PageRefused, PageFails, PageAnswers, storeVars
<1>5. seq' \in [Messages -> Nat]
  BY <1>0, <1>4, Counted DEF Append, Route
<1>6. routed' \subseteq Messages
  BY <1>0, <1>3, <1>4 DEF Route
<1>7. QED
  BY <1>1, <1>2, <1>5, <1>6

\* Every step keeps the types.
LEMMA TypeStep ==
    ASSUME TypeOK, PlaceFits, NodeFits, RegistryFacts!IInv, PlanChain, PlansFit, [Next]_vars
    PROVE  TypeOK'
<1>0. Registry!TypeOK'
  BY RegistryKept, SameRegistry DEF RegistryFacts!IInv, RegistryFacts!TypeOK, Registry!TypeOK,
     RegistryFacts!Phases, Registry!Phases, RegistryFacts!Running, Registry!Running,
     RegistryFacts!Finished, Registry!Finished, RegistryFacts!CancelCap, Registry!CancelCap,
     RegistryFacts!AwaitedReplaced, Registry!AwaitedReplaced
<1>1. ASSUME NEW r \in Requests, Send(r) \/ HandlerStep(r) PROVE TypeOK'
  <2>1. UNCHANGED <<planVersion, plans, node, work, out>>
    BY <1>1, HandlerFrame
  <2>2. StoreTypeOK'
    BY <1>1, <2>1, HandlerRows, HandlerRuns DEF TypeOK, StoreTypeOK
  <2>3. GraphTypeOK'
    BY <1>0, <1>1, <2>1, HandlerReads DEF TypeOK, GraphTypeOK
  <2>4. pc' \in [Requests -> Places] /\ seen' \in [Requests -> SeenRow]
        /\ reply' \in [Requests -> ResultRow]
    BY <1>1, HandlerMoves, HandlerReads, HandlerReplies DEF TypeOK
  <2>5. QED
    BY <2>2, <2>3, <2>4 DEF TypeOK, SeenRow, ResultRow
<1>2. ASSUME NEW t \in Searching, GraphStep(t), UNCHANGED handlerVars PROVE TypeOK'
  <2>1. UNCHANGED <<active, seq, routed, draft, plans, planVersion, pc, seen, reply>>
    BY <1>2, GraphFrame DEF handlerVars
  <2>2. card' = None \/ card' \in Card
    BY <1>2, GraphCard, CardsAre DEF TypeOK, StoreTypeOK
  <2>3. StoreTypeOK'
    BY <1>2, <2>1, <2>2, GraphRuns DEF TypeOK, StoreTypeOK
  <2>4. node' \in [Searching -> Nodes] /\ work' \in [Searching -> WorkRow]
        /\ out' \in [Searching -> ResultRow]
    BY <1>2, GraphMoves, GraphWork, GraphOut DEF TypeOK, GraphTypeOK
  <2>5. GraphTypeOK'
    BY <1>0, <2>1, <2>4 DEF TypeOK, GraphTypeOK, WorkRow, ResultRow
  <2>6. QED
    BY <2>1, <2>3, <2>5 DEF TypeOK
<1>3. ASSUME NEW t \in Searching, SaveLands(t), UNCHANGED handlerVars PROVE TypeOK'
  <2>1. UNCHANGED <<active, runs, seq, routed, node, work, draft, out, pc, seen, reply>>
    BY <1>3 DEF SaveLands, handlerVars
  <2>2. plans' \subseteq Plan /\ planVersion' \in Nat /\ (card' = None \/ card' \in Card)
    BY <1>3, SaveLandsIs DEF TypeOK, StoreTypeOK
  <2>3. QED
    BY <1>0, <2>1, <2>2 DEF TypeOK, StoreTypeOK, GraphTypeOK
<1>4. CASE UNCHANGED vars
  BY <1>0, <1>4 DEF vars, storeVars, graphVars, handlerVars, TypeOK, StoreTypeOK, GraphTypeOK
<1>5. QED
  BY <1>1, <1>2, <1>3, <1>4 DEF Next

-----------------------------------------------------------------------------
(* The inductive invariant and what follows from it. *)

\* It holds when nothing was sent yet.
LEMMA InitIInv == Init => IInv
<1> SUFFICES ASSUME Init PROVE IInv
  OBVIOUS
<1>1. /\ active = None /\ planVersion = 0 /\ plans = {} /\ card = None /\ routed = {}
      /\ runs = [r \in Requests |-> AbsentRun] /\ seq = [m \in Messages |-> 0]
      /\ pc = [r \in Requests |-> "idle"] /\ seen = [r \in Requests |-> NothingSeen]
      /\ reply = [r \in Requests |-> NoResult] /\ node = [t \in Searching |-> "none"]
      /\ work = [t \in Searching |-> NoWork] /\ draft = [t \in Searching |-> NoDraft]
      /\ out = [t \in Searching |-> NoResult] /\ Registry!Init
  BY DEF Init, StoreInit, GraphInit
<1>2. /\ phase = [t \in Searching |-> "new"] /\ save = [t \in Searching |-> "none"]
  BY <1>1 DEF Registry!Init
<1>3. RegistryFacts!IInv
  <2> USE NoneIsNoTask DEF RegistryFacts!Created, RegistryFacts!Older
  <2>1. RegistryFacts!Init
    BY <1>1, SameRegistry
  <2>2. RegistryFacts!TypeOK
    BY <2>1 DEF RegistryFacts!Init, RegistryFacts!TypeOK, RegistryFacts!Phases,
       RegistryFacts!CancelCap
  <2>3. RegistryFacts!Order /\ RegistryFacts!Registered /\ RegistryFacts!Links
    BY <2>1 DEF RegistryFacts!Init, RegistryFacts!Order, RegistryFacts!Registered,
       RegistryFacts!Links
  <2>4. RegistryFacts!OneGraphAtATime /\ RegistryFacts!ReplacedIsTold /\ RegistryFacts!SaveHeld
    BY <2>1 DEF RegistryFacts!Init, RegistryFacts!OneGraphAtATime,
       RegistryFacts!ReplacedIsTold, RegistryFacts!SaveHeld
  <2>5. QED
    BY <2>2, <2>3, <2>4 DEF RegistryFacts!IInv
<1>4. TypeOK
  <2>1. Registry!TypeOK
    BY <1>3, SameRegistry DEF RegistryFacts!IInv
  <2>2. NoWork \in WorkRow /\ NoResult \in ResultRow /\ NothingSeen \in SeenRow
        /\ NoDraft \in [given : BOOLEAN, content : SUBSET Searching]
    BY DEF NoWork, WorkRow, NoResult, Result, ResultRow, NothingSeen, SeenRow, NoDraft
  <2>3. AbsentRun \in Run
    BY DEF AbsentRun, Run, RunStatuses, NoResult, Result
  <2>4. StoreTypeOK
    BY <1>1, <2>3 DEF StoreTypeOK
  <2>5. GraphTypeOK
    BY <1>1, <2>1, <2>2 DEF GraphTypeOK, Nodes, WorkRow, ResultRow
  <2>6. QED
    BY <1>1, <2>2, <2>4, <2>5 DEF TypeOK, Places, SeenRow, ResultRow
<1>5. PlaceFits /\ PageFits
  BY <1>1, Kinds DEF PlaceFits, PageFits
<1>6. NodeFits
  BY <1>1, <1>2, Kinds DEF NodeFits, NodesOf, NoDraft
<1>7. PlanChain /\ PlansFit /\ PatchesAccumulate
  <2>1. PlanChain
    BY <1>1, FS_EmptySet DEF PlanChain
  <2>2. PlansFit
    BY <1>1, FS_EmptySet, Kinds DEF PlansFit, NoWork
  <2>3. QED
    BY <1>1, <2>1, <2>2 DEF PatchesAccumulate
<1>8. RunFits /\ ResultBoundToPlan
  <2>1. \A r \in Requests : runs[r].born = 0 /\ runs[r].result.status = "none"
    BY <1>1 DEF AbsentRun, NoResult, Result
  <2>2. {x \in Requests : runs[x].born > 0} = {}
    BY <2>1
  <2>3. Cardinality({x \in Requests : runs[x].born > 0}) = 0
    BY <2>2, FS_EmptySet
  <2>4. RunFits
    BY <2>1, <2>3 DEF RunFits
  <2>5. ResultBoundToPlan
    BY <2>1 DEF ResultBoundToPlan
  <2>6. QED
    BY <2>4, <2>5
<1>9. OutFits /\ AnswerIsStored /\ ActiveRunSettles
  BY <1>1, <1>2, StoreAssumption, Kinds DEF OutFits, AnswerIsStored, ActiveRunSettles,
     NoResult, Result
<1>10. LoadFresh /\ CardFresh
  BY <1>1 DEF LoadFresh, CardFresh
<1>11. QED
  BY <1>3, <1>4, <1>5, <1>6, <1>7, <1>8, <1>9, <1>10 DEF IInv

\* IInv holds in every reachable state of the service.
THEOREM InductiveInvariant == Spec => []IInv
<1>1. ASSUME IInv, [Next]_vars PROVE IInv'
  <2> USE <1>1 DEF IInv
  <2>1. TypeOK' /\ PlaceFits' /\ NodeFits'
    BY TypeStep, PlaceStep, NodeStep
  <2>2. RegistryFacts!IInv'
    BY RegistryKept
  <2>3. PlanChain' /\ PlansFit' /\ PatchesAccumulate'
    BY PlanChainStep, PlansStep, PatchesStep
  <2>4. RunFits' /\ ResultBoundToPlan'
    BY RunStep, ResultStep
  <2>5. OutFits' /\ AnswerIsStored' /\ ActiveRunSettles'
    BY OutStep, AnswerStep, SettleStep
  <2>6. LoadFresh' /\ CardFresh' /\ PageFits'
    BY LoadFreshStep, CardStep, PageStep
  <2>7. QED
    BY <2>1, <2>2, <2>3, <2>4, <2>5, <2>6
<1>2. QED
  BY <1>1, InitIInv, PTL DEF Spec

\* Every reachable state is well typed.
THEOREM TypeCorrect == Spec => []TypeOK
<1>1. IInv => TypeOK
  BY DEF IInv
<1>2. QED
  BY <1>1, InductiveInvariant, PTL

\* The plans of a session are numbered 1, 2, 3, ..., however saves overlap.
THEOREM PlansAreNumbered == Spec => []PlanChain
<1>1. IInv => PlanChain
  BY DEF IInv
<1>2. QED
  BY <1>1, InductiveInvariant, PTL

\* A patch contains the plan it follows.
THEOREM PatchesKeepConditions == Spec => []PatchesAccumulate
<1>1. IInv => PatchesAccumulate
  BY DEF IInv
<1>2. QED
  BY <1>1, InductiveInvariant, PTL

\* A stored OK names the plan its run saved, or the plan its page is of.
THEOREM ResultsNameTheirPlan == Spec => []ResultBoundToPlan
<1>1. IInv => ResultBoundToPlan
  BY DEF IInv
<1>2. QED
  BY <1>1, InductiveInvariant, PTL

\* A retry reads what the request was answered.
THEOREM AnswersAreStored == Spec => []AnswerIsStored
<1>1. IInv => AnswerIsStored
  BY DEF IInv
<1>2. QED
  BY <1>1, InductiveInvariant, PTL

\* The active run is settled when its task has ended uncancelled.
THEOREM ActiveRunsSettle == Spec => []ActiveRunSettles
<1>1. IInv => ActiveRunSettles
  BY DEF IInv
<1>2. QED
  BY <1>1, InductiveInvariant, PTL

\* A pending draft was parsed against the current plan, unless graphs overlap.
THEOREM CardsAreFresh == Spec => []CardFresh
<1>1. IInv => CardFresh
  BY DEF IInv
<1>2. QED
  BY <1>1, InductiveInvariant, PTL

\* The service implements TaskRegistry: its tasks behave as that module says.
THEOREM ServiceRefinesRegistry == Spec => RefinesRegistry
<1>1. Init => Registry!Init
  BY DEF Init, GraphInit
<1>2. IInv /\ [Next]_vars => [Registry!Next]_(Registry!vars)
  BY StepMaps DEF IInv, registryVars, Registry!vars
<1>3. QED
  BY <1>1, <1>2, InductiveInvariant, PTL DEF Spec, RefinesRegistry, Registry!Spec

\* So what TaskRegistryProofs shows holds of the session's tasks: one graph runs at
\* a time, replaced tasks are told, an open save is waited for and the newest task
\* stays registered, each with the exceptions that module names.
THEOREM SessionKeepsRegistryPromises ==
    Spec => [](/\ Registry!OneGraphAtATime
               /\ Registry!ReplacedIsTold
               /\ Registry!SaveSettledFirst
               /\ Registry!NewestStaysRegistered)
<1> USE DEF RegistryFacts!Older, Registry!Older, RegistryFacts!Created, Registry!Created,
    RegistryFacts!Running, Registry!Running, RegistryFacts!IsDone, Registry!IsDone,
    RegistryFacts!Finished, Registry!Finished, RegistryFacts!SkippedBetween,
    Registry!SkippedBetween, RegistryFacts!CancelCap, Registry!CancelCap
<1>1. RegistryFacts!IInv => Registry!OneGraphAtATime
  BY DEF RegistryFacts!IInv, RegistryFacts!OneGraphAtATime, Registry!OneGraphAtATime
<1>2. RegistryFacts!IInv => Registry!ReplacedIsTold
  BY DEF RegistryFacts!IInv, RegistryFacts!ReplacedIsTold, Registry!ReplacedIsTold
<1>3. RegistryFacts!IInv => Registry!SaveSettledFirst
  <2> SUFFICES ASSUME RegistryFacts!IInv, NEW t \in Searching, NEW u \in Searching,
                      Registry!Older(t, u), phase[u] \in Registry!Running, save[t] = "open"
               PROVE  cancelling[t] = Registry!CancelCap \/ Registry!SkippedBetween(t, u)
    BY DEF Registry!SaveSettledFirst
  <2>1. CASE Registry!IsDone(t)
    BY <2>1 DEF RegistryFacts!IInv, RegistryFacts!SaveHeld
  <2>2. CASE ~Registry!IsDone(t)
    BY <1>1, <2>2 DEF Registry!OneGraphAtATime
  <2> QED
    BY <2>1, <2>2
<1>4. RegistryFacts!IInv => Registry!NewestStaysRegistered
  BY DEF RegistryFacts!IInv, RegistryFacts!Registered, RegistryFacts!Order,
     RegistryFacts!TypeOK, Registry!NewestStaysRegistered
<1>5. IInv => /\ Registry!OneGraphAtATime /\ Registry!ReplacedIsTold
              /\ Registry!SaveSettledFirst /\ Registry!NewestStaysRegistered
  BY <1>1, <1>2, <1>3, <1>4 DEF IInv
<1>6. QED
  BY <1>5, InductiveInvariant, PTL

\* A page does not take the active pointer from a search created after it.
THEOREM PagesKeepNewerSearch == Spec => PageKeepsNewerSearch
<1>1. ASSUME IInv, [Next]_vars
      PROVE  [\A p \in Pages, s \in Searching :
                active' = p /\ active # p => runs[s].born <= runs[p].born]_vars
  <2> SUFFICES ASSUME NEW p \in Pages, NEW s \in Searching, active' = p, active # p
               PROVE  runs[s].born <= runs[p].born
    OBVIOUS
  <2>1. PICK r \in Requests : Send(r) \/ HandlerStep(r)
    BY <1>1, GraphFrame DEF Next, SaveLands, vars, storeVars
  <2>2. r = p /\ (CreateRun(p) \/ AskIntent(p) \/ (PageAnswers(p) /\ active = seen[p].active))
    BY <2>1, HandlerActive
  <2>3. PageAnswers(p) /\ active = seen[p].active
    BY <2>2, Kinds DEF CreateRun, AskIntent
  <2>4. QED
    BY <1>1, <2>3 DEF PageAnswers, IInv, PageFits
<1>2. QED
  BY <1>1, InductiveInvariant, PTL DEF Spec, PageKeepsNewerSearch

\* A delivered result keeps its run SUCCEEDED but for a stop that writes late.
THEOREM DeliveredRunsStay == Spec => DeliveredRunStays
<1>1. ASSUME IInv, [Next]_vars
      PROVE  [\A r \in Searching \cup Pages :
                pc[r] = "answered" /\ runs[r].status = "SUCCEEDED"
                => \/ runs'[r].status = "SUCCEEDED"
                   \/ \E s \in Stops : pc[s] = "stopWrite" /\ seen[s].active = r]_vars
  <2> SUFFICES ASSUME NEW x \in Searching \cup Pages,
                      pc[x] = "answered", runs[x].status = "SUCCEEDED"
               PROVE  \/ runs'[x].status = "SUCCEEDED"
                      \/ \E s \in Stops : pc[s] = "stopWrite" /\ seen[s].active = x
    OBVIOUS
  <2>0. x \in Requests /\ TypeOK /\ PlaceFits /\ NodeFits
    BY <1>1, Kinds DEF IInv
  <2>1. ASSUME NEW r \in Requests, Send(r) \/ HandlerStep(r)
        PROVE  \/ runs'[x].status = "SUCCEEDED"
               \/ \E s \in Stops : pc[s] = "stopWrite" /\ seen[s].active = x
    <3>1. RunWrites(r, x)
      BY <2>0, <2>1, HandlerRuns
    <3>2. ~(x = r /\ NewRun(r))
      BY DEF NewRun
    <3>3. StopWrite(r) => r \in Stops /\ pc[r] = "stopWrite"
      BY <2>0 DEF StopWrite, PlaceFits
    <3>4. QED
      BY <3>1, <3>2, <3>3 DEF RunWrites
  <2>2. ASSUME NEW t \in Searching, GraphStep(t) PROVE runs'[x].status = "SUCCEEDED"
    <3>1. x = t => node[t] \in {"none", "end"}
      BY <2>0 DEF NodeFits, NodesOf, Registry!IsDone, Registry!Finished
    <3>2. QED
      BY <2>0, <2>2, <3>1, GraphRuns
  <2>3. QED
    BY <1>1, <2>1, <2>2 DEF Next, SaveLands, vars, storeVars
<1>2. QED
  BY <1>1, InductiveInvariant, PTL DEF Spec, DeliveredRunStays

\* Nor do the searches of a session wait in a circle: whatever messages, answers,
\* stops and new searches overlap, as long as a task is unfinished there is one
\* that can move and waits for nobody (start_replacement, complete_before_cancel).
THEOREM SearchesNeverWaitInCircles == Spec => []RegistryFacts!SomeoneCanMove
<1>1. Init => RegistryFacts!SaveBegun
  BY DEF Init, GraphInit, Registry!Init, RegistryFacts!SaveBegun
<1>2. IInv => RegistryFacts!IInv /\ RegistryFacts!TypeOK
  BY DEF IInv, RegistryFacts!IInv
<1>3. IInv /\ RegistryFacts!SaveBegun /\ [Next]_vars => RegistryFacts!SaveBegun'
  <2> SUFFICES ASSUME IInv, RegistryFacts!SaveBegun, [Next]_vars
               PROVE  RegistryFacts!SaveBegun'
    OBVIOUS
  <2>1. [RegistryFacts!Next]_(RegistryFacts!vars)
    BY StepMaps, SameRegistry DEF IInv, registryVars, RegistryFacts!vars
  <2> QED
    BY <1>2, <2>1, NoneIsNoTask, RegistryFacts!SaveBegunStep
<1>4. RegistryFacts!IInv /\ RegistryFacts!SaveBegun => RegistryFacts!SomeoneCanMove
  BY NoneIsNoTask, RegistryFacts!OldestCanMove
<1>5. QED
  BY <1>1, <1>2, <1>3, <1>4, InductiveInvariant, PTL DEF Spec
=============================================================================
