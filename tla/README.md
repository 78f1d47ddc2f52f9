# Talent agent: TLA+ models and proofs

This directory verifies the conversational talent-search agent of this
repository (`src/src/talent_agent_py`, written below as paths under it). A user
talks to the agent; a router decides what each message wants; a search message
starts a *run*, an asyncio task that executes a small graph (load context, parse,
validate, resolve entities, clarify or save the plan, search, finalize). A newer
run replaces an older one, a stop cancels it, an answer to a clarification card
continues a stored draft, and a page shows more of a result.

The code that is hard to get right is not in any single function: it is in what
happens when these requests overlap at their `await`s, when cancellation arrives
twice, when a message is sent again, and when a dialogue takes many rounds.

## 1. Inventory

| Component | Source | State | Operations |
|---|---|---|---|
| Task registry | `infrastructure/runtime/task_registry.py` | the one task per session; what each task awaits | `start_replacement`, `cancel`, `remove` |
| Interruptible nodes | `orchestration/interruptible.py` | the shielded save of a task | `interruptible`, `complete_before_cancel` |
| Session store | `infrastructure/persistence/*` | session row, messages, runs, plan versions, pending card | the repositories, one unit of work per transaction |
| Search graph | `orchestration/graph.py`, `nodes.py`, `state.py` | `AgentState` of the run | the nodes, `_execute_graph`, `_finish_error`, the `CancelledError` handler |
| Agent service, requests | `application/agent_service.py` | none of its own but what a handler has read | `_handle_message`, `_start_search_run`, `_stop`, `get_page`, `_store_intent_clarification`, structured answers |
| Agent service, receipt | same file | the message row, its outcome snapshot, the write lock | `handle_message`, the first part of `_handle_message` |
| Clarification dialogue | `plan_validation.py`, `entity_resolution.py`, `clarification_service.py` | the draft and the card | validate, resolve, ask, apply an answer |
| Plan patches | `domain/plan.py` | a plan, the draft of a turn | `apply_plan_patch`, merging of list values, validation |
| Message router | `application/message_router.py` | none | fixed rules, then the model |
| Language model client | `infrastructure/clients/internal_llm.py` | the attempts of one call | `_invoke_structured` with its repair loop |
| Talent search client | `infrastructure/clients/java_talent.py` | none | login headers, resolution, search, decoding of responses, cutting of pages |
| Search compiler | `application/search_compiler.py` | none | a plan into a request |
| HTTP interface, settings | `api/*`, `settings.py` | none | delegation, failures into replies; which clients there are |
| Session queries, start-up, telemetry | `session_service.py`, `main.py`, `telemetry.py` | none | reads, wiring |

Interactions. Every HTTP request is a coroutine in one process and one event
loop. Requests share the database rows of the session and the task registry.
`_start_search_run` commits the run, then hands its coroutine to
`start_replacement`, which cancels the registered task and creates one that first
awaits it. The graph reads the session row again before it asks or answers (is
this run still the active one?), and saves a plan under `complete_before_cancel`
so that a cancellation waits for the commit. `_stop` cancels the registered task
and then writes the status of the run it had read.

Hard behaviour, in the order of importance:

1. *Replacement and cancellation.* Chains of replacements, each waiting for the one
   before; stops that hit a task before its first step; two cancellations of one
   task. Correct if one graph runs at a time, nobody is left untold, no plan is
   read while an older one is being committed, and everybody finishes.
2. *Stale reads.* A handler decides on rows read several awaits ago. Correct if plan
   versions form a chain, conditions are not lost, results name their plan, cards
   are fresh, and the active pointer is not stolen by older work.
3. *Retries and crashes.* A message may arrive again while the first attempt runs,
   after it, or after a restart. Correct if it is executed once and a retry is
   told what the first attempt was told.
4. *The dialogue.* Answers change a draft which is validated and resolved again.
   Correct if what is saved was resolved, nothing is dropped silently, and the
   questions end.
5. *Changes of a plan.* The model writes operations nobody has looked into; they are
   merged into lists, refused half-way, or made a second time after a failure. Correct
   if a saved plan keeps what no operation named and what was only added to, can
   be read again, and is searched for by codes that mean its own values.
6. *Failures and calls.* A turn makes up to four kinds of call to the model and to
   Java, each of which can fail in a dozen ways, be repaired, or be cancelled.
   Correct if nobody is blamed for another's fault, a search that is interrupted asks nobody
   anything more, and every message gets its reply.
7. *Pages.* Pages are fetched late, twice and out of order, while plans change.
   Correct if no candidate falls between two pages, the list ends with its last candidate,
   and a page of an old plan does not become the current result.

## 2. Modules

| Module | Models | Composition |
|---|---|---|
| `TaskRegistry` | the registry, the life of a task, cancellation of asyncio tasks, the shielded save | - |
| `TaskRegistryProofs` | theorems about it | extends `TaskRegistry`, `WellFoundedInduction`, `TLAPS` |
| `SessionStore` | the rows of a session, repository writes as operators on them | - |
| `SearchGraph` | one run of the graph in its task | extends `SessionStore`, instantiates `TaskRegistry` |
| `AgentService` | the requests of a session and their interleavings | extends `SearchGraph` |
| `AgentServiceProofs` | theorems about it | extends `AgentService`, instantiates `TaskRegistryProofs` |
| `MessageIntake` | receipt, retry, outcome snapshot, crash | - |
| `MessageIntakeProofs` | theorems about it | extends `MessageIntake`, `TLAPS` |
| `ClarificationDialog` | the rounds of one draft | - |
| `ClarificationDialogProofs` | theorems about it | extends `ClarificationDialog`, `TLAPS` |
| `PlanPatch` | the turns that make and change a plan, operation by operation | - |
| `PlanPatchProofs` | theorems about it | extends `PlanPatch`, `TLAPS` |
| `ResultPaging` | the pages of a result and the references to them | - |
| `ResultPagingProofs` | theorems about it | extends `ResultPaging`, `TLAPS` |
| `MessageTurn` | one message from its routing to its reply, with every call it makes and every answer | - |
| `MessageTurnProofs` | theorems about it | extends `MessageTurn`, `TLAPS` |
| `MC*` | small instances for TLC | extend the module they are named after |

### TaskRegistry
`current` is the entry of the session, `previous[t]` what `run_in_order` captured,
`phase[t]` where the task is (created, waiting for `previous`, in its operation,
in the save, in its cleanup, done, or *skipped*: cancelled before its first step,
in which case the coroutine never runs). `pending` holds the tasks in which
`CancelledError` has still to be raised, `cancelling` counts the requests (capped
at `CancelCap` = 2: further ones change nothing the code looks at), `save` is the
shielded task of `complete_before_cancel`. asyncio is external code, modelled as
far as the source relies on it: a cancelled task that awaits another passes the
cancellation on, the error is thrown at the next resumption, callbacks run in the
order in which they were scheduled. The operation a task executes is abstract
here (`BeginSave`, `Interrupt`, `Finish`, ...); `SearchGraph` fills it in.

A cancellation acts where its `CancelledError` is thrown and nowhere else. `interruptible` does
look at `cancelling()` before a node, but of the current task, and LangGraph runs every node in a task
of its own that starts with a count of zero. So `Resume` starts the operation of a task that was
cancelled in `await previous`, whose error `run_in_order` suppresses, and nothing in the graph learns of it.

### SessionStore, SearchGraph, AgentService
A request, its message, its run and its task correspond one to one, so one
identifier stands for all. What a plan says is abstracted to the set of messages
whose conditions it contains; that is what decides whether a condition was lost.
A search result is `OK` (also for `EMPTY`), `NEEDS_CLARIFICATION`, `ERROR`,
`CANCELLED` or `SUPERSEDED`, with the version of its plan.

A write transaction is one action: SQLite has one writer and the repositories read
the row they change in the same transaction. Where the code decides on a row in
one transaction and writes in another, or reads before its first write, there are
two actions, and any other request may act between them. A read-only transaction
is one action, together with the code up to the next await that others can see:
`parse_plan`, `validate` and `resolve_entities` touch no shared row and are one
step with a chosen outcome. A commit that was handed to the database when the task
was cancelled may land or be rolled back, and the task learns neither: the actions
`ClarifyWrite`, `Finalize`, `HandlerWrite` and the like are enabled although a
cancellation is pending, and end in a node ("written", "handled") from which the
pending error is raised.

`AgentService` has one action per stretch of a handler between two awaits.
Requests are sent in any order, each once; route types are constants, except that
one message may be in both `Unknowns` and `Chats` (the router may take it for
either). `RefinesRegistry` states that the composed system implements
`TaskRegistry!Spec`, so that what is proved of tasks there holds of the runs here.

### MessageIntake
The message row (`sequence`, `route`, `outcome`), the run it leaves (`run`), the
write lock and the place of each attempt. Execution is abstracted to what
`handle_message` and a retry can see of it. `Crash` ends every attempt under way,
frees the lock and leaves the rows. The outcome is stored by a transaction that
reads the row and writes it at the commit without holding it: `ReadOutcome`,
`WriteOutcome`. History variables: `told` (attempts sent after the client had been
told the final outcome) and `handled` (attempts that executed their message).

### ClarificationDialog
The draft with its conditions, codes and open items, Java's verdict on each text,
the card and the phase. `company` stands for the three list fields, which the code
treats alike. A code is known by its origin: made up by the model in its draft, an
option of the model chosen by the user, or Java's. The field path of an open item is a
field and a position, and only a list field has one: `Ambiguity` says so, since an item about
a city at a position, which the code has no path for, could never be answered away. Lists
are filtered with `FlattenSeq` instead of `SelectSeq`, which the provers do not know.

### PlanPatch
`version` and `conditions` are the current plan, `edit` is `values` of
`apply_plan_patch` and then the draft, `phase` the node the turn is in. A condition is
abstracted to how often each text occurs in it (`values`, so that a doubled value is
visible and the order, which decides nothing here, is not), its codes, and one attribute
(`special`: FUZZY, CURRENT, `first_degree_only`, a foreign city scope). A payload is what
passes the outer schema, `JsonValue`: the values under the right key or under an alias, a
list key with a plain string (`list()` of it gives its characters, `Letters`) or with nothing,
no object at all, a key too many. One action per operation (`Reset`, `Remove`,
`AddOrReplace`), as the loop of `apply_plan_patch` takes them; a refused one ends the turn.
`Request` and `Compiles` are `compile_search_request`. `touched` is a history variable: the
operations of the turn on each field.

### ResultPaging
Java's hits of a plan are positions `1..hits[v]`; `Served` is the page Java cuts out,
`Candidates` what the client keeps of it, `LastPage` the two ways in which the end is
recognised. `current` is the stored result of the active run, `fetching` the page calls under
way, each with what it read before (`previous`). `delivered` is a history variable, and
what the client takes references from. The steps of a page request against other requests are
in `AgentService` (which has no candidates); here a request reads everything it needs in one
action and the call of Java and the final update are another.

### MessageTurn
`turn[t]` is a message, the stage it is in, the search it waits for (`after`) and the call it waits
for (`call`, `attempt`); `settings` are chosen once among `Deployments`, and `Sent` says what may be
sent to each.

*Java.* `Answers` are the responses it can give, by HTTP status, code in the body and shape of the
data. `Wrapped` is the test of `_decode_response`, which unwraps a body only when it has both
`code` and `data`: every other body, an error code without `data` included, is taken for the data
itself. `ReplyOn` is what becomes of an answer, by the caller: `EntitiesReply`, `CitiesReply` and
`PageReply` differ in which misshapen data is refused, passed over, or an exception nobody expects.
A failure is told through the stored result of a run or through an HTTP error, by the same name.

*Cancellation*, by the rules of `TaskRegistry`. A search is `created`, takes its first step in the
order of creation (`InOrder`), and begins (`Begin`) or cancels the search before it and waits (`Wait`); a
stop cancels the search registered last. `Reached` are the searches a cancellation comes to down a chain
of waiting ones, and `Struck` those among them in which the error is raised: one that has not
started ends (`Skip`), one in the graph ends where it waits (`Interrupted`) or after the save it has begun
(`AfterSave`), and one that waits forgets it and runs.

History variables: `fault` is what was wrong outside, by the contract (`WrongWith`) and not by what
the client makes of it; `stopped` are the turns a cancellation has struck.

## 3. Runs

Deadlock is not checked anywhere: every system may come to rest when no client
sends anything more.

| Run | Instance | Shows |
|---|---|---|
| `MCTaskRegistry` | 3 tasks, stops at any time (175 000 states) | the registry's safety and that every task finishes |
| `MCAgentStop` | 2 patches that may fail and may ask, 1 stop (497 000) | plan chain, accumulation, stored answers, settled runs, refinement of the registry |
| `MCAgentPage` | 2 patches (one may ask), a page by message, a page by endpoint (1.5 million) | results bound to plans, fresh cards, pages do not displace newer searches |
| `MCAgentLive` | a search that may ask, an answer, an unclear message or chat, a stop (279 000) | every request returns |
| `MCMessageIntake` | 2 messages, 3 attempts, 1 crash (240 000) | unique sequence numbers, execution at most once, retries, every attempt ends |
| `MCClarification` | lists of up to 3 names; mixtures of a name, degree, city, 2 unsupported conditions and every kind of open item (520 000) | codes, nothing given up silently, the questions end |
| `MCPlanPatch` | `company`, `school_level` and `current_city`; 2 words, one of them a letter of the other; 8 payloads; lists of at most 2, 2 operations, 2 plans (290 000) | unnamed conditions and additions keep, plans load, requests mean the plan |
| `MCResultPaging` | up to 5 hits in pages of 2, 3 pages, 2 plans, 6 runs (1 million) | complete lists, current leaders |
| `MCMessageTurn` | 2 messages of any kind, all settings, all answers; in one deployment a stop beside them (351 000) | nobody falsely blamed, silence after a cancellation, every message ends |

The other three runs have each one property that a comment or document of the
repository states and the code does not keep (section 6).

**Bounds.** Three tasks are the least for a chain in which the middle one is
skipped or cancelled twice, which is where the exceptions of the safety properties
come from; that more tasks add nothing is proved (section 5). Two patches and a
stop give each run two sources of cancellation, hence every order of "cancelled,
saved, cancelled again"; the plan chain then has two links, and a save in between
of two saves needs overlapping graphs, which the second cancellation gives. Two
pages are enough for one to displace the other. Three attempts are the least for
a retry of a retry, and for two messages contending for one number. Three names are
the least for a stale list position to hit a wrong value. Two unsupported
conditions need two rounds. The three fields of `MCPlanPatch` are one of each kind that the code
tells apart (a list, the list with its own merging rule, a coded single value), a list of at most 2
overflows with the second addition, and two operations give each pair in each order. Five hits in pages
of two end in the middle of a page and four at the end of one; with `MaxPage` 3 the last reference is
reached. Two messages are one to be
replaced and one to replace it; a stop as a third is what it takes for a cancellation to go through a search that
waits, and for one to be forgotten there. One crash leaves every combination of stored rows
that several crashes do, as attempts lost to one crash are not continued; the
safety properties are proved for any number.

**Symmetry** is used by `MCAgentStop` only (two patches that the actions treat
alike). It checks no liveness; `RefinesRegistry` and `DeliveredRunStays` speak of
all patches alike.

**What is checked, and what breaks it.** Each property of a passing run is paired in
`PROJECT.json` with a mutated form of one definition, as a plausible mistake would
make it (an unconditional `remove`, a `previous` read too late, a version taken from
the pointer, a card that is not cleared, a page that only looks at the plan, a lock
not taken, codes not cleared...), which TLC must find violated in the same run.

*TaskRegistry.* `OneGraphAtATime`, `ReplacedIsTold`, `SaveSettledFirst`: the three
guarantees of a replacement, each with the exceptions the code has: a task skipped
before its first step waits for nobody (`SkippedBetween`), and a save whose task was
cancelled twice is abandoned. `NewestStaysRegistered`: a late `remove` never takes a
newer entry. `NoSaveAfterCancel`: a task that is replaced while its graph runs begins no
save any more. It excepts tasks that awaited a predecessor (`AwaitedReplaced`), since a
cancellation that came in that await is forgotten; what such a task may do is the subject
of `StoppedTasksSaveNothing` (section 6). `TypeOK` also says that a task waits only for one
that was told to stop.
`EveryTaskFinishes`.

*AgentService.* `PlanChain`: versions are 1, 2, 3, ... whatever saves overlap.
`PatchesAccumulate`: a patch keeps what its predecessor had. `ResultBoundToPlan`,
`AnswerIsStored`, `CardFresh`, `ActiveRunSettles`, `PageKeepsNewerSearch`,
`DeliveredRunStays` relate what a client was told, the run row, the plan and the card
across transactions; the exceptions in them (a late stop, overlapping graphs after
a second cancellation) are behaviours of the code, named in the property.
`RequestsReturn`.

*MessageIntake.* `NoInsertRefused`, `ExecutedOnce`, `RetryIsTold`, `AttemptsEnd`.

*ClarificationDialog.* `NoForgedCode`, `NothingGivenUpSilently`, `DialogEnds`.
`DialogEnds` excepts a card whose options belong to a condition that is not there
(`DeadEnd`): every answer to it is refused and only a new message gets the user on.

*PlanPatch.* `UnmentionedKept` and `AdditionsKeep`: what the docstrings of `apply_plan_patch` and
`_merge_add_value` promise for one operation, over a whole turn. `RepeatedAdditionChangesNothing`:
messages no plan has absorbed are shown to the model again, so an addition may come twice.
`PlanLoadable`: a stored plan is validated when it is read. `RequestMeansPlan`: codes carried along by a
merge, or made up by the model, do not reach Java.

*ResultPaging.* `ListEndsWithLastCandidate`, `LeadersAreCurrent`. The first needs a Java service
that keeps to the page size it is asked for: see section 6.

*MessageTurn.* `NoFalseBlame` compares `fault` with what the user is told at the end of the turn, through every
repair and whichever call it was: a user refused by the status of the response is told so and nobody who
was not refused is, a failing model is told as one and nothing else is, an outage or a misshapen answer never passes for
candidates or for a missing permission. It leaves open what the code leaves open: a misshapen answer of
Java may be told as INTERNAL_ERROR, or as names that were not found (section 6). `SilentAfterStop` speaks of
the searches a cancellation has struck. `TurnsEnd`. `TypeOK` bounds the attempts of the repair loop.

## 4. Fairness

* `TaskRegistry`: weak fairness of each task's steps. The event loop runs every ready
  callback; a save ends because the database answers or raises; an operation returns
  because the model and HTTP clients have timeouts. No fairness for arrivals or stops.
* `AgentService`: weak fairness of each handler once its request was sent, of each
  graph's next step and of a save that has begun, for the same reasons.
* `MessageIntake`: weak fairness of each attempt. `asyncio.Lock` is granted in the order
  of asking, so an attempt waiting for it is not overtaken for ever.
* `MessageTurn`: weak fairness of each message, its own steps and the answers it waits for taken
  together: both clients have timeouts, so an answer or its failure comes. No fairness for sending.
* `PlanPatch` and `ResultPaging` state no liveness and no fairness.
* `ClarificationDialog`: the graph proceeds, and the user keeps answering in a way the
  card accepts. The second is an assumption about the user, and `DialogEnds` says
  only what happens to one who goes on.

## 5. Proofs

`tlapm` checks every proof; nothing is assumed but the named assumptions on
constants.

*`TaskRegistryProofs`*, for any set of tasks. The safety invariants are not inductive:
that task *u* runs only after every older one has finished depends on what each task
between them has captured and seen. The invariant `IInv` adds
`Order` (ranks number the tasks in the order of creation, without gaps),
`Registered` (the entry is the newest task; if it is empty the newest task is done),
`Links` (a task's `previous` is the task created just before it; if it has none, that
task is done) and `SaveHeld` (an open save belongs to a task in its save, or to one
cancelled twice). `Links` is what turns "waits for its predecessor" into "every older
task has finished", rank by rank. One lemma per action shows that it
keeps `IInv`; the theorems follow: `TypeCorrect`, `GraphsRunOneAtATime`,
`ReplacedTasksAreTold`, `SavesSettleFirst`, `RegistryHoldsNewest`,
`ReplacedTasksSaveNothing` (an action property, of
tasks that awaited nobody). Two more give the part of
`EveryTaskFinishes` that needs no fairness, for chains of any length: `NobodyWaitsInCircles` (the oldest
unfinished task, which exists because ranks are natural numbers, has finished predecessors by
`Links` and, by `SaveBegun`, awaits no save that was never begun, so the guard of one of its actions holds) and
`TasksTakeFewSteps` (each step of a task or its save lowers `StepsLeft`, and no cancellation raises it).

*`MessageIntakeProofs`*, for any sets of messages and attempts and any number of
crashes. `IInv` adds `UnderLock` (whoever is between reading the number and the insert
holds the lock, and what it has read is still true), `Handled` (what was executed is
stored, and an attempt inside `append_user` has executed nothing), `Unrouted` (a message
without a route has neither run nor outcome), `Routing` (an executing attempt finds the
route missing until it stores it; a prepared reply speaks of a routed message) and
`Snapshots` (a stored outcome is final, a final answer is stored, and a retry sent after
one is given a final reply and executes nothing). The theorems: `TypeCorrect`, `InsertsSucceed`,
`MessagesExecuteOnce`, `RetriesAreTold`.

*`PlanPatchProofs`*, for any fields, words, payloads, drafts and bounds. What a plan promises is not
inductive, as operations work on a copy and are checked one by one. `IInv` adds `Sound` (each condition of the
draft and of the plan fits its model, but for the scope of a city, which is looked at when the
patch is finished), `Resolved` (codes and values agree once Java was asked, and in the plan) and
`FromPlan` (while a turn goes on, each condition relates to the plan's as the operations in
`touched` allow). Lemmas say what one operation does to one condition (`MergedKeeps`,
`ChangedSound`, ...), and the action properties follow at `Save`. Theorems: `TypeCorrect`, `PlansLoad`,
`RequestsMeanPlans`, `UnmentionedConditionsStay`, `AdditionsLoseNothing`,
`RepeatedAdditionsChangeNothing`.

*`MessageTurnProofs`*, for any set of messages, sent to any deployments. `IInv` adds `CallsFit` (a call belongs
to a stage that makes it), `Repairing` (a turn that goes on has no fault behind it but a model output that is being
repaired: this is why the last fault is the one to tell) and `StoppedEnds` (a turn that a cancellation has
struck stays cancelled until it is over; those it only passes through are not struck). `RepliesFit` goes through
what each caller makes of each answer, and `CancelFits` says that a cancellation, however long the chain it goes
down, changes nothing of a turn but that it is cancelled. Theorems: `TypeCorrect`,
`NobodyIsFalselyBlamed`, `StoppedTurnsAreSilent`.

*`ResultPagingProofs`*, for any page sizes, lists and numbers of plans and runs. `IInv` adds `Faithful` (a result
that was sent is a page of a saved plan's list, and names the next page exactly when Java has more),
that a search which fetches has a plan, and that no page is fetched for a plan to come. The
arithmetic is in two lemmas (`ProductsKeepOrder`, `PageOfPosition`). Theorems: `TypeCorrect`,
`LeadersStayCurrent`, and `ListsEndWithLastCandidate`, whose statement names its condition
`ServerSize <= PageSize`: without it the property does not hold (section 6).

*`AgentServiceProofs`*, for any sets of patches, answers, pages, chats, unclear messages and stops, any of
which may overlap. None of the properties is inductive. `IInv` joins them and adds, in four layers:

* places: which variables a handler at a place has set (`PlaceFits`), which node a task in a
  phase of the registry may be at and what is written by then (`NodeFits`), and the whole invariant of
  `TaskRegistryProofs`, instantiated with the session's tasks (`RegistryFacts`);
* plans: each belongs to a settled save, has the number after the one its task loaded, and shares it with no
  other; what a patch holds includes the plan it loaded (`PlansFit`);
* answers: when a run has been created and which results its row may hold (`RunFits`), and what
  the task of a request has returned is in the row already (`OutFits`);
* reads that go stale: while no graphs overlap, a graph that may still ask has loaded the newest plan
  (`LoadFresh`); while the active run is the one a page refers to, no search is newer than the page (`PageFits`).

Handlers and graph steps are treated apart: one lemma per layer shows what a handler step, and one what a
graph step, does to it. The card is the hard one: that no save falls between reading the plan and storing
the card needs `OneGraphAtATime` and `SaveHeld` of the registry, whose exceptions (a task skipped before its
first step, one cancelled twice) are those of `CardFresh`. The refinement is proved step by step
(`StepMaps`): each action of the service is an action of `TaskRegistry` or leaves its variables alone.
Theorems: `TypeCorrect`, `PlansAreNumbered`, `PatchesKeepConditions`, `ResultsNameTheirPlan`,
`AnswersAreStored`, `ActiveRunsSettle`, `CardsAreFresh`, `ServiceRefinesRegistry`, the action properties
`PagesKeepNewerSearch` and `DeliveredRunsStay`, `SessionKeepsRegistryPromises` (what is
proved of tasks holds of the session's) and `SearchesNeverWaitInCircles`.

*`ClarificationDialogProofs`*, for any names, any drafts with lists of any length, and any verdicts of Java. `IInv`
adds that the pending card is the question about the first open item of the stored draft (`AskedAboutDraft`:
without it an answer could be applied to an item that nobody was asked about), that what the user owes
is what the draft still holds (`OwedStands`), that Java is asked about drafts with nothing else to ask
(`ResolvesWhatIsClear`), and that codes are clean from then on (`CodesAreClean`). Theorems: `TypeCorrect`,
`SavedCodesAreNotForged`, `SavedPlansOweNothing`, and `EndComesEverCloser`: every step but a refused answer
decreases, lexicographically, the unsupported conditions, the open scope, a bound on the resolutions
to come, the open items and the rest of the round. The bound is the delicate part, as Java's
answer adds items: the resolutions to come are at most the conditions that can still be asked about, plus one
while an open item may send the draft back without settling any (an item the model left open, or a position that has
moved). The natural numbers being well founded, no dialogue goes on for ever; that a dialogue is not left
standing is the fairness part of `DialogEnds`, which TLC checks. The lists
need induction, which is done by a least counterexample (`LeastNatural`, from the well-foundedness theorems
of the library): `FlattenSeq` is recursive, and `ConcatenationsExist`, `FlattenType`, `FlattenShorter`
say what it returns.

Every invariant and every action property of a passing run, and the refinement, is a theorem. Only model-checked:
liveness (`EveryTaskFinishes`, `RequestsReturn`, `AttemptsEnd`, `DialogEnds`, `TurnsEnd`), as fairness and `ENABLED`
are out of the prover's reach.

## 6. Where code and documentation differ

| Run | Observation |
|---|---|
| `MCClarification_SavedIsResolved` | `agent_service.py:303-305` skips the resolution after a choice among options because the other codes come from Java's last answer; a degree chosen before has just lost its code, a model-offered city choice comes before Java was asked at all. The saved plan holds a condition without a code, or with one the model made up. |
| `MCTaskRegistry_StoppedTasksSaveNothing` | `interruptible.py:13` promises that a node responds to a cancellation before and after its call. A search that is stopped or replaced while it waits for the one before it has its `CancelledError` suppressed (`task_registry.py:46`), and the nodes look at the count of LangGraph's tasks (`interruptible.py:19`), which is zero: it asks the model, saves its plan and searches. |
| `MCMessageIntake_OutcomeStays` | Two attempts both find the outcome empty, and the later commit overwrites the stored reply. |

Modelling showed more deviations that have no run of their own.

*Requests.* Messages are routed concurrently. If the newer of two is routed first and saves, it records its own
sequence as absorbed; the run of the older one then finds no message to parse and answers OK from a plan without its
condition (`nodes.py:295`). A replacement whose predecessor was skipped starts beside the task before it
(the exception `SkippedBetween`); a second cancellation leaves a save open while the
replacement reads the plan (the exception in `SaveSettledFirst`); a stop cancels whatever
task is registered when it gets there, and may overwrite a run that has succeeded (the
exception in `DeliveredRunStays`); RUNNING is written over SUPERSEDED and, cancelled in that
write, the run stays RUNNING for ever (`agent_service.py:414`; `enums.py:23` calls it "executing
graph nodes"); the draft of an answer is saved as it was stored with the card, over conditions
patched in meanwhile (`agent_service.py:307`; `README.md:99` of the repository says a new run continues
from the latest plan); when routing fails, the message is stored and never executed.

*Dialogue.* Open items name list positions, and ignoring one moves the rest: the second IGNORE
removes another company than the one shown (`agent_service.py:334` against line 322). IGNORE on an open item
about work years, or about a preference no field expresses, is refused. A bare city is only asked about
when it is the only one of the draft and the plan had none (`plan_validation.py:46-57` against the
comment at line 12). A city that is in two groups of Java's dictionary gives two identical options
(`java_talent.py:213-247`). In browser mode a draft without cities asks Java nothing before the plan is
saved, so that a missing login is noticed only afterwards.

*Patches.* ADD on a list that is there with a plain string under its key appends the characters of the
string (`plan.py:314`); with a value that is no object it raises `AttributeError`, which is told as
INTERNAL_ERROR where every other malformed patch is a MODEL_ERROR (`nodes.py:149` catches
`ValidationError` only). The scope that comes with added companies is dropped. A patch based on
another version, or one whose values do not fit, is not sent back to the model for repair.

*Pages.* A Java service that ignores the page size, which the comment at `java_talent.py:280` expects,
loses the rest of each of its pages: the client keeps the first ten and asks for the next page
(`MCResultPaging` sets `ServerSize` = `PageSize`). A page that has a successor at the greatest page number
fails after its run was committed. "Next page" after a failed search or a card counts from page 1 of a plan of
which page 1 was never shown (`agent_service.py:206`). A page and an intent card can take the active pointer from a search
that is still running; a page whose search call failed leaves its run QUEUED.

*Failures.* `enums.py:40` names DEPENDENCY_ERROR for Java, but an answer that fails validation instead of a check
of its own (a page that is no object or has no list, a count that is no number; `java_talent.py:299`) is told as
INTERNAL_ERROR. A body with an error code and no `data` is not unwrapped (`java_talent.py:148`): a page of this
kind is an INTERNAL_ERROR too, and to `resolve_entities` and the dictionary of cities it is an empty answer, so that
the user is asked about names Java never looked up, even when the code was 401. `docs/java-contract.md:14` and `java_talent.py:238` speak of TEXT cities in browser mode;
`_label_values` always sends LABEL. `affects_active_run` is never read.

## 7. Abstractions and what is not modelled

* One process, as `main.py` starts it: the registry and the write lock live in memory.
* `AgentService` has no crashes: nothing recovers runs at start-up and nothing claims to.
  Crashes are in `MessageIntake`, where retries make promises across them.
* Clients do not disconnect in the middle of a request; database errors in bookkeeping
  transactions (`_finish_error`, the handlers, `await previous` raising something else
  than `CancelledError`) are left out.
* A read transaction of a handler is one action; ownership checks and several sessions
  are left out: no row is shared between sessions but the lock.
* `TaskRegistry.replace` and `is_active` are not used by the service.
* In the dialogue Java knows the labels of the closed degree list, and the texts of a draft
  do not change their verdict between rounds. The parsing of work-year options is a chosen outcome.
* `PlanPatch` has one turn at a time and ends a turn that has to ask: what overlapping turns do to a plan is in
  `AgentService`, what an answer does in `ClarificationDialog`. Its plans all went through resolution;
  those that skipped it are the subject of `SavedIsResolved`. Degree and work-year ranges are values like
  others.
* `ResultPaging` has one search at a time, as `TaskRegistry` justifies, and Java's hits of a plan do
  not change while its pages are read.
* `ResultPaging`: a response that has neither the flag of the last page nor a number of pages
  (`java_talent.py:288`) is left out.
* `MessageTurn` keeps of the storage only whether there is a plan; database errors are left out here too. That
  a run whose row was set aside is told SUPERSEDED instead of its own result is in `AgentService`.
* LangGraph and asyncio are external. Of LangGraph the models use that every node runs in a task of its own.
* Not modelled: the fields of a candidate card and the matching of city names in Java's dictionary, the
  ranges and match modes of the search request, session queries (reads), start-up and telemetry (no
  state the other parts read back). The reasons are in `PROJECT.json`.

## 8. Plan

Done, in this order: `TaskRegistry` and its proofs; `SessionStore`, `SearchGraph`,
`AgentService`; `MessageIntake` and its proofs; `ClarificationDialog`; `PlanPatch` and its proofs;
`ResultPaging` and its proofs; `MessageTurn` and its proofs; the proofs of `AgentService` and of
`ClarificationDialog`.

Next:

1. An abstract specification of a session (plans only grow, one active run, each message answered
   once) that `AgentService` implements up to the exceptions above.
2. A decreasing measure for the repair loop of `MessageTurn` and for the attempts of `MessageIntake`, as for the
   dialogue.
