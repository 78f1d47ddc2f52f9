----------------------------- MODULE MessageTurn -----------------------------
(***************************************************************************)
(* One message from its routing to its reply, and what it asks of the      *)
(* outside: MessageRouter.route, InternalLLMClient, JavaTalentClient, the  *)
(* graph nodes that call them, and the translation of failures in          *)
(* _execute_graph and api/errors.py.                                       *)
(*                                                                         *)
(* Model and Java may answer anything they can answer, late, or not at     *)
(* all.  A search waits for the one registered before it, which it cancels *)
(* on its first step; a stop cancels the search registered last.  The      *)
(* rules by which tasks are created, skipped, awaited and cancelled are    *)
(* those of TaskRegistry, kept here with the calls that a cancellation     *)
(* must end.                                                               *)
(*                                                                         *)
(* Of the storage only the existence of a plan is kept.  What is written,  *)
(* and that a run whose row was set aside is told SUPERSEDED instead of    *)
(* its own result, is AgentService.                                        *)
(***************************************************************************)
EXTENDS Integers

CONSTANTS
    Turns,          \* the messages sent
    NoTurn,         \* "no search registered", "nobody to wait for"
    Deployments,    \* the settings the service may run with
    Sent            \* of each deployment: what each message may be

VARIABLES
    settings,   \* of the deployment
    plan,       \* whether the session has a plan
    turn,       \* the message, how far it is, and the call it waits for
    last,       \* the search registered last, finished or not
    fault,      \* history: what went wrong outside in each turn
    stopped     \* history: the turns a cancellation struck

vars == <<settings, plan, turn, last, fault, stopped>>

\* What the router can tell about a message: that it answers a card, that it is
\* one of the fixed words, and which markers it contains.
Controls == {"casual", "stop", "status", "page"}
Messages == Controls \cup {"answer", "new marker", "patch marker", "both markers", "other"}

Routes == {"CASUAL_CHAT", "STATUS_QUERY", "CONTROL_STOP", "PAGE_ACTION",
           "CLARIFICATION_ANSWER", "SEARCH_NEW", "SEARCH_PATCH", "UNKNOWN"}

\* JavaTalentClient.__init__ refuses a required cookie for another host.
Settings == {s \in [repairs : 0..1, key : BOOLEAN, browser : BOOLEAN,
                    cookieRequired : BOOLEAN, cookieHost : BOOLEAN] :
                s.cookieRequired => s.cookieHost}

ASSUME NoTurnAssumption == NoTurn \notin Turns
ASSUME DeploymentsAssumption == Deployments \subseteq Settings
ASSUME SentAssumption ==
    Sent \in [Settings -> [Turns -> SUBSET [kind : Messages, cookie : BOOLEAN]]]

\* A message before it is sent, or when nothing of it matters but its reply.
Resting(stage, outcome) ==
    [stage |-> stage, message |-> "none", cookie |-> FALSE, drafted |-> FALSE,
     needs |-> "nothing", call |-> "none", attempt |-> 0, after |-> NoTurn,
     cancelled |-> FALSE, outcome |-> outcome]

Unsent == Resting("unsent", "none")

Init ==
    /\ settings \in Deployments
    /\ plan \in BOOLEAN
    /\ turn = [t \in Turns |-> Unsent]
    /\ last = NoTurn
    /\ fault = [t \in Turns |-> "none"]
    /\ stopped = {}

Finished(outcome) == Resting("done", outcome)

-----------------------------------------------------------------------------
(* What Java answers, and what the client makes of it *)

\* HTTP status (0: no answer), the code in the body (0: none), and its data: as
\* agreed ("fits"), null, no object, an object without the agreed key, a list
\* or an identifier missing in it ("gap"), a value that fails validation
\* ("bad"), a body that is no JSON, a code without `data` ("absent").
Answer(http, code, data) == [http |-> http, code |-> code, data |-> data]

Answers ==
    {Answer(h, 0, "null") : h \in {0, 302, 401, 403, 404, 500}}
        \cup {Answer(200, 0, "unreadable"), Answer(200, 200, "absent")}
        \cup {Answer(200, c, d) : c \in {401, 403, 500}, d \in {"null", "absent"}}
        \cup {Answer(200, c, d) : c \in {0, 200},
                                 d \in {"fits", "null", "other", "object", "gap", "bad"}}

\* _decode_response unwraps a body with both keys; every other body is the data.
Wrapped(a) == a.http = 200 /\ a.code # 0 /\ a.data # "absent"

Shape(a) == IF a.data = "absent" THEN "object" ELSE a.data

\* Mutated form: only the HTTP status is looked at.
RefusedByStatus(a) == a.http \in {401, 403} \cup 300..399

\* _decode_response: the login has expired or the user may not search.
Refused(a) ==
    \/ a.http \in {401, 403} \cup 300..399
    \/ Wrapped(a) /\ a.code \in {401, 403}

\* _post and _decode_response: no answer, an error status, an unreadable body,
\* another code in the wrapper.
Broken(a) == a.http # 200 \/ a.data = "unreadable" \/ (Wrapped(a) /\ a.code # 200)

\* resolve_entities: without the key there are no results, and every name is
\* asked about; a misshapen list or result is an exception nobody expects.
EntitiesReply(shape) ==
    CASE shape = "fits" -> "none"
      [] shape \in {"null", "other"} -> "DEPENDENCY_ERROR"
      [] shape = "object" -> "NEEDS_CLARIFICATION"
      [] shape \in {"gap", "bad"} -> "INTERNAL_ERROR"

\* _resolve_browser_entities: what is no list of cities with an identifier is
\* passed over, and the city is not found.
CitiesReply(shape) ==
    CASE shape = "fits" -> "none"
      [] shape \in {"null", "other"} -> "DEPENDENCY_ERROR"
      [] shape \in {"object", "gap"} -> "NEEDS_CLARIFICATION"
      [] shape = "bad" -> "INTERNAL_ERROR"

\* search_candidates: of what is not a page only null, a `list` that is none and
\* a candidate without identifier are told apart; the rest fails validation.
PageReply(shape) ==
    CASE shape = "fits" -> "none"
      [] shape \in {"null", "gap"} -> "DEPENDENCY_ERROR"
      [] shape \in {"other", "object", "bad"} -> "INTERNAL_ERROR"

\* What the turn is told of an answer; "none" when it goes on.
ReplyOn(r, a) ==
    CASE Refused(a) -> "DENIED"
      [] ~Refused(a) /\ Broken(a) -> "DEPENDENCY_ERROR"
      [] ~Refused(a) /\ ~Broken(a) ->
            IF r.stage # "resolve" THEN PageReply(Shape(a))
            ELSE IF settings.browser THEN CitiesReply(Shape(a)) ELSE EntitiesReply(Shape(a))

\* _headers, before anything is sent.
HeaderFailure(r) ==
    CASE r.cookie /\ ~settings.cookieHost -> "DEPENDENCY_ERROR"
      [] ~r.cookie /\ settings.cookieRequired -> "DENIED"
      [] OTHER -> "none"

-----------------------------------------------------------------------------
(* Routing *)

\* The rules of the router in their order; "ask" when the model must decide.
RuleFor(message) ==
    CASE message = "answer" -> "CLARIFICATION_ANSWER"
      [] message = "casual" -> "CASUAL_CHAT"
      [] message = "stop" -> "CONTROL_STOP"
      [] message = "status" -> "STATUS_QUERY"
      [] message = "page" -> "PAGE_ACTION"
      [] message \in {"new marker", "both markers"} -> "SEARCH_NEW"
      [] message = "patch marker" -> "SEARCH_PATCH"
      [] OTHER -> "ask"

-----------------------------------------------------------------------------
(* Waiting and cancelling: start_replacement, run_in_order, cancel *)

\* The turns a cancellation of t reaches: a search that waits passes it on to
\* the one it waits for.
Reached(t) ==
    {u \in Turns : \A S \in SUBSET Turns :
        (t \in S /\ \A w \in S : turn[w].stage = "queued" /\ turn[w].after \in Turns
                                     => turn[w].after \in S)
        => u \in S}

\* Those it strikes: a search that waits suppresses its own CancelledError and
\* knows nothing of it when it runs; a task that has ended ignores it.
Struck(t) ==
    {u \in Reached(t) : turn[u].stage \in {"created", "parse", "resolve", "save", "search"}}

\* CancelledError is raised where the task goes on next.
CancelFrom(t) ==
    [u \in Turns |-> IF u \in Struck(t) THEN [turn[u] EXCEPT !.cancelled = TRUE] ELSE turn[u]]

\* The event loop takes the first steps in the order of creation.
InOrder(t) == turn[t].after \in Turns => turn[turn[t].after].stage # "created"

NothingAhead(t) == turn[t].after \in Turns => turn[turn[t].after].stage = "done"

\* The first step of a search, or the end of the one it waits for, which may
\* have ended by the cancellation.
Begin(t) ==
    /\ turn[t].stage \in {"created", "queued"} /\ ~turn[t].cancelled
    /\ NothingAhead(t)
    /\ turn' = [turn EXCEPT ![t] = [@ EXCEPT !.stage = "parse", !.after = NoTurn]]
    /\ UNCHANGED <<settings, plan, last, fault, stopped>>

\* The first step while the search before it is not over: it is told to stop,
\* and awaited.
Wait(t) ==
    /\ turn[t].stage = "created" /\ ~turn[t].cancelled
    /\ InOrder(t) /\ ~NothingAhead(t)
    /\ turn' = [CancelFrom(turn[t].after) EXCEPT ![t] = [@ EXCEPT !.stage = "queued"]]
    /\ stopped' = stopped \cup Struck(turn[t].after)
    /\ UNCHANGED <<settings, plan, last, fault>>

\* A task cancelled before its first step does not take it.
Skip(t) ==
    /\ turn[t].stage = "created" /\ turn[t].cancelled /\ InOrder(t)
    /\ turn' = [turn EXCEPT ![t] = Finished("CANCELLED")]
    /\ UNCHANGED <<settings, plan, last, fault, stopped>>

-----------------------------------------------------------------------------
(* What becomes of a routed message *)

\* Searches replace what runs (_start_search_run).
Searching == {"SEARCH_NEW", "SEARCH_PATCH", "CLARIFICATION_ANSWER"}

\* _handle_message after routing, for a message that has not failed.
ReplyTo(route) == IF route = "UNKNOWN" THEN "CARD" ELSE "TALK"

\* A structured answer may end here: it asks for no search, or the card is gone.
Routed(t, route) ==
    LET r == [turn[t] EXCEPT !.message = "none", !.drafted = turn[t].message = "answer",
                             !.call = "none", !.attempt = 0] IN
    \/ /\ route \in {"CASUAL_CHAT", "STATUS_QUERY", "UNKNOWN"}
       /\ turn' = [turn EXCEPT ![t] = Finished(ReplyTo(route))]
       /\ UNCHANGED <<last, stopped>>
    \/ /\ route = "PAGE_ACTION"
       /\ \/ turn' = [turn EXCEPT ![t] = Finished("STALE_PAGE_REFERENCE")]
          \/ plan /\ turn' = [turn EXCEPT ![t] = [r EXCEPT !.stage = "page"]]
       /\ UNCHANGED <<last, stopped>>
    \/ /\ turn[t].message = "answer"
       /\ \E outcome \in {"TALK", "INVALID_CLARIFICATION_ANSWER"} :
             turn' = [turn EXCEPT ![t] = Finished(outcome)]
       /\ UNCHANGED <<last, stopped>>
    \/ /\ route \in Searching
       /\ turn' = [turn EXCEPT ![t] = [r EXCEPT !.stage = "created", !.after = last]]
       /\ last' = t
       /\ UNCHANGED stopped
    \/ /\ route = "CONTROL_STOP" /\ last = NoTurn
       /\ turn' = [turn EXCEPT ![t] = Finished("STOPPED")]
       /\ UNCHANGED <<last, stopped>>
    \/ /\ route = "CONTROL_STOP" /\ last # NoTurn
       /\ turn' = [CancelFrom(last) EXCEPT ![t] = Finished("STOPPED")]
       /\ stopped' = stopped \cup Struck(last)
       /\ UNCHANGED last

\* The plan the router goes by is read once, when the message is stored; without
\* one a patch marker means nothing.
Send(t) ==
    /\ turn[t].stage = "unsent"
    /\ \E m \in Sent[settings][t] :
          /\ m.kind = "patch marker" => plan
          /\ turn' = [turn EXCEPT ![t] =
                        [@ EXCEPT !.stage = "route", !.message = m.kind, !.cookie = m.cookie]]
    /\ UNCHANGED <<settings, plan, last, fault, stopped>>

RouteByRule(t) ==
    /\ turn[t].stage = "route" /\ turn[t].call = "none"
    /\ RuleFor(turn[t].message) # "ask"
    /\ Routed(t, RuleFor(turn[t].message))
    /\ UNCHANGED <<settings, plan, fault>>

-----------------------------------------------------------------------------
(* The language model: _invoke_structured, for routing, drafts and patches *)

\* An answered card has its draft, which is not parsed again.
NeedsModel(r) ==
    \/ r.stage = "route" /\ RuleFor(r.message) = "ask"
    \/ r.stage = "parse" /\ ~r.drafted

\* Without a key there is no client to ask (UnavailableLLMClient).
AskModel(t) ==
    /\ turn[t].call = "none" /\ NeedsModel(turn[t]) /\ ~turn[t].cancelled
    /\ IF settings.key
       THEN /\ turn' = [turn EXCEPT ![t].call = "model"]
            /\ UNCHANGED fault
       ELSE /\ turn' = [turn EXCEPT ![t] = Finished("MODEL_ERROR")]
            /\ fault' = [fault EXCEPT ![t] = "model"]
    /\ UNCHANGED <<settings, plan, last, stopped>>

\* Mutated form: one repair too many.
LastAttemptLate(r) == r.attempt > settings.repairs

LastAttempt(r) == r.attempt >= settings.repairs

\* Mutated form: the attempt is not counted.
AgainUncounted(r) == [r EXCEPT !.call = "none"]

Again(r) == [r EXCEPT !.call = "none", !.attempt = r.attempt + 1]

\* The output is not what was asked for: ask again while repairs are left.
ModelIsMalformed(t) ==
    /\ turn[t].call = "model" /\ ~turn[t].cancelled
    /\ turn' = [turn EXCEPT ![t] = IF LastAttempt(@) THEN Finished("MODEL_ERROR")
                                   ELSE Again(@)]
    /\ fault' = [fault EXCEPT ![t] = "model"]
    /\ UNCHANGED <<settings, plan, last, stopped>>

\* A timeout or an error of the gateway is not retried.  Nor is a patch of
\* another version, or one whose values do not fit the plan (parse_plan).
ModelFails(t) ==
    /\ turn[t].call = "model" /\ ~turn[t].cancelled
    /\ turn' = [turn EXCEPT ![t] = Finished("MODEL_ERROR")]
    /\ fault' = [fault EXCEPT ![t] = "model"]
    /\ UNCHANGED <<settings, plan, last, stopped>>

\* After parsing: a card, or resolution of the names in the draft.
Parsed(t) ==
    \/ turn' = [turn EXCEPT ![t] = Finished("NEEDS_CLARIFICATION")]
    \/ \E needs \in {"nothing", "names", "cities"} :
          turn' = [turn EXCEPT ![t] =
                      [@ EXCEPT !.stage = "resolve", !.call = "none", !.needs = needs]]

ModelAnswers(t) ==
    /\ turn[t].call = "model" /\ ~turn[t].cancelled
    /\ IF turn[t].stage = "route" THEN \E route \in Routes : Routed(t, route)
       ELSE Parsed(t) /\ UNCHANGED <<last, stopped>>
    /\ fault' = [fault EXCEPT ![t] = "none"]
    /\ UNCHANGED <<settings, plan>>

-----------------------------------------------------------------------------
(* The graph *)

\* The restored draft: its codes may already be there (entities_resolved).
ParseRestored(t) ==
    /\ turn[t].stage = "parse" /\ turn[t].drafted /\ ~turn[t].cancelled
    /\ \/ Parsed(t)
       \/ turn' = [turn EXCEPT ![t] = [@ EXCEPT !.stage = "save", !.needs = "skipped"]]
    /\ UNCHANGED <<settings, plan, last, fault, stopped>>

\* Whether Java is asked at all: the browser interface has a dictionary for
\* cities only, and a draft without names has no requests.
NeedsJava(r) ==
    \/ r.stage = "resolve" /\ (r.needs = "cities" \/ (r.needs = "names" /\ ~settings.browser))
    \/ r.stage \in {"search", "page"}

\* Every name has been looked up: a card, or the plan is saved.
Resolved(t) ==
    \/ turn' = [turn EXCEPT ![t] = Finished("NEEDS_CLARIFICATION")]
    \/ turn' = [turn EXCEPT ![t] = [@ EXCEPT !.stage = "save", !.call = "none"]]

ResolveAlone(t) ==
    /\ turn[t].stage = "resolve" /\ ~NeedsJava(turn[t]) /\ ~turn[t].cancelled
    /\ Resolved(t)
    /\ UNCHANGED <<settings, plan, last, fault, stopped>>

\* Mutated form: the CancelledError is not raised again after the save.
AfterSaveForgets(r) == [r EXCEPT !.stage = "search", !.cancelled = FALSE]

\* complete_before_cancel: a save that has begun is completed, cancelled or not.
AfterSave(r) == IF r.cancelled THEN Finished("CANCELLED") ELSE [r EXCEPT !.stage = "search"]

Save(t) ==
    /\ turn[t].stage = "save"
    /\ plan' = TRUE
    /\ turn' = [turn EXCEPT ![t] = AfterSave(@)]
    /\ UNCHANGED <<settings, last, fault, stopped>>

\* compile_search, in the graph and for a page: a condition whose code is
\* missing, or is no number.
CompileFails(t) ==
    /\ turn[t].call = "none" /\ ~turn[t].cancelled
    /\ \/ turn[t].stage = "page"
       \/ turn[t].stage = "search" /\ turn[t].needs \in {"skipped", "cities"}
    /\ turn' = [turn EXCEPT ![t] = Finished("INTERNAL_ERROR")]
    /\ fault' = [fault EXCEPT ![t] = "code"]
    /\ UNCHANGED <<settings, plan, last, stopped>>

AskJava(t) ==
    /\ turn[t].call = "none" /\ NeedsJava(turn[t]) /\ ~turn[t].cancelled
    /\ IF HeaderFailure(turn[t]) = "none"
       THEN /\ turn' = [turn EXCEPT ![t].call = "java"]
            /\ UNCHANGED fault
       ELSE /\ turn' = [turn EXCEPT ![t] = Finished(HeaderFailure(turn[t]))]
            /\ fault' = [fault EXCEPT ![t] = IF turn[t].cookie THEN "setup" ELSE "login"]
    /\ UNCHANGED <<settings, plan, last, stopped>>

\* What is wrong with an answer, by the contract and not by what is made of it:
\* the user is refused, by the status or in the body, or Java fails.
WrongWith(a) ==
    IF a.http \in {302, 401, 403} THEN "login"
    ELSE IF a.code \in {401, 403} THEN "body"
    ELSE IF a.http = 200 /\ a.code \in {0, 200} /\ a.data = "fits" THEN "none" ELSE "java"

JavaAnswers(t, a) ==
    /\ turn[t].call = "java" /\ ~turn[t].cancelled
    /\ IF ReplyOn(turn[t], a) # "none"
       THEN turn' = [turn EXCEPT ![t] = Finished(ReplyOn(turn[t], a))]
       ELSE IF turn[t].stage = "resolve" THEN Resolved(t)
       ELSE turn' = [turn EXCEPT ![t] = Finished("CANDIDATES")]
    /\ fault' = [fault EXCEPT ![t] = WrongWith(a)]
    /\ UNCHANGED <<settings, plan, last, stopped>>

\* CancelledError is raised wherever the graph waits, but for the shielded
\* save, and passes through every handler of the two clients.
Interrupted(t) ==
    /\ turn[t].cancelled /\ turn[t].stage \in {"parse", "resolve", "search"}
    /\ turn' = [turn EXCEPT ![t] = Finished("CANCELLED")]
    /\ UNCHANGED <<settings, plan, last, fault, stopped>>

-----------------------------------------------------------------------------
Step(t) ==
    \/ RouteByRule(t) \/ AskModel(t) \/ Begin(t) \/ Wait(t) \/ Skip(t)
    \/ ParseRestored(t) \/ ResolveAlone(t) \/ Save(t)
    \/ CompileFails(t) \/ AskJava(t) \/ Interrupted(t)

\* An answer, or the timeout of the client.
OutsideAnswers(t) ==
    \/ ModelAnswers(t) \/ ModelIsMalformed(t) \/ ModelFails(t)
    \/ \E a \in Answers : JavaAnswers(t, a)

Next == \E t \in Turns : Send(t) \/ Step(t) \/ OutsideAnswers(t)

\* The event loop goes on with every turn that can go on, and the clients of the
\* model and of Java have timeouts.
Fairness == \A t \in Turns : WF_vars(Step(t) \/ OutsideAnswers(t))

Spec == Init /\ [][Next]_vars /\ Fairness

-----------------------------------------------------------------------------
Failures == {"MODEL_ERROR", "DENIED", "DEPENDENCY_ERROR", "INTERNAL_ERROR"}
Replies == {"TALK", "STOPPED", "CARD", "NEEDS_CLARIFICATION", "CANDIDATES", "CANCELLED",
            "STALE_PAGE_REFERENCE", "INVALID_CLARIFICATION_ANSWER"}

Stages == {"unsent", "route", "page", "created", "queued", "parse", "resolve", "save",
           "search", "done"}

Turn == [stage : Stages, message : Messages \cup {"none"}, cookie : BOOLEAN,
         drafted : BOOLEAN, needs : {"nothing", "names", "cities", "skipped"},
         call : {"none", "model", "java"}, attempt : 0..1, after : Turns \cup {NoTurn},
         cancelled : BOOLEAN, outcome : Failures \cup Replies \cup {"none"}]

Faults == {"none", "model", "login", "body", "setup", "java", "code"}

\* Every variable has its type, and no output is repaired more often than the
\* settings allow.
TypeOK ==
    /\ settings \in Settings
    /\ plan \in BOOLEAN
    /\ turn \in [Turns -> Turn]
    /\ \A t \in Turns : turn[t].attempt <= settings.repairs
    /\ last \in Turns \cup {NoTurn}
    /\ fault \in [Turns -> Faults]
    /\ stopped \subseteq Turns

\* What may be behind the reply of a turn that was not cancelled.
Truthful(outcome, f) ==
    /\ f = "model" <=> outcome = "MODEL_ERROR"
    /\ f = "login" => outcome = "DENIED"
    /\ f = "setup" => outcome = "DEPENDENCY_ERROR"
    /\ outcome = "DENIED" => f \in {"login", "body"}
    /\ outcome = "DEPENDENCY_ERROR" => f \in {"java", "setup"}
    /\ f # "none" => outcome \in Failures \cup {"NEEDS_CLARIFICATION"}
    /\ f = "none" => outcome \notin Failures

\* Nobody is blamed for the fault of another, at whichever of the calls of the
\* turn, after whichever repairs, and whether it surfaces as an HTTP error or as
\* the stored result: no refused user is told that Java is down, no outage is
\* told as a missing permission, nothing but a failing model as one, no failure
\* passes for a result, and a failure that was repaired is not told at all.
NoFalseBlame ==
    \A t \in Turns : turn[t].stage = "done" /\ turn[t].outcome # "CANCELLED"
                        => Truthful(turn[t].outcome, fault[t])

\* A search that is cancelled before its first step or in its graph sends no
\* further request to the model or to Java, in whichever call, repair or save
\* the cancellation meets it, and however many waiting searches it came through.
SilentAfterStop ==
    [][\A u \in stopped : turn'[u].call \in {turn[u].call, "none"}]_vars

\* In the end every message that was sent has its reply, whatever model and Java
\* answer, although a malformed output is asked for again and a search waits for
\* the one it replaces, which may wait as well.
TurnsEnd == <>[](\A t \in Turns : turn[t].stage \in {"unsent", "done"})
=============================================================================
