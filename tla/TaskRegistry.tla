---------------------------- MODULE TaskRegistry ----------------------------
(***************************************************************************)
(* The tasks of one conversation: infrastructure/runtime/task_registry.py  *)
(* and orchestration/interruptible.py, under asyncio's cancellation rules. *)
(*                                                                         *)
(* TaskRegistry keeps, for a session, the task that was registered last.   *)
(* start_replacement creates a task that first cancels and awaits the task *)
(* it replaces and then runs its operation (the search graph).  While the  *)
(* operation saves the plan it is shielded: complete_before_cancel keeps a *)
(* cancelled task waiting until the save has committed or rolled back.     *)
(*                                                                         *)
(* Modelled: creation, the first step of a task on the event loop, the     *)
(* delivery of a CancelledError at the next resumption, the way cancel()   *)
(* travels down a chain of waiting tasks, the shielded save as a task of   *)
(* its own, cancel() and remove() of the registry.  A section under the    *)
(* registry's asyncio.Lock contains no await, so it is one action.         *)
(*                                                                         *)
(* A cancellation acts where its CancelledError is thrown, and only there. *)
(* @interruptible reads cancelling() of the current task, and LangGraph    *)
(* runs every node in a task of its own, whose count is zero until a       *)
(* cancellation travels down to it while it runs: the check never sees     *)
(* what the registered task was told before the node began.                *)
(*                                                                         *)
(* Not modelled: replace() and is_active(), which the service never calls; *)
(* a database failure inside a task's own bookkeeping, which would make    *)
(* `await previous` raise something other than CancelledError.             *)
(***************************************************************************)
EXTENDS Naturals

CONSTANTS
    Tasks,      \* the asyncio tasks start_replacement may create
    NoTask      \* "no entry" in the registry, "no previous task"

ASSUME NoTaskAssumption == NoTask \notin Tasks

VARIABLES
    current,    \* registry._tasks.get(session_id)
    previous,   \* the task each task captured as `previous`
    phase,      \* where each task is, see Phases
    pending,    \* tasks whose next resumption throws CancelledError
    cancelling, \* task.cancelling(), saturated at CancelCap
    save,       \* the shielded operation of each task: none, open or settled
    rank,       \* history: the position of each task in creation order
    total       \* history: how many tasks were created

vars == <<current, previous, phase, pending, cancelling, save, rank, total>>

\* Nothing in the code tells three cancellation requests from two.
CancelCap == 2

\* new      not created          created  scheduled, no step taken yet
\* waiting  in `await previous`  body     in the operation, unshielded
\* saving   in the first shield  settling in the second shield
\* cleanup  in the operation's CancelledError handler
\* done     finished             skipped  cancelled before its first step
Running  == {"body", "saving", "settling", "cleanup"}
Finished == {"done", "skipped"}
Phases   == {"new", "created", "waiting"} \cup Running \cup Finished

IsDone(t)  == phase[t] \in Finished
Created(t) == phase[t] # "new"
Older(t, u) == Created(t) /\ Created(u) /\ rank[t] < rank[u]

Init ==
    /\ current = NoTask
    /\ previous = [t \in Tasks |-> NoTask]
    /\ phase = [t \in Tasks |-> "new"]
    /\ pending = {}
    /\ cancelling = [t \in Tasks |-> 0]
    /\ save = [t \in Tasks |-> "none"]
    /\ rank = [t \in Tasks |-> 0]
    /\ total = 0

-----------------------------------------------------------------------------
(* Cancellation: Task.cancel() of asyncio, as task_registry.py uses it. *)

\* The tasks t.cancel() reaches: a task suspended in `await previous` passes
\* the cancellation on to the task it awaits.
CancelReach(t) ==
    {u \in Tasks : \A S \in SUBSET Tasks :
        (t \in S /\ \A w \in S : phase[w] = "waiting" /\ previous[w] \in Tasks
                                     => previous[w] \in S)
        => u \in S}

\* Mutated form: a replacement does not tell the task it replaces to stop.
CancelIgnored(t) == UNCHANGED <<pending, cancelling>>

\* t.cancel().  Every task reached counts a request; the one at the end of the
\* chain gets the CancelledError, a waiting task suppresses its own.
Cancel(t) ==
    LET hit == {u \in CancelReach(t) : ~IsDone(u)} IN
    /\ cancelling' = [u \in Tasks |->
                        IF u \in hit /\ cancelling[u] < CancelCap
                        THEN cancelling[u] + 1 ELSE cancelling[u]]
    /\ pending' = pending \cup {u \in hit : phase[u] # "waiting"}

-----------------------------------------------------------------------------
(* start_replacement and run_in_order. *)

\* Mutated form: the closure looks the registry up after t was registered.
CapturedLate(t) == t

\* What run_in_order of t captures as `previous`.
Captured(t) == current

\* start_replacement: capture the registered task, create and register t.
StartReplacement(t) ==
    /\ phase[t] = "new"
    /\ phase' = [phase EXCEPT ![t] = "created"]
    /\ previous' = [previous EXCEPT ![t] = Captured(t)]
    /\ current' = t
    /\ total' = total + 1
    /\ rank' = [rank EXCEPT ![t] = total + 1]
    /\ UNCHANGED <<pending, cancelling, save>>

\* Mutated form: the replacement cancels the old task and does not await it.
NothingToAwaitEver(t) == TRUE

\* `previous is not None and not previous.done()` is false.
NothingToAwait(t) == previous[t] \in Tasks => IsDone(previous[t])

\* The event loop runs ready callbacks in order: a task takes its first step
\* after the task created before it took its own.
MyTurn(t) == previous[t] \in Tasks => phase[previous[t]] # "created"

\* The first step of run_in_order when there is nothing to wait for.
BeginAtOnce(t) ==
    /\ phase[t] = "created" /\ t \notin pending /\ MyTurn(t)
    /\ NothingToAwait(t)
    /\ phase' = [phase EXCEPT ![t] = "body"]
    /\ UNCHANGED <<current, previous, pending, cancelling, save, rank, total>>

\* The first step of run_in_order when the old task is still running.
CancelPrevious(t) ==
    /\ phase[t] = "created" /\ t \notin pending /\ MyTurn(t)
    /\ ~NothingToAwait(t)
    /\ phase' = [phase EXCEPT ![t] = "waiting"]
    /\ Cancel(previous[t])
    /\ UNCHANGED <<current, previous, save, rank, total>>

\* A task cancelled before its first step never runs: asyncio throws the
\* CancelledError into a coroutine that has not started.
SkipUnstarted(t) ==
    /\ phase[t] = "created" /\ t \in pending /\ MyTurn(t)
    /\ phase' = [phase EXCEPT ![t] = "skipped"]
    /\ pending' = pending \ {t}
    /\ UNCHANGED <<current, previous, cancelling, save, rank, total>>

\* `await previous` returns, or its CancelledError is suppressed; the
\* operation starts in either case, and no node of it learns of the latter.
Resume(t) ==
    /\ phase[t] = "waiting" /\ NothingToAwait(t)
    /\ phase' = [phase EXCEPT ![t] = "body"]
    /\ UNCHANGED <<current, previous, pending, cancelling, save, rank, total>>

-----------------------------------------------------------------------------
(* The operation: interruptible nodes, and one complete_before_cancel save. *)

\* save_plan runs once per graph.
BeginSave(t) ==
    /\ phase[t] = "body" /\ t \notin pending /\ save[t] = "none"
    /\ phase' = [phase EXCEPT ![t] = "saving"]
    /\ save' = [save EXCEPT ![t] = "open"]
    /\ UNCHANGED <<current, previous, pending, cancelling, rank, total>>

\* The separate save task commits or rolls back, whoever still awaits it.
SaveSettles(t) ==
    /\ save[t] = "open"
    /\ save' = [save EXCEPT ![t] = "settled"]
    /\ UNCHANGED <<current, previous, phase, pending, cancelling, rank, total>>

\* The shielded await returns, or raises the error of the save.
SaveReturns(t) ==
    /\ phase[t] = "saving" /\ t \notin pending /\ save[t] = "settled"
    /\ phase' = [phase EXCEPT ![t] = "body"]
    /\ UNCHANGED <<current, previous, pending, cancelling, save, rank, total>>

\* Mutated form: the cancelled task leaves without waiting for the save.
AfterFirstCancelAtOnce == "cleanup"

\* Where a cancellation that arrives during the save leads: the second await.
AfterFirstCancel == "settling"

\* CancelledError is thrown into the first await of the save.
InterruptSave(t) ==
    /\ phase[t] = "saving" /\ t \in pending
    /\ phase' = [phase EXCEPT ![t] = AfterFirstCancel]
    /\ pending' = pending \ {t}
    /\ UNCHANGED <<current, previous, cancelling, save, rank, total>>

\* The second await ends: with the save done the CancelledError is raised
\* again; if the save failed, its own error takes the operation's error path.
SaveSettled(t) ==
    /\ phase[t] = "settling" /\ t \notin pending /\ save[t] = "settled"
    /\ \E next \in {"cleanup", "body"} : phase' = [phase EXCEPT ![t] = next]
    /\ UNCHANGED <<current, previous, pending, cancelling, save, rank, total>>

\* A second cancellation interrupts the second await: the save goes on alone.
AbandonSave(t) ==
    /\ phase[t] = "settling" /\ t \in pending
    /\ phase' = [phase EXCEPT ![t] = "cleanup"]
    /\ pending' = pending \ {t}
    /\ UNCHANGED <<current, previous, cancelling, save, rank, total>>

\* Mutated form: a node takes the CancelledError for a failure of its own, and
\* the graph goes on.
InterruptGoesOn(t) ==
    /\ phase[t] = "body" /\ t \in pending
    /\ pending' = pending \ {t}
    /\ UNCHANGED <<current, previous, phase, cancelling, save, rank, total>>

\* CancelledError is thrown into the operation: into its CancelledError
\* handler when it has one there, out of the task otherwise.
Interrupt(t) ==
    /\ phase[t] = "body" /\ t \in pending
    /\ \E next \in {"cleanup", "done"} : phase' = [phase EXCEPT ![t] = next]
    /\ pending' = pending \ {t}
    /\ UNCHANGED <<current, previous, cancelling, save, rank, total>>

\* The operation or its handler returns, or raises for the last time.
Finish(t) ==
    /\ t \notin pending
    /\ phase[t] \in {"body", "cleanup"}
    /\ phase' = [phase EXCEPT ![t] = "done"]
    /\ UNCHANGED <<current, previous, pending, cancelling, save, rank, total>>

\* CancelledError is thrown into the handler itself.
InterruptCleanup(t) ==
    /\ phase[t] = "cleanup" /\ t \in pending
    /\ phase' = [phase EXCEPT ![t] = "done"]
    /\ pending' = pending \ {t}
    /\ UNCHANGED <<current, previous, cancelling, save, rank, total>>

-----------------------------------------------------------------------------
(* cancel and remove. *)

\* registry.cancel(session_id): cancel the registered task unless it is done.
RegistryCancel ==
    /\ current # NoTask /\ ~IsDone(current)
    /\ Cancel(current)
    /\ UNCHANGED <<current, previous, phase, save, rank, total>>

\* Mutated form: remove() pops the entry whichever task it holds.
StillRegisteredAlways(t) == current # NoTask

\* `self._tasks.get(session_id) is task`
StillRegistered(t) == current = t

\* registry.remove(session_id, t), from the request that awaited t.
Remove(t) ==
    /\ IsDone(t)
    /\ StillRegistered(t)
    /\ current' = NoTask
    /\ UNCHANGED <<previous, phase, pending, cancelling, save, rank, total>>

-----------------------------------------------------------------------------
TaskStep(t) ==
    \/ BeginAtOnce(t) \/ CancelPrevious(t) \/ SkipUnstarted(t) \/ Resume(t)
    \/ BeginSave(t) \/ SaveReturns(t) \/ InterruptSave(t) \/ SaveSettled(t)
    \/ AbandonSave(t) \/ Interrupt(t) \/ Finish(t) \/ InterruptCleanup(t)

Next ==
    \/ \E t \in Tasks : StartReplacement(t) \/ TaskStep(t) \/ SaveSettles(t)
                        \/ Remove(t)
    \/ RegistryCancel

Spec == Init /\ [][Next]_vars

\* The event loop runs every ready callback, a save ends (the database answers
\* or raises) and an operation returns (its model and HTTP calls time out).
\* Nothing obliges a request to arrive or a user to press stop.
Fairness ==
    \A t \in Tasks :
        /\ WF_vars(BeginAtOnce(t) \/ CancelPrevious(t) \/ SkipUnstarted(t))
        /\ WF_vars(Resume(t))
        /\ WF_vars(SaveSettles(t))
        /\ WF_vars(SaveReturns(t) \/ InterruptSave(t) \/ SaveSettled(t)
                   \/ AbandonSave(t))
        /\ WF_vars(Interrupt(t) \/ Finish(t) \/ InterruptCleanup(t))

FairSpec == Spec /\ Fairness

-----------------------------------------------------------------------------
(* Properties. *)

\* What start_replacement leaves behind when t has awaited its predecessor: that
\* one was told to stop.
AwaitedReplaced(t) == previous[t] \in Tasks /\ cancelling[previous[t]] > 0

\* Every variable has its type, and a task waits only for one that was told to
\* stop.
TypeOK ==
    /\ current \in Tasks \cup {NoTask}
    /\ previous \in [Tasks -> Tasks \cup {NoTask}]
    /\ phase \in [Tasks -> Phases]
    /\ pending \in SUBSET Tasks
    /\ cancelling \in [Tasks -> 0..CancelCap]
    /\ save \in [Tasks -> {"none", "open", "settled"}]
    /\ rank \in [Tasks -> Nat]
    /\ total \in Nat
    /\ \A t \in Tasks : phase[t] = "waiting" => AwaitedReplaced(t)

\* A task between t and u was cancelled before its first step.
SkippedBetween(t, u) ==
    \E s \in Tasks : phase[s] = "skipped" /\ Older(t, s) /\ Older(s, u)

\* One graph at a time: when the operation of a task has started, every task
\* created before it has finished (start_replacement: cancel, await, then run).
\* The one exception is a stop that hits a replacement before its first step:
\* that replacement never awaits its predecessor, and its successor does not
\* either.
OneGraphAtATime ==
    \A t, u \in Tasks :
        Older(t, u) /\ phase[u] \in Running \cup {"done"} /\ ~IsDone(t)
        => SkippedBetween(t, u)

\* Whoever waits has told everyone before it to stop: while a replacement
\* waits, each older task that has not finished was asked to stop, however
\* long the chain of waiting tasks is.  (A task asked while it waits itself
\* forgets it: see NoSaveAfterCancel.)
ReplacedIsTold ==
    \A t, u \in Tasks :
        Older(t, u) /\ phase[u] = "waiting" /\ ~IsDone(t)
        => cancelling[t] > 0 \/ SkippedBetween(t, u)

\* The save of a replaced task has settled before the graph of a newer task
\* runs, so that it reads a determined plan (complete_before_cancel), unless
\* the saving task was asked to stop twice or a task between was skipped.
SaveSettledFirst ==
    \A t, u \in Tasks :
        Older(t, u) /\ phase[u] \in Running /\ save[t] = "open"
        => cancelling[t] = CancelCap \/ SkippedBetween(t, u)

\* The registry never loses the newest task while it is unfinished, although
\* requests of older tasks remove their entries later (remove compares).
NewestStaysRegistered ==
    \A t \in Tasks : rank[t] = total /\ Created(t) /\ ~IsDone(t) => current = t

\* A task that was replaced while its graph ran begins no save any more: the
\* CancelledError of its replacement ends the graph, wherever it strikes.  Only
\* a task that awaited a predecessor may, because run_in_order suppresses the
\* cancellation that reaches it there.
NoSaveAfterCancel ==
    [][\A t \in Tasks : save[t] = "none" /\ save'[t] = "open" /\ ~AwaitedReplaced(t)
          => \A u \in Tasks : Older(t, u) /\ ~SkippedBetween(t, u)
                => phase[u] \in {"created", "skipped"}]_vars

\* Everyone waits for the task before it and nobody waits for ever: every task
\* that is created finishes.
EveryTaskFinishes == \A t \in Tasks : Created(t) ~> IsDone(t)

-----------------------------------------------------------------------------
(* What the documentation says and the code does not keep; see README. *)

\* interruptible.py: a task that was told to stop is stopped before its next
\* external call, and a save that has not begun does not begin.
StoppedTasksSaveNothing ==
    [][\A t \in Tasks : save[t] = "none" /\ save'[t] = "open"
          => cancelling[t] = 0]_vars
=============================================================================
