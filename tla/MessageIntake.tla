---------------------------- MODULE MessageIntake ----------------------------
(***************************************************************************)
(* Receiving and retrying messages: AgentService.handle_message and the    *)
(* first part of _handle_message, with MessageRepository and the outcome   *)
(* snapshot on the message row.                                            *)
(*                                                                         *)
(* A client sends a message under a client_message_id and may send it      *)
(* again at any time, also while the first attempt is being executed, and  *)
(* after the server has crashed and restarted.  One process serves all     *)
(* attempts; its write lock covers the sequence number and the commit of   *)
(* the message.                                                            *)
(*                                                                         *)
(* What a message does is AgentService's subject; here its execution is    *)
(* abstracted to the run it leaves and the reply it is given.  The         *)
(* transaction that stores the reply reads the row before it writes it,    *)
(* and nothing holds the row in between: two actions.                      *)
(***************************************************************************)
EXTENDS Naturals

CONSTANTS
    Keys,       \* client_message_ids
    Attempts,   \* HTTP requests
    None,       \* nobody holds the lock
    MaxCrashes  \* bound on the number of crashes

ASSUME IntakeAssumption == None \notin Attempts /\ MaxCrashes \in Nat

VARIABLES
    sequence,   \* MessageRecord.sequence of each key, 0 without a row
    route,      \* MessageRecord.route_type
    outcome,    \* MessageRecord.outcome_json
    run,        \* the run with this message as its trigger, see Runs
    lock,       \* the attempt that holds _message_write_lock
    pc, msg,    \* where each attempt is, and the key it was sent with
    top,        \* the highest sequence number an attempt has read
    reply,      \* the reply an attempt has prepared
    crashes,
    told,       \* history: attempts sent after their message had been answered
    handled     \* history: attempts that went on to execute their message

rows == <<sequence, route, outcome, run>>
vars == <<rows, lock, pc, msg, top, reply, crashes, told, handled>>

\* status stands for STATUS_QUERY and CONTROL_STOP, search for every message
\* that ends in _start_search_run.
Kinds == {"search", "unknown", "page", "status", "chat"}
Runs  == {"none", "open", "resulted"}

\* result      the result stored with the run
\* superseded  the fixed SUPERSEDED result, which is not stored with the run
\* other       a chat reply, an intent card, a page
\* status      the state of a run
\* received    "这条消息已经收到。"
Replies == {"result", "superseded", "other", "status", "received"}

Ended  == {"answered", "failed", "refused", "lost"}
Places == {"idle", "queue", "lookup", "insert", "repeat", "route", "act", "run",
           "ran", "store", "write"} \cup Ended

Init ==
    /\ sequence = [k \in Keys |-> 0]
    /\ route = [k \in Keys |-> "none"]
    /\ outcome = [k \in Keys |-> "none"]
    /\ run = [k \in Keys |-> "none"]
    /\ lock = None
    /\ pc = [a \in Attempts |-> "idle"]
    /\ msg \in [Attempts -> Keys]
    /\ top = [a \in Attempts |-> 0]
    /\ reply = [a \in Attempts |-> "none"]
    /\ crashes = 0
    /\ told = {}
    /\ handled = {}

Move(a, place) == pc' = [pc EXCEPT ![a] = place]

\* The attempt has its reply; handle_message goes on to store it.
Prepare(a, r) ==
    /\ reply' = [reply EXCEPT ![a] = r]
    /\ Move(a, "store")

\* A reply that tells the client what came of the message.
Final(k, r) == r # "received" /\ (r = "status" => route[k] = "status")

\* The attempt goes on where append_user sends it.
Proceed(a, place) ==
    /\ Move(a, place)
    /\ handled' = IF place = "route" THEN handled \cup {a} ELSE handled

\* The client sends a message or sends it again.
Send(a) ==
    /\ pc[a] = "idle"
    /\ Move(a, "queue")
    /\ told' = told \cup {b \in {a} : \E c \in Attempts :
            msg[c] = msg[a] /\ pc[c] = "answered" /\ Final(msg[c], reply[c])}
    /\ UNCHANGED <<rows, lock, msg, top, reply, crashes, handled>>

-----------------------------------------------------------------------------
(* append_user, under the write lock *)

\* Mutated form: the lock is not taken.
LockFreeAlways == TRUE

LockFree == lock = None

Enter(a) ==
    /\ pc[a] = "queue" /\ LockFree
    /\ lock' = a
    /\ Move(a, "lookup")
    /\ UNCHANGED <<rows, msg, top, reply, crashes, told, handled>>

\* Mutated form: a repeated message is executed again.
AfterAppendAlike(created) == "route"

\* `if not created`
AfterAppend(created) == IF created THEN "route" ELSE "repeat"

\* get_by_client_id, and the highest sequence number if there is no row.
LookUp(a) ==
    /\ pc[a] = "lookup"
    /\ IF sequence[msg[a]] > 0
       THEN /\ Proceed(a, AfterAppend(FALSE))
            /\ UNCHANGED top
       ELSE /\ \E n \in {0} \cup {sequence[k] : k \in Keys} :
                    /\ \A k \in Keys : sequence[k] <= n
                    /\ top' = [top EXCEPT ![a] = n]
            /\ Proceed(a, "insert")
    /\ UNCHANGED <<rows, lock, msg, reply, crashes, told>>

\* uq_message_client_id, uq_message_sequence
Clashes(k, n) == sequence[k] > 0 \/ \E m \in Keys : sequence[m] = n

\* Mutated form: the lock stays taken.
ReleasedNever == lock

\* `async with` releases the lock on every way out.
Released == None

\* The insert and its commit.
Insert(a) ==
    /\ pc[a] = "insert"
    /\ IF Clashes(msg[a], top[a] + 1)
       THEN Proceed(a, "refused") /\ UNCHANGED sequence
       ELSE /\ sequence' = [sequence EXCEPT ![msg[a]] = top[a] + 1]
            /\ Proceed(a, AfterAppend(TRUE))
    /\ lock' = Released
    /\ UNCHANGED <<route, outcome, run, msg, top, reply, crashes, told>>

\* What a repeated message is answered from the rows.
RepeatReply(k) ==
    CASE outcome[k] # "none"                        -> outcome[k]
      [] outcome[k] = "none" /\ run[k] = "resulted" -> "result"
      [] outcome[k] = "none" /\ run[k] = "open"     -> "status"
      [] OTHER                                      -> "received"

Repeat(a) ==
    /\ pc[a] = "repeat"
    /\ Prepare(a, RepeatReply(msg[a]))
    /\ lock' = Released
    /\ UNCHANGED <<rows, msg, top, crashes, told, handled>>

-----------------------------------------------------------------------------
(* The rest of _handle_message *)

\* The router decides and the route is stored; the router or a lookup may fail.
Route(a) ==
    /\ pc[a] = "route"
    /\ \/ \E kind \in Kinds : route' = [route EXCEPT ![msg[a]] = kind] /\ Move(a, "act")
       \/ UNCHANGED route /\ Move(a, "failed")
    /\ UNCHANGED <<sequence, outcome, run, lock, msg, top, reply, crashes, told, handled>>

\* Chats, stops, status queries and pages leave no run with this trigger.
ActWithoutRun(a) ==
    /\ pc[a] = "act" /\ route[msg[a]] \in {"chat", "status", "page"}
    /\ \/ Prepare(a, "other")
       \/ route[msg[a]] = "status" /\ Prepare(a, "status")
       \/ route[msg[a]] = "page" /\ Move(a, "failed") /\ UNCHANGED reply
    /\ UNCHANGED <<rows, lock, msg, top, crashes, told, handled>>

\* An intent card, with a run that never gets a result, or the pending card
\* again; two cards inserted at once clash.
ActUnknown(a) ==
    /\ pc[a] = "act" /\ route[msg[a]] = "unknown"
    /\ \/ /\ run' = [run EXCEPT ![msg[a]] = "open"]
          /\ Prepare(a, "other")
       \/ Prepare(a, "other") /\ UNCHANGED run
       \/ Move(a, "failed") /\ UNCHANGED <<run, reply>>
    /\ UNCHANGED <<sequence, route, outcome, lock, msg, top, crashes, told, handled>>

\* A search run is created; a structured answer may end without one.
ActSearch(a) ==
    /\ pc[a] = "act" /\ route[msg[a]] = "search"
    /\ \/ /\ run' = [run EXCEPT ![msg[a]] = "open"]
          /\ Move(a, "run")
          /\ UNCHANGED reply
       \/ Prepare(a, "other") /\ UNCHANGED run
       \/ Move(a, "failed") /\ UNCHANGED <<run, reply>>
    /\ UNCHANGED <<sequence, route, outcome, lock, msg, top, crashes, told, handled>>

\* The run stores a result: of the search, of an error, or a card.
RunStores(a) ==
    /\ pc[a] = "run"
    /\ run' = [run EXCEPT ![msg[a]] = "resulted"]
    /\ Move(a, "ran")
    /\ UNCHANGED <<sequence, route, outcome, lock, msg, top, reply, crashes, told, handled>>

\* The task returns the result it has stored, or it was cancelled or found its
\* run superseded, whether or not its result has been stored.
RunEnds(a) ==
    /\ \/ pc[a] = "ran" /\ Prepare(a, "result")
       \/ pc[a] \in {"run", "ran"} /\ Prepare(a, "superseded")
    /\ UNCHANGED <<rows, lock, msg, top, crashes, told, handled>>

-----------------------------------------------------------------------------
(* handle_message: the outcome snapshot *)

\* Mutated form: chat replies are not stored.
StorableResults(k, r) == r \in {"result", "superseded"}

\* Mutated form: whatever was answered is stored.
StorableAlways(k, r) == TRUE

Storable(k, r) == r # "received" /\ (r # "status" \/ route[k] = "status")

\* The row is read: nothing to store, or its outcome is still empty.
ReadOutcome(a) ==
    /\ pc[a] = "store"
    /\ Move(a, IF outcome[msg[a]] = "none" /\ Storable(msg[a], reply[a])
               THEN "write" ELSE "answered")
    /\ UNCHANGED <<rows, lock, msg, top, reply, crashes, told, handled>>

\* The row is written at the commit, whatever it holds by then.
WriteOutcome(a) ==
    /\ pc[a] = "write"
    /\ outcome' = [outcome EXCEPT ![msg[a]] = reply[a]]
    /\ Move(a, "answered")
    /\ UNCHANGED <<sequence, route, run, lock, msg, top, reply, crashes, told, handled>>

\* The process dies and is started again: the database remains.
Crash ==
    /\ crashes < MaxCrashes
    /\ crashes' = crashes + 1
    /\ lock' = None
    /\ pc' = [a \in Attempts |-> IF pc[a] \in {"idle"} \cup Ended THEN pc[a] ELSE "lost"]
    /\ UNCHANGED <<rows, msg, top, reply, told, handled>>

-----------------------------------------------------------------------------
\* The steps an attempt takes by itself once it has been sent.
Step(a) ==
    \/ Enter(a) \/ LookUp(a) \/ Insert(a) \/ Repeat(a) \/ Route(a)
    \/ ActWithoutRun(a) \/ ActUnknown(a) \/ ActSearch(a) \/ RunStores(a)
    \/ RunEnds(a) \/ ReadOutcome(a) \/ WriteOutcome(a)

Next == Crash \/ \E a \in Attempts : Send(a) \/ Step(a)

Spec == Init /\ [][Next]_vars

\* Every attempt proceeds: calls return or time out, and the lock is granted in
\* the order in which it was asked for.
Fairness == \A a \in Attempts : WF_vars(Step(a))

FairSpec == Spec /\ Fairness

-----------------------------------------------------------------------------
TypeOK ==
    /\ sequence \in [Keys -> Nat]
    /\ route \in [Keys -> Kinds \cup {"none"}]
    /\ outcome \in [Keys -> (Replies \ {"received"}) \cup {"none"}]
    /\ run \in [Keys -> Runs]
    /\ lock \in Attempts \cup {None}
    /\ pc \in [Attempts -> Places]
    /\ msg \in [Attempts -> Keys]
    /\ top \in [Attempts -> Nat]
    /\ reply \in [Attempts -> Replies \cup {"none"}]
    /\ crashes \in 0..MaxCrashes
    /\ told \subseteq Attempts
    /\ handled \subseteq Attempts

\* Two requests that overlap never draw the same sequence number or insert the
\* same message twice: no insert is refused by a unique constraint, also after
\* a restart (_message_write_lock covers the read and the commit).
NoInsertRefused == \A a \in Attempts : pc[a] # "refused"

\* A message is executed by one attempt only, however often it is sent and
\* whatever became of the first attempt (`if not created`).
ExecutedOnce == \A a, b \in handled : msg[a] = msg[b] => a = b

\* A retry sent after the client was told what came of the message is told so
\* again, not that it was received or is in progress (handle_message stores the
\* reply before it answers).
RetryIsTold ==
    \A a \in told : pc[a] = "answered" => Final(msg[a], reply[a])

\* Every attempt ends, unless the lock is lost.
AttemptsEnd == \A a \in Attempts : pc[a] # "idle" ~> pc[a] \in Ended

-----------------------------------------------------------------------------
(* What the documentation says and the code does not keep; see README. *)

\* agent_service.py, handle_message: a retry does not overwrite the reply.
OutcomeStays ==
    [][\A k \in Keys : outcome[k] # "none" => outcome'[k] = outcome[k]]_vars
=============================================================================
