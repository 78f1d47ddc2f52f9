------------------------- MODULE MessageIntakeProofs -------------------------
(***************************************************************************)
(* Proofs about MessageIntake, for any number of messages, attempts and    *)
(* crashes.                                                                *)
(*                                                                         *)
(* NoInsertRefused, ExecutedOnce and RetryIsTold are each the last link of *)
(* one chain: the write lock makes the looked-up state of a message still  *)
(* true at its insert; so exactly one attempt executes a message; so the   *)
(* route of a message is stored once, before any reply that speaks of its  *)
(* run; so what was final once stays final.                                *)
(***************************************************************************)
EXTENDS MessageIntake, TLAPS

\* The attempts under the lock, and what they know.
UnderLock ==
    \A a \in Attempts :
        /\ pc[a] \in {"lookup", "insert", "repeat"} => lock = a
        /\ pc[a] = "insert" => /\ sequence[msg[a]] = 0
                               /\ \A k \in Keys : sequence[k] <= top[a]
        /\ pc[a] = "repeat" => sequence[msg[a]] > 0

\* An attempt that has not left append_user has executed nothing; what was
\* executed is stored.
Handled ==
    /\ \A a \in Attempts : pc[a] \in {"idle", "queue", "lookup", "insert", "repeat"}
                               => a \notin handled
    /\ \A a \in Attempts : pc[a] \in {"route", "act", "run", "ran"} => a \in handled
    /\ \A a \in handled : sequence[msg[a]] > 0

\* Nothing is known of a message before it has a route.
Unrouted ==
    \A k \in Keys :
        /\ sequence[k] = 0 => route[k] = "none"
        /\ route[k] = "none" => run[k] = "none" /\ outcome[k] = "none"

\* Its route is still missing while an attempt is about to store it; what has
\* been prepared speaks of a message with a route.
Routing ==
    \A a \in Attempts :
        /\ pc[a] = "route" => route[msg[a]] = "none"
        /\ pc[a] \in {"act", "run", "ran"} => route[msg[a]] # "none"
        /\ pc[a] \in {"store", "write", "answered"} =>
                /\ reply[a] \in Replies
                /\ reply[a] # "received" => route[msg[a]] # "none"
        /\ pc[a] = "write" => Final(msg[a], reply[a])

\* A stored outcome is final, and a final answer is stored.
Snapshots ==
    /\ \A k \in Keys : outcome[k] # "none" => Final(k, outcome[k])
    /\ \A a \in Attempts : pc[a] = "answered" /\ Final(msg[a], reply[a])
                               => outcome[msg[a]] # "none"
    /\ \A a \in told : outcome[msg[a]] # "none"
    /\ \A a \in told : pc[a] \in {"store", "write", "answered"} => Final(msg[a], reply[a])
    /\ \A a \in told : a \notin handled

IInv ==
    /\ TypeOK
    /\ UnderLock
    /\ Handled
    /\ Unrouted
    /\ Routing
    /\ Snapshots
    /\ NoInsertRefused
    /\ ExecutedOnce

LEMMA SendKeeps ==
  ASSUME IInv, NEW a \in Attempts, Send(a)
  PROVE  IInv'
<1>1. TypeOK'
  BY DEF IInv, TypeOK, Places, Send, Move, rows
<1>2. UnderLock'
  BY DEF IInv, TypeOK, UnderLock, Places, Send, Move, rows
<1>3. Handled'
  BY DEF IInv, UnderLock, Handled, Send, Move, rows
<1>4. Unrouted'
  BY DEF IInv, Handled, Unrouted, Send, Move, rows
<1>5. Routing'
  BY DEF IInv, Unrouted, Routing, Send, Move, rows, Final
<1>6. Snapshots'
  BY DEF IInv, Handled, Routing, Snapshots, Send, Move, rows, Final
<1>7. NoInsertRefused'
  BY DEF IInv, Handled, Snapshots, NoInsertRefused, Send, Move, rows
<1>8. ExecutedOnce'
  BY DEF IInv, NoInsertRefused, ExecutedOnce, Send, Move
<1>9. QED
  BY <1>1, <1>2, <1>3, <1>4, <1>5, <1>6, <1>7, <1>8 DEF IInv

LEMMA EnterKeeps ==
  ASSUME IInv, NEW a \in Attempts, Enter(a)
  PROVE  IInv'
<1>1. TypeOK'
  BY DEF IInv, TypeOK, Places, Enter, Move, rows
<1>2. UnderLock'
  BY IntakeAssumption DEF IInv, TypeOK, UnderLock, Places, Enter, Move, rows, LockFree
<1>3. Handled'
  BY DEF IInv, UnderLock, Handled, Enter, Move, rows, LockFree
<1>4. Unrouted'
  BY DEF IInv, Handled, Unrouted, Enter, Move, rows
<1>5. Routing'
  BY DEF IInv, Unrouted, Routing, Enter, Move, rows, Final
<1>6. Snapshots'
  BY DEF IInv, Routing, Snapshots, Enter, Move, rows, Final
<1>7. NoInsertRefused'
  BY DEF IInv, Snapshots, NoInsertRefused, Enter, Move, rows
<1>8. ExecutedOnce'
  BY DEF IInv, NoInsertRefused, ExecutedOnce, Enter, Move
<1>9. QED
  BY <1>1, <1>2, <1>3, <1>4, <1>5, <1>6, <1>7, <1>8 DEF IInv

LEMMA LookUpKeeps ==
  ASSUME IInv, NEW a \in Attempts, LookUp(a)
  PROVE  IInv'
<1>1. TypeOK'
  BY DEF IInv, TypeOK, Places, LookUp, Move, rows, AfterAppend, Proceed
<1>2. UnderLock'
  BY DEF IInv, TypeOK, UnderLock, Places, LookUp, Move, rows, AfterAppend, Proceed
<1>3. Handled'
  BY DEF IInv, TypeOK, UnderLock, Handled, LookUp, Move, rows, AfterAppend, Proceed
<1>4. Unrouted'
  BY DEF IInv, TypeOK, Handled, Unrouted, LookUp, Move, rows, AfterAppend, Proceed
<1>5. Routing'
  BY DEF IInv, TypeOK, Unrouted, Routing, LookUp, Move, rows, AfterAppend, Proceed,
       Final
<1>6. Snapshots'
  BY DEF IInv, TypeOK, Routing, Snapshots, LookUp, Move, rows, AfterAppend, Proceed,
       Final
<1>7. NoInsertRefused'
  BY DEF IInv, TypeOK, Snapshots, NoInsertRefused, LookUp, Move, rows, AfterAppend,
       Proceed
<1>8. ExecutedOnce'
  BY DEF IInv, TypeOK, NoInsertRefused, ExecutedOnce, LookUp, Move, AfterAppend, Proceed
<1>9. QED
  BY <1>1, <1>2, <1>3, <1>4, <1>5, <1>6, <1>7, <1>8 DEF IInv

LEMMA InsertKeeps ==
  ASSUME IInv, NEW a \in Attempts, Insert(a)
  PROVE  IInv'
<1>1. TypeOK'
  BY DEF IInv, TypeOK, Places, Ended, Insert, Move, AfterAppend, Proceed, Released
<1>2. UnderLock'
  BY DEF IInv, TypeOK, UnderLock, Places, Ended, Insert, Move, AfterAppend, Proceed,
       Released
<1>3. Handled'
  BY DEF IInv, TypeOK, UnderLock, Handled, Insert, Move, AfterAppend, Proceed
<1>4. Unrouted'
  BY DEF IInv, TypeOK, Handled, Unrouted, Insert, Move, AfterAppend, Proceed
<1>5. Routing'
  BY DEF IInv, TypeOK, Unrouted, Routing, Insert, Move, AfterAppend, Proceed, Clashes,
       Final
<1>6. Snapshots'
  BY DEF IInv, TypeOK, Unrouted, Routing, Snapshots, Insert, Move, AfterAppend,
       Proceed, Clashes, Final
<1>7. NoInsertRefused'
  BY DEF IInv, TypeOK, UnderLock, Unrouted, Snapshots, NoInsertRefused, Insert, Move,
       AfterAppend, Proceed, Clashes
<1>8. ExecutedOnce'
  BY DEF IInv, TypeOK, UnderLock, Handled, NoInsertRefused, ExecutedOnce, Insert, Move,
       AfterAppend, Proceed, Clashes
<1>9. QED
  BY <1>1, <1>2, <1>3, <1>4, <1>5, <1>6, <1>7, <1>8 DEF IInv

LEMMA RepeatKeeps ==
  ASSUME IInv, NEW a \in Attempts, Repeat(a)
  PROVE  IInv'
<1>1. TypeOK'
  BY DEF IInv, TypeOK, Replies, Places, Repeat, Move, rows, Prepare, RepeatReply,
       Released
<1>2. UnderLock'
  BY DEF IInv, TypeOK, UnderLock, Replies, Places, Repeat, Move, rows, Prepare,
       RepeatReply, Released
<1>3. Handled'
  BY DEF IInv, TypeOK, UnderLock, Handled, Repeat, Move, rows, Prepare
<1>4. Unrouted'
  BY DEF IInv, Handled, Unrouted, Repeat, Move, rows, Prepare
<1>5. Routing'
  BY DEF IInv, TypeOK, Unrouted, Routing, Replies, Repeat, Move, rows, Prepare,
       RepeatReply, Final
<1>6. Snapshots'
  BY DEF IInv, TypeOK, Unrouted, Routing, Snapshots, Replies, Repeat, Move, rows,
       Prepare, RepeatReply, Final
<1>7. NoInsertRefused'
  BY DEF IInv, TypeOK, Snapshots, NoInsertRefused, Repeat, Move, rows, Prepare,
       RepeatReply
<1>8. ExecutedOnce'
  BY DEF IInv, NoInsertRefused, ExecutedOnce, Repeat, Move, Prepare
<1>9. QED
  BY <1>1, <1>2, <1>3, <1>4, <1>5, <1>6, <1>7, <1>8 DEF IInv

LEMMA RouteKeeps ==
  ASSUME IInv, NEW a \in Attempts, Route(a)
  PROVE  IInv'
<1>1. TypeOK'
  BY DEF IInv, TypeOK, Places, Ended, Route, Move
<1>2. UnderLock'
  BY DEF IInv, TypeOK, UnderLock, Places, Ended, Route, Move
<1>3. Handled'
  BY DEF IInv, TypeOK, UnderLock, Handled, Route, Move
<1>4. Unrouted'
  BY DEF IInv, TypeOK, Handled, Unrouted, Kinds, Route, Move
<1>5. Routing'
  BY DEF IInv, TypeOK, Handled, Unrouted, Routing, ExecutedOnce, Kinds, Route, Move,
       Final
<1>6. Snapshots'
  BY DEF IInv, TypeOK, Handled, Routing, Snapshots, ExecutedOnce, Kinds, Route, Move,
       Final
<1>7. NoInsertRefused'
  BY DEF IInv, TypeOK, Routing, Snapshots, NoInsertRefused, Route, Move
<1>8. ExecutedOnce'
  BY DEF IInv, TypeOK, NoInsertRefused, ExecutedOnce, Route, Move
<1>9. QED
  BY <1>1, <1>2, <1>3, <1>4, <1>5, <1>6, <1>7, <1>8 DEF IInv

LEMMA ActWithoutRunKeeps ==
  ASSUME IInv, NEW a \in Attempts, ActWithoutRun(a)
  PROVE  IInv'
<1>1. TypeOK'
  BY DEF IInv, TypeOK, Replies, Places, Ended, ActWithoutRun, Move, rows, Prepare
<1>2. UnderLock'
  BY DEF IInv, TypeOK, UnderLock, Replies, Places, Ended, ActWithoutRun, Move, rows,
       Prepare
<1>3. Handled'
  BY DEF IInv, TypeOK, UnderLock, Handled, ActWithoutRun, Move, rows, Prepare
<1>4. Unrouted'
  BY DEF IInv, TypeOK, Handled, Unrouted, ActWithoutRun, Move, rows, Prepare
<1>5. Routing'
  BY DEF IInv, TypeOK, Unrouted, Routing, Replies, ActWithoutRun, Move, rows, Prepare,
       Final
<1>6. Snapshots'
  BY DEF IInv, TypeOK, Routing, Snapshots, Replies, ActWithoutRun, Move, rows, Prepare,
       Final
<1>7. NoInsertRefused'
  BY DEF IInv, TypeOK, Snapshots, NoInsertRefused, ActWithoutRun, Move, rows, Prepare
<1>8. ExecutedOnce'
  BY DEF IInv, TypeOK, NoInsertRefused, ExecutedOnce, ActWithoutRun, Move, Prepare
<1>9. QED
  BY <1>1, <1>2, <1>3, <1>4, <1>5, <1>6, <1>7, <1>8 DEF IInv

LEMMA ActUnknownKeeps ==
  ASSUME IInv, NEW a \in Attempts, ActUnknown(a)
  PROVE  IInv'
<1>1. TypeOK'
  BY DEF IInv, TypeOK, Replies, Places, Ended, Runs, ActUnknown, Move, Prepare
<1>2. UnderLock'
  BY DEF IInv, TypeOK, UnderLock, Replies, Places, Runs, ActUnknown, Move, Prepare
<1>3. Handled'
  BY DEF IInv, TypeOK, Places, Ended, UnderLock, Handled, ActUnknown, Move, Prepare
<1>4. Unrouted'
  BY DEF IInv, TypeOK, Places, Ended, Handled, Unrouted, ActUnknown, Move, Prepare
<1>5. Routing'
  BY DEF IInv, TypeOK, Unrouted, Routing, Replies, ActUnknown, Move, Prepare, Final
<1>6. Snapshots'
  BY DEF IInv, TypeOK, Routing, Snapshots, Replies, ActUnknown, Move, Prepare, Final
<1>7. NoInsertRefused'
  BY DEF IInv, TypeOK, Places, Ended, Snapshots, NoInsertRefused, ActUnknown, Move,
       Prepare, Final
<1>8. ExecutedOnce'
  BY DEF IInv, NoInsertRefused, ExecutedOnce, ActUnknown, Move, Prepare
<1>9. QED
  BY <1>1, <1>2, <1>3, <1>4, <1>5, <1>6, <1>7, <1>8 DEF IInv

LEMMA ActSearchKeeps ==
  ASSUME IInv, NEW a \in Attempts, ActSearch(a)
  PROVE  IInv'
<1>1. TypeOK'
  BY DEF IInv, TypeOK, Replies, Places, Ended, Runs, ActSearch, Move, Prepare
<1>2. UnderLock'
  BY DEF IInv, TypeOK, UnderLock, Replies, Places, Ended, Runs, ActSearch, Move, Prepare
<1>3. Handled'
  BY DEF IInv, TypeOK, UnderLock, Handled, ActSearch, Move, Prepare
<1>4. Unrouted'
  BY DEF IInv, TypeOK, Handled, Unrouted, ActSearch, Move, Prepare
<1>5. Routing'
  BY DEF IInv, TypeOK, Unrouted, Routing, Replies, ActSearch, Move, Prepare, Final
<1>6. Snapshots'
  BY DEF IInv, TypeOK, Routing, Snapshots, Replies, ActSearch, Move, Prepare, Final
<1>7. NoInsertRefused'
  BY DEF IInv, TypeOK, Snapshots, NoInsertRefused, ActSearch, Move, Prepare
<1>8. ExecutedOnce'
  BY DEF IInv, TypeOK, NoInsertRefused, ExecutedOnce, ActSearch, Move, Prepare
<1>9. QED
  BY <1>1, <1>2, <1>3, <1>4, <1>5, <1>6, <1>7, <1>8 DEF IInv

LEMMA RunStoresKeeps ==
  ASSUME IInv, NEW a \in Attempts, RunStores(a)
  PROVE  IInv'
<1>1. TypeOK'
  BY DEF IInv, TypeOK, Places, Runs, RunStores, Move
<1>2. UnderLock'
  BY DEF IInv, TypeOK, UnderLock, Places, Runs, RunStores, Move
<1>3. Handled'
  BY DEF IInv, UnderLock, Handled, RunStores, Move
<1>4. Unrouted'
  BY DEF IInv, Handled, Unrouted, Routing, RunStores, Move
<1>5. Routing'
  BY DEF IInv, Unrouted, Routing, RunStores, Move, Final
<1>6. Snapshots'
  BY DEF IInv, Routing, Snapshots, RunStores, Move, Final
<1>7. NoInsertRefused'
  BY DEF IInv, Snapshots, NoInsertRefused, RunStores, Move
<1>8. ExecutedOnce'
  BY DEF IInv, NoInsertRefused, ExecutedOnce, RunStores, Move
<1>9. QED
  BY <1>1, <1>2, <1>3, <1>4, <1>5, <1>6, <1>7, <1>8 DEF IInv

LEMMA RunEndsKeeps ==
  ASSUME IInv, NEW a \in Attempts, RunEnds(a)
  PROVE  IInv'
<1>1. TypeOK'
  BY DEF IInv, TypeOK, Replies, Places, RunEnds, Move, rows, Prepare
<1>2. UnderLock'
  BY DEF IInv, TypeOK, UnderLock, Replies, Places, RunEnds, Move, rows, Prepare
<1>3. Handled'
  BY DEF IInv, TypeOK, UnderLock, Handled, RunEnds, Move, rows, Prepare
<1>4. Unrouted'
  BY DEF IInv, TypeOK, Handled, Unrouted, RunEnds, Move, rows, Prepare
<1>5. Routing'
  BY DEF IInv, TypeOK, Unrouted, Routing, Replies, RunEnds, Move, rows, Prepare, Final
<1>6. Snapshots'
  BY DEF IInv, TypeOK, Routing, Snapshots, Replies, RunEnds, Move, rows, Prepare, Final
<1>7. NoInsertRefused'
  BY DEF IInv, TypeOK, Snapshots, NoInsertRefused, RunEnds, Move, rows, Prepare
<1>8. ExecutedOnce'
  BY DEF IInv, TypeOK, NoInsertRefused, ExecutedOnce, RunEnds, Move, Prepare
<1>9. QED
  BY <1>1, <1>2, <1>3, <1>4, <1>5, <1>6, <1>7, <1>8 DEF IInv

LEMMA ReadOutcomeKeeps ==
  ASSUME IInv, NEW a \in Attempts, ReadOutcome(a)
  PROVE  IInv'
<1>1. TypeOK'
  BY DEF IInv, TypeOK, Places, Ended, ReadOutcome, Move, rows
<1>2. UnderLock'
  BY DEF IInv, TypeOK, UnderLock, Places, Ended, ReadOutcome, Move, rows
<1>3. Handled'
  BY DEF IInv, UnderLock, Handled, ReadOutcome, Move, rows
<1>4. Unrouted'
  BY DEF IInv, Handled, Unrouted, ReadOutcome, Move, rows
<1>5. Routing'
  BY DEF IInv, Unrouted, Routing, ReadOutcome, Move, rows, Storable, Final
<1>6. Snapshots'
  BY DEF IInv, Routing, Snapshots, ReadOutcome, Move, rows, Storable, Final
<1>7. NoInsertRefused'
  BY DEF IInv, Snapshots, NoInsertRefused, ReadOutcome, Move, rows, Storable
<1>8. ExecutedOnce'
  BY DEF IInv, NoInsertRefused, ExecutedOnce, ReadOutcome, Move
<1>9. QED
  BY <1>1, <1>2, <1>3, <1>4, <1>5, <1>6, <1>7, <1>8 DEF IInv

LEMMA WriteOutcomeKeeps ==
  ASSUME IInv, NEW a \in Attempts, WriteOutcome(a)
  PROVE  IInv'
<1>1. TypeOK'
  BY DEF IInv, TypeOK, Routing, Places, Ended, WriteOutcome, Move, Final
<1>2. UnderLock'
  BY DEF IInv, TypeOK, UnderLock, Routing, Places, Ended, WriteOutcome, Move
<1>3. Handled'
  BY DEF IInv, UnderLock, Handled, WriteOutcome, Move
<1>4. Unrouted'
  BY DEF IInv, Handled, Unrouted, Routing, WriteOutcome, Move, Final
<1>5. Routing'
  BY DEF IInv, Unrouted, Routing, WriteOutcome, Move, Final
<1>6. Snapshots'
  BY DEF IInv, TypeOK, Routing, Snapshots, Replies, WriteOutcome, Move, Final
<1>7. NoInsertRefused'
  BY DEF IInv, TypeOK, Routing, Snapshots, NoInsertRefused, Replies, WriteOutcome, Move
<1>8. ExecutedOnce'
  BY DEF IInv, NoInsertRefused, ExecutedOnce, WriteOutcome, Move
<1>9. QED
  BY <1>1, <1>2, <1>3, <1>4, <1>5, <1>6, <1>7, <1>8 DEF IInv

LEMMA CrashKeeps ==
  ASSUME IInv, Crash
  PROVE  IInv'
<1>1. TypeOK'
  BY IntakeAssumption DEF IInv, TypeOK, Crash, rows, Places, Ended
<1>2. UnderLock'
  BY DEF IInv, TypeOK, Crash, rows, UnderLock, Ended
<1>3. Handled'
  BY DEF IInv, TypeOK, Crash, rows, Handled, Ended
<1>4. Unrouted'
  BY DEF IInv, Crash, rows, Unrouted
<1>5. Routing'
  BY DEF IInv, TypeOK, Crash, rows, Routing, Ended
<1>6. Snapshots'
  BY DEF IInv, TypeOK, Crash, rows, Snapshots, Ended, Final
<1>7. NoInsertRefused'
  BY DEF IInv, TypeOK, Crash, NoInsertRefused, Ended
<1>8. ExecutedOnce'
  BY DEF IInv, Crash, ExecutedOnce
<1>9. QED
  BY <1>1, <1>2, <1>3, <1>4, <1>5, <1>6, <1>7, <1>8 DEF IInv

\* The invariant of receiving and retrying messages (handle_message,
\* _handle_message, append_user): it holds in every reachable state, for any
\* messages, attempts and number of crashes.
THEOREM InductiveInvariant == Spec => []IInv
<1>1. Init => IInv
  BY IntakeAssumption DEF Init, IInv, TypeOK, UnderLock, Handled, Unrouted, Routing,
     Snapshots, NoInsertRefused, ExecutedOnce, Places, Ended, Runs
<1>2. IInv /\ [Next]_vars => IInv'
  <2> SUFFICES ASSUME IInv, [Next]_vars PROVE IInv'
    OBVIOUS
  <2>1. CASE Crash
    BY <2>1, CrashKeeps
  <2>2. ASSUME NEW a \in Attempts, Send(a) PROVE IInv'
    BY <2>2, SendKeeps
  <2>3. ASSUME NEW a \in Attempts, Step(a) PROVE IInv'
    BY <2>3, EnterKeeps, LookUpKeeps, InsertKeeps, RepeatKeeps, RouteKeeps,
       ActWithoutRunKeeps, ActUnknownKeeps, ActSearchKeeps, RunStoresKeeps,
       RunEndsKeeps, ReadOutcomeKeeps, WriteOutcomeKeeps DEF Step
  <2>4. CASE UNCHANGED vars
    BY <2>4 DEF vars, rows, IInv, TypeOK, UnderLock, Handled, Unrouted, Routing,
       Snapshots, NoInsertRefused, ExecutedOnce, Final
  <2>5. QED
    BY <2>1, <2>2, <2>3, <2>4 DEF Next
<1>3. QED
  BY <1>1, <1>2, PTL DEF Spec

\* The rows, the lock and every attempt stay well typed; in particular the
\* provisional reply is never stored as an outcome (handle_message).
THEOREM TypeCorrect == Spec => []TypeOK
<1>1. IInv => TypeOK
  BY DEF IInv
<1>2. QED
  BY <1>1, InductiveInvariant, PTL

\* Overlapping requests never draw the same sequence number or insert a
\* message twice, also across restarts (_message_write_lock, append_user).
THEOREM InsertsSucceed == Spec => []NoInsertRefused
<1>1. IInv => NoInsertRefused
  BY DEF IInv
<1>2. QED
  BY <1>1, InductiveInvariant, PTL

\* However often a message is sent, one attempt at most executes it
\* (`if not created` in _handle_message).
THEOREM MessagesExecuteOnce == Spec => []ExecutedOnce
<1>1. IInv => ExecutedOnce
  BY DEF IInv
<1>2. QED
  BY <1>1, InductiveInvariant, PTL

\* A retry sent after the client was told what came of a message is told so
\* again (the outcome snapshot of handle_message).
THEOREM RetriesAreTold == Spec => []RetryIsTold
<1>1. IInv => RetryIsTold
  BY DEF IInv, Snapshots, RetryIsTold
<1>2. QED
  BY <1>1, InductiveInvariant, PTL
=============================================================================
