------------------------- MODULE TaskRegistryProofs -------------------------
(***************************************************************************)
(* Proofs about TaskRegistry, for every set of tasks.                      *)
(*                                                                         *)
(* The properties are not inductive.  IInv adds what the code relies on    *)
(* silently: creation order is total (Order), the registry holds the       *)
(* newest task or the newest task is done (Registered), a task captured    *)
(* its immediate predecessor or that one was done (Links), and a task      *)
(* leaves an open save behind only after a second cancellation (SaveHeld). *)
(***************************************************************************)
EXTENDS TaskRegistry, WellFoundedInduction, TLAPS

\* Ranks 1..total are the created tasks, each rank once.
Order ==
    /\ \A t \in Tasks : Created(t) => rank[t] \in 1..total
    /\ \A t \in Tasks : \A u \in Tasks :
            Created(t) /\ Created(u) /\ rank[t] = rank[u] => t = u
    /\ \A n \in 1..total : \E t \in Tasks : Created(t) /\ rank[t] = n

\* The registry holds the newest task; if it is empty that task is done.
Registered ==
    /\ current # NoTask => Created(current) /\ rank[current] = total
    /\ current = NoTask => \A t \in Tasks :
            Created(t) /\ rank[t] = total => IsDone(t)

\* `previous` is the task created just before, unless that one was done.
Links ==
    /\ \A t \in Tasks : previous[t] # NoTask =>
            Created(t) /\ Created(previous[t]) /\ rank[previous[t]] + 1 = rank[t]
    /\ \A t \in Tasks : \A u \in Tasks :
            Created(t) /\ previous[t] = NoTask /\ Created(u) /\ rank[u] + 1 = rank[t]
            => IsDone(u)

\* A cancelled task holds on to its open save until a second cancellation.
SaveHeld ==
    \A t \in Tasks :
        /\ t \in pending => cancelling[t] >= 1
        /\ phase[t] = "settling" => cancelling[t] >= 1
        /\ phase[t] = "settling" /\ t \in pending => cancelling[t] = CancelCap
        /\ save[t] = "open" =>
                \/ phase[t] \in {"saving", "settling"}
                \/ phase[t] \in {"cleanup", "done"} /\ cancelling[t] = CancelCap

IInv == TypeOK /\ Order /\ Registered /\ Links /\ OneGraphAtATime
        /\ ReplacedIsTold /\ SaveHeld

-----------------------------------------------------------------------------
(* Type correctness. *)

\* Task.cancel() keeps the types of the two variables it changes.
LEMMA CancelType ==
    ASSUME TypeOK, NEW t \in Tasks, Cancel(t)
    PROVE  /\ pending' \in SUBSET Tasks
           /\ cancelling' \in [Tasks -> 0..CancelCap]
<1>1. \A u \in Tasks : cancelling[u] \in 0..CancelCap
  BY DEF TypeOK
<1>2. \A u \in Tasks : cancelling[u] < CancelCap => cancelling[u] + 1 \in 0..CancelCap
  BY <1>1 DEF CancelCap
<1>3. QED
  BY <1>1, <1>2 DEF Cancel, CancelReach, TypeOK

\* What Task.cancel() does to the task it is called on, and never does to any.
LEMMA CancelEffect ==
    ASSUME TypeOK, NEW t \in Tasks, Cancel(t)
    PROVE  /\ ~IsDone(t) => cancelling'[t] > 0
           /\ \A u \in Tasks :
                /\ cancelling'[u] >= cancelling[u]
                /\ u \in pending => u \in pending'
                /\ cancelling'[u] # cancelling[u] /\ phase[u] # "waiting"
                        => u \in pending'
                /\ u \in pending' /\ u \notin pending =>
                        /\ ~IsDone(u)
                        /\ cancelling'[u] > 0
                        /\ cancelling[u] > 0 => cancelling'[u] = CancelCap
<1> DEFINE hit == {u \in CancelReach(t) : ~IsDone(u)}
<1>1. \A u \in Tasks : cancelling[u] \in 0..2
  BY DEF TypeOK, CancelCap
<1>2. t \in CancelReach(t)
  BY DEF CancelReach
<1>3. \A u \in Tasks : cancelling'[u] = IF u \in hit /\ cancelling[u] < 2
                                         THEN cancelling[u] + 1 ELSE cancelling[u]
  BY DEF Cancel, CancelCap
<1>4. pending' = pending \cup {u \in hit : phase[u] # "waiting"}
  BY DEF Cancel
<1>5. ~IsDone(t) => cancelling'[t] > 0
  BY <1>1, <1>2, <1>3
<1>6. ASSUME NEW u \in Tasks
      PROVE  cancelling'[u] >= cancelling[u]
  BY <1>1, <1>3
<1>7. ASSUME NEW u \in Tasks, u \in pending', u \notin pending
      PROVE  /\ ~IsDone(u)
             /\ cancelling'[u] > 0
             /\ cancelling[u] > 0 => cancelling'[u] = CancelCap
  <2>1. u \in hit
    BY <1>4, <1>7
  <2>2. ~IsDone(u)
    BY <2>1
  <2>3. QED
    BY <1>1, <1>3, <2>1, <2>2 DEF CancelCap
<1>8. ASSUME NEW u \in Tasks, cancelling'[u] # cancelling[u], phase[u] # "waiting"
      PROVE  u \in pending'
  BY <1>3, <1>4, <1>8
<1>9. QED
  BY <1>4, <1>5, <1>6, <1>7, <1>8

\* A cancellation request is not taken back, so AwaitedReplaced stays.
LEMMA CancelKeepsAwaited ==
    ASSUME TypeOK, NEW t \in Tasks, Cancel(t), UNCHANGED previous, NEW u \in Tasks,
           AwaitedReplaced(u)
    PROVE  AwaitedReplaced(u)'
<1>1. previous[u] \in Tasks /\ cancelling[previous[u]] > 0
  BY DEF AwaitedReplaced
<1>2. cancelling'[previous[u]] >= cancelling[previous[u]]
  BY <1>1, CancelEffect
<1>3. cancelling[previous[u]] \in Nat /\ cancelling'[previous[u]] \in Nat
  BY <1>1, CancelType DEF TypeOK, CancelCap
<1>4. QED
  BY <1>1, <1>2, <1>3 DEF AwaitedReplaced

\* Every step keeps the types.
LEMMA TypeStep == TypeOK /\ [Next]_vars => TypeOK'
<1> USE DEF TypeOK, Phases, Running, Finished
<1> SUFFICES ASSUME TypeOK, [Next]_vars PROVE TypeOK'
  OBVIOUS
<1>1. ASSUME NEW t \in Tasks, StartReplacement(t) PROVE TypeOK'
  BY <1>1 DEF StartReplacement, Captured, AwaitedReplaced
<1>2. ASSUME NEW t \in Tasks, BeginAtOnce(t) PROVE TypeOK'
  BY <1>2 DEF BeginAtOnce, AwaitedReplaced
<1>3. ASSUME NEW t \in Tasks, CancelPrevious(t) PROVE TypeOK'
  <2>1. previous[t] \in Tasks
    BY <1>3 DEF CancelPrevious, NothingToAwait
  <2>2. pending' \in SUBSET Tasks /\ cancelling' \in [Tasks -> 0..CancelCap]
    BY <1>3, <2>1, CancelType DEF CancelPrevious
  <2>3. cancelling'[previous[t]] > 0
    BY <1>3, <2>1, CancelEffect DEF CancelPrevious, NothingToAwait
  <2>4. ASSUME NEW u \in Tasks, phase'[u] = "waiting"
        PROVE  AwaitedReplaced(u)'
    <3>1. CASE u = t
      BY <1>3, <2>1, <2>3, <3>1 DEF CancelPrevious, AwaitedReplaced
    <3>2. CASE u # t
      <4>1. AwaitedReplaced(u)
        BY <1>3, <2>4, <3>2 DEF CancelPrevious
      <4>2. Cancel(previous[t]) /\ UNCHANGED previous
        BY <1>3 DEF CancelPrevious
      <4>3. QED
        BY <2>1, <4>1, <4>2, CancelKeepsAwaited
    <3>3. QED
      BY <3>1, <3>2
  <2>5. QED
    BY <1>3, <2>2, <2>4 DEF CancelPrevious
<1>4. ASSUME NEW t \in Tasks, SkipUnstarted(t) PROVE TypeOK'
  BY <1>4 DEF SkipUnstarted, AwaitedReplaced
<1>5. ASSUME NEW t \in Tasks, Resume(t) PROVE TypeOK'
  BY <1>5 DEF Resume, AwaitedReplaced
<1>6. ASSUME NEW t \in Tasks, BeginSave(t) PROVE TypeOK'
  BY <1>6 DEF BeginSave, AwaitedReplaced
<1>7. ASSUME NEW t \in Tasks, SaveSettles(t) PROVE TypeOK'
  BY <1>7 DEF SaveSettles, AwaitedReplaced
<1>8. ASSUME NEW t \in Tasks, SaveReturns(t) PROVE TypeOK'
  BY <1>8 DEF SaveReturns, AwaitedReplaced
<1>9. ASSUME NEW t \in Tasks, InterruptSave(t) PROVE TypeOK'
  BY <1>9 DEF InterruptSave, AfterFirstCancel, AwaitedReplaced
<1>10. ASSUME NEW t \in Tasks, SaveSettled(t) PROVE TypeOK'
  BY <1>10 DEF SaveSettled, AwaitedReplaced
<1>11. ASSUME NEW t \in Tasks, AbandonSave(t) PROVE TypeOK'
  BY <1>11 DEF AbandonSave, AwaitedReplaced
<1>12. ASSUME NEW t \in Tasks, Interrupt(t) PROVE TypeOK'
  BY <1>12 DEF Interrupt, AwaitedReplaced
<1>13. ASSUME NEW t \in Tasks, Finish(t) PROVE TypeOK'
  BY <1>13 DEF Finish, AwaitedReplaced
<1>14. ASSUME NEW t \in Tasks, InterruptCleanup(t) PROVE TypeOK'
  BY <1>14 DEF InterruptCleanup, AwaitedReplaced
<1>15. ASSUME NEW t \in Tasks, Remove(t) PROVE TypeOK'
  BY <1>15 DEF Remove, AwaitedReplaced
<1>16. CASE RegistryCancel
  <2>1. current \in Tasks
    BY <1>16 DEF RegistryCancel
  <2>2. pending' \in SUBSET Tasks /\ cancelling' \in [Tasks -> 0..CancelCap]
    BY <1>16, <2>1, CancelType DEF RegistryCancel
  <2>3. \A u \in Tasks : phase'[u] = "waiting" => AwaitedReplaced(u)'
    BY <1>16, <2>1, CancelKeepsAwaited DEF RegistryCancel
  <2>4. QED
    BY <1>16, <2>2, <2>3 DEF RegistryCancel
<1>17. CASE UNCHANGED vars
  BY <1>17 DEF vars, AwaitedReplaced
<1>18. QED
  BY <1>1, <1>2, <1>3, <1>4, <1>5, <1>6, <1>7, <1>8, <1>9, <1>10, <1>11, <1>12,
     <1>13, <1>14, <1>15, <1>16, <1>17 DEF Next, TaskStep

\* Every reachable state is well typed.
THEOREM TypeCorrect == Spec => []TypeOK
<1>1. Init => TypeOK
  BY DEF Init, TypeOK, Phases, Running, Finished, CancelCap
<1>2. QED
  BY <1>1, TypeStep, PTL DEF Spec

-----------------------------------------------------------------------------
(* How the phases, the ranks and the cancellation counts move. *)

\* The moves a task's phase can make in a step.
Moves(t) ==
    \/ phase'[t] = phase[t]
    \/ StartReplacement(t)
    \/ CancelPrevious(t)
    \/ phase[t] = "created" /\ phase'[t] = "skipped"
    \/ phase[t] \in {"created", "waiting"} /\ phase'[t] = "body" /\ NothingToAwait(t)
    \/ phase[t] \in Running /\ phase'[t] \in Running \cup {"done"}

\* A step changes a phase in one of the ways of Moves.
LEMMA PhaseMoves ==
    ASSUME TypeOK, [Next]_vars
    PROVE  \A u \in Tasks : Moves(u)
<1> USE DEF TypeOK, Moves, Running
<1>1. ASSUME NEW t \in Tasks, StartReplacement(t) PROVE \A u \in Tasks : Moves(u)
  BY <1>1 DEF StartReplacement
<1>2. ASSUME NEW t \in Tasks, BeginAtOnce(t) PROVE \A u \in Tasks : Moves(u)
  BY <1>2 DEF BeginAtOnce
<1>3. ASSUME NEW t \in Tasks, CancelPrevious(t) PROVE \A u \in Tasks : Moves(u)
  BY <1>3 DEF CancelPrevious
<1>4. ASSUME NEW t \in Tasks, SkipUnstarted(t) PROVE \A u \in Tasks : Moves(u)
  BY <1>4 DEF SkipUnstarted
<1>5. ASSUME NEW t \in Tasks, Resume(t) PROVE \A u \in Tasks : Moves(u)
  BY <1>5 DEF Resume
<1>6. ASSUME NEW t \in Tasks, BeginSave(t) PROVE \A u \in Tasks : Moves(u)
  BY <1>6 DEF BeginSave
<1>7. ASSUME NEW t \in Tasks, SaveSettles(t) PROVE \A u \in Tasks : Moves(u)
  BY <1>7 DEF SaveSettles
<1>8. ASSUME NEW t \in Tasks, SaveReturns(t) PROVE \A u \in Tasks : Moves(u)
  BY <1>8 DEF SaveReturns
<1>9. ASSUME NEW t \in Tasks, InterruptSave(t) PROVE \A u \in Tasks : Moves(u)
  BY <1>9 DEF InterruptSave, AfterFirstCancel
<1>10. ASSUME NEW t \in Tasks, SaveSettled(t) PROVE \A u \in Tasks : Moves(u)
  BY <1>10 DEF SaveSettled
<1>11. ASSUME NEW t \in Tasks, AbandonSave(t) PROVE \A u \in Tasks : Moves(u)
  BY <1>11 DEF AbandonSave
<1>12. ASSUME NEW t \in Tasks, Interrupt(t) PROVE \A u \in Tasks : Moves(u)
  BY <1>12 DEF Interrupt
<1>13. ASSUME NEW t \in Tasks, Finish(t) PROVE \A u \in Tasks : Moves(u)
  BY <1>13 DEF Finish
<1>14. ASSUME NEW t \in Tasks, InterruptCleanup(t) PROVE \A u \in Tasks : Moves(u)
  BY <1>14 DEF InterruptCleanup
<1>15. ASSUME NEW t \in Tasks, Remove(t) PROVE \A u \in Tasks : Moves(u)
  BY <1>15 DEF Remove
<1>16. CASE RegistryCancel
  BY <1>16 DEF RegistryCancel
<1>17. CASE UNCHANGED vars
  BY <1>17 DEF vars
<1>18. QED
  BY <1>1, <1>2, <1>3, <1>4, <1>5, <1>6, <1>7, <1>8, <1>9, <1>10, <1>11, <1>12,
     <1>13, <1>14, <1>15, <1>16, <1>17 DEF Next, TaskStep

\* Only start_replacement touches the creation order and the captured tasks,
\* and only start_replacement and remove touch the registry.
LEMMA Frame ==
    ASSUME TypeOK, [Next]_vars, \A t \in Tasks : ~StartReplacement(t)
    PROVE  /\ UNCHANGED <<previous, rank, total>>
           /\ \/ current' = current
              \/ current' = NoTask /\ current \in Tasks /\ IsDone(current)
<1>1. ASSUME NEW t \in Tasks, TaskStep(t) \/ SaveSettles(t)
      PROVE  UNCHANGED <<current, previous, rank, total>>
  BY <1>1 DEF TaskStep, BeginAtOnce, CancelPrevious, SkipUnstarted, Resume,
     BeginSave, SaveSettles, SaveReturns, InterruptSave, SaveSettled,
     AbandonSave, Interrupt, Finish, InterruptCleanup
<1>2. ASSUME NEW t \in Tasks, Remove(t)
      PROVE  /\ UNCHANGED <<previous, rank, total>>
             /\ current' = NoTask /\ current \in Tasks /\ IsDone(current)
  BY <1>2 DEF Remove, StillRegistered
<1>3. CASE RegistryCancel
  BY <1>3 DEF RegistryCancel
<1>4. CASE UNCHANGED vars
  BY <1>4 DEF vars
<1>5. QED
  BY <1>1, <1>2, <1>3, <1>4 DEF Next

\* No step forgets a cancellation request.
LEMMA CancellingGrows ==
    ASSUME TypeOK, [Next]_vars
    PROVE  \A u \in Tasks : cancelling'[u] >= cancelling[u]
<1>1. \A u \in Tasks : cancelling[u] \in Nat
  BY DEF TypeOK, CancelCap
<1>2. ASSUME NEW t \in Tasks, CancelPrevious(t)
      PROVE  \A u \in Tasks : cancelling'[u] >= cancelling[u]
  BY <1>2, CancelEffect DEF CancelPrevious, NothingToAwait
<1>3. ASSUME RegistryCancel
      PROVE  \A u \in Tasks : cancelling'[u] >= cancelling[u]
  BY <1>3, CancelEffect DEF RegistryCancel, TypeOK
<1>4. CASE cancelling' = cancelling
  BY <1>1, <1>4
<1>5. QED
  BY <1>2, <1>3, <1>4 DEF Next, TaskStep, vars, StartReplacement, BeginAtOnce,
     SkipUnstarted, Resume, BeginSave, SaveSettles, SaveReturns, InterruptSave,
     SaveSettled, AbandonSave, Interrupt, Finish, InterruptCleanup, Remove

\* A finished task stays finished, a created task created, and the creation
\* order of existing tasks never changes.
LEMMA HistoryStable ==
    ASSUME TypeOK, Order, [Next]_vars
    PROVE  /\ \A t \in Tasks : IsDone(t) => phase'[t] = phase[t]
           /\ \A t \in Tasks : Created(t) => Created(t)' /\ rank'[t] = rank[t]
           /\ \A t \in Tasks : \A u \in Tasks : Older(t, u) => Older(t, u)'
           /\ \A t \in Tasks : \A u \in Tasks :
                    Older(t, u)' /\ Created(u) => Older(t, u)
<1>1. \A t \in Tasks : Moves(t)
  BY PhaseMoves
<1>2. \A t \in Tasks : IsDone(t) => phase'[t] = phase[t]
  BY <1>1 DEF Moves, IsDone, Finished, Running, StartReplacement, CancelPrevious
<1>3. \A t \in Tasks : Created(t) => phase'[t] # "new"
  BY <1>1 DEF TypeOK, Moves, Created, Running, StartReplacement, CancelPrevious
<1>4. CASE \E n \in Tasks : StartReplacement(n)
  <2>1. PICK n \in Tasks : StartReplacement(n)
    BY <1>4
  <2>2. /\ phase[n] = "new"
        /\ \A t \in Tasks : t # n => rank'[t] = rank[t] /\ phase'[t] = phase[t]
        /\ rank'[n] = total + 1
    BY <2>1 DEF StartReplacement, TypeOK
  <2>3. \A t \in Tasks : Created(t) => rank'[t] = rank[t]
    BY <2>2 DEF Created
  <2>4. \A t \in Tasks : \A u \in Tasks : Older(t, u) => Older(t, u)'
    BY <1>3, <2>3 DEF Older, Created
  <2>5. ASSUME NEW t \in Tasks, NEW u \in Tasks, Older(t, u)', Created(u)
        PROVE  Older(t, u)
    <3>1. rank'[u] = rank[u] /\ rank[u] \in 1..total /\ total \in Nat
      BY <2>3, <2>5 DEF Order, TypeOK
    <3>2. rank'[t] < rank'[u] /\ phase'[t] # "new"
      BY <2>5 DEF Older, Created
    <3>3. t # n
      BY <2>2, <3>1, <3>2
    <3>4. QED
      BY <2>2, <2>5, <3>1, <3>2, <3>3 DEF Older, Created
  <2>6. QED
    BY <1>2, <1>3, <2>3, <2>4, <2>5 DEF Created
<1>5. CASE \A n \in Tasks : ~StartReplacement(n)
  <2>1. rank' = rank
    BY <1>5, Frame
  <2>2. \A t \in Tasks : Created(t)' => Created(t)
    BY <1>1, <1>5 DEF TypeOK, Moves, Created, Running, CancelPrevious
  <2>3. QED
    BY <1>2, <1>3, <2>1, <2>2 DEF Older, Created
<1>6. QED
  BY <1>4, <1>5

\* A skipped task between two others stays between them.
LEMMA SkippedStable ==
    ASSUME TypeOK, Order, [Next]_vars, NEW t \in Tasks, NEW u \in Tasks,
           SkippedBetween(t, u)
    PROVE  SkippedBetween(t, u)'
<1>1. PICK s \in Tasks : phase[s] = "skipped" /\ Older(t, s) /\ Older(s, u)
  BY DEF SkippedBetween
<1>2. phase'[s] = "skipped"
  BY <1>1, HistoryStable DEF IsDone, Finished
<1>3. Older(t, s)' /\ Older(s, u)'
  BY <1>1, HistoryStable
<1>4. QED
  BY <1>2, <1>3 DEF SkippedBetween

-----------------------------------------------------------------------------
(* The three invariants about creation order. *)

\* Creation order stays total: only start_replacement extends it.
LEMMA OrderStep == TypeOK /\ Order /\ [Next]_vars => Order'
<1> SUFFICES ASSUME TypeOK, Order, [Next]_vars PROVE Order'
  OBVIOUS
<1>1. CASE \E n \in Tasks : StartReplacement(n)
  <2>1. PICK n \in Tasks : StartReplacement(n)
    BY <1>1
  <2>2. /\ phase[n] = "new" /\ phase'[n] = "created"
        /\ \A t \in Tasks : t # n => rank'[t] = rank[t] /\ phase'[t] = phase[t]
        /\ rank'[n] = total + 1 /\ total' = total + 1 /\ total \in Nat
    BY <2>1 DEF StartReplacement, TypeOK
  <2>3. \A t \in Tasks : t # n /\ Created(t)' =>
            Created(t) /\ rank'[t] = rank[t] /\ rank[t] \in 1..total
    BY <2>2 DEF Order, Created
  <2>4. \A t \in Tasks : Created(t)' => rank'[t] \in 1..total'
    BY <2>2, <2>3
  <2>5. \A t \in Tasks : \A u \in Tasks :
            Created(t)' /\ Created(u)' /\ rank'[t] = rank'[u] => t = u
    BY <2>2, <2>3 DEF Order
  <2>6. ASSUME NEW k \in 1..total' PROVE \E t \in Tasks : Created(t)' /\ rank'[t] = k
    <3>1. CASE k = total + 1
      BY <2>2, <3>1 DEF Created
    <3>2. CASE k \in 1..total
      <4>1. PICK t \in Tasks : Created(t) /\ rank[t] = k
        BY <3>2 DEF Order
      <4>2. QED
        BY <2>2, <4>1 DEF Created
    <3>3. QED
      BY <2>2, <3>1, <3>2
  <2>7. QED
    BY <2>4, <2>5, <2>6 DEF Order
<1>2. CASE \A n \in Tasks : ~StartReplacement(n)
  <2>1. rank' = rank /\ total' = total
    BY <1>2, Frame
  <2>2. \A t \in Tasks : Created(t)' <=> Created(t)
    BY <1>2, PhaseMoves DEF TypeOK, Moves, Created, Running, CancelPrevious
  <2>3. QED
    BY <2>1, <2>2 DEF Order
<1>3. QED
  BY <1>1, <1>2

\* The registry keeps the newest task until that task is done.
LEMMA RegisteredStep == TypeOK /\ Order /\ Registered /\ [Next]_vars => Registered'
<1> SUFFICES ASSUME TypeOK, Order, Registered, [Next]_vars PROVE Registered'
  OBVIOUS
<1>1. CASE \E n \in Tasks : StartReplacement(n)
  <2>1. PICK n \in Tasks : StartReplacement(n)
    BY <1>1
  <2>2. current' = n /\ phase'[n] = "created" /\ rank'[n] = total'
    BY <2>1 DEF StartReplacement, TypeOK
  <2>3. QED
    BY <2>2, NoTaskAssumption DEF Registered, Created
<1>2. CASE \A n \in Tasks : ~StartReplacement(n)
  <2>1. /\ rank' = rank /\ total' = total
        /\ \/ current' = current
           \/ current' = NoTask /\ current \in Tasks /\ IsDone(current)
    BY <1>2, Frame
  <2>2. \A t \in Tasks : (Created(t)' <=> Created(t)) /\ (IsDone(t) => IsDone(t)')
    BY <1>2, PhaseMoves, HistoryStable
    DEF TypeOK, Moves, Created, IsDone, Running, CancelPrevious
  <2>3. CASE current' = current
    BY <2>1, <2>2, <2>3 DEF Registered, TypeOK
  <2>4. CASE current' = NoTask /\ current \in Tasks /\ IsDone(current)
    <3>1. Created(current) /\ rank[current] = total
      BY <2>4, NoTaskAssumption DEF Registered
    <3>2. \A t \in Tasks : Created(t) /\ rank[t] = total => IsDone(t)
      BY <2>4, <3>1 DEF Order
    <3>3. QED
      BY <2>1, <2>2, <2>4, <3>2 DEF Registered
  <2>5. QED
    BY <2>1, <2>3, <2>4
<1>3. QED
  BY <1>1, <1>2

\* start_replacement captures the immediate predecessor or finds it done.
LEMMA LinksStep ==
    TypeOK /\ Order /\ Registered /\ Links /\ [Next]_vars => Links'
<1> SUFFICES ASSUME TypeOK, Order, Registered, Links, [Next]_vars PROVE Links'
  OBVIOUS
<1>0. /\ \A t \in Tasks : IsDone(t) => IsDone(t)'
      /\ \A t \in Tasks : Created(t) => phase'[t] # "new" /\ rank'[t] = rank[t]
  BY HistoryStable DEF IsDone, Created
<1>1. CASE \E n \in Tasks : StartReplacement(n)
  <2>1. PICK n \in Tasks : StartReplacement(n)
    BY <1>1
  <2>2. /\ ~Created(n) /\ phase'[n] # "new"
        /\ \A t \in Tasks : t # n => /\ rank'[t] = rank[t]
                                     /\ phase'[t] = phase[t]
                                     /\ previous'[t] = previous[t]
        /\ rank'[n] = total + 1 /\ previous'[n] = current /\ total \in Nat
    BY <2>1 DEF StartReplacement, Captured, Created, TypeOK
  <2>3. ASSUME NEW t \in Tasks, previous'[t] # NoTask
        PROVE  /\ phase'[t] # "new" /\ phase'[previous'[t]] # "new"
               /\ rank'[previous'[t]] + 1 = rank'[t]
    <3>1. CASE t = n
      <4>1. current \in Tasks /\ Created(current) /\ rank[current] = total
        BY <2>2, <2>3, <3>1 DEF Registered, TypeOK
      <4>2. QED
        BY <1>0, <2>2, <3>1, <4>1
    <3>2. CASE t # n
      <4>1. /\ previous[t] \in Tasks /\ Created(t) /\ Created(previous[t])
            /\ rank[previous[t]] + 1 = rank[t]
        BY <2>2, <2>3, <3>2 DEF Links, TypeOK
      <4>2. QED
        BY <1>0, <2>2, <3>2, <4>1
    <3>3. QED
      BY <3>1, <3>2
  <2>4. ASSUME NEW t \in Tasks, NEW u \in Tasks, Created(t)', previous'[t] = NoTask,
               Created(u)', rank'[u] + 1 = rank'[t]
        PROVE  IsDone(u)'
    <3>1. \A w \in Tasks : w # n => (Created(w)' <=> Created(w))
      BY <2>2 DEF Created
    <3>2. \A w \in Tasks : Created(w) => rank[w] \in 1..total
      BY DEF Order
    <3>3. u # n
      <4>1. CASE t = n
        BY <2>2, <2>4, <4>1
      <4>2. CASE t # n
        BY <2>2, <2>4, <3>1, <3>2, <4>2
      <4>3. QED
        BY <4>1, <4>2
    <3>4. CASE t = n
      BY <1>0, <2>2, <2>4, <3>1, <3>2, <3>3, <3>4 DEF Registered
    <3>5. CASE t # n
      BY <1>0, <2>2, <2>4, <3>1, <3>3, <3>5 DEF Links
    <3>6. QED
      BY <3>4, <3>5
  <2>5. QED
    BY <2>3, <2>4 DEF Links, Created
<1>2. CASE \A n \in Tasks : ~StartReplacement(n)
  <2>1. rank' = rank /\ previous' = previous
    BY <1>2, Frame
  <2>2. \A t \in Tasks : Created(t)' <=> Created(t)
    BY <1>2, PhaseMoves DEF TypeOK, Moves, Created, Running, CancelPrevious
  <2>3. \A t \in Tasks : previous[t] \in Tasks \cup {NoTask}
    BY DEF TypeOK
  <2>4. ASSUME NEW t \in Tasks, previous'[t] # NoTask
        PROVE  /\ phase'[t] # "new" /\ phase'[previous'[t]] # "new"
               /\ rank'[previous'[t]] + 1 = rank'[t]
    <3>1. /\ previous[t] \in Tasks /\ Created(t) /\ Created(previous[t])
          /\ rank[previous[t]] + 1 = rank[t]
      BY <2>1, <2>3, <2>4 DEF Links
    <3>2. QED
      BY <1>0, <2>1, <3>1
  <2>5. \A t \in Tasks : \A u \in Tasks :
            Created(t)' /\ previous'[t] = NoTask /\ Created(u)' /\ rank'[u] + 1 = rank'[t]
            => IsDone(u)'
    BY <1>0, <2>1, <2>2 DEF Links
  <2>6. QED
    BY <2>4, <2>5 DEF Links, Created
<1>3. QED
  BY <1>1, <1>2

-----------------------------------------------------------------------------
(* One graph at a time, and whoever is replaced has been told. *)

\* A task with nothing to await follows finished or skipped tasks only.
LEMMA NothingToAwaitMeans ==
    ASSUME IInv, NEW t \in Tasks, NEW u \in Tasks,
           Older(t, u), ~IsDone(t), NothingToAwait(u)
    PROVE  SkippedBetween(t, u)
<1>1. /\ Created(t) /\ Created(u) /\ rank[t] < rank[u]
      /\ rank[t] \in 1..total /\ rank[u] \in 1..total /\ total \in Nat
  BY DEF IInv, Order, Older, TypeOK
<1>2. rank[u] - 1 \in 1..total
  BY <1>1
<1>3. PICK p \in Tasks : Created(p) /\ rank[p] = rank[u] - 1
  BY <1>2 DEF IInv, Order
<1>4. rank[p] + 1 = rank[u]
  BY <1>1, <1>3
<1>5. IsDone(p)
  <2>1. CASE previous[u] = NoTask
    BY <1>1, <1>3, <1>4, <2>1 DEF IInv, Links
  <2>2. CASE previous[u] # NoTask
    <3>1. /\ previous[u] \in Tasks /\ Created(previous[u])
          /\ rank[previous[u]] + 1 = rank[u]
      BY <2>2 DEF IInv, Links, TypeOK
    <3>2. rank[previous[u]] \in 1..total /\ rank[p] \in 1..total
      BY <1>3, <3>1 DEF IInv, Order
    <3>3. rank[previous[u]] = rank[p]
      BY <1>1, <1>4, <3>1, <3>2
    <3>4. previous[u] = p
      BY <1>3, <3>1, <3>3 DEF IInv, Order
    <3>5. QED
      BY <3>1, <3>4 DEF NothingToAwait
  <2>3. QED
    BY <2>1, <2>2
<1>6. t # p
  BY <1>5
<1>7. rank[t] # rank[p]
  BY <1>1, <1>3, <1>6 DEF IInv, Order
<1>8. Older(t, p) /\ Older(p, u)
  BY <1>1, <1>3, <1>4, <1>7 DEF Older
<1>9. CASE phase[p] = "skipped"
  BY <1>8, <1>9 DEF SkippedBetween
<1>10. CASE phase[p] = "done"
  <2>1. SkippedBetween(t, p)
    BY <1>8, <1>10 DEF IInv, OneGraphAtATime
  <2>2. PICK s \in Tasks : phase[s] = "skipped" /\ Older(t, s) /\ Older(s, p)
    BY <2>1 DEF SkippedBetween
  <2>3. rank[s] \in Nat /\ rank[p] \in Nat /\ rank[u] \in Nat
    BY DEF IInv, TypeOK
  <2>4. Older(s, u)
    BY <1>8, <2>2, <2>3 DEF Older
  <2>5. QED
    BY <2>2, <2>4 DEF SkippedBetween
<1>11. QED
  BY <1>5, <1>9, <1>10 DEF IsDone, Finished

\* OneGraphAtATime is kept: an operation starts only with nothing to await.
LEMMA OneGraphStep == IInv /\ [Next]_vars => OneGraphAtATime'
<1> SUFFICES ASSUME IInv, [Next]_vars, NEW t \in Tasks, NEW u \in Tasks,
                    Older(t, u)', phase'[u] \in Running \cup {"done"}, ~IsDone(t)'
             PROVE  SkippedBetween(t, u)'
  BY DEF OneGraphAtATime
<1>0. TypeOK /\ Order
  BY DEF IInv
<1>1. Moves(u)
  BY <1>0, PhaseMoves
<1>2. Created(u)
  BY <1>1 DEF IInv, TypeOK, Moves, Created, Running, StartReplacement, CancelPrevious
<1>3. Older(t, u) /\ ~IsDone(t)
  BY <1>0, <1>2, HistoryStable DEF IsDone
<1>4. phase[u] \in Running \cup {"done"} \/ NothingToAwait(u)
  BY <1>1 DEF IInv, TypeOK, Moves, Running, StartReplacement, CancelPrevious
<1>5. SkippedBetween(t, u)
  <2>1. CASE phase[u] \in Running \cup {"done"}
    BY <1>3, <2>1 DEF IInv, OneGraphAtATime
  <2>2. CASE NothingToAwait(u)
    BY <1>3, <2>2, NothingToAwaitMeans
  <2>3. QED
    BY <1>4, <2>1, <2>2
<1>6. QED
  BY <1>0, <1>5, SkippedStable

\* ReplacedIsTold is kept: CancelPrevious tells the predecessor, and whoever
\* is older was told by the predecessor or is separated by a skipped task.
LEMMA ToldStep == IInv /\ [Next]_vars => ReplacedIsTold'
<1> SUFFICES ASSUME IInv, [Next]_vars, NEW t \in Tasks, NEW u \in Tasks,
                    Older(t, u)', phase'[u] = "waiting", ~IsDone(t)'
             PROVE  cancelling'[t] > 0 \/ SkippedBetween(t, u)'
  BY DEF ReplacedIsTold
<1>0. TypeOK /\ Order
  BY DEF IInv
<1>1. Moves(u)
  BY <1>0, PhaseMoves
<1>2. phase[u] = "waiting" \/ CancelPrevious(u)
  BY <1>1 DEF IInv, TypeOK, Moves, Running, StartReplacement
<1>3. Created(u)
  BY <1>2 DEF Created, CancelPrevious
<1>4. Older(t, u) /\ ~IsDone(t)
  BY <1>0, <1>3, HistoryStable DEF IsDone
<1>5. cancelling'[t] >= cancelling[t] /\ cancelling[t] \in Nat /\ cancelling'[t] \in Nat
  BY <1>0, CancellingGrows, TypeStep DEF TypeOK, CancelCap
<1>6. CASE phase[u] = "waiting"
  BY <1>0, <1>4, <1>5, <1>6, SkippedStable DEF IInv, ReplacedIsTold
<1>7. CASE CancelPrevious(u)
  <2> DEFINE p == previous[u]
  <2>1. /\ p \in Tasks /\ ~IsDone(p) /\ phase[p] # "created"
        /\ Created(p) /\ rank[p] + 1 = rank[u] /\ Cancel(p)
    <3>1. p \in Tasks /\ ~IsDone(p) /\ phase[p] # "created" /\ Cancel(p)
      BY <1>7 DEF CancelPrevious, NothingToAwait, MyTurn
    <3>2. QED
      BY <3>1, NoTaskAssumption DEF IInv, Links
  <2>2. CASE t = p
    BY <1>0, <2>1, <2>2, CancelEffect
  <2>3. CASE t # p
    <3>1. rank[t] \in Nat /\ rank[p] \in Nat /\ rank[u] \in Nat /\ rank[t] # rank[p]
      BY <1>4, <2>1, <2>3 DEF IInv, TypeOK, Order, Older
    <3>2. Older(t, p) /\ Older(p, u)
      BY <1>4, <2>1, <3>1 DEF Older
    <3>3. phase[p] \in Running \cup {"waiting"}
      BY <2>1 DEF IInv, TypeOK, Phases, IsDone, Finished, Created
    <3>4. cancelling[t] > 0 \/ SkippedBetween(t, p)
      BY <1>4, <2>1, <3>2, <3>3 DEF IInv, ReplacedIsTold, OneGraphAtATime
    <3>5. SkippedBetween(t, p) => SkippedBetween(t, u)
      BY <3>1, <3>2 DEF SkippedBetween, Older, IInv, TypeOK
    <3>6. QED
      BY <1>0, <1>5, <3>4, <3>5, SkippedStable
  <2>4. QED
    BY <2>2, <2>3
<1>8. QED
  BY <1>2, <1>6, <1>7

-----------------------------------------------------------------------------
(* An open save is abandoned only after two cancellations. *)

\* Task.cancel() keeps SaveHeld: a second request saturates the count.
LEMMA CancelKeepsSaveHeld ==
    ASSUME TypeOK, SaveHeld, NEW t \in Tasks, Cancel(t), UNCHANGED save,
           \A u \in Tasks : \/ phase'[u] = phase[u]
                            \/ phase[u] = "created" /\ phase'[u] = "waiting"
    PROVE  SaveHeld'
<1> SUFFICES ASSUME NEW u \in Tasks
             PROVE  /\ u \in pending' => cancelling'[u] >= 1
                    /\ phase'[u] = "settling" => cancelling'[u] >= 1
                    /\ phase'[u] = "settling" /\ u \in pending'
                          => cancelling'[u] = CancelCap
                    /\ save'[u] = "open" =>
                          \/ phase'[u] \in {"saving", "settling"}
                          \/ /\ phase'[u] \in {"cleanup", "done"}
                             /\ cancelling'[u] = CancelCap
  BY DEF SaveHeld
<1>1. cancelling[u] \in 0..2 /\ cancelling'[u] \in 0..2 /\ CancelCap = 2
  BY CancelType DEF TypeOK, CancelCap
<1>2. /\ cancelling'[u] >= cancelling[u]
      /\ u \in pending' /\ u \notin pending =>
            /\ cancelling'[u] > 0
            /\ cancelling[u] > 0 => cancelling'[u] = CancelCap
  BY CancelEffect
<1>3. /\ u \in pending => cancelling[u] >= 1
      /\ phase[u] = "settling" => cancelling[u] >= 1
      /\ phase[u] = "settling" /\ u \in pending => cancelling[u] = CancelCap
      /\ save[u] = "open" =>
            \/ phase[u] \in {"saving", "settling"}
            \/ phase[u] \in {"cleanup", "done"} /\ cancelling[u] = CancelCap
  BY DEF SaveHeld
<1>4. QED
  BY <1>1, <1>2, <1>3

\* SaveHeld is kept by every step.
LEMMA SaveHeldStep == TypeOK /\ SaveHeld /\ [Next]_vars => SaveHeld'
<1> SUFFICES ASSUME TypeOK, SaveHeld, [Next]_vars PROVE SaveHeld'
  OBVIOUS
<1>3. ASSUME NEW t \in Tasks, CancelPrevious(t) PROVE SaveHeld'
  <2>1. previous[t] \in Tasks /\ Cancel(previous[t]) /\ UNCHANGED save
    BY <1>3 DEF CancelPrevious, NothingToAwait
  <2>2. \A u \in Tasks : \/ phase'[u] = phase[u]
                         \/ phase[u] = "created" /\ phase'[u] = "waiting"
    BY <1>3 DEF CancelPrevious, TypeOK
  <2>3. QED
    BY <2>1, <2>2, CancelKeepsSaveHeld
<1>16. CASE RegistryCancel
  <2>1. current \in Tasks /\ Cancel(current) /\ UNCHANGED <<save, phase>>
    BY <1>16 DEF RegistryCancel, TypeOK
  <2>2. QED
    BY <2>1, CancelKeepsSaveHeld
<1> USE DEF TypeOK, SaveHeld
<1>1. ASSUME NEW t \in Tasks, StartReplacement(t) PROVE SaveHeld'
  BY <1>1 DEF StartReplacement
<1>2. ASSUME NEW t \in Tasks, BeginAtOnce(t) PROVE SaveHeld'
  BY <1>2 DEF BeginAtOnce
<1>4. ASSUME NEW t \in Tasks, SkipUnstarted(t) PROVE SaveHeld'
  BY <1>4 DEF SkipUnstarted
<1>5. ASSUME NEW t \in Tasks, Resume(t) PROVE SaveHeld'
  BY <1>5 DEF Resume
<1>6. ASSUME NEW t \in Tasks, BeginSave(t) PROVE SaveHeld'
  BY <1>6 DEF BeginSave
<1>7. ASSUME NEW t \in Tasks, SaveSettles(t) PROVE SaveHeld'
  BY <1>7 DEF SaveSettles
<1>8. ASSUME NEW t \in Tasks, SaveReturns(t) PROVE SaveHeld'
  BY <1>8 DEF SaveReturns
<1>9. ASSUME NEW t \in Tasks, InterruptSave(t) PROVE SaveHeld'
  BY <1>9 DEF InterruptSave, AfterFirstCancel
<1>10. ASSUME NEW t \in Tasks, SaveSettled(t) PROVE SaveHeld'
  BY <1>10 DEF SaveSettled
<1>11. ASSUME NEW t \in Tasks, AbandonSave(t) PROVE SaveHeld'
  BY <1>11 DEF AbandonSave
<1>12. ASSUME NEW t \in Tasks, Interrupt(t) PROVE SaveHeld'
  BY <1>12 DEF Interrupt
<1>13. ASSUME NEW t \in Tasks, Finish(t) PROVE SaveHeld'
  BY <1>13 DEF Finish
<1>14. ASSUME NEW t \in Tasks, InterruptCleanup(t) PROVE SaveHeld'
  BY <1>14 DEF InterruptCleanup
<1>15. ASSUME NEW t \in Tasks, Remove(t) PROVE SaveHeld'
  BY <1>15 DEF Remove
<1>17. CASE UNCHANGED vars
  BY <1>17 DEF vars
<1>18. QED
  BY <1>1, <1>2, <1>3, <1>4, <1>5, <1>6, <1>7, <1>8, <1>9, <1>10, <1>11, <1>12,
     <1>13, <1>14, <1>15, <1>16, <1>17 DEF Next, TaskStep

-----------------------------------------------------------------------------
(* The inductive invariant and what follows from it. *)

\* IInv holds initially and is kept by every step.
THEOREM InductiveInvariant == Spec => []IInv
<1>1. Init => IInv
  <2> SUFFICES ASSUME Init PROVE IInv
    OBVIOUS
  <2>1. TypeOK
    BY DEF Init, TypeOK, Phases, Running, Finished, CancelCap
  <2>2. \A t \in Tasks : ~Created(t) /\ phase[t] = "new" /\ save[t] = "none"
    BY DEF Init, Created
  <2>3. Order /\ Registered /\ Links
    BY <2>2, NoTaskAssumption DEF Init, Order, Registered, Links
  <2>4. OneGraphAtATime /\ ReplacedIsTold
    BY <2>2 DEF OneGraphAtATime, ReplacedIsTold, Older
  <2>5. SaveHeld
    BY <2>2 DEF SaveHeld, Init
  <2>6. QED
    BY <2>1, <2>3, <2>4, <2>5 DEF IInv
<1>2. IInv /\ [Next]_vars => IInv'
  BY TypeStep, OrderStep, RegisteredStep, LinksStep, OneGraphStep, ToldStep,
     SaveHeldStep DEF IInv
<1>3. QED
  BY <1>1, <1>2, PTL DEF Spec

\* One graph at a time, up to replacements cancelled before their first step
\* (start_replacement).
THEOREM GraphsRunOneAtATime == Spec => []OneGraphAtATime
<1>1. IInv => OneGraphAtATime
  BY DEF IInv
<1>2. QED
  BY <1>1, InductiveInvariant, PTL

\* A waiting replacement has told every unfinished task before it to stop.
THEOREM ReplacedTasksAreTold == Spec => []ReplacedIsTold
<1>1. IInv => ReplacedIsTold
  BY DEF IInv
<1>2. QED
  BY <1>1, InductiveInvariant, PTL

\* With one cancellation, a plan save settles before a newer graph runs
\* (complete_before_cancel).
THEOREM SavesSettleFirst == Spec => []SaveSettledFirst
<1>1. IInv => SaveSettledFirst
  <2> SUFFICES ASSUME IInv, NEW t \in Tasks, NEW u \in Tasks,
                      Older(t, u), phase[u] \in Running, save[t] = "open"
               PROVE  cancelling[t] = CancelCap \/ SkippedBetween(t, u)
    BY DEF SaveSettledFirst
  <2>1. CASE IsDone(t)
    BY <2>1 DEF IInv, SaveHeld, IsDone, Finished
  <2>2. CASE ~IsDone(t)
    BY <2>2 DEF IInv, OneGraphAtATime
  <2>3. QED
    BY <2>1, <2>2
<1>2. QED
  BY <1>1, InductiveInvariant, PTL

\* The newest unfinished task is the registered one (remove compares).
THEOREM RegistryHoldsNewest == Spec => []NewestStaysRegistered
<1>1. IInv => NewestStaysRegistered
  BY DEF IInv, NewestStaysRegistered, Registered, Order, TypeOK
<1>2. QED
  BY <1>1, InductiveInvariant, PTL

\* A request to stop is pending where the task has not begun its save, unless the
\* task awaited its predecessor when it came.
HeedsCancel ==
    \A t \in Tasks : cancelling[t] > 0 =>
        /\ phase[t] \in {"new", "created"} => t \in pending
        /\ phase[t] = "body" /\ save[t] = "none" => t \in pending \/ AwaitedReplaced(t)

\* Task.cancel() keeps HeedsCancel: what it reaches outside a wait is pending.
LEMMA CancelKeepsHeeds ==
    ASSUME TypeOK, HeedsCancel, NEW t \in Tasks, Cancel(t), UNCHANGED <<save, previous>>,
           \A u \in Tasks : \/ phase'[u] = phase[u]
                            \/ phase[u] = "created" /\ phase'[u] = "waiting"
    PROVE  HeedsCancel'
<1> SUFFICES ASSUME NEW u \in Tasks, cancelling'[u] > 0
             PROVE  /\ phase'[u] \in {"new", "created"} => u \in pending'
                    /\ phase'[u] = "body" /\ save'[u] = "none"
                          => u \in pending' \/ AwaitedReplaced(u)'
  BY DEF HeedsCancel
<1>1. /\ u \in pending => u \in pending'
      /\ cancelling'[u] # cancelling[u] /\ phase[u] # "waiting" => u \in pending'
  BY CancelEffect
<1>2. AwaitedReplaced(u) => AwaitedReplaced(u)'
  BY CancelKeepsAwaited
<1>3. QED
  BY <1>1, <1>2 DEF HeedsCancel

\* HeedsCancel is kept by every step.
LEMMA HeedsStep == TypeOK /\ HeedsCancel /\ [Next]_vars => HeedsCancel'
<1> SUFFICES ASSUME TypeOK, HeedsCancel, [Next]_vars PROVE HeedsCancel'
  OBVIOUS
<1>1. ASSUME NEW t \in Tasks, CancelPrevious(t) PROVE HeedsCancel'
  <2>1. previous[t] \in Tasks /\ Cancel(previous[t]) /\ UNCHANGED <<save, previous>>
    BY <1>1 DEF CancelPrevious, NothingToAwait
  <2>2. \A u \in Tasks : \/ phase'[u] = phase[u]
                         \/ phase[u] = "created" /\ phase'[u] = "waiting"
    BY <1>1 DEF CancelPrevious, TypeOK
  <2>3. QED
    BY <2>1, <2>2, CancelKeepsHeeds
<1>2. CASE RegistryCancel
  <2>1. current \in Tasks /\ Cancel(current) /\ UNCHANGED <<save, phase, previous>>
    BY <1>2 DEF RegistryCancel, TypeOK
  <2>2. QED
    BY <2>1, CancelKeepsHeeds
<1> USE DEF TypeOK, HeedsCancel, AwaitedReplaced
<1>3. ASSUME NEW t \in Tasks, StartReplacement(t) PROVE HeedsCancel'
  BY <1>3 DEF StartReplacement
<1>4. ASSUME NEW t \in Tasks, BeginAtOnce(t) PROVE HeedsCancel'
  BY <1>4 DEF BeginAtOnce
<1>5. ASSUME NEW t \in Tasks, SkipUnstarted(t) PROVE HeedsCancel'
  BY <1>5 DEF SkipUnstarted
<1>6. ASSUME NEW t \in Tasks, Resume(t) PROVE HeedsCancel'
  BY <1>6 DEF Resume
<1>7. ASSUME NEW t \in Tasks, BeginSave(t) PROVE HeedsCancel'
  BY <1>7 DEF BeginSave
<1>8. ASSUME NEW t \in Tasks, SaveSettles(t) PROVE HeedsCancel'
  BY <1>8 DEF SaveSettles
<1>9. ASSUME NEW t \in Tasks, SaveReturns(t) PROVE HeedsCancel'
  BY <1>9 DEF SaveReturns
<1>10. ASSUME NEW t \in Tasks, InterruptSave(t) PROVE HeedsCancel'
  BY <1>10 DEF InterruptSave, AfterFirstCancel
<1>11. ASSUME NEW t \in Tasks, SaveSettled(t) PROVE HeedsCancel'
  BY <1>11 DEF SaveSettled
<1>12. ASSUME NEW t \in Tasks, AbandonSave(t) PROVE HeedsCancel'
  BY <1>12 DEF AbandonSave
<1>13. ASSUME NEW t \in Tasks, Interrupt(t) PROVE HeedsCancel'
  BY <1>13 DEF Interrupt
<1>14. ASSUME NEW t \in Tasks, Finish(t) PROVE HeedsCancel'
  BY <1>14 DEF Finish
<1>15. ASSUME NEW t \in Tasks, InterruptCleanup(t) PROVE HeedsCancel'
  BY <1>15 DEF InterruptCleanup
<1>16. ASSUME NEW t \in Tasks, Remove(t) PROVE HeedsCancel'
  BY <1>16 DEF Remove
<1>17. CASE UNCHANGED vars
  BY <1>17 DEF vars
<1>18. QED
  BY <1>1, <1>2, <1>3, <1>4, <1>5, <1>6, <1>7, <1>8, <1>9, <1>10, <1>11, <1>12,
     <1>13, <1>14, <1>15, <1>16, <1>17 DEF Next, TaskStep

\* A task replaced while its graph runs begins no save, unless it had awaited a
\* predecessor itself (run_in_order).
THEOREM ReplacedTasksSaveNothing == Spec => NoSaveAfterCancel
<1>1. ASSUME IInv, HeedsCancel, [Next]_vars
      PROVE  [\A t \in Tasks :
                 save[t] = "none" /\ save'[t] = "open" /\ ~AwaitedReplaced(t)
                 => \A u \in Tasks : Older(t, u) /\ ~SkippedBetween(t, u)
                       => phase[u] \in {"created", "skipped"}]_vars
  <2> SUFFICES ASSUME NEW t \in Tasks, save[t] = "none", save'[t] = "open",
                      ~AwaitedReplaced(t),
                      NEW u \in Tasks, Older(t, u), ~SkippedBetween(t, u)
               PROVE  phase[u] \in {"created", "skipped"}
    OBVIOUS
  <2>1. BeginSave(t)
    BY <1>1 DEF IInv, TypeOK, Next, TaskStep, vars, StartReplacement, BeginAtOnce,
       CancelPrevious, SkipUnstarted, Resume, BeginSave, SaveSettles, SaveReturns,
       InterruptSave, SaveSettled, AbandonSave, Interrupt, Finish, InterruptCleanup,
       Remove, RegistryCancel
  <2>2. phase[t] = "body" /\ t \notin pending /\ ~IsDone(t)
    BY <2>1 DEF BeginSave, IsDone, Finished
  <2>3. ~(cancelling[t] > 0)
    BY <1>1, <2>2 DEF HeedsCancel
  <2>4. phase[u] # "waiting"
    BY <1>1, <2>2, <2>3 DEF IInv, ReplacedIsTold
  <2>5. phase[u] \notin Running \cup {"done"}
    BY <1>1, <2>2 DEF IInv, OneGraphAtATime
  <2>6. QED
    BY <1>1, <2>4, <2>5 DEF IInv, TypeOK, Phases, Finished, Older, Created
<1>2. Init => HeedsCancel
  BY DEF Init, HeedsCancel
<1>3. IInv => TypeOK
  BY DEF IInv
<1>4. QED
  BY <1>1, <1>2, <1>3, HeedsStep, InductiveInvariant, PTL DEF Spec, NoSaveAfterCancel

-----------------------------------------------------------------------------
(* Nobody waits in a circle, and every step brings its task nearer the end. *)

\* A task in one of the two awaits of the save has begun it.
SaveBegun ==
    \A t \in Tasks : phase[t] \in {"saving", "settling"} => save[t] # "none"

\* No step undoes a save, and only begin_save leads into the first await.
LEMMA SaveBegunStep == TypeOK /\ SaveBegun /\ [Next]_vars => SaveBegun'
<1> SUFFICES ASSUME TypeOK, SaveBegun, [Next]_vars, NEW t \in Tasks,
                    phase'[t] \in {"saving", "settling"}
             PROVE  save'[t] # "none"
  BY DEF SaveBegun
<1>1. CASE BeginSave(t)
  BY <1>1 DEF BeginSave, TypeOK
<1>2. CASE ~BeginSave(t)
  <2>1. phase[t] \in {"saving", "settling"}
    BY <1>2 DEF TypeOK, Next, TaskStep, vars, StartReplacement, BeginAtOnce,
       CancelPrevious, SkipUnstarted, Resume, BeginSave, SaveSettles, SaveReturns,
       InterruptSave, AfterFirstCancel, SaveSettled, AbandonSave, Interrupt,
       Finish, InterruptCleanup, Remove, RegistryCancel
  <2>2. save'[t] \in {save[t], "open", "settled"}
    BY DEF TypeOK, Next, TaskStep, vars, StartReplacement, BeginAtOnce,
       CancelPrevious, SkipUnstarted, Resume, BeginSave, SaveSettles, SaveReturns,
       InterruptSave, SaveSettled, AbandonSave, Interrupt,
       Finish, InterruptCleanup, Remove, RegistryCancel
  <2> QED
    BY <2>1, <2>2 DEF SaveBegun
<1> QED
  BY <1>1, <1>2

\* The guards of the actions a task, or its save, takes by itself: with one of
\* them true the event loop or the database brings the task on.
CanMove(t) ==
    \/ phase[t] = "created" /\ MyTurn(t)
    \/ phase[t] = "waiting" /\ NothingToAwait(t)
    \/ phase[t] \in {"body", "cleanup"}
    \/ /\ phase[t] \in {"saving", "settling"}
       /\ t \in pending \/ save[t] \in {"open", "settled"}

\* Everyone waits for the task before it, and never in a circle: as long as a
\* task is unfinished, there is one that can move and waits for nobody.
SomeoneCanMove ==
    (\E t \in Tasks : Created(t) /\ ~IsDone(t))
    => \E t \in Tasks : /\ Created(t) /\ ~IsDone(t) /\ CanMove(t)
                        /\ \A u \in Tasks : Older(u, t) => IsDone(u)

\* The oldest unfinished task waits for nobody.
LEMMA OldestUnfinished ==
    ASSUME IInv, NEW v \in Tasks, Created(v), ~IsDone(v)
    PROVE  \E t \in Tasks : /\ Created(t) /\ ~IsDone(t)
                            /\ \A u \in Tasks : Older(u, t) => IsDone(u)
<1> DEFINE R == {rank[t] : t \in {u \in Tasks : Created(u) /\ ~IsDone(u)}}
<1>1. R \subseteq Nat /\ rank[v] \in R
  BY DEF IInv, TypeOK
<1>2. PICK n \in R : \A m \in R : ~(<<m, n>> \in OpToRel(<, Nat))
  <2> HIDE DEF R
  <2> QED
    BY <1>1, WFMin, NatLessThanWellFounded
<1>3. PICK t \in Tasks : Created(t) /\ ~IsDone(t) /\ rank[t] = n
  OBVIOUS
<1>4. ASSUME NEW u \in Tasks, Older(u, t)
      PROVE  IsDone(u)
  <2>1. Created(u) /\ rank[u] < n
    BY <1>3, <1>4 DEF Older
  <2>2. SUFFICES ASSUME ~IsDone(u)
                 PROVE  FALSE
    OBVIOUS
  <2>3. rank[u] \in R
    BY <2>1, <2>2
  <2>4. rank[u] \in Nat /\ n \in Nat
    BY <1>1, <2>3
  <2> HIDE DEF R
  <2> QED
    BY <1>2, <2>1, <2>3, <2>4 DEF OpToRel
<1> QED
  BY <1>3, <1>4

\* The oldest unfinished task has an action of its own to take.
LEMMA OldestCanMove == IInv /\ SaveBegun => SomeoneCanMove
<1> SUFFICES ASSUME IInv, SaveBegun, NEW v \in Tasks, Created(v), ~IsDone(v)
             PROVE  \E t \in Tasks :
                      /\ Created(t) /\ ~IsDone(t) /\ CanMove(t)
                      /\ \A u \in Tasks : Older(u, t) => IsDone(u)
  BY DEF SomeoneCanMove
<1>1. PICK t \in Tasks : /\ Created(t) /\ ~IsDone(t)
                         /\ \A u \in Tasks : Older(u, t) => IsDone(u)
  BY OldestUnfinished
<1>2. phase[t] \in Phases /\ save[t] \in {"none", "open", "settled"}
  BY DEF IInv, TypeOK
<1>3. previous[t] \in Tasks => IsDone(previous[t])
  <2> SUFFICES ASSUME previous[t] \in Tasks
               PROVE  IsDone(previous[t])
    OBVIOUS
  <2>1. previous[t] # NoTask
    BY NoTaskAssumption
  <2>2. Created(previous[t]) /\ rank[previous[t]] + 1 = rank[t]
    BY <2>1 DEF IInv, Links
  <2>3. rank[previous[t]] \in Nat /\ rank[t] \in Nat
    BY DEF IInv, TypeOK
  <2>4. Older(previous[t], t)
    BY <1>1, <2>2, <2>3 DEF Older
  <2> QED
    BY <1>1, <2>4
<1>4. NothingToAwait(t) /\ MyTurn(t)
  BY <1>3 DEF NothingToAwait, MyTurn, IsDone, Finished
<1>5. CanMove(t)
  BY <1>1, <1>2, <1>4 DEF CanMove, SaveBegun, Phases, Running, Created,
     IsDone, Finished
<1> QED
  BY <1>1, <1>5

\* For any number of tasks, nobody waits in a circle.
THEOREM NobodyWaitsInCircles == Spec => []SomeoneCanMove
<1>1. Init => SaveBegun
  BY DEF Init, SaveBegun
<1>2. IInv => TypeOK
  BY DEF IInv
<1>3. QED
  BY <1>1, <1>2, OldestCanMove, SaveBegunStep, InductiveInvariant, PTL DEF Spec

\* What each phase and each state of the save counts for.
PhaseWeight ==
    [new |-> 5, created |-> 4, waiting |-> 3, body |-> 2, saving |-> 4,
     settling |-> 3, cleanup |-> 1, done |-> 0, skipped |-> 0]
SaveWeight == [none |-> 4, open |-> 1, settled |-> 0]

\* A bound on the steps a task and its save have before them.
StepsLeft(t) == PhaseWeight[phase[t]] + SaveWeight[save[t]]

\* Every step of a task or of its save is one less that it has before it, and
\* nothing anybody else does gives it another one.
EveryStepCounts ==
    [][\A t \in Tasks :
         /\ StepsLeft(t)' <= StepsLeft(t)
         /\ TaskStep(t) \/ SaveSettles(t) => StepsLeft(t)' < StepsLeft(t)]_vars

\* The two tables, entry by entry.
LEMMA Weights ==
    /\ PhaseWeight["new"] = 5 /\ PhaseWeight["created"] = 4
    /\ PhaseWeight["waiting"] = 3 /\ PhaseWeight["body"] = 2
    /\ PhaseWeight["saving"] = 4 /\ PhaseWeight["settling"] = 3
    /\ PhaseWeight["cleanup"] = 1 /\ PhaseWeight["done"] = 0
    /\ PhaseWeight["skipped"] = 0 /\ SaveWeight["none"] = 4
    /\ SaveWeight["open"] = 1 /\ SaveWeight["settled"] = 0
  BY DEF PhaseWeight, SaveWeight

\* Every entry is a natural number.
LEMMA WeightsAreNumbers ==
    /\ \A p \in Phases : PhaseWeight[p] \in Nat
    /\ \A s \in {"none", "open", "settled"} : SaveWeight[s] \in Nat
  BY Weights DEF Phases, Running, Finished

\* A step of t, or of its save, brings it nearer the end and leaves the others.
LEMMA OwnStepCounts ==
    ASSUME IInv, NEW t \in Tasks, TaskStep(t) \/ SaveSettles(t)
    PROVE  /\ StepsLeft(t)' < StepsLeft(t)
           /\ \A u \in Tasks : u # t => StepsLeft(u)' = StepsLeft(u)
<1>1. /\ phase[t] \in Phases /\ save[t] \in {"none", "open", "settled"}
      /\ phase[t] = "body" => save[t] # "open"
      /\ phase \in [Tasks -> Phases] /\ save \in [Tasks -> {"none", "open", "settled"}]
  BY DEF IInv, TypeOK, SaveHeld
<1>2. \A u \in Tasks : u # t => phase'[u] = phase[u] /\ save'[u] = save[u]
  BY <1>1 DEF TaskStep, BeginAtOnce, CancelPrevious, SkipUnstarted, Resume,
     BeginSave, SaveSettles, SaveReturns, InterruptSave, SaveSettled,
     AbandonSave, Interrupt, Finish, InterruptCleanup
<1>3. \A u \in Tasks : u # t => StepsLeft(u)' = StepsLeft(u)
  BY <1>2 DEF StepsLeft
<1>4. PhaseWeight[phase[t]] \in Nat
  BY <1>1, WeightsAreNumbers
<1>5. CASE SaveSettles(t)
  BY <1>1, <1>4, <1>5, Weights DEF SaveSettles, StepsLeft
<1>6. CASE TaskStep(t)
  <2>1. CASE BeginAtOnce(t) \/ CancelPrevious(t) \/ SkipUnstarted(t) \/ Resume(t)
    BY <1>1, <2>1, Weights DEF BeginAtOnce, CancelPrevious, SkipUnstarted, Resume,
       StepsLeft
  <2>2. CASE BeginSave(t) \/ SaveReturns(t)
    BY <1>1, <2>2, Weights DEF BeginSave, SaveReturns, StepsLeft
  <2>3. CASE InterruptSave(t) \/ SaveSettled(t) \/ AbandonSave(t)
    BY <1>1, <2>3, Weights DEF InterruptSave, AfterFirstCancel, SaveSettled,
       AbandonSave, StepsLeft
  <2>4. CASE Interrupt(t) \/ Finish(t) \/ InterruptCleanup(t)
    BY <1>1, <2>4, Weights DEF Interrupt, Finish, InterruptCleanup, StepsLeft
  <2> QED
    BY <1>6, <2>1, <2>2, <2>3, <2>4 DEF TaskStep
<1> QED
  BY <1>3, <1>5, <1>6

\* A task takes at most eight steps of its own; cancellations add none.
THEOREM TasksTakeFewSteps == Spec => EveryStepCounts
<1>1. ASSUME IInv, [Next]_vars
      PROVE  [\A t \in Tasks :
                /\ StepsLeft(t)' <= StepsLeft(t)
                /\ TaskStep(t) \/ SaveSettles(t) => StepsLeft(t)' < StepsLeft(t)]_vars
  <2> SUFFICES ASSUME NEW t \in Tasks
               PROVE  /\ StepsLeft(t)' <= StepsLeft(t)
                      /\ TaskStep(t) \/ SaveSettles(t) => StepsLeft(t)' < StepsLeft(t)
    OBVIOUS
  <2>1. StepsLeft(t) \in Nat /\ StepsLeft(t)' \in Nat
    <3>1. TypeOK /\ TypeOK'
      BY <1>1, TypeStep DEF IInv
    <3> QED
      BY <3>1, WeightsAreNumbers DEF StepsLeft, TypeOK
  <2>2. CASE TaskStep(t) \/ SaveSettles(t)
    <3>1. StepsLeft(t)' < StepsLeft(t)
      BY <1>1, <2>2, OwnStepCounts
    <3> QED
      BY <2>1, <3>1
  <2>3. CASE \E u \in Tasks : u # t /\ (TaskStep(u) \/ SaveSettles(u))
    BY <1>1, <2>1, <2>2, <2>3, OwnStepCounts
  <2>4. CASE StartReplacement(t)
    <3>1. /\ phase[t] = "new" /\ phase'[t] = "created" /\ save'[t] = save[t]
          /\ SaveWeight[save[t]] \in Nat
      BY <1>1, <2>4, WeightsAreNumbers DEF StartReplacement, IInv, TypeOK
    <3>2. StepsLeft(t)' < StepsLeft(t)
      BY <3>1, Weights DEF StepsLeft
    <3> QED
      BY <2>1, <3>2
  <2>5. CASE /\ phase'[t] = phase[t] /\ save'[t] = save[t]
             /\ ~TaskStep(t) /\ ~SaveSettles(t)
    BY <2>1, <2>5 DEF StepsLeft
  <2>6. CASE \E u \in Tasks : u # t /\ StartReplacement(u)
    <3>1. phase'[t] = phase[t] /\ save'[t] = save[t]
      BY <1>1, <2>6 DEF StartReplacement, IInv, TypeOK
    <3> QED
      BY <2>2, <2>5, <3>1
  <2>7. CASE (\E u \in Tasks : Remove(u)) \/ RegistryCancel \/ UNCHANGED vars
    <3>1. phase'[t] = phase[t] /\ save'[t] = save[t]
      BY <2>7 DEF Remove, RegistryCancel, vars
    <3> QED
      BY <2>2, <2>5, <3>1
  <2> QED
    BY <1>1, <2>2, <2>3, <2>4, <2>6, <2>7 DEF Next
<1>2. QED
  BY <1>1, InductiveInvariant, PTL DEF Spec, EveryStepCounts
=============================================================================
