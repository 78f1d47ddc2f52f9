-------------------------- MODULE MessageTurnProofs --------------------------
(***************************************************************************)
(* Proofs about MessageTurn, for any number of messages and every setting. *)
(*                                                                         *)
(* What is told of a turn depends on its last call only, so the invariant  *)
(* says what may be left over from an earlier call: a malformed output     *)
(* that is about to be asked for again, and nothing else.  A turn that was *)
(* struck by a cancellation stays cancelled until it is over, and neither  *)
(* makes a call.                                                           *)
(***************************************************************************)
EXTENDS MessageTurn, TLAPS

\* A call is in flight only where one is made.
CallsFit ==
    \A t \in Turns :
        /\ turn[t].call = "model" => NeedsModel(turn[t])
        /\ turn[t].call = "java" => turn[t].stage \in {"resolve", "search", "page"}

\* A turn that goes on has no fault behind it but an output to be repaired.
Repairing ==
    \A t \in Turns : turn[t].stage # "done" =>
        \/ fault[t] = "none"
        \/ fault[t] = "model" /\ NeedsModel(turn[t])

\* What was struck is cancelled until it ends.
StoppedEnds == \A u \in stopped : turn[u].cancelled \/ turn[u].stage = "done"

IInv ==
    /\ TypeOK
    /\ CallsFit
    /\ Repairing
    /\ StoppedEnds
    /\ NoFalseBlame

\* What a step does to the rest when it strikes nobody.
Kept ==
    /\ settings' = settings /\ plan' \in BOOLEAN /\ last' \in Turns \cup {NoTurn}
    /\ stopped' = stopped

\* A message that has ended is well typed, for every reply the code has.
LEMMA FinishedFits ==
  ASSUME NEW outcome \in Failures \cup Replies
  PROVE  /\ Finished(outcome) \in Turn
         /\ Finished(outcome).stage = "done" /\ Finished(outcome).call = "none"
         /\ Finished(outcome).attempt = 0 /\ Finished(outcome).cancelled = FALSE
         /\ Finished(outcome).outcome = outcome
  BY DEF Finished, Resting, Turn, Stages

\* What is told of an answer may be told: a refusal of the user, a failure of
\* Java, or a failure of the code that reads it (_decode_response, its callers).
LEMMA RepliesFit ==
  ASSUME NEW a \in Answers, NEW r, settings.browser \in BOOLEAN
  PROVE  /\ WrongWith(a) \in Faults \ {"model", "setup", "code"}
         /\ ReplyOn(r, a) = "none" => WrongWith(a) = "none"
         /\ ReplyOn(r, a) # "none" => /\ ReplyOn(r, a) \in Failures \cup {"NEEDS_CLARIFICATION"}
                                      /\ Truthful(ReplyOn(r, a), WrongWith(a))
<1> USE DEF Answer, ReplyOn, WrongWith, Refused, Broken, Wrapped, Shape, EntitiesReply,
            CitiesReply, PageReply, Failures, Faults, Truthful
<1>1. CASE a \in {Answer(h, 0, "null") : h \in {0, 302, 401, 403, 404, 500}}
  BY <1>1
<1>2. CASE a \in {Answer(200, 0, "unreadable"), Answer(200, 200, "absent")}
  BY <1>2
<1>3. CASE a \in {Answer(200, c, d) : c \in {401, 403, 500}, d \in {"null", "absent"}}
  BY <1>3
<1>4. CASE a \in {Answer(200, c, d) : c \in {0, 200},
                                     d \in {"fits", "null", "other", "object", "gap", "bad"}}
  <2>1. PICK c \in {0, 200}, d \in {"fits", "null", "other", "object", "gap", "bad"} :
           a = [http |-> 200, code |-> c, data |-> d]
    BY <1>4
  <2>2. a.http = 200 /\ a.code = c /\ a.data = d
    BY <2>1
  <2>3. ~Refused(a) /\ ~Broken(a) /\ Shape(a) = d
    BY <2>2
  <2>4. WrongWith(a) = IF d = "fits" THEN "none" ELSE "java"
    BY <2>2
  <2>5. ReplyOn(r, a) \in {PageReply(d), CitiesReply(d), EntitiesReply(d)}
    <3> HIDE DEF Refused, Broken, Shape, PageReply, CitiesReply, EntitiesReply
    <3> QED
      BY <2>3
  <2>6. \A reply \in {PageReply(d), CitiesReply(d), EntitiesReply(d)} :
           IF d = "fits" THEN reply = "none"
           ELSE reply \in {"DEPENDENCY_ERROR", "INTERNAL_ERROR", "NEEDS_CLARIFICATION"}
    OBVIOUS
  <2> HIDE DEF ReplyOn, WrongWith, PageReply, CitiesReply, EntitiesReply
  <2> QED
    BY <2>4, <2>5, <2>6
<1> HIDE DEF Answer, ReplyOn, WrongWith, Truthful, Failures, Faults
<1> QED
  BY <1>1, <1>2, <1>3, <1>4 DEF Answers

\* One turn moves, its fault is set, and nobody was struck: what has to be
\* shown of the turn for the invariant to hold.
LEMMA OneMoves ==
  ASSUME IInv, NEW t \in Turns, NEW r \in Turn, NEW f \in Faults,
         turn' = [turn EXCEPT ![t] = r], fault' = [fault EXCEPT ![t] = f],
         Kept,
         r.attempt <= settings.repairs,
         r.call = "model" => NeedsModel(r),
         r.call = "java" => r.stage \in {"resolve", "search", "page"},
         r.stage # "done" => f = "none" \/ (f = "model" /\ NeedsModel(r)),
         turn[t].cancelled => r.cancelled \/ r.stage = "done",
         turn[t].stage # "done",
         r.stage = "done" /\ r.outcome # "CANCELLED" => Truthful(r.outcome, f)
  PROVE  IInv'
<1>0. turn \in [Turns -> Turn] /\ fault \in [Turns -> Faults]
  BY DEF IInv, TypeOK
<1>1. \A u \in Turns : turn'[u] = IF u = t THEN r ELSE turn[u]
  BY <1>0
<1>2. \A u \in Turns : fault'[u] = IF u = t THEN f ELSE fault[u]
  BY <1>0
<1>3. TypeOK'
  <2>1. turn' \in [Turns -> Turn] /\ fault' \in [Turns -> Faults]
    BY <1>0
  <2>2. \A u \in Turns : turn'[u].attempt <= settings'.repairs
    BY <1>1 DEF IInv, TypeOK, Kept
  <2> QED
    BY <2>1, <2>2 DEF IInv, TypeOK, Kept
<1>4. CallsFit'
  BY <1>1 DEF IInv, CallsFit, NeedsModel
<1>5. Repairing'
  BY <1>1, <1>2 DEF IInv, Repairing, NeedsModel
<1>6. StoppedEnds'
  BY <1>1 DEF IInv, TypeOK, StoppedEnds, Kept
<1>7. NoFalseBlame'
  BY <1>1, <1>2 DEF IInv, NoFalseBlame
<1> QED
  BY <1>3, <1>4, <1>5, <1>6, <1>7 DEF IInv

\* What the invariant says of one turn, in the form the steps need it.
LEMMA TurnFits ==
  ASSUME IInv, NEW t \in Turns
  PROVE  /\ turn[t] \in Turn /\ turn[t].attempt \in 0..1
         /\ turn[t].attempt <= settings.repairs
         /\ fault[t] \in Faults /\ fault = [fault EXCEPT ![t] = fault[t]]
         /\ settings \in Settings /\ settings.repairs \in 0..1 /\ plan \in BOOLEAN
         /\ settings.browser \in BOOLEAN /\ last \in Turns \cup {NoTurn}
         /\ turn[t].call = "model" => NeedsModel(turn[t])
         /\ turn[t].call = "java" => turn[t].stage \in {"resolve", "search", "page"}
         /\ turn[t].stage # "done" =>
               fault[t] = "none" \/ (fault[t] = "model" /\ NeedsModel(turn[t]))
         /\ 0 <= settings.repairs
<1>1. settings \in Settings /\ settings.repairs \in 0..1 /\ settings.browser \in BOOLEAN
  BY DEF IInv, TypeOK, Settings
<1>2. turn[t] \in Turn /\ turn[t].attempt \in 0..1
  BY DEF IInv, TypeOK, Turn
<1>3. fault[t] \in Faults /\ fault = [fault EXCEPT ![t] = fault[t]]
  BY DEF IInv, TypeOK
<1> QED
  BY <1>1, <1>2, <1>3 DEF IInv, TypeOK, CallsFit, Repairing

\* A turn that ends without interrupting others, with the reply its fault calls for.
LEMMA OneEnds ==
  ASSUME IInv, NEW t \in Turns, NEW outcome \in Failures \cup Replies, NEW f \in Faults,
         turn' = [turn EXCEPT ![t] = Finished(outcome)], fault' = [fault EXCEPT ![t] = f],
         Kept,
         turn[t].stage # "done",
         outcome # "CANCELLED" => Truthful(outcome, f)
  PROVE  IInv'
<1> DEFINE r == Finished(outcome)
<1>1. /\ r \in Turn /\ r.stage = "done" /\ r.call = "none" /\ r.outcome = outcome
      /\ r.attempt <= settings.repairs
  BY FinishedFits, TurnFits
<1>2. turn' = [turn EXCEPT ![t] = r]
  OBVIOUS
<1> HIDE DEF r
<1> QED
  BY <1>1, <1>2, OneMoves

LEMMA SendKeeps ==
  ASSUME IInv, NEW t \in Turns, Send(t)
  PROVE  IInv'
<1>1. PICK m \in Sent[settings][t] :
         turn' = [turn EXCEPT ![t] =
                    [@ EXCEPT !.stage = "route", !.message = m.kind, !.cookie = m.cookie]]
  BY DEF Send
<1> DEFINE r == [turn[t] EXCEPT !.stage = "route", !.message = m.kind, !.cookie = m.cookie]
<1>5. m.kind \in Messages /\ m.cookie \in BOOLEAN
  BY SentAssumption DEF IInv, TypeOK
<1>2. r \in Turn /\ r.call = turn[t].call /\ r.attempt = turn[t].attempt
      /\ r.cancelled = turn[t].cancelled /\ r.stage = "route"
  BY <1>5, TurnFits DEF Turn, Stages
<1>3. fault[t] = "none" /\ turn[t].call = "none"
  BY TurnFits DEF Send, NeedsModel, Turn
<1>4. /\ turn' = [turn EXCEPT ![t] = r] /\ fault' = [fault EXCEPT ![t] = fault[t]]
      /\ Kept
      /\ turn[t].stage # "done" /\ fault[t] \in Faults
      /\ r.attempt <= settings.repairs
  BY <1>1, <1>2, TurnFits DEF Send, Kept
<1> HIDE DEF r
<1> QED
  BY <1>2, <1>3, <1>4, OneMoves

\* A call is made, or cannot be.
LEMMA AsksKeep ==
  ASSUME IInv, NEW t \in Turns, AskModel(t) \/ AskJava(t)
  PROVE  IInv'
<1>1. CASE AskModel(t) /\ settings.key
  <2> DEFINE r == [turn[t] EXCEPT !.call = "model"]
  <2>1. r \in Turn /\ r.call = "model" /\ r.stage = turn[t].stage /\ r.message = turn[t].message
        /\ r.drafted = turn[t].drafted /\ r.attempt = turn[t].attempt
        /\ r.cancelled = turn[t].cancelled
    BY TurnFits DEF Turn
  <2>2. NeedsModel(r) /\ r.stage # "done"
    BY <1>1, <2>1 DEF AskModel, NeedsModel
  <2>3. /\ turn' = [turn EXCEPT ![t] = r] /\ fault' = [fault EXCEPT ![t] = fault[t]]
        /\ Kept
        /\ turn[t].stage # "done" /\ fault[t] \in Faults
        /\ r.attempt <= settings.repairs
        /\ fault[t] = "none" \/ fault[t] = "model"
    BY <1>1, <2>1, <2>2, TurnFits DEF AskModel, Kept
  <2> HIDE DEF r
  <2> QED
    BY <2>1, <2>2, <2>3, OneMoves
<1>2. CASE AskModel(t) /\ ~settings.key
  <2>1. turn[t].stage # "done"
    BY <1>2 DEF AskModel, NeedsModel
  <2> QED
    BY <1>2, <2>1, TurnFits, OneEnds DEF AskModel, Failures, Faults, Kept, Truthful
<1>3. CASE AskJava(t) /\ HeaderFailure(turn[t]) = "none"
  <2> DEFINE r == [turn[t] EXCEPT !.call = "java"]
  <2>1. r \in Turn /\ r.call = "java" /\ r.stage = turn[t].stage /\ r.attempt = turn[t].attempt
        /\ r.cancelled = turn[t].cancelled
    BY TurnFits DEF Turn
  <2>2. turn[t].stage \in {"resolve", "search", "page"} /\ fault[t] = "none"
    BY <1>3, TurnFits DEF AskJava, NeedsJava, NeedsModel
  <2>3. turn' = [turn EXCEPT ![t] = r] /\ fault' = [fault EXCEPT ![t] = fault[t]]
    BY <1>3, TurnFits DEF AskJava
  <2> QED
    BY <1>3, <2>1, <2>2, <2>3, TurnFits, OneMoves DEF AskJava, Kept
<1>4. CASE AskJava(t) /\ HeaderFailure(turn[t]) # "none"
  <2>1. turn[t].stage # "done"
    BY <1>4 DEF AskJava, NeedsJava
  <2> DEFINE f == IF turn[t].cookie THEN "setup" ELSE "login"
  <2>2. /\ f \in Faults /\ f # "none"
        /\ HeaderFailure(turn[t]) \in {"DENIED", "DEPENDENCY_ERROR"}
        /\ Truthful(HeaderFailure(turn[t]), f)
    BY <1>4 DEF HeaderFailure, Faults, Failures, Truthful
  <2> QED
    BY <1>4, <2>1, <2>2, OneEnds, TurnFits DEF AskJava, Failures, Kept
<1> QED
  BY <1>1, <1>2, <1>3, <1>4

LEMMA AgainFits ==
  ASSUME NEW q \in Turn, q.attempt = 0
  PROVE  /\ Again(q) \in Turn /\ Again(q).call = "none" /\ Again(q).stage = q.stage
         /\ Again(q).attempt = 1 /\ Again(q).message = q.message
         /\ Again(q).drafted = q.drafted /\ Again(q).cancelled = q.cancelled
<1>1. Again(q) = [q EXCEPT !.call = "none", !.attempt = 1]
  BY DEF Again
<1>2. \A n \in {1} : n \in 0..1
  OBVIOUS
<1>3. /\ Again(q).call = "none" /\ Again(q).stage = q.stage
      /\ Again(q).attempt = 1 /\ Again(q).message = q.message
      /\ Again(q).drafted = q.drafted /\ Again(q).cancelled = q.cancelled
  BY <1>1 DEF Turn
<1>4. Again(q) \in Turn
  BY <1>1, <1>2 DEF Turn
<1> QED
  BY <1>3, <1>4

\* The model is malformed, or fails.
LEMMA FailedModelKeeps ==
  ASSUME IInv, NEW t \in Turns, ModelIsMalformed(t) \/ ModelFails(t)
  PROVE  IInv'
<1>1. turn[t].stage \in {"route", "parse"} /\ NeedsModel(turn[t]) /\ turn[t].call = "model"
  BY TurnFits DEF ModelIsMalformed, ModelFails, NeedsModel
<1>2. CASE ModelFails(t) \/ (ModelIsMalformed(t) /\ LastAttempt(turn[t]))
  <2>1. /\ turn' = [turn EXCEPT ![t] = Finished("MODEL_ERROR")]
        /\ fault' = [fault EXCEPT ![t] = "model"]
        /\ Kept
    BY <1>2, TurnFits DEF ModelFails, ModelIsMalformed, Kept
  <2> QED
    BY <1>1, <2>1, OneEnds DEF Failures, Faults, Truthful
<1>3. CASE ModelIsMalformed(t) /\ ~LastAttempt(turn[t])
  <2> DEFINE r == Again(turn[t])
  <2>1. turn[t].attempt = 0 /\ settings.repairs = 1
    BY <1>3, TurnFits DEF LastAttempt
  <2>2. /\ r \in Turn /\ r.call = "none" /\ r.stage = turn[t].stage /\ r.attempt = 1
        /\ r.message = turn[t].message /\ r.drafted = turn[t].drafted
        /\ r.cancelled = turn[t].cancelled
    BY <2>1, TurnFits, AgainFits
  <2>3. NeedsModel(r) /\ r.stage # "done" /\ r.attempt <= settings.repairs
    BY <1>1, <2>1, <2>2 DEF NeedsModel
  <2>5. turn' = [turn EXCEPT ![t] = r]
    BY <1>3 DEF ModelIsMalformed
  <2>4. /\ fault' = [fault EXCEPT ![t] = "model"]
        /\ Kept
        /\ turn[t].stage # "done" /\ "model" \in Faults
    BY <1>1, <1>3, TurnFits DEF ModelIsMalformed, Faults, Kept
  <2> HIDE DEF r
  <2> QED
    BY <2>2, <2>3, <2>4, <2>5, OneMoves
<1> QED
  BY <1>2, <1>3

\* The next stage of a turn that is not over and has no fault behind it.
LEMMA OneAdvances ==
  ASSUME IInv, NEW t \in Turns, NEW r \in Turn,
         turn' = [turn EXCEPT ![t] = r], fault' = [fault EXCEPT ![t] = "none"],
         Kept,
         turn[t].stage # "done", r.stage # "done", r.call = "none",
         r.attempt <= settings.repairs, turn[t].cancelled => r.cancelled
  PROVE  IInv'
<1>1. "none" \in Faults
  BY DEF Faults
<1> QED
  BY <1>1, OneMoves

LEMMA ParsedKeeps ==
  ASSUME IInv, NEW t \in Turns, Parsed(t), turn[t].stage = "parse",
         fault' = [fault EXCEPT ![t] = "none"], Kept
  PROVE  IInv'
<1>1. CASE turn' = [turn EXCEPT ![t] = Finished("NEEDS_CLARIFICATION")]
  BY <1>1, OneEnds DEF Replies, Failures, Faults, Truthful
<1>2. ASSUME NEW needs \in {"nothing", "names", "cities"},
             turn' = [turn EXCEPT ![t] =
                        [@ EXCEPT !.stage = "resolve", !.call = "none", !.needs = needs]]
      PROVE  IInv'
  <2> DEFINE r == [turn[t] EXCEPT !.stage = "resolve", !.call = "none", !.needs = needs]
  <2>1. /\ r \in Turn /\ r.stage = "resolve" /\ r.call = "none"
        /\ r.attempt = turn[t].attempt /\ r.cancelled = turn[t].cancelled
    BY TurnFits DEF Turn, Stages
  <2>2. turn' = [turn EXCEPT ![t] = r]
    BY <1>2
  <2>3. r.attempt <= settings.repairs
    BY <2>1, TurnFits
  <2> HIDE DEF r
  <2> QED
    BY <2>1, <2>2, <2>3, OneAdvances
<1> QED
  BY <1>1, <1>2 DEF Parsed

LEMMA ResolvedKeeps ==
  ASSUME IInv, NEW t \in Turns, Resolved(t), turn[t].stage = "resolve",
         fault' = [fault EXCEPT ![t] = "none"], Kept
  PROVE  IInv'
<1>1. CASE turn' = [turn EXCEPT ![t] = Finished("NEEDS_CLARIFICATION")]
  BY <1>1, OneEnds DEF Replies, Failures, Faults, Truthful
<1>2. CASE turn' = [turn EXCEPT ![t] = [@ EXCEPT !.stage = "save", !.call = "none"]]
  <2> DEFINE r == [turn[t] EXCEPT !.stage = "save", !.call = "none"]
  <2>1. /\ r \in Turn /\ r.stage = "save" /\ r.call = "none"
        /\ r.attempt = turn[t].attempt /\ r.cancelled = turn[t].cancelled
    BY TurnFits DEF Turn, Stages
  <2>2. turn' = [turn EXCEPT ![t] = r]
    BY <1>2
  <2>3. r.attempt <= settings.repairs
    BY <2>1, TurnFits
  <2> HIDE DEF r
  <2> QED
    BY <2>1, <2>2, <2>3, OneAdvances
<1> QED
  BY <1>1, <1>2 DEF Resolved

\* The steps of the graph that ask nobody.
LEMMA GraphKeeps ==
  ASSUME IInv, NEW t \in Turns,
         Begin(t) \/ ParseRestored(t) \/ ResolveAlone(t) \/ Save(t) \/ CompileFails(t)
  PROVE  IInv'
<1>1. /\ turn[t].stage \in {"created", "queued", "parse", "resolve", "save", "search", "page"}
      /\ ~NeedsModel(turn[t])
  BY DEF Begin, ParseRestored, ResolveAlone, Save, CompileFails, NeedsModel
<1>2. fault[t] = "none" /\ turn[t].call # "model"
  BY <1>1, TurnFits
<1>3. CASE Begin(t)
  <2> DEFINE r == [turn[t] EXCEPT !.stage = "parse", !.after = NoTurn]
  <2>1. turn[t].call = "none"
    BY <1>2, <1>3, TurnFits DEF Begin, Turn
  <2>2. /\ r \in Turn /\ r.stage = "parse" /\ r.call = "none"
        /\ r.attempt = turn[t].attempt /\ r.cancelled = turn[t].cancelled
    BY <2>1, TurnFits DEF Turn, Stages
  <2>3. /\ turn' = [turn EXCEPT ![t] = r] /\ fault' = [fault EXCEPT ![t] = "none"]
        /\ Kept
        /\ r.attempt <= settings.repairs
    BY <1>2, <1>3, <2>2, TurnFits DEF Begin, Kept
  <2> HIDE DEF r
  <2> QED
    BY <1>1, <2>2, <2>3, OneAdvances
<1>4. CASE ParseRestored(t)
  <2>1. CASE Parsed(t)
    BY <1>2, <1>4, <2>1, TurnFits, ParsedKeeps DEF ParseRestored, Kept
  <2>2. CASE turn' = [turn EXCEPT ![t] = [@ EXCEPT !.stage = "save", !.needs = "skipped"]]
    <3> DEFINE r == [turn[t] EXCEPT !.stage = "save", !.needs = "skipped"]
    <3>1. turn[t].call = "none"
      BY <1>2, <1>4, TurnFits DEF ParseRestored, Turn
    <3>2. /\ r \in Turn /\ r.stage = "save" /\ r.call = "none"
          /\ r.attempt = turn[t].attempt /\ r.cancelled = turn[t].cancelled
      BY <3>1, TurnFits DEF Turn, Stages
    <3>3. /\ turn' = [turn EXCEPT ![t] = r] /\ fault' = [fault EXCEPT ![t] = "none"]
          /\ Kept
          /\ r.attempt <= settings.repairs
      BY <1>2, <1>4, <2>2, <3>2, TurnFits DEF ParseRestored, Kept
    <3> HIDE DEF r
    <3> QED
      BY <1>1, <3>2, <3>3, OneAdvances
  <2> QED
    BY <1>4, <2>1, <2>2 DEF ParseRestored
<1>5. CASE ResolveAlone(t)
  BY <1>2, <1>5, TurnFits, ResolvedKeeps DEF ResolveAlone, Kept
<1>6. CASE Save(t) /\ turn[t].cancelled
  <2>1. /\ turn' = [turn EXCEPT ![t] = Finished("CANCELLED")]
        /\ fault' = [fault EXCEPT ![t] = "none"] /\ Kept
    BY <1>2, <1>6, TurnFits DEF Save, AfterSave, Kept
  <2>2. "CANCELLED" \in Failures \cup Replies /\ "none" \in Faults
    BY DEF Replies, Faults
  <2> QED
    BY <1>1, <2>1, <2>2, OneEnds
<1>7. CASE Save(t) /\ ~turn[t].cancelled
  <2> DEFINE r == [turn[t] EXCEPT !.stage = "search"]
  <2>1. turn[t].call = "none"
    BY <1>2, <1>7, TurnFits DEF Save, Turn
  <2>2. /\ r \in Turn /\ r.stage = "search" /\ r.call = "none"
        /\ r.attempt = turn[t].attempt /\ r.cancelled = turn[t].cancelled
    BY <2>1, TurnFits DEF Turn, Stages
  <2>3. /\ turn' = [turn EXCEPT ![t] = r] /\ fault' = [fault EXCEPT ![t] = "none"]
        /\ Kept
        /\ r.attempt <= settings.repairs
    BY <1>2, <1>7, <2>2, TurnFits DEF Save, AfterSave, Kept
  <2> HIDE DEF r
  <2> QED
    BY <1>1, <2>2, <2>3, OneAdvances
<1>8. CASE CompileFails(t)
  <2>1. /\ turn' = [turn EXCEPT ![t] = Finished("INTERNAL_ERROR")]
        /\ fault' = [fault EXCEPT ![t] = "code"] /\ Kept
    BY <1>8, TurnFits DEF CompileFails, Kept
  <2>2. /\ "INTERNAL_ERROR" \in Failures \cup Replies /\ "code" \in Faults
        /\ Truthful("INTERNAL_ERROR", "code")
    BY DEF Failures, Faults, Truthful
  <2> QED
    BY <1>1, <2>1, <2>2, OneEnds
<1> QED
  BY <1>3, <1>4, <1>5, <1>6, <1>7, <1>8

\* A cancelled turn ends, before its first step or in its graph.
LEMMA InterruptedKeeps ==
  ASSUME IInv, NEW t \in Turns, Interrupted(t) \/ Skip(t)
  PROVE  IInv'
<1>1. turn[t].stage # "done"
  BY DEF Interrupted, Skip
<1>2. "CANCELLED" \in Failures \cup Replies
  BY DEF Replies
<1>3. /\ turn' = [turn EXCEPT ![t] = Finished("CANCELLED")]
      /\ fault' = [fault EXCEPT ![t] = fault[t]] /\ fault[t] \in Faults /\ Kept
  BY TurnFits DEF Interrupted, Skip, Kept
<1> QED
  BY <1>1, <1>2, <1>3, OneEnds

LEMMA JavaKeeps ==
  ASSUME IInv, NEW t \in Turns, NEW a \in Answers, JavaAnswers(t, a)
  PROVE  IInv'
<1> DEFINE reply == ReplyOn(turn[t], a)
<1>1. turn[t].stage \in {"resolve", "search", "page"} /\ Kept
  BY TurnFits DEF JavaAnswers, Kept
<1>5. /\ WrongWith(a) \in Faults
      /\ reply = "none" => WrongWith(a) = "none"
      /\ reply # "none" => /\ reply \in Failures \cup {"NEEDS_CLARIFICATION"}
                           /\ Truthful(reply, WrongWith(a))
  BY TurnFits, RepliesFit
<1>6. fault' = [fault EXCEPT ![t] = WrongWith(a)]
  BY DEF JavaAnswers
<1>2. CASE reply # "none"
  <2>1. turn' = [turn EXCEPT ![t] = Finished(reply)]
    BY <1>2 DEF JavaAnswers
  <2>2. reply \in Failures \cup Replies /\ Truthful(reply, WrongWith(a))
    BY <1>2, <1>5 DEF Replies
  <2> HIDE DEF reply
  <2> QED
    BY <1>1, <1>5, <1>6, <2>1, <2>2, OneEnds
<1>3. CASE reply = "none" /\ turn[t].stage = "resolve"
  BY <1>1, <1>3, <1>5, <1>6, ResolvedKeeps DEF JavaAnswers
<1>4. CASE reply = "none" /\ turn[t].stage # "resolve"
  <2>1. turn' = [turn EXCEPT ![t] = Finished("CANDIDATES")]
    BY <1>4 DEF JavaAnswers
  <2>2. /\ "CANDIDATES" \in Failures \cup Replies /\ "none" \in Faults
        /\ Truthful("CANDIDATES", "none")
    BY DEF Replies, Failures, Faults, Truthful
  <2> QED
    BY <1>1, <1>4, <1>5, <1>6, <2>1, <2>2, OneEnds
<1> QED
  BY <1>2, <1>3, <1>4

\* A message seen by one that cancels it: only its cancellation may change.
OnlyCancels(q, r) ==
    /\ q \in Turn /\ q.stage = r.stage /\ q.call = r.call /\ q.message = r.message
    /\ q.drafted = r.drafted /\ q.attempt = r.attempt /\ q.outcome = r.outcome
    /\ r.cancelled => q.cancelled

LEMMA CancelFits ==
  ASSUME turn \in [Turns -> Turn], NEW v, NEW u \in Turns
  PROVE  /\ OnlyCancels(CancelFrom(v)[u], turn[u])
         /\ u \in Struck(v) => CancelFrom(v)[u].cancelled
<1>1. turn[u] \in Turn
  OBVIOUS
<1>2. CASE u \in Struck(v)
  <2>1. CancelFrom(v)[u] = [turn[u] EXCEPT !.cancelled = TRUE]
    BY <1>2 DEF CancelFrom
  <2> QED
    BY <1>1, <2>1 DEF Turn, OnlyCancels
<1>3. CASE u \notin Struck(v)
  <2>1. CancelFrom(v)[u] = turn[u]
    BY <1>3 DEF CancelFrom
  <2> QED
    BY <1>1, <1>3, <2>1 DEF OnlyCancels
<1> QED
  BY <1>2, <1>3

\* One turn moves and strikes others: whoever they are, what is said of their
\* calls and faults stays true, and they are cancelled.
LEMMA StrikeKeeps ==
  ASSUME IInv, NEW t \in Turns, NEW v, NEW q \in Turn,
         turn' = [CancelFrom(v) EXCEPT ![t] = q], stopped' = stopped \cup Struck(v),
         fault' = [fault EXCEPT ![t] = "none"],
         settings' = settings, plan' = plan, last' = last,
         turn[t].stage # "done", q.call = "none", q.attempt <= settings.repairs,
         turn[t].cancelled \/ t \in Struck(v) => q.cancelled \/ q.stage = "done",
         q.stage = "done" => Truthful(q.outcome, "none")
  PROVE  IInv'
<1>1. turn \in [Turns -> Turn] /\ Struck(v) \subseteq Turns
  BY DEF IInv, TypeOK, Struck, Reached
<1>2. \A u \in Turns : turn'[u] = IF u = t THEN q ELSE CancelFrom(v)[u]
  BY <1>1 DEF CancelFrom
<1>3. \A u \in Turns : /\ OnlyCancels(CancelFrom(v)[u], turn[u])
                       /\ u \in Struck(v) => CancelFrom(v)[u].cancelled
  BY <1>1, CancelFits
<1>4. \A u \in Turns : fault'[u] = IF u = t THEN "none" ELSE fault[u]
  BY DEF IInv, TypeOK
<1>5. TypeOK'
  <2>1. turn' \in [Turns -> Turn]
    <3>1. turn' = [u \in Turns |-> turn'[u]]
      BY DEF CancelFrom
    <3> QED
      BY <1>2, <1>3, <3>1 DEF OnlyCancels
  <2>2. fault' \in [Turns -> Faults]
    BY DEF IInv, TypeOK, Faults
  <2>3. \A u \in Turns : turn'[u].attempt <= settings'.repairs
    BY <1>2, <1>3 DEF IInv, TypeOK, OnlyCancels
  <2> QED
    BY <1>1, <2>1, <2>2, <2>3 DEF IInv, TypeOK
<1>6. CallsFit'
  BY <1>2, <1>3 DEF IInv, CallsFit, NeedsModel, OnlyCancels
<1>7. Repairing'
  BY <1>2, <1>3, <1>4 DEF IInv, Repairing, NeedsModel, OnlyCancels
<1>8. StoppedEnds'
  <2> SUFFICES ASSUME NEW u \in stopped'
               PROVE  turn'[u].cancelled \/ turn'[u].stage = "done"
    BY DEF StoppedEnds
  <2>1. u \in Turns
    BY <1>5 DEF TypeOK
  <2>2. turn[u].cancelled \/ turn[u].stage = "done" \/ u \in Struck(v)
    BY DEF IInv, StoppedEnds
  <2>3. CASE u = t
    BY <1>2, <2>1, <2>2, <2>3
  <2>4. CASE u # t
    BY <1>2, <1>3, <2>1, <2>2, <2>4 DEF OnlyCancels
  <2> QED
    BY <2>3, <2>4
<1>9. NoFalseBlame'
  BY <1>2, <1>3, <1>4 DEF IInv, NoFalseBlame, OnlyCancels
<1> QED
  BY <1>5, <1>6, <1>7, <1>8, <1>9 DEF IInv

\* A search on its first step strikes those before it and waits (run_in_order).
LEMMA WaitKeeps ==
  ASSUME IInv, NEW t \in Turns, Wait(t)
  PROVE  IInv'
<1> DEFINE v == turn[t].after
           q == [CancelFrom(v)[t] EXCEPT !.stage = "queued"]
<1>1. /\ OnlyCancels(CancelFrom(v)[t], turn[t])
      /\ t \in Struck(v) => CancelFrom(v)[t].cancelled
  BY CancelFits DEF IInv, TypeOK
<1>2. turn[t].call = "none" /\ fault[t] = "none" /\ turn[t].attempt <= settings.repairs
  BY TurnFits DEF Wait, NeedsModel, Turn
<1>3. /\ q \in Turn /\ q.stage = "queued" /\ q.call = "none"
      /\ q.attempt = turn[t].attempt /\ q.cancelled = CancelFrom(v)[t].cancelled
  BY <1>1, <1>2 DEF OnlyCancels, Turn, Stages
<1>4. turn' = [CancelFrom(v) EXCEPT ![t] = q]
  BY DEF Wait, CancelFrom
<1>5. fault' = [fault EXCEPT ![t] = "none"]
  BY <1>2, TurnFits DEF Wait
<1>6. /\ stopped' = stopped \cup Struck(v) /\ settings' = settings /\ plan' = plan
      /\ last' = last /\ turn[t].stage # "done"
  BY DEF Wait
<1>7. turn[t].cancelled \/ t \in Struck(v) => q.cancelled
  BY <1>1, <1>3 DEF OnlyCancels
<1> HIDE DEF q, v
<1> QED
  BY <1>2, <1>3, <1>4, <1>5, <1>6, <1>7, StrikeKeeps

\* A routed message ends, goes on, or strikes the searches in the graph.
LEMMA RoutedKeeps ==
  ASSUME IInv, NEW t \in Turns, NEW route \in Routes, Routed(t, route),
         turn[t].stage = "route",
         fault' = [fault EXCEPT ![t] = "none"], settings' = settings, plan' = plan
  PROVE  IInv'
<1> DEFINE r == [turn[t] EXCEPT !.message = "none", !.drafted = turn[t].message = "answer",
                                !.call = "none", !.attempt = 0]
<1>1. /\ r \in Turn /\ r.call = "none" /\ r.attempt = 0 /\ r.stage = turn[t].stage
      /\ r.cancelled = turn[t].cancelled
  <2>1. (turn[t].message = "answer") \in BOOLEAN /\ 0 \in 0..1
    OBVIOUS
  <2>2. turn[t] \in Turn
    BY TurnFits
  <2> DEFINE answers == turn[t].message = "answer"
  <2>3. answers \in BOOLEAN
    BY <2>1
  <2> HIDE DEF answers
  <2> QED
    BY <2>1, <2>2, <2>3 DEF Turn
<1>2. /\ "none" \in Faults /\ turn[t].stage # "done" /\ 0 <= settings.repairs
      /\ last \in Turns \cup {NoTurn}
  BY TurnFits DEF Faults
<1>3. (UNCHANGED <<last, stopped>>) => Kept
  BY TurnFits DEF Kept
<1>4. ASSUME NEW outcome \in Replies \ {"NEEDS_CLARIFICATION"}, UNCHANGED <<last, stopped>>,
             turn' = [turn EXCEPT ![t] = Finished(outcome)]
      PROVE  IInv'
  <2>1. Truthful(outcome, "none")
    BY DEF Truthful, Replies, Failures
  <2> QED
    BY <1>2, <1>3, <1>4, <2>1, OneEnds
<1>5. CASE /\ turn' = [turn EXCEPT ![t] = Finished(ReplyTo(route))]
           /\ UNCHANGED <<last, stopped>>
  <2>1. ReplyTo(route) \in Replies \ {"NEEDS_CLARIFICATION"}
    BY DEF ReplyTo, Replies
  <2> QED
    BY <1>4, <1>5, <2>1
<1>6. CASE /\ turn' = [turn EXCEPT ![t] = [r EXCEPT !.stage = "page"]]
           /\ UNCHANGED <<last, stopped>>
  <2> DEFINE q == [r EXCEPT !.stage = "page"]
  <2>1. /\ q \in Turn /\ q.stage = "page" /\ q.call = "none" /\ q.attempt = 0
        /\ q.cancelled = turn[t].cancelled
    <3> HIDE DEF r
    <3> QED
      BY <1>1 DEF Turn, Stages
  <2>2. turn' = [turn EXCEPT ![t] = q] /\ Kept
    BY <1>3, <1>6
  <2> HIDE DEF q
  <2> QED
    BY <1>2, <2>1, <2>2, OneAdvances
<1>7. CASE /\ turn' = [turn EXCEPT ![t] = [r EXCEPT !.stage = "created", !.after = last]]
           /\ last' = t /\ UNCHANGED stopped
  <2> DEFINE q == [r EXCEPT !.stage = "created", !.after = last]
  <2>1. /\ q \in Turn /\ q.stage = "created" /\ q.call = "none" /\ q.attempt = 0
        /\ q.cancelled = turn[t].cancelled
    <3> HIDE DEF r
    <3> QED
      BY <1>1, <1>2 DEF Turn, Stages
  <2>2. turn' = [turn EXCEPT ![t] = q] /\ Kept
    BY <1>7, TurnFits DEF Kept
  <2> HIDE DEF q
  <2> QED
    BY <1>2, <2>1, <2>2, OneAdvances
<1>8. CASE /\ turn' = [CancelFrom(last) EXCEPT ![t] = Finished("STOPPED")]
           /\ stopped' = stopped \cup Struck(last) /\ UNCHANGED last
  <2> DEFINE q == Finished("STOPPED")
  <2>1. "STOPPED" \in Failures \cup Replies /\ Truthful("STOPPED", "none")
    BY DEF Replies, Failures, Truthful
  <2>2. /\ q \in Turn /\ q.stage = "done" /\ q.call = "none" /\ q.attempt = 0
        /\ q.outcome = "STOPPED"
    BY <2>1, FinishedFits
  <2>3. turn' = [CancelFrom(last) EXCEPT ![t] = q]
    BY <1>8
  <2> HIDE DEF q
  <2> QED
    BY <1>2, <1>8, <2>1, <2>2, <2>3, StrikeKeeps
<1>9. ASSUME NEW outcome \in {"STALE_PAGE_REFERENCE", "TALK", "INVALID_CLARIFICATION_ANSWER",
                              "STOPPED"},
             UNCHANGED <<last, stopped>>, turn' = [turn EXCEPT ![t] = Finished(outcome)]
      PROVE  IInv'
  BY <1>4, <1>9 DEF Replies
<1> QED
  BY <1>5, <1>6, <1>7, <1>8, <1>9 DEF Routed

LEMMA RoutesKeep ==
  ASSUME IInv, NEW t \in Turns, RouteByRule(t) \/ ModelAnswers(t)
  PROVE  IInv'
<1>1. CASE RouteByRule(t)
  <2>1. fault[t] = "none"
    BY <1>1, TurnFits DEF RouteByRule, NeedsModel
  <2>2. RuleFor(turn[t].message) \in Routes
    BY <1>1 DEF RouteByRule, RuleFor, Routes
  <2> QED
    BY <1>1, <2>1, <2>2, TurnFits, RoutedKeeps DEF RouteByRule
<1>2. CASE ModelAnswers(t) /\ turn[t].stage = "route"
  BY <1>2, RoutedKeeps DEF ModelAnswers
<1>3. CASE ModelAnswers(t) /\ turn[t].stage # "route"
  <2>1. turn[t].stage = "parse"
    BY <1>3, TurnFits DEF ModelAnswers, NeedsModel
  <2> QED
    BY <1>3, <2>1, TurnFits, ParsedKeeps DEF ModelAnswers, Kept
<1> QED
  BY <1>1, <1>2, <1>3

LEMMA NextKeeps ==
  ASSUME IInv, [Next]_vars
  PROVE  IInv'
<1>1. CASE UNCHANGED vars
  BY <1>1 DEF vars, IInv, TypeOK, CallsFit, NeedsModel, Repairing, StoppedEnds, NoFalseBlame
<1>2. ASSUME NEW t \in Turns, Send(t) \/ Step(t) \/ OutsideAnswers(t)
      PROVE  IInv'
  BY <1>2, SendKeeps, RoutesKeep, AsksKeep, GraphKeeps, InterruptedKeeps, FailedModelKeeps,
     JavaKeeps, WaitKeeps DEF Step, OutsideAnswers
<1> QED
  BY <1>1, <1>2 DEF Next

LEMMA InitFits ==
  ASSUME Init
  PROVE  IInv
<1>1. Unsent \in Turn
  BY DEF Unsent, Resting, Turn, Stages
<1>2. \A t \in Turns : turn[t].stage = "unsent" /\ turn[t].call = "none" /\ turn[t].attempt = 0
  BY DEF Init, Unsent, Resting
<1>3. \A t \in Turns : turn[t].attempt <= settings.repairs
  <2>1. settings.repairs \in 0..1
    BY DeploymentsAssumption DEF Init, Settings
  <2>2. 0 <= settings.repairs
    BY <2>1
  <2> QED
    BY <1>2, <2>2
<1>4. TypeOK
  BY <1>1, <1>3, DeploymentsAssumption DEF Init, TypeOK, Faults
<1> QED
  BY <1>2, <1>4 DEF Init, IInv, CallsFit, Repairing, StoppedEnds, NoFalseBlame

\* Every reachable state keeps what the other theorems rest on: calls are made
\* where they belong, the only fault a turn survives is an output about to be
\* asked for again, and a turn struck by a cancellation stays cancelled until it
\* ends.
THEOREM InductiveInvariant == Spec => []IInv
<1>1. Init => IInv
  BY InitFits
<1>2. IInv /\ [Next]_vars => IInv'
  BY NextKeeps
<1> QED
  BY <1>1, <1>2, PTL DEF Spec

\* Messages, calls and attempts are well typed for any number of messages, and
\* no output is repaired more often than the settings allow (_invoke_structured).
THEOREM TypeCorrect == Spec => []TypeOK
<1>1. IInv => TypeOK
  BY DEF IInv
<1> QED
  BY <1>1, InductiveInvariant, PTL

\* Whatever model and Java answer to any number of messages, in every
\* deployment, nobody is blamed for the fault of another (_decode_response, its
\* callers, _execute_graph, api/errors.py).
THEOREM NobodyIsFalselyBlamed == Spec => []NoFalseBlame
<1>1. IInv => NoFalseBlame
  BY DEF IInv
<1> QED
  BY <1>1, InductiveInvariant, PTL

\* Only the two clients make calls: every other step ends them or leaves them be.
LEMMA OnlyClientsCall ==
  ASSUME IInv, NEW t \in Turns, Send(t) \/ Step(t) \/ OutsideAnswers(t), NEW u \in Turns
  PROVE  \/ turn'[u].call \in {turn[u].call, "none"}
         \/ u = t /\ ~turn[t].cancelled /\ (NeedsModel(turn[t]) \/ NeedsJava(turn[t]))
<1>0. turn \in [Turns -> Turn] /\ turn[t] \in Turn /\ turn[u] \in Turn
  BY DEF IInv, TypeOK
<1>1. ASSUME NEW outcome, turn' = [turn EXCEPT ![t] = Finished(outcome)]
      PROVE  turn'[u].call \in {turn[u].call, "none"}
  BY <1>0, <1>1 DEF Finished, Resting
<1>2. ASSUME NEW route, Routed(t, route)
      PROVE  turn'[u].call \in {turn[u].call, "none"}
  <2>1. CASE u = t
    <3> DEFINE r == [turn[t] EXCEPT !.message = "none", !.drafted = turn[t].message = "answer",
                                    !.call = "none", !.attempt = 0]
    <3>1. r.call = "none" /\ [r EXCEPT !.stage = "page"].call = "none"
          /\ [r EXCEPT !.stage = "created", !.after = last].call = "none"
      BY <1>0 DEF Turn
    <3>2. \A outcome : Finished(outcome).call = "none"
      BY DEF Finished, Resting
    <3>3. \/ turn'[t] \in {[r EXCEPT !.stage = "page"],
                           [r EXCEPT !.stage = "created", !.after = last]}
          \/ \E outcome : turn'[t] = Finished(outcome)
      BY <1>0, <1>2 DEF Routed, CancelFrom
    <3> QED
      BY <2>1, <3>1, <3>2, <3>3
  <2>2. CASE u # t
    <3>1. turn'[u] = turn[u] \/ turn'[u] = CancelFrom(last)[u]
      BY <1>0, <1>2, <2>2 DEF Routed, CancelFrom
    <3>2. OnlyCancels(CancelFrom(last)[u], turn[u])
      BY <1>0, CancelFits
    <3> QED
      BY <3>1, <3>2 DEF OnlyCancels
  <2> QED
    BY <2>1, <2>2
<1>3. CASE Send(t)
  <2>1. PICK m \in Sent[settings][t] :
           turn' = [turn EXCEPT ![t] =
                      [@ EXCEPT !.stage = "route", !.message = m.kind, !.cookie = m.cookie]]
    BY <1>3 DEF Send
  <2> QED
    BY <1>0, <2>1 DEF Turn
<1>4. CASE RouteByRule(t) \/ (ModelAnswers(t) /\ turn[t].stage = "route")
  <2>1. PICK route : Routed(t, route)
    BY <1>4 DEF RouteByRule, ModelAnswers
  <2> QED
    BY <1>2, <2>1
<1>5. CASE AskModel(t) \/ AskJava(t)
  BY <1>0, <1>5 DEF AskModel, AskJava
<1>6. CASE Begin(t) \/ Save(t)
  <2>1. CASE Begin(t)
    BY <1>0, <2>1 DEF Begin, Turn
  <2>2. CASE Save(t) /\ turn[t].cancelled
    BY <1>1, <2>2 DEF Save, AfterSave
  <2>3. CASE Save(t) /\ ~turn[t].cancelled
    BY <1>0, <2>3 DEF Save, AfterSave, Turn
  <2> QED
    BY <1>6, <2>1, <2>2, <2>3
<1>7. CASE ParseRestored(t) \/ (ModelAnswers(t) /\ turn[t].stage # "route")
  <2>1. CASE Parsed(t)
    <3>1. CASE turn' = [turn EXCEPT ![t] = Finished("NEEDS_CLARIFICATION")]
      BY <1>1, <3>1
    <3>2. ASSUME NEW needs \in {"nothing", "names", "cities"},
                 turn' = [turn EXCEPT ![t] =
                            [@ EXCEPT !.stage = "resolve", !.call = "none", !.needs = needs]]
          PROVE  turn'[u].call \in {turn[u].call, "none"}
      BY <1>0, <3>2 DEF Turn
    <3> QED
      BY <2>1, <3>1, <3>2 DEF Parsed
  <2>2. CASE turn' = [turn EXCEPT ![t] = [@ EXCEPT !.stage = "save", !.needs = "skipped"]]
    BY <1>0, <2>2 DEF Turn
  <2> QED
    BY <1>7, <2>1, <2>2 DEF ParseRestored, ModelAnswers
<1>8. CASE ResolveAlone(t) \/ CompileFails(t) \/ Interrupted(t) \/ Skip(t) \/ ModelFails(t)
  BY <1>0, <1>1, <1>8
  DEF ResolveAlone, CompileFails, Interrupted, Skip, ModelFails, Resolved, Turn
<1>9. CASE ModelIsMalformed(t)
  BY <1>0, <1>9 DEF ModelIsMalformed, Again, Finished, Resting, Turn
<1>10. ASSUME NEW a \in Answers, JavaAnswers(t, a)
       PROVE  turn'[u].call \in {turn[u].call, "none"}
  BY <1>0, <1>1, <1>10 DEF JavaAnswers, Resolved, Turn
<1>11. CASE Wait(t)
  <2> DEFINE q == CancelFrom(turn[t].after)[u]
  <2>1. turn'[u] = q \/ turn'[u] = [q EXCEPT !.stage = "queued"]
    BY <1>11 DEF Wait, CancelFrom
  <2>2. q \in Turn /\ q.call = turn[u].call
    BY <1>0, CancelFits DEF OnlyCancels
  <2> HIDE DEF q
  <2> QED
    BY <2>1, <2>2 DEF Turn
<1> QED
  BY <1>3, <1>4, <1>5, <1>6, <1>7, <1>8, <1>9, <1>10, <1>11 DEF Step, OutsideAnswers

\* A search struck by a cancellation, be it its own or one that came through a
\* chain of waiting searches, makes no further call (run_in_order, cancel,
\* complete_before_cancel, and the clients' handling of CancelledError).
THEOREM StoppedTurnsAreSilent == Spec => SilentAfterStop
<1>1. IInv /\ [Next]_vars =>
        [\A u \in stopped : turn'[u].call \in {turn[u].call, "none"}]_vars
  <2> SUFFICES ASSUME IInv, Next, NEW u \in stopped
               PROVE  turn'[u].call \in {turn[u].call, "none"}
    BY DEF vars
  <2>1. u \in Turns
    BY DEF IInv, TypeOK
  <2>2. turn[u].cancelled \/ turn[u].stage = "done"
    BY DEF IInv, StoppedEnds
  <2>3. ~(~turn[u].cancelled /\ (NeedsModel(turn[u]) \/ NeedsJava(turn[u])))
    BY <2>2 DEF NeedsModel, NeedsJava
  <2> QED
    BY <2>1, <2>3, OnlyClientsCall DEF Next
<1> QED
  BY <1>1, InductiveInvariant, PTL DEF Spec, SilentAfterStop
=============================================================================
