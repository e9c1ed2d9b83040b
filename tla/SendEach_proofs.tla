--------------------------- MODULE SendEach_proofs ---------------------------
(***************************************************************************)
(* Proofs about SendEach: a session error is reported, nothing starts once *)
(* the call has settled, and the call implements Batch.                    *)
(***************************************************************************)
EXTENDS SendEach, TLAPS

\* A retry that is waited for is one of those allowed.
WaitingMayRetry == \A m \in Msg : step[m] = "waiting" => retryAttempts[m] < MaxRetries

\* Messages are sent once the project id is known.
StartedWhenFound ==
  /\ urlPath # "found" => step = [m \in Msg |-> "idle"] /\ result = [m \in Msg |-> "none"]
  /\ urlPath = "found" => \A m \in Msg : step[m] # "idle"

ResultWhenDone == \A m \in Msg : result[m] # "none" <=> step[m] = "done"

\* Where the outcome of the call comes from.
OutcomeFromCause ==
  /\ urlPath = "pending" => outcome = "pending"
  /\ urlPath = "failed" <=> outcome = "failed"
  /\ outcome = "resolved" => AllSettled(step)
  /\ outcome = "sessionError" => session # "none"

\* A session that failed is one there was, and the listener hears of it.
FailureIsHeard ==
  /\ sessionPromise # "pending" => session # "none"
  /\ failedFirst => sessionPromise = "rejected"
  /\ failedFirst /\ urlPath = "found" => outcome = "sessionError"

SendInv ==
  /\ TypeOK /\ WaitingMayRetry /\ StartedWhenFound /\ ResultWhenDone
  /\ OutcomeFromCause /\ FailureIsHeard
  /\ NoSessionLeaked
-----------------------------------------------------------------------------
\* The two things that happen to a message under way.
Moves(m) ==
  \E s \in {"stream", "waiting", "silent"} :
    GoesTo(m, s) /\ (s = "stream" => session \in {"none", "open"})

Ends(m) == \E r \in Failure \cup {"sent"} : Settle(m, r)

\* Every step of a message is one of the two, and keeps count of the retries.
LEMMA MessageEffect ==
  ASSUME TypeOK, WaitingMayRetry, NEW m \in Msg, MessageStep(m)
  PROVE  /\ step[m] \in {"token", "stream", "waiting"}
         /\ Moves(m) \/ Ends(m)
         /\ retryAttempts' \in [Msg -> 0..MaxRetries]
         /\ WaitingMayRetry'
<1> USE ConstantsAssumption
<1>1. \A r \in Failure \cup {"sent"} : Settle(m, r) => step' = [step EXCEPT ![m] = "done"]
  BY DEF Settle
<1>2. \A s : GoesTo(m, s) => step' = [step EXCEPT ![m] = s]
  BY DEF GoesTo
<1>3. ASSUME execute(m)
      PROVE  (Moves(m) \/ Ends(m)) /\ step' \in {[step EXCEPT ![m] = "stream"], [step EXCEPT ![m] = "done"]}
  BY <1>1, <1>2, <1>3 DEF execute, Moves, Ends, Failure
<1>4. ASSUME NEW r \in Failure,
             (GoesTo(m, "waiting") /\ retryAttempts[m] < MaxRetries) \/ Settle(m, r)
      PROVE  /\ Moves(m) \/ Ends(m)
             /\ \/ step' = [step EXCEPT ![m] = "done"]
                \/ step' = [step EXCEPT ![m] = "waiting"] /\ retryAttempts[m] < MaxRetries
  BY <1>1, <1>2, <1>4 DEF Moves, Ends
<1>5. CASE TokenArrives(m)
  BY <1>3, <1>5 DEF TokenArrives, TypeOK, WaitingMayRetry
<1>6. CASE TokenFails(m)
  BY <1>1, <1>6 DEF TokenFails, Ends, Failure, TypeOK, WaitingMayRetry
<1>7. ASSUME NEW s \in OkStatus \cup ErrorStatus, Answered(m, s)
      PROVE  /\ step[m] = "stream"
             /\ Moves(m) \/ Ends(m)
             /\ retryAttempts' \in [Msg -> 0..MaxRetries]
             /\ WaitingMayRetry'
  <2>1. CASE s = Status200
    BY <1>1, <1>7, <2>1 DEF Answered, Status200Arrives, Ends, Failure, TypeOK, WaitingMayRetry
  <2>2. CASE s # Status200
    <3>1. retryAttempts' = retryAttempts /\ step[m] = "stream"
      BY <1>7, <2>2 DEF Answered
    <3>2. (GoesTo(m, "waiting") /\ retryAttempts[m] < MaxRetries) \/ Settle(m, "refused")
      BY <1>7, <2>2 DEF Answered, ErrorArrives, FailsOrRetries
    <3> QED
      BY <1>4, <3>1, <3>2 DEF Failure, TypeOK, WaitingMayRetry
  <2> QED
    BY <2>1, <2>2
<1>8. ASSUME NEW c \in Io, StreamError(m, c)
      PROVE  /\ step[m] = "stream"
             /\ Moves(m) \/ Ends(m)
             /\ retryAttempts' \in [Msg -> 0..MaxRetries]
             /\ WaitingMayRetry'
  <2>1. (GoesTo(m, "waiting") /\ retryAttempts[m] < MaxRetries) \/ Settle(m, "network")
    BY <1>8 DEF StreamError, FailsOrRetries
  <2>2. retryAttempts' = retryAttempts /\ step[m] = "stream"
    BY <1>8 DEF StreamError
  <2> QED
    BY <1>4, <2>1, <2>2 DEF Failure, TypeOK, WaitingMayRetry
<1>9. CASE StreamEndsSilently(m)
  BY <1>2, <1>9 DEF StreamEndsSilently, Moves, TypeOK, WaitingMayRetry
<1>10. CASE RetryElapses(m)
  <2>1. retryAttempts[m] \in 0..MaxRetries /\ retryAttempts[m] < MaxRetries
    BY <1>10 DEF RetryElapses, TypeOK, WaitingMayRetry
  <2>2. retryAttempts' = [retryAttempts EXCEPT ![m] = @ + 1] /\ step[m] = "waiting"
    BY <1>10 DEF RetryElapses
  <2>3. execute(m)
    BY <1>10 DEF RetryElapses
  <2> QED
    BY <1>3, <2>1, <2>2, <2>3 DEF TypeOK, WaitingMayRetry
<1> QED
  BY <1>5, <1>6, <1>7, <1>8, <1>9, <1>10 DEF MessageStep

\* Every step keeps the invariant.
LEMMA SendStep == SendInv /\ [Next]_vars => SendInv'
<1> SUFFICES ASSUME SendInv, [Next]_vars PROVE SendInv'
  OBVIOUS
<1> USE ConstantsAssumption DEF SendInv
<1>1. CASE UrlPathFound
  <2>1. outcome = "pending"
    BY <1>1 DEF UrlPathFound, OutcomeFromCause
  <2>2. TypeOK' /\ WaitingMayRetry' /\ StartedWhenFound' /\ ResultWhenDone'
    BY <1>1, <2>1 DEF UrlPathFound, TypeOK, WaitingMayRetry, StartedWhenFound, ResultWhenDone,
       Failure, SessionAfter, OutcomeAtStart, SessionOutcome, OutcomeOf
  <2>3. OutcomeFromCause'
    BY <1>1, <2>1 DEF UrlPathFound, OutcomeFromCause, FailureIsHeard, AllSettled, TypeOK,
       SessionAfter, OutcomeAtStart, SessionOutcome, OutcomeOf
  <2>4. FailureIsHeard' /\ NoSessionLeaked'
    BY <1>1, <2>1 DEF UrlPathFound, FailureIsHeard, NoSessionLeaked, TypeOK,
       SessionAfter, OutcomeAtStart, SessionOutcome
  <2> QED
    BY <2>2, <2>3, <2>4
<1>2. CASE UrlPathFails
  BY <1>2 DEF UrlPathFails, TypeOK, WaitingMayRetry, StartedWhenFound, ResultWhenDone, SessionAfter,
     OutcomeFromCause, FailureIsHeard, NoSessionLeaked
<1>3. CASE Goaway \/ SessionError
  <2>1. /\ session \in {"open", "closing"} /\ session' \in {"closing", "closed"}
        /\ SessionRejects
        /\ UNCHANGED <<urlPath, step, retryAttempts, result>>
    BY <1>3 DEF Goaway, SessionError
  <2>2. TypeOK' /\ OutcomeFromCause'
    BY <2>1 DEF SessionRejects, SessionOutcome, TypeOK, OutcomeFromCause, AllSettled
  <2>3. FailureIsHeard' /\ NoSessionLeaked'
    BY <2>1 DEF SessionRejects, SessionOutcome, TypeOK, OutcomeFromCause, FailureIsHeard, NoSessionLeaked
  <2> QED
    BY <2>1, <2>2, <2>3 DEF WaitingMayRetry, StartedWhenFound, ResultWhenDone
<1>4. CASE SessionCloses \/ SessionDropped
  <2>1. /\ session \in {"open", "closing"} /\ session' = "closed"
        /\ SessionResolves
        /\ UNCHANGED <<urlPath, retryAttempts, result, outcome, failedFirst>>
        /\ step' = step \/ step' = [m \in Msg |-> IF step[m] = "stream" THEN "silent" ELSE step[m]]
    BY <1>4 DEF SessionCloses, SessionDropped
  <2>2. FailureIsHeard' /\ NoSessionLeaked'
    BY <2>1 DEF SessionResolves, TypeOK, FailureIsHeard, NoSessionLeaked
  <2>3. TypeOK' /\ OutcomeFromCause'
    BY <2>1 DEF SessionResolves, TypeOK, OutcomeFromCause, AllSettled
  <2>4. WaitingMayRetry' /\ ResultWhenDone'
    BY <2>1 DEF TypeOK, WaitingMayRetry, ResultWhenDone
  <2>5. StartedWhenFound'
    BY <2>1 DEF StartedWhenFound, TypeOK
  <2> QED
    BY <2>2, <2>3, <2>4, <2>5
<1>5. ASSUME NEW m \in Msg, MessageStep(m) PROVE SendInv'
  <2>1. /\ step[m] \in {"token", "stream", "waiting"}
        /\ Moves(m) \/ Ends(m)
        /\ retryAttempts' \in [Msg -> 0..MaxRetries]
        /\ WaitingMayRetry'
    BY <1>5, MessageEffect
  <2>2. urlPath = "found"
    BY <2>1 DEF StartedWhenFound
  <2>3. CASE Moves(m)
    BY <2>1, <2>2, <2>3 DEF Moves, GoesTo, TypeOK, StartedWhenFound, ResultWhenDone, AllSettled,
       OutcomeFromCause, FailureIsHeard, NoSessionLeaked
  <2>4. CASE Ends(m)
    <3>1. PICK r \in Failure \cup {"sent"} : Settle(m, r)
      BY <2>4 DEF Ends
    <3>2. TypeOK' /\ StartedWhenFound' /\ ResultWhenDone'
      BY <2>1, <2>2, <2>4, <3>1 DEF Ends, Settle, OutcomeOf, SessionAfter, Failure, TypeOK,
         StartedWhenFound, ResultWhenDone
    <3>3. OutcomeFromCause' /\ FailureIsHeard' /\ NoSessionLeaked'
      BY <2>2, <3>1 DEF Settle, OutcomeOf, SessionAfter, TypeOK, AllSettled,
         OutcomeFromCause, FailureIsHeard, NoSessionLeaked
    <3> QED
      BY <2>1, <3>2, <3>3
  <2> QED
    BY <2>1, <2>3, <2>4
<1>6. CASE UNCHANGED vars
  BY <1>6 DEF vars, TypeOK, WaitingMayRetry, StartedWhenFound, ResultWhenDone, AllSettled,
     OutcomeFromCause, FailureIsHeard, NoSessionLeaked
<1> QED
  BY <1>1, <1>2, <1>3, <1>4, <1>5, <1>6 DEF Next

LEMMA SendInit == Init => SendInv
<1> SUFFICES ASSUME Init PROVE SendInv
  OBVIOUS
<1>1. TypeOK
  <2>1. 0 \in 0..MaxRetries
    BY ConstantsAssumption
  <2>2. /\ retryAttempts \in [Msg -> 0..MaxRetries]
        /\ result \in [Msg -> Failure \cup {"none", "sent"}]
    BY <2>1 DEF Init
  <2>3. step \in [Msg -> {"idle", "token", "stream", "waiting", "silent", "done"}]
    BY DEF Init
  <2> QED
    BY <2>2, <2>3 DEF Init, TypeOK
<1>2. WaitingMayRetry /\ StartedWhenFound /\ ResultWhenDone
  BY DEF Init, WaitingMayRetry, StartedWhenFound, ResultWhenDone
<1>3. OutcomeFromCause /\ FailureIsHeard /\ NoSessionLeaked
  BY DEF Init, OutcomeFromCause, FailureIsHeard, NoSessionLeaked
<1> QED
  BY <1>1, <1>2, <1>3 DEF SendInv

LEMMA SendInvariant == Spec => []SendInv
BY SendInit, SendStep, PTL DEF Spec
-----------------------------------------------------------------------------
\* The variables keep their types, and a message is tried at most MaxRetries + 1
\* times.
THEOREM SendTypeCorrect == Spec => []TypeOK
<1>1. SendInv => TypeOK
  BY DEF SendInv
<1> QED
  BY <1>1, SendInvariant, PTL

\* No way of settling leaves the session open.
THEOREM SessionNotLeaked == Spec => []NoSessionLeaked
<1>1. SendInv => NoSessionLeaked
  BY DEF SendInv
<1> QED
  BY <1>1, SendInvariant, PTL

\* A session error that comes before the outcome is the outcome, unless there is
\* no project id.
THEOREM SessionErrorReported == Spec => []SessionErrorIsReported
<1>1. SendInv => SessionErrorIsReported
  BY DEF SendInv, TypeOK, OutcomeFromCause, FailureIsHeard, SessionErrorIsReported
<1> QED
  BY <1>1, SendInvariant, PTL

\* No request starts once the call has settled.
THEOREM NothingStarts == Spec => NothingStartsAfterward
<1>1. SendInv /\ [Next]_vars =>
        [outcome # "pending" => \A m \in Msg : step'[m] = "stream" => step[m] = "stream"]_vars
  <2> SUFFICES ASSUME SendInv, [Next]_vars, outcome # "pending",
                      NEW m \in Msg, step[m] # "stream"
               PROVE  step'[m] # "stream"
    OBVIOUS
  <2> USE DEF SendInv
  <2>1. CASE UNCHANGED vars \/ UrlPathFails \/ Goaway \/ SessionError \/ SessionCloses
    BY <2>1 DEF vars, UrlPathFails, Goaway, SessionError, SessionCloses
  <2>2. CASE UrlPathFound
    BY <2>2 DEF UrlPathFound, OutcomeFromCause
  <2>3. CASE SessionDropped
    BY <2>3 DEF SessionDropped
  <2>4. ASSUME NEW n \in Msg, MessageStep(n) PROVE step'[m] # "stream"
    <3>1. step[n] \in {"token", "stream", "waiting"} /\ (Moves(n) \/ Ends(n))
      BY <2>4, MessageEffect
    <3>2. session \notin {"none", "open"}
      BY <3>1 DEF OutcomeFromCause, NoSessionLeaked, AllSettled, StartedWhenFound, TypeOK
    <3> QED
      BY <3>1, <3>2 DEF Moves, Ends, GoesTo, Settle, TypeOK
  <2> QED
    BY <2>1, <2>2, <2>3, <2>4 DEF Next
<1> QED
  BY <1>1, SendInvariant, PTL DEF Spec, NothingStartsAfterward
-----------------------------------------------------------------------------
\* A step of the code is a step of Batch, or changes nothing a caller sees.
LEMMA BatchStep == SendInv /\ SendInv' /\ [Next]_vars => [B!Next]_<<result, outcome>>
<1> SUFFICES ASSUME SendInv, SendInv', [Next]_vars PROVE [B!Next]_<<result, outcome>>
  OBVIOUS
<1> USE DEF SendInv
<1>1. result' \in [Msg -> (Failure \cup {"sent"}) \cup {"none"}]
  BY DEF TypeOK
<1>2. CASE UrlPathFound
  <2>1. outcome = "pending" /\ \A m \in Msg : result[m] = "none"
    BY <1>2 DEF UrlPathFound, OutcomeFromCause, StartedWhenFound
  <2>2. outcome' \in {"pending", "resolved", "sessionError"}
    BY <1>2, <2>1 DEF UrlPathFound, OutcomeAtStart, SessionOutcome, OutcomeOf
  <2>3. outcome' = "resolved" => \A m \in Msg : result'[m] # "none"
    BY DEF OutcomeFromCause, ResultWhenDone, AllSettled
  <2> QED
    BY <1>1, <2>1, <2>2, <2>3 DEF B!Next, B!Answer, B!Resolve, B!RejectWithBatch
<1>3. CASE UrlPathFails
  BY <1>1, <1>3 DEF UrlPathFails, StartedWhenFound, OutcomeFromCause, B!Next, B!Answer, B!Fail, B!Unanswered
<1>4. CASE Goaway \/ SessionError
  BY <1>1, <1>4 DEF Goaway, SessionError, SessionRejects, SessionOutcome, B!Next, B!Answer, B!RejectWithBatch
<1>5. CASE SessionCloses \/ SessionDropped \/ UNCHANGED vars
  BY <1>5 DEF SessionCloses, SessionDropped, vars
<1>6. ASSUME NEW m \in Msg, MessageStep(m) PROVE [B!Next]_<<result, outcome>>
  <2>1. step[m] \in {"token", "stream", "waiting"} /\ (Moves(m) \/ Ends(m))
    BY <1>6, MessageEffect
  <2>2. CASE Moves(m)
    BY <2>2 DEF Moves, GoesTo
  <2>3. CASE Ends(m)
    <3>1. PICK r \in Failure \cup {"sent"} : Settle(m, r)
      BY <2>3 DEF Ends
    <3>2. B!Answer
      BY <1>1, <2>1, <3>1 DEF Settle, ResultWhenDone, TypeOK, B!Answer
    <3>3. outcome' = "resolved" => \A n \in Msg : result'[n] # "none"
      BY DEF OutcomeFromCause, ResultWhenDone, AllSettled
    <3>4. outcome' = outcome \/ (outcome = "pending" /\ outcome' = "resolved")
      BY <3>1 DEF Settle, OutcomeOf
    <3> QED
      BY <3>2, <3>3, <3>4 DEF B!Next, B!Resolve
  <2> QED
    BY <2>1, <2>2, <2>3
<1> QED
  BY <1>2, <1>3, <1>4, <1>5, <1>6 DEF Next

\* sendEach() implements Batch: final responses, one outcome, and all of them in it.
THEOREM SendEachImplementsBatch == Spec => ImplementsBatch
<1>1. Init => B!Init
  BY DEF Init, B!Init, B!Unanswered
<1> QED
  BY <1>1, SendInvariant, BatchStep, PTL DEF Spec, ImplementsBatch, B!Spec
=============================================================================
