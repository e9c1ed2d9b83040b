--------------------------- MODULE HttpSend_proofs ---------------------------
(***************************************************************************)
(* Proofs about HttpSend: for every retry configuration and every order of *)
(* socket events, the attempts are sequential, each answers a failure      *)
(* worth retrying, and send() ends with the outcome of the last one.       *)
(***************************************************************************)
EXTENDS HttpSend, TLAPS

LEMMA RetryAfterType == ASSUME NEW e \in Error PROVE e.retryAfter \in Int
<1>1. e.retryAfter \in RetryAfter \/ e.retryAfter = 0
  BY DEF Error
<1>2. \A after \in RetryAfter : after \in Int
  BY ConstantsAssumption
<1>3. CASE e.retryAfter \in RetryAfter
  BY <1>2, <1>3
<1>4. CASE e.retryAfter = 0
  BY <1>4
<1> QED
  BY <1>1, <1>3, <1>4

\* Delays are integers.
LEMMA DelayType ==
  ASSUME NEW n \in Attempt, NEW e \in Error PROVE getRetryDelayMillis(n, e) \in Int
<1>1. e.retryAfter \in Int
  BY RetryAfterType
<1>2. n \in Nat
  BY ConstantsAssumption DEF Attempt
<1>3. 2 ^ n \in Int
  BY <1>2
<1>4. Pow2[n] \in Int
  BY <1>3 DEF Pow2
<1>5. backOffDelayMillis(n) \in Int
  BY <1>4, ConstantsAssumption DEF backOffDelayMillis
<1> QED
  BY <1>1, <1>5 DEF getRetryDelayMillis

\* An error is recorded for every attempt that rejected.
ErrorOfRejected == \A i \in Attempt : promise[i] = "rejected" => error[i] \in Error

\* Attempts that have not begun have no request and no outcome.
NotYetBegun ==
  \A i \in Attempt : i > retryAttempts => request[i] = "unsent" /\ promise[i] = "pending"

\* While the next attempt is waited for, this one has failed, is over, and the
\* wait is one the configuration allows.
WaitingAfterFailure ==
  sending = "waiting" =>
    /\ retryAttempts + 1 \in Attempt
    /\ promise[retryAttempts] = "rejected"
    /\ Retryable(error[retryAttempts])
    /\ delay[retryAttempts + 1] <= MaxDelay
    /\ error[retryAttempts].retryAfter > 0
         => error[retryAttempts].retryAfter <= delay[retryAttempts + 1]

\* A request whose call failed with an error worth retrying is over.
FailedRequestIsOver ==
  \A i \in Attempt : promise[i] = "rejected" /\ Retryable(error[i]) => ~Open(i)

SendInv ==
  /\ TypeOK /\ ErrorOfRejected /\ NotYetBegun /\ WaitingAfterFailure /\ FailedRequestIsOver
  /\ NoRequestAbandoned /\ OutcomeOfLastAttempt /\ GivesUpOnlyWhenItMust /\ RetriesAnswerFailures

\* What every event of a socket does to the calls: an attempt that began gets,
\* at most, its first outcome.
CallEffect(i) ==
  /\ UNCHANGED <<retryAttempts, sending, delay>>
  /\ request[i] # "unsent"
  /\ \E r \in {"sent", "answering", "ended", "destroyed", "cut"} :
        /\ request' = [request EXCEPT ![i] = r]
        /\ r \in {"sent", "answering"} => Open(i)
        /\ \/ UNCHANGED <<promise, error>>
           \/ /\ promise[i] = "pending"
              /\ promise' = [promise EXCEPT ![i] = "resolved"]
              /\ UNCHANGED error
           \/ \E e \in Error :
                /\ promise[i] = "pending"
                /\ promise' = [promise EXCEPT ![i] = "rejected"]
                /\ error' = [error EXCEPT ![i] = e]
                /\ r \in {"sent", "answering"} => ~Retryable(e)

LEMMA CallEffects ==
  ASSUME TypeOK, NEW i \in Attempt, CallStep(i) PROVE CallEffect(i)
<1> USE DEF TypeOK
<1>1. ASSUME NEW c \in SocketIo, RequestError(i, c) PROVE CallEffect(i)
  <2>1. IoError(c) \in Error
    BY DEF IoError, Error, Io
  <2> QED
    BY <1>1, <2>1 DEF RequestError, Reject, CallEffect
<1>2. CASE handleResponse(i)
  BY <1>2 DEF handleResponse, CallEffect, Open
<1>3. ASSUME NEW s \in OkStatus \cup ErrorStatus, NEW after \in RetryAfter,
             finalizeResponse(i, s, after)
      PROVE  CallEffect(i)
  <2>1. CASE s \in OkStatus
    <3>1. promise' = promise \/ (promise[i] = "pending" /\ promise' = [promise EXCEPT ![i] = "resolved"])
      BY <1>3, <2>1 DEF finalizeResponse, Resolved
    <3> QED
      BY <1>3, <2>1, <3>1 DEF finalizeResponse, CallEffect
  <2>2. CASE s \notin OkStatus
    <3>1. StatusError(s, after) \in Error
      BY <2>2 DEF StatusError, Error
    <3> QED
      BY <1>3, <2>2, <3>1 DEF finalizeResponse, Reject, CallEffect
  <2> QED
    BY <2>1, <2>2
<1>4. ASSUME NEW c \in SocketIo \cup DecodeIo, StreamError(i, c) PROVE CallEffect(i)
  <2>1. IoError(c) \in Error
    BY DEF IoError, Error, Io
  <2>2. CASE c \in SocketIo
    BY <1>4, <2>1, <2>2, ConstantsAssumption DEF StreamError, Reject, CallEffect
  <2>3. CASE c \in DecodeIo
    <3>1. ~Retryable(IoError(c))
      BY <2>3, ConstantsAssumption DEF Retryable, IoError
    <3>2. request[i] = "answering" /\ request' = [request EXCEPT ![i] = "answering"]
      BY <1>4, <2>3, ConstantsAssumption DEF StreamError
    <3>3. Reject(i, IoError(c)) /\ UNCHANGED <<retryAttempts, sending, delay>>
      BY <1>4, <2>3, ConstantsAssumption DEF StreamError
    <3> QED
      BY <2>1, <3>1, <3>2, <3>3 DEF Reject, CallEffect, Open
  <2> QED
    BY <2>2, <2>3
<1>5. CASE timeoutCallback(i)
  <2>1. IoError(ETIMEDOUT) \in Error
    BY DEF IoError, Error, Io
  <2>2. \E r \in {"destroyed", "cut"} : request' = [request EXCEPT ![i] = r]
    BY <1>5 DEF timeoutCallback, DestroyedOnTimeout
  <2> QED
    BY <1>5, <2>1, <2>2 DEF timeoutCallback, Reject, CallEffect, Open
<1> QED
  BY <1>1, <1>2, <1>3, <1>4, <1>5 DEF CallStep

\* Every step keeps the invariant.
LEMMA SendStepInv == SendInv /\ [Next]_vars => SendInv'
<1> SUFFICES ASSUME SendInv, [Next]_vars PROVE SendInv'
  OBVIOUS
<1> USE DEF TypeOK, ErrorOfRejected, NotYetBegun, WaitingAfterFailure, FailedRequestIsOver,
        NoRequestAbandoned, OutcomeOfLastAttempt, GivesUpOnlyWhenItMust, RetriesAnswerFailures
<1>0. \A i \in Attempt : i \in Nat
  BY ConstantsAssumption DEF Attempt
<1>1. ASSUME NEW i \in Attempt, CallStep(i) PROVE SendInv'
  <2>1. CallEffect(i)
    BY <1>1, CallEffects DEF SendInv
  <2>2. i <= retryAttempts
    BY <1>0, <2>1 DEF SendInv, CallEffect
  <2>3. PICK r \in {"sent", "answering", "ended", "destroyed", "cut"} :
          /\ request' = [request EXCEPT ![i] = r]
          /\ r \in {"sent", "answering"} => Open(i)
          /\ \/ UNCHANGED <<promise, error>>
             \/ /\ promise[i] = "pending"
                /\ promise' = [promise EXCEPT ![i] = "resolved"]
                /\ UNCHANGED error
             \/ \E e \in Error :
                  /\ promise[i] = "pending"
                  /\ promise' = [promise EXCEPT ![i] = "rejected"]
                  /\ error' = [error EXCEPT ![i] = e]
                  /\ r \in {"sent", "answering"} => ~Retryable(e)
    BY <2>1 DEF CallEffect
  <2>4. UNCHANGED <<retryAttempts, sending, delay>>
    BY <2>1 DEF CallEffect
  <2>5. \A j \in Attempt : promise[j] # "pending" => promise'[j] = promise[j] /\ error'[j] = error[j]
    BY <2>3 DEF SendInv
  <2>6. \A j \in Attempt : Open(j)' => Open(j)
    BY <2>3 DEF SendInv, Open
  <2>7. TypeOK'
    BY <2>3, <2>4 DEF SendInv
  <2>8. ErrorOfRejected' /\ NotYetBegun'
    BY <1>0, <2>2, <2>3, <2>4 DEF SendInv
  <2>9. FailedRequestIsOver'
    <3>1. ASSUME NEW j \in Attempt, promise'[j] = "rejected", Retryable(error'[j]) PROVE ~Open(j)'
      <4>1. CASE promise[j] # "pending"
        BY <2>5, <2>6, <3>1, <4>1 DEF SendInv
      <4>2. CASE promise[j] = "pending"
        BY <2>3, <3>1, <4>2 DEF SendInv, Open
      <4> QED
        BY <4>1, <4>2
    <3> QED
      BY <3>1 DEF Retryable
  <2>10. NoRequestAbandoned'
    BY <2>4, <2>6 DEF SendInv
  <2>11. WaitingAfterFailure' /\ OutcomeOfLastAttempt' /\ GivesUpOnlyWhenItMust'
    BY <2>4, <2>5 DEF SendInv, Retryable
  <2>12. RetriesAnswerFailures'
    <3>1. ASSUME NEW j \in Attempt, 0 < j, j <= retryAttempts
          PROVE  j - 1 \in Attempt
      BY <3>1, ConstantsAssumption DEF Attempt
    <3> QED
      BY <2>4, <2>5, <3>1 DEF SendInv, Retryable
  <2> QED
    BY <2>7, <2>8, <2>9, <2>10, <2>11, <2>12 DEF SendInv
<1>2. CASE SendResolves
  BY <1>2 DEF SendResolves, SendInv, Open
<1>3. CASE SendCatches
  <2> DEFINE e == error[retryAttempts]
  <2>1. e \in Error /\ UNCHANGED <<retryAttempts, request, promise, error>> /\ sending = "calling"
    BY <1>3 DEF SendCatches, SendInv
  <2>2. CASE WillRetry(e)
    <3>1. retryAttempts + 1 \in Attempt
      BY <1>0, <2>2, ConstantsAssumption DEF WillRetry, isRetryEligible, SendInv, Attempt
    <3>2. Retryable(e) /\ getRetryDelayMillis(retryAttempts, e) <= MaxDelay
      BY <2>2 DEF WillRetry, isRetryEligible, MayWait
    <3>3. getRetryDelayMillis(retryAttempts, e) \in Int
      BY <2>1, DelayType DEF SendInv
    <3>4. e.retryAfter > 0 => e.retryAfter <= getRetryDelayMillis(retryAttempts, e)
      <4>1. e.retryAfter \in Int
        BY <2>1, RetryAfterType
      <4> QED
        BY <4>1 DEF getRetryDelayMillis
    <3>5. /\ sending' = "waiting"
          /\ delay' = [delay EXCEPT ![retryAttempts + 1] = getRetryDelayMillis(retryAttempts, e)]
          /\ promise[retryAttempts] = "rejected"
      BY <1>3, <2>2 DEF SendCatches
    <3>6. \A i \in Attempt : i <= retryAttempts => delay'[i] = delay[i]
      BY <1>0, <3>5 DEF SendInv
    <3> HIDE DEF e
    <3>7. TypeOK' /\ WaitingAfterFailure'
      BY <2>1, <3>1, <3>2, <3>3, <3>4, <3>5 DEF SendInv, Retryable, e
    <3>8. RetriesAnswerFailures'
      BY <2>1, <3>6 DEF SendInv, Retryable
    <3> QED
      BY <2>1, <3>5, <3>7, <3>8 DEF SendInv, Retryable, Open
  <2>3. CASE ~WillRetry(e)
    <3>1. sending' = "failed" /\ delay' = delay /\ promise[retryAttempts] = "rejected"
      BY <1>3, <2>3 DEF SendCatches
    <3>2. Retryable(e) => retryAttempts = MaxRetries \/ e.retryAfter > MaxDelay
      <4>1. ASSUME Retryable(e), retryAttempts # MaxRetries PROVE e.retryAfter > MaxDelay
        <5>1. retryAttempts < MaxRetries
          BY <4>1, ConstantsAssumption DEF SendInv, Attempt
        <5>2. ~(getRetryDelayMillis(retryAttempts, e) <= MaxDelay)
          BY <2>3, <4>1, <5>1 DEF WillRetry, isRetryEligible, MayWait
        <5>3. backOffDelayMillis(retryAttempts) <= MaxDelay
          <6>1. Pow2[retryAttempts] \in Int
            BY <1>0 DEF Pow2, SendInv
          <6> QED
            BY <6>1, ConstantsAssumption DEF backOffDelayMillis
        <5>4. e.retryAfter \in Int
          BY <2>1, RetryAfterType
        <5> QED
          BY <5>2, <5>3, <5>4, ConstantsAssumption DEF getRetryDelayMillis
      <4> QED
        BY <4>1
    <3> QED
      BY <2>1, <3>1, <3>2 DEF SendInv, Retryable, Open
  <2> QED
    BY <2>2, <2>3
<1>4. CASE SendAgain
  <2>1. /\ sending = "waiting" /\ sending' = "calling" /\ retryAttempts' = retryAttempts + 1
        /\ request' = [request EXCEPT ![retryAttempts + 1] = "sent"]
        /\ UNCHANGED <<promise, error, delay>>
    BY <1>4 DEF SendAgain
  <2>2. retryAttempts \in Nat /\ retryAttempts + 1 \in Attempt /\ retryAttempts \in Attempt
    BY <1>0, <2>1 DEF SendInv
  <2>3. ~Open(retryAttempts)
    BY <2>1, <2>2 DEF SendInv
  <2>4. NoRequestAbandoned'
    BY <1>0, <2>1, <2>2, <2>3 DEF SendInv, Open
  <2>5. FailedRequestIsOver'
    BY <1>0, <2>1, <2>2 DEF SendInv, Open, Retryable
  <2>6. TypeOK' /\ ErrorOfRejected' /\ NotYetBegun'
    BY <1>0, <2>1, <2>2 DEF SendInv
  <2>7. RetriesAnswerFailures'
    <3>1. ASSUME NEW i \in Attempt, 0 < i, i <= retryAttempts + 1
          PROVE  i <= retryAttempts \/ i = retryAttempts + 1
      BY <1>0, <2>2, <3>1
    <3> QED
      BY <1>0, <2>1, <2>2, <3>1 DEF SendInv, Retryable
  <2> QED
    BY <2>1, <2>4, <2>5, <2>6, <2>7 DEF SendInv
<1>5. CASE UNCHANGED vars
  BY <1>5 DEF vars, SendInv, Open, Retryable
<1> QED
  BY <1>1, <1>2, <1>3, <1>4, <1>5 DEF Next, SendStep

LEMMA SendInvAlways == Spec => []SendInv
<1>1. Init => SendInv
  BY ConstantsAssumption
     DEF Init, SendInv, TypeOK, ErrorOfRejected, NotYetBegun, WaitingAfterFailure, FailedRequestIsOver,
         NoRequestAbandoned, OutcomeOfLastAttempt, GivesUpOnlyWhenItMust, RetriesAnswerFailures, Attempt
<1> QED
  BY <1>1, SendStepInv, PTL DEF Spec

\* For every configuration: attempts never overlap, and send() has the outcome of
\* the last one.
THEOREM SendCorrect == Spec => [](TypeOK /\ NoRequestAbandoned /\ OutcomeOfLastAttempt)
<1>1. SendInv => TypeOK /\ NoRequestAbandoned /\ OutcomeOfLastAttempt
  BY DEF SendInv
<1> QED
  BY <1>1, SendInvAlways, PTL

\* For every configuration: an attempt answers a failure worth retrying, after a
\* wait the server and the configuration allow (sendWithRetry()).
THEOREM EveryRetryIsDue == Spec => []RetriesAnswerFailures
<1>1. SendInv => RetriesAnswerFailures
  BY DEF SendInv
<1> QED
  BY <1>1, SendInvAlways, PTL

\* For every configuration: send() gives up on a failure worth retrying only when
\* its attempts are used up or the wait asked for is too long.
THEOREM NoRetryIsMissed == Spec => []GivesUpOnlyWhenItMust
<1>1. SendInv => GivesUpOnlyWhenItMust
  BY DEF SendInv
<1> QED
  BY <1>1, SendInvAlways, PTL
=============================================================================
