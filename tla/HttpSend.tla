------------------------------ MODULE HttpSend ------------------------------
(***************************************************************************)
(* One HttpClient.send(): class AsyncHttpCall, which turns the events of a *)
(* Node.js request into one promise, and the retry loop around it          *)
(* (RequestClient, HttpClient.sendWithRetry), all in                       *)
(* src/src/utils/api-request.ts.                                           *)
(*                                                                         *)
(* The events of a request come in any order the socket produces, also     *)
(* after its promise has settled and the next attempt is under way.        *)
(***************************************************************************)
EXTENDS Integers

CONSTANTS
  MaxRetries,       \* retry.maxRetries; 0 also stands for a client without retries
  RetryStatus,      \* retry.statusCodes
  RetryIo,          \* retry.ioErrorCodes
  BackOffMillis,    \* retry.backOffFactor, in milliseconds
  MaxDelay,         \* retry.maxDelayInMillis
  OkStatus,         \* the 2xx codes a server may answer
  ErrorStatus,      \* the other codes it may answer
  SocketIo,         \* error codes of a request or a response stream that dies
  DecodeIo,         \* error codes of the decompressor, whose request lives on
  RetryAfter,       \* values parseRetryAfterIntoMillis may return; 0 also for no header
  HasTimeout,       \* does the request have a timeout?
  ETIMEDOUT,
  NoError, None

ASSUME ConstantsAssumption ==
  /\ MaxRetries \in Nat /\ BackOffMillis \in Nat /\ MaxDelay \in Nat
  /\ RetryAfter \subseteq Int
  /\ RetryStatus \cap OkStatus = {} /\ OkStatus \cap ErrorStatus = {}
  /\ None \notin RetryStatus /\ None \notin RetryIo
  /\ DecodeIo \cap (RetryIo \cup SocketIo) = {}
  /\ HasTimeout \in BOOLEAN

VARIABLES
  retryAttempts,  \* the attempt that sendWithRetry is at
  sending,        \* where the promise of send() stands
  request,        \* the Node.js request of each attempt: destroyed before, or cut
                  \* off after its answer began
  promise,        \* the promise of each AsyncHttpCall
  error,          \* what it was rejected with
  delay           \* the delay that was waited for before each attempt

vars == <<retryAttempts, sending, request, promise, error, delay>>

Attempt == 0..MaxRetries

Io == SocketIo \cup DecodeIo \cup {ETIMEDOUT}

Error ==
  [status : ErrorStatus, code : {None}, retryAfter : RetryAfter]
    \cup [status : {None}, code : Io, retryAfter : {0}]

ASSUME NoErrorAssumption == NoError \notin Error

StatusError(s, after) == [status |-> s, code |-> None, retryAfter |-> after]
IoError(c) == [status |-> None, code |-> c, retryAfter |-> 0]

Open(i) == request[i] \in {"sent", "answering"}
-----------------------------------------------------------------------------
(***************************************************************************)
(* AsyncHttpCall.                                                          *)
(***************************************************************************)
\* Faulty variant: a later event overrides the outcome of the call.
RejectAgain(i, e) ==
  /\ promise' = [promise EXCEPT ![i] = "rejected"]
  /\ error' = [error EXCEPT ![i] = e]

\* Faulty variant: the error is swallowed.
RejectNever(i, e) == UNCHANGED <<promise, error>>

\* A promise that has settled ignores what comes later.
Reject(i, e) ==
  IF promise[i] = "pending"
  THEN /\ promise' = [promise EXCEPT ![i] = "rejected"]
       /\ error' = [error EXCEPT ![i] = e]
  ELSE UNCHANGED <<promise, error>>

Resolved(i) == [promise EXCEPT ![i] = IF @ = "pending" THEN "resolved" ELSE @]

\* The request's 'error' event, before an answer or after its destroy().
RequestError(i, c) ==
  /\ request[i] \in {"sent", "destroyed"}
  /\ request' = [request EXCEPT ![i] = "destroyed"]
  /\ Reject(i, IoError(c))
  /\ UNCHANGED <<retryAttempts, sending, delay>>

\* The response's head arrives; its body is read as a stream.
handleResponse(i) ==
  /\ request[i] = "sent"
  /\ request' = [request EXCEPT ![i] = "answering"]
  /\ UNCHANGED <<retryAttempts, sending, promise, error, delay>>

\* The stream's 'end' event: finalizeResponse resolves on a 2xx status and
\* rejects on any other.
finalizeResponse(i, s, after) ==
  /\ request[i] = "answering"
  /\ request' = [request EXCEPT ![i] = "ended"]
  /\ IF s \in OkStatus
     THEN promise' = Resolved(i) /\ UNCHANGED error
     ELSE Reject(i, StatusError(s, after))
  /\ UNCHANGED <<retryAttempts, sending, delay>>

\* The stream's 'error' event.  It is ignored when Node has marked the request
\* destroyed before, which depends on how the connection ended.
StreamError(i, c) ==
  \/ /\ c \in SocketIo
     /\ request[i] = "answering"
     /\ request' = [request EXCEPT ![i] = "cut"]
     /\ \/ Reject(i, IoError(c))
        \/ UNCHANGED <<promise, error>>
     /\ UNCHANGED <<retryAttempts, sending, delay>>
  \/ /\ c \in DecodeIo
     /\ request[i] = "answering"
     /\ Reject(i, IoError(c))
     /\ UNCHANGED <<request, retryAttempts, sending, delay>>

\* Faulty variant: the request goes on after its timeout.
DestroyedOnTimeoutNot(i) == request

\* req.destroy()
DestroyedOnTimeout(i) ==
  [request EXCEPT ![i] = IF @ = "sent" THEN "destroyed" ELSE "cut"]

\* The socket was idle for the time allowed.
timeoutCallback(i) ==
  /\ HasTimeout
  /\ Open(i)
  /\ request' = DestroyedOnTimeout(i)
  /\ Reject(i, IoError(ETIMEDOUT))
  /\ UNCHANGED <<retryAttempts, sending, delay>>
-----------------------------------------------------------------------------
(***************************************************************************)
(* RequestClient and sendWithRetry.                                        *)
(***************************************************************************)
Init ==
  /\ retryAttempts = 0
  /\ sending = "calling"
  /\ request = [i \in Attempt |-> IF i = 0 THEN "sent" ELSE "unsent"]
  /\ promise = [i \in Attempt |-> "pending"]
  /\ error = [i \in Attempt |-> NoError]
  /\ delay = [i \in Attempt |-> 0]

\* The failures that the configuration names.
Retryable(e) == e.status \in RetryStatus \/ e.code \in RetryIo

isRetryEligible(attempts, e) == attempts < MaxRetries /\ Retryable(e)

Pow2 == [n \in Attempt |-> 2 ^ n]

backOffDelayMillis(attempts) ==
  IF attempts = 0 THEN 0
  ELSE IF Pow2[attempts] * BackOffMillis < MaxDelay THEN Pow2[attempts] * BackOffMillis
  ELSE MaxDelay

\* A Retry-After that lies in the future wins over the back-off.
getRetryDelayMillis(attempts, e) ==
  IF e.retryAfter > 0 THEN e.retryAfter ELSE backOffDelayMillis(attempts)

\* The attempt's promise resolved: so does send()'s.
SendResolves ==
  /\ sending = "calling"
  /\ promise[retryAttempts] = "resolved"
  /\ sending' = "resolved"
  /\ UNCHANGED <<retryAttempts, request, promise, error, delay>>

\* Faulty variant: a delay that is too long is cut short.
MayWaitAny(d) == TRUE

\* A delay that is too long is not waited for.
MayWait(d) == d <= MaxDelay

WillRetry(e) ==
  /\ isRetryEligible(retryAttempts, e)
  /\ MayWait(getRetryDelayMillis(retryAttempts, e))

\* It rejected: wait for the next attempt, or fail with this error.
SendCatches ==
  /\ sending = "calling"
  /\ promise[retryAttempts] = "rejected"
  /\ LET e == error[retryAttempts]
     IN  IF WillRetry(e)
         THEN /\ sending' = "waiting"
              /\ delay' = [delay EXCEPT ![retryAttempts + 1] = getRetryDelayMillis(retryAttempts, e)]
         ELSE sending' = "failed" /\ UNCHANGED delay
  /\ UNCHANGED <<retryAttempts, request, promise, error>>

\* The wait is over: sendWithRetry(config, retryAttempts + 1).
SendAgain ==
  /\ sending = "waiting"
  /\ sending' = "calling"
  /\ retryAttempts' = retryAttempts + 1
  /\ request' = [request EXCEPT ![retryAttempts + 1] = "sent"]
  /\ UNCHANGED <<promise, error, delay>>

SendStep == SendResolves \/ SendCatches \/ SendAgain

\* What the socket of an attempt still does.
CallStep(i) ==
  \/ \E c \in SocketIo : RequestError(i, c)
  \/ handleResponse(i)
  \/ \E s \in OkStatus \cup ErrorStatus, after \in RetryAfter : finalizeResponse(i, s, after)
  \/ \E c \in SocketIo \cup DecodeIo : StreamError(i, c)
  \/ timeoutCallback(i)

Next == SendStep \/ \E i \in Attempt : CallStep(i)

Spec == Init /\ [][Next]_vars

\* Microtasks and timers run, and a socket that is open does something.
FairSpec == Spec /\ WF_vars(SendStep) /\ \A i \in Attempt : WF_vars(CallStep(i))
-----------------------------------------------------------------------------
(***************************************************************************)
(* Properties.                                                             *)
(***************************************************************************)
TypeOK ==
  /\ retryAttempts \in Attempt
  /\ sending \in {"calling", "waiting", "resolved", "failed"}
  /\ request \in [Attempt -> {"unsent", "sent", "answering", "ended", "destroyed", "cut"}]
  /\ promise \in [Attempt -> {"pending", "resolved", "rejected"}]
  /\ error \in [Attempt -> Error \cup {NoError}]
  /\ delay \in [Attempt -> Int]

\* A request is never sent again while the previous one may still be answered:
\* the server sees the attempts of one send() one after the other.
NoRequestAbandoned == \A i \in Attempt : i < retryAttempts => ~Open(i)

\* send() has the outcome of its last attempt, whatever the sockets of the
\* attempts do afterwards.
OutcomeOfLastAttempt ==
  /\ sending = "resolved" => promise[retryAttempts] = "resolved"
  /\ sending = "failed" => promise[retryAttempts] = "rejected"

\* send() fails with an error worth retrying only when the attempts are used up
\* or the server asks for a longer wait than the configuration allows.
GivesUpOnlyWhenItMust ==
  (sending = "failed" /\ Retryable(error[retryAttempts]))
    => retryAttempts = MaxRetries \/ error[retryAttempts].retryAfter > MaxDelay

\* Every attempt but the first answers a failure worth retrying, no earlier than
\* the server asked for and no later than the configuration allows.
RetriesAnswerFailures ==
  \A i \in Attempt : 0 < i /\ i <= retryAttempts =>
    /\ promise[i - 1] = "rejected"
    /\ Retryable(error[i - 1])
    /\ error[i - 1].retryAfter > 0 => error[i - 1].retryAfter <= delay[i]
    /\ delay[i] <= MaxDelay

\* The promise of send() settles: "In case of all other errors, the promise
\* rejects with a `FirebaseAppError`".
SendSettles == <>(sending \in {"resolved", "failed"})

\* An error of the stream was ignored and nothing else settled the call.
StreamErrorIgnored == \E i \in Attempt : request[i] = "cut" /\ promise[i] = "pending"

\* Unless that happens, it does settle: no other order of events leaves send()
\* waiting.
SendSettlesUnlessIgnored == <>(sending \in {"resolved", "failed"} \/ StreamErrorIgnored)
=============================================================================
