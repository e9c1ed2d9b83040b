------------------------------- MODULE SendEach -------------------------------
(***************************************************************************)
(* One sendEach() of src/src/messaging/messaging.ts: the requests of its   *)
(* messages, their retries (Http2Client.sendWithRetry and AsyncHttp2Call   *)
(* of src/src/utils/api-request.ts, or their HTTP/1.1 counterparts, whose  *)
(* sockets HttpSend models event by event) and the Http2SessionHandler     *)
(* they share.                                                             *)
(*                                                                         *)
(* An action is an event of Node.js with the promise reactions it sets     *)
(* off: they all run before the next event.                                *)
(***************************************************************************)
EXTENDS Integers

CONSTANTS
  Msg,          \* the places in the array of messages
  Invalid,      \* those whose message validateMessage refuses
  MaxRetries,   \* retry.maxRetries
  Status200,    \* the status 200
  OkStatus,     \* the 2xx statuses a server may answer
  ErrorStatus,  \* the other statuses it may answer
  RetryStatus,  \* retry.statusCodes
  Io,           \* the error codes of a stream that dies, or times out
  RetryIo       \* retry.ioErrorCodes

ASSUME ConstantsAssumption ==
  /\ Invalid \subseteq Msg
  /\ MaxRetries \in Nat
  /\ Status200 \in OkStatus
  /\ RetryStatus \cap OkStatus = {}

VARIABLES
  urlPath,         \* the promise of getUrlPath()
  session,         \* http2Session; "none" with useLegacyTransport
  sessionPromise,  \* Http2SessionHandler.promise
  step,            \* where the request of each message stands
  retryAttempts,   \* sendWithRetry's argument, for each message
  result,          \* what the promise of each message settled with
  outcome,         \* what the promise of sendEach() settled with
  failedFirst      \* history: sessionPromise rejected before sendEach() settled

vars == <<urlPath, session, sessionPromise, step, retryAttempts, result, outcome, failedFirst>>

Failure == {"unparsable", "refused", "network", "invalid", "noToken"}

AllSettled(s) == \A m \in Msg : s[m] = "done"

\* A stream that ended without telling its listeners.
SilentStream == \E m \in Msg : step[m] = "silent"
-----------------------------------------------------------------------------
\* Faulty variant: Promise.any instead of Promise.allSettled.
OutcomeOfFirst(s) ==
  IF outcome = "pending" /\ \E m \in Msg : s[m] = "done" THEN "resolved" ELSE outcome

\* sendResponsePromise.then(resolve)
OutcomeOf(s) == IF outcome = "pending" /\ AllSettled(s) THEN "resolved" ELSE outcome

\* Faulty variant: then() instead of finally().
SessionAfterThen(o) == IF o = "resolved" /\ session = "open" THEN "closing" ELSE session

\* finally(): close() lets the open streams end, and does nothing twice.
SessionAfter(o) == IF o # "pending" /\ session = "open" THEN "closing" ELSE session

\* The catch() on invoke().
SessionOutcome == IF outcome = "pending" THEN "sessionError" ELSE outcome

\* Faulty variant: the catch() misses a session that failed already.
OutcomeAtStartLate(s) == OutcomeOf(s)

\* The catch() of a session that failed already runs before allSettled() resolves.
OutcomeAtStart(s) ==
  IF sessionPromise = "rejected" THEN SessionOutcome ELSE OutcomeOf(s)

\* useLegacyTransport is chosen before the call.
Init ==
  /\ urlPath = "pending"
  /\ session \in {"none", "open"}
  /\ sessionPromise = "pending"
  /\ step = [m \in Msg |-> "idle"]
  /\ retryAttempts = [m \in Msg |-> 0]
  /\ result = [m \in Msg |-> "none"]
  /\ outcome = "pending"
  /\ failedFirst = FALSE

\* The project id is known: the session gets its listener and every message is
\* validated, and refused at once or sent to AuthorizedHttp2Client.send, which
\* waits for a token.
UrlPathFound ==
  /\ urlPath = "pending"
  /\ urlPath' = "found"
  /\ step' = [m \in Msg |-> IF m \in Invalid THEN "done" ELSE "token"]
  /\ result' = [m \in Msg |-> IF m \in Invalid THEN "invalid" ELSE "none"]
  /\ outcome' = OutcomeAtStart(step')
  /\ session' = SessionAfter(outcome')
  /\ UNCHANGED <<sessionPromise, retryAttempts, failedFirst>>

\* No project id.
UrlPathFails ==
  /\ urlPath = "pending"
  /\ urlPath' = "failed"
  /\ outcome' = "failed"
  /\ session' = SessionAfter(outcome')
  /\ UNCHANGED <<sessionPromise, step, retryAttempts, result, failedFirst>>
-----------------------------------------------------------------------------
(***************************************************************************)
(* Http2SessionHandler.                                                    *)
(***************************************************************************)
\* The promise ignores all but the first of reject() and resolve().
SessionRejects ==
  /\ sessionPromise' = IF sessionPromise = "pending" THEN "rejected" ELSE sessionPromise
  /\ failedFirst' = (failedFirst \/ (sessionPromise = "pending" /\ outcome = "pending"))
  /\ outcome' = IF sessionPromise = "pending" /\ urlPath = "found" THEN SessionOutcome ELSE outcome

\* 'goaway' without an error: the streams that are open may still end.
Goaway ==
  /\ session \in {"open", "closing"}
  /\ sessionPromise = "pending"
  /\ SessionRejects
  /\ session' = "closing"
  /\ UNCHANGED <<urlPath, step, retryAttempts, result>>

\* 'error', or 'goaway' with an error: the session is destroyed, and its streams
\* with the same error, each of which is an event of its own.
SessionError ==
  /\ session \in {"open", "closing"}
  /\ SessionRejects
  /\ session' = "closed"
  /\ UNCHANGED <<urlPath, step, retryAttempts, result>>

SessionResolves ==
  sessionPromise' = IF sessionPromise = "pending" THEN "resolved" ELSE sessionPromise

\* 'close' of a session that was closed and whose streams have ended.
SessionCloses ==
  /\ session = "closing"
  /\ \A m \in Msg : step[m] # "stream"
  /\ SessionResolves
  /\ session' = "closed"
  /\ UNCHANGED <<urlPath, step, retryAttempts, result, outcome, failedFirst>>

\* 'close' when the connection ends without an error: Node.js cancels the open
\* streams, and a cancelled stream has no 'error' event.
SessionDropped ==
  /\ session \in {"open", "closing"}
  /\ SessionResolves
  /\ session' = "closed"
  /\ step' = [m \in Msg |-> IF step[m] = "stream" THEN "silent" ELSE step[m]]
  /\ UNCHANGED <<urlPath, retryAttempts, result, outcome, failedFirst>>
-----------------------------------------------------------------------------
(***************************************************************************)
(* The request of a message.                                               *)
(***************************************************************************)
Settle(m, r) ==
  /\ step' = [step EXCEPT ![m] = "done"]
  /\ result' = [result EXCEPT ![m] = r]
  /\ outcome' = OutcomeOf(step')
  /\ session' = SessionAfter(outcome')
  /\ UNCHANGED <<urlPath, sessionPromise, failedFirst>>

GoesTo(m, s) ==
  /\ step' = [step EXCEPT ![m] = s]
  /\ UNCHANGED <<urlPath, session, sessionPromise, result, outcome, failedFirst>>

\* Faulty variant: a session that is closed is replaced by a new one.
executeAnew(m) == GoesTo(m, "stream")

\* session.request() throws on a session that is closed or closing, an error that
\* is not worth retrying.
execute(m) ==
  IF session \in {"none", "open"} THEN GoesTo(m, "stream") ELSE Settle(m, "network")

TokenArrives(m) ==
  /\ step[m] = "token"
  /\ execute(m)
  /\ UNCHANGED retryAttempts

TokenFails(m) ==
  /\ step[m] = "token"
  /\ Settle(m, "noToken")
  /\ UNCHANGED retryAttempts

\* The wait before a retry is over, or there was none.
RetryElapses(m) ==
  /\ step[m] = "waiting"
  /\ execute(m)
  /\ retryAttempts' = [retryAttempts EXCEPT ![m] = @ + 1]

\* sendWithRetry's catch()
FailsOrRetries(m, r, retryable) ==
  IF retryable /\ retryAttempts[m] < MaxRetries THEN GoesTo(m, "waiting") ELSE Settle(m, r)

\* buildSendResponse() reads the message id: a body that is no JSON makes it throw.
Status200Arrives(m) == Settle(m, "sent") \/ Settle(m, "unparsable")

\* Any answer but a 200, which FCM does not send for a success.  A Retry-After that
\* is too long ends the retries.
ErrorArrives(m, s) ==
  \/ FailsOrRetries(m, "refused", s \in RetryStatus)
  \/ s \in ErrorStatus /\ Settle(m, "refused")

\* finalizeResponse
Answered(m, s) ==
  /\ step[m] = "stream"
  /\ session # "closed"
  /\ IF s = Status200
     THEN Status200Arrives(m)
     ELSE ErrorArrives(m, s)
  /\ UNCHANGED retryAttempts

\* Faulty variant: the errors of a destroyed session's streams are ignored.
StreamErrorIgnored(m, c) ==
  /\ step[m] = "stream" /\ session # "closed"
  /\ FailsOrRetries(m, "network", c \in RetryIo)
  /\ UNCHANGED retryAttempts

\* The stream's 'error' event or its timeout.
StreamError(m, c) ==
  /\ step[m] = "stream"
  /\ FailsOrRetries(m, "network", c \in RetryIo)
  /\ UNCHANGED retryAttempts

\* The server cancels the stream, or HTTP/1.1 ignores an error of it.
StreamEndsSilently(m) ==
  /\ step[m] = "stream"
  /\ session # "closed"
  /\ GoesTo(m, "silent")
  /\ UNCHANGED retryAttempts

MessageStep(m) ==
  \/ TokenArrives(m) \/ TokenFails(m)
  \/ \E s \in OkStatus \cup ErrorStatus : Answered(m, s)
  \/ \E c \in Io : StreamError(m, c)
  \/ StreamEndsSilently(m)
  \/ RetryElapses(m)

Next ==
  \/ UrlPathFound \/ UrlPathFails
  \/ Goaway \/ SessionError \/ SessionCloses \/ SessionDropped
  \/ \E m \in Msg : MessageStep(m)

Spec == Init /\ [][Next]_vars

\* The project id and tokens are looked up, timers fire, a session closes once its
\* streams have ended; every request has a timeout, so a stream that is open ends.
FairSpec ==
  /\ Spec
  /\ WF_vars(UrlPathFound \/ UrlPathFails)
  /\ WF_vars(SessionCloses)
  /\ \A m \in Msg : WF_vars(MessageStep(m))
-----------------------------------------------------------------------------
(***************************************************************************)
(* Properties.                                                             *)
(***************************************************************************)
TypeOK ==
  /\ urlPath \in {"pending", "found", "failed"}
  /\ session \in {"none", "open", "closing", "closed"}
  /\ sessionPromise \in {"pending", "rejected", "resolved"}
  /\ step \in [Msg -> {"idle", "token", "stream", "waiting", "silent", "done"}]
  /\ retryAttempts \in [Msg -> 0..MaxRetries]
  /\ result \in [Msg -> Failure \cup {"none", "sent"}]
  /\ outcome \in {"pending", "resolved", "sessionError", "failed"}
  /\ failedFirst \in BOOLEAN

\* A session is never left open by a call that has settled, whichever way it did:
\* the "finally" of sendEach().
NoSessionLeaked == outcome # "pending" => session # "open"

\* An error of the session is reported however early it comes, also before anyone
\* listens, and whatever the requests that die with the session answer meanwhile.
SessionErrorIsReported == failedFirst /\ outcome # "pending" => outcome # "resolved"

\* Once the caller has an answer no request is opened any more: what the pending
\* batch of a session error still delivers was under way before.
NothingStartsAfterward ==
  [][outcome # "pending" => \A m \in Msg : step'[m] = "stream" => step[m] = "stream"]_vars

\* A message's response is what its promise settled with.
B == INSTANCE Batch WITH
  Response <- Failure \cup {"sent"}, NoResponse <- "none", response <- result

\* Responses are final, and the call resolves with one for every message.
ImplementsBatch == B!Spec

\* Every message gets its response, in the batch or in the pending batch of a
\* session error, unless a stream ends silently.
BatchSettles == <>(outcome = "failed" \/ AllSettled(step) \/ SilentStream)

\* "An error from this method [...] indicates a total failure, meaning that none of
\* the messages in the list could be sent."
ErrorMeansNoneSent == outcome = "sessionError" => \A m \in Msg : result[m] # "sent"
=============================================================================
