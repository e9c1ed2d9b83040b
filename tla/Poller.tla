------------------------------- MODULE Poller -------------------------------
(***************************************************************************)
(* Waiting for a long-running operation: class ExponentialBackoffPoller in *)
(* src/src/utils/api-request.ts, with the callbacks that project           *)
(* management and machine learning give it.                                *)
(*                                                                         *)
(* One poll() calls the callback, again after growing delays, until it     *)
(* answers something truthy or fails, or the master timer fires.  The      *)
(* callback is an HTTP request: it may answer after that, or never.        *)
(***************************************************************************)
EXTENDS Integers

CONSTANTS
  InitialDelay,    \* initialPollingDelayMillis
  MaxPollingDelay, \* maxPollingDelayMillis
  MasterTimeout,   \* masterTimeoutMillis
  MaxTime,         \* bound: the clock stops here
  NoTimer

ASSUME PollerAssumption ==
  /\ InitialDelay \in Nat \ {0} /\ MasterTimeout \in Nat /\ MaxTime \in Nat
  /\ MaxPollingDelay \in Nat /\ InitialDelay <= MaxPollingDelay
  /\ NoTimer \notin Int

VARIABLES
  now,
  numTries,
  completed,
  masterTimer,   \* when the timer fires
  repollTimer,
  call,          \* is a callback under way?
  outcome,       \* where the promise of poll() stands
  begun,         \* history: when poll() was called
  pollingDelay   \* history: the last delay

pollVars == <<now, numTries, completed, masterTimer, repollTimer, call, outcome, begun, pollingDelay>>

\* A timer is due at some time or not set.
Timer == Int \cup {NoTimer}

\* What the server says of the operation: it has an error or a response only
\* when it is done, and may be done with neither.
Operation ==
  {o \in [done : BOOLEAN, error : BOOLEAN, response : BOOLEAN] :
     ~o.done => ~o.error /\ ~o.response}

\* What a callback makes of it: null, the response, or a rejection.
projectManagementCallback(o) ==
  IF o.error THEN "fail" ELSE IF ~o.done THEN "null" ELSE IF o.response THEN "result" ELSE "null"

machineLearningCallback(o) ==
  IF ~o.done THEN "null" ELSE IF o.error THEN "fail" ELSE IF o.response THEN "result" ELSE "null"
-----------------------------------------------------------------------------
PollInit ==
  /\ now = 0
  /\ numTries = 0
  /\ completed = FALSE
  /\ masterTimer = NoTimer
  /\ repollTimer = NoTimer
  /\ call = "none"
  /\ outcome = "unused"
  /\ begun = 0
  /\ pollingDelay = 0

\* Faulty variant: the master timer is not set.
MasterTimerDueNever == NoTimer

MasterTimerDue == now + MasterTimeout

\* poll(), which throws when it is called again.  A poll that would outlive the
\* clock is left out.
poll ==
  /\ outcome = "unused"
  /\ now + MasterTimeout < MaxTime
  /\ masterTimer' = MasterTimerDue
  /\ call' = "running"
  /\ outcome' = "pending"
  /\ begun' = now
  /\ UNCHANGED <<now, numTries, completed, repollTimer, pollingDelay>>

getPollingDelayMillis(tries) ==
  IF 2 ^ tries * InitialDelay < MaxPollingDelay THEN 2 ^ tries * InitialDelay ELSE MaxPollingDelay

markCompleted == completed' = TRUE /\ masterTimer' = NoTimer /\ repollTimer' = NoTimer

\* Faulty variant: an answer that came too late polls again.
IgnoredNever == FALSE

\* The answer comes too late.
Ignored == completed

\* Faulty variant: the next poll is not scheduled.
CallAnswersNullAndStops ==
  /\ numTries' = IF Ignored THEN numTries ELSE numTries + 1
  /\ UNCHANGED <<completed, masterTimer, repollTimer, outcome, pollingDelay>>

\* The callback's promise resolves to something falsy: poll again later.
CallAnswersNull ==
  /\ IF Ignored
     THEN UNCHANGED <<numTries, repollTimer, pollingDelay>>
     ELSE /\ repollTimer' = now + getPollingDelayMillis(numTries)
          /\ pollingDelay' = getPollingDelayMillis(numTries)
          /\ numTries' = numTries + 1
  /\ UNCHANGED <<completed, masterTimer, outcome>>

\* It resolves to a result, or rejects.
CallEnds(how) ==
  /\ IF Ignored
     THEN UNCHANGED <<completed, masterTimer, repollTimer, outcome>>
     ELSE markCompleted /\ outcome' = how
  /\ UNCHANGED <<numTries, pollingDelay>>

\* The callback's request answers with the operation, or fails.
CallAnswers ==
  /\ call = "running"
  /\ call' = "none"
  /\ \/ \E o \in Operation :
          \E result \in {projectManagementCallback(o), machineLearningCallback(o)} :
            \/ result = "null" /\ CallAnswersNull
            \/ result = "result" /\ CallEnds("resolved")
            \/ result = "fail" /\ CallEnds("rejected")
     \/ CallEnds("rejected")
  /\ UNCHANGED <<now, begun>>

\* The master timer fires, some time after it is due.
MasterTimerFires ==
  /\ masterTimer # NoTimer
  /\ masterTimer <= now
  /\ IF completed
     THEN masterTimer' = NoTimer /\ UNCHANGED <<completed, repollTimer, outcome>>
     ELSE markCompleted /\ outcome' = "deadlineExceeded"
  /\ UNCHANGED <<now, numTries, call, begun, pollingDelay>>

\* The repoll timer fires: emit('poll') runs repoll().
RepollTimerFires ==
  /\ repollTimer # NoTimer
  /\ repollTimer <= now
  /\ repollTimer' = NoTimer
  /\ call' = "running"
  /\ UNCHANGED <<now, numTries, completed, masterTimer, outcome, begun, pollingDelay>>

Tick ==
  /\ now < MaxTime
  /\ now' = now + 1
  /\ UNCHANGED <<numTries, completed, masterTimer, repollTimer, call, outcome, begun, pollingDelay>>

PollNext == poll \/ CallAnswers \/ MasterTimerFires \/ RepollTimerFires \/ Tick

PollSpec == PollInit /\ [][PollNext]_pollVars
-----------------------------------------------------------------------------
(***************************************************************************)
(* Properties.                                                             *)
(***************************************************************************)
PollTypeOK ==
  /\ now \in Nat
  /\ numTries \in Nat
  /\ completed \in BOOLEAN
  /\ masterTimer \in Timer
  /\ repollTimer \in Timer
  /\ call \in {"none", "running"}
  /\ outcome \in {"unused", "pending", "resolved", "rejected", "deadlineExceeded"}
  /\ begun \in Nat
  /\ pollingDelay \in Int /\ pollingDelay <= MaxPollingDelay

\* A promise that has settled leaves no timer that keeps the process alive, also
\* when a callback answers after the master timer fired.
NoTimerAfterCompleted ==
  outcome \notin {"unused", "pending"} => masterTimer = NoTimer /\ repollTimer = NoTimer

\* A promise that is pending is never forgotten: the master timer is set, and
\* either a callback is under way or the next one is scheduled, not both.
PendingIsPolled ==
  outcome = "pending" => /\ masterTimer = begun + MasterTimeout
                         /\ call = "running" <=> repollTimer = NoTimer

\* The promise settles once, and from then on no callback is begun.
SettlesForGood ==
  [][outcome \notin {"unused", "pending"} =>
       outcome' = outcome /\ (call = "none" => call' = "none")]_pollVars

\* The promise settles even when no callback ever answers.
PollSettles == (outcome = "pending") ~> (outcome \notin {"unused", "pending"})
=============================================================================
