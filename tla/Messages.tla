------------------------------ MODULE Messages ------------------------------
(***************************************************************************)
(* Messaging of messaging/messaging.ts: the messages of send(), sendEach() *)
(* and sendEachForMulticast() from the objects of the caller to the bodies *)
(* of the requests and back to the responses, and the subscriptions to     *)
(* topics.  The session and the retries of one sendEach() are SendEach's.  *)
(*                                                                         *)
(* deepCopy() copies plain objects and shares the instances of a class, so *)
(* a message is either copied for the call or converted where the caller   *)
(* holds it.  An object of the caller is plain throughout or made of       *)
(* instances throughout (bound).                                           *)
(***************************************************************************)
EXTENDS MessageFormat

CONSTANTS
  MsgCall,      \* the calls of send(), sendEach() and sendEachForMulticast(), numbered as they are made
  MsgObject,    \* the message objects of the caller
  Instance,     \* those of them that are instances of a class
  Bodies,       \* what the caller may put in its messages, by object
  DryRun,       \* what it may give as dryRun: "no", "yes" or "bad"
  Edits,        \* bound: what it may put in a message later
  Batches,      \* the lists of objects given to sendEach()
  TokenLists,   \* the lists of registration tokens
  BatchLimit,   \* FCM_MAX_BATCH_SIZE
  TokenLimit,   \* tokens in a request to the topic management
  FcmAnswers,   \* what the FCM server may answer
  TopicRefusals, \* why the topic management may refuse a token
  TopicGiven,   \* the topics given to subscribeToTopic(), to their full names
  MaxEdits,     \* bound: edits of the caller
  NoObject

VARIABLES
  caller,       \* the message objects of the caller
  edits,        \* counts the edits, for the bound
  msgCall,      \* the calls: their items, and what each item came to
  asked,        \* history: the messages when the call was made, and what they were to become
  sent,         \* history: the bodies sent for each message of a call
  urlPath,      \* Messaging.urlPath is known
  topicCall,    \* the call of subscribeToTopic() or unsubscribeFromTopic()
  subscribed    \* external: the subscriptions, as <<token, topic>>

\* An object, of objects.
IsMessage(body) == IsObject(body) /\ \A path \in DOMAIN body : IsObject(body[path])

ASSUME MessagesAssumption ==
  /\ NoObject \notin MsgObject
  /\ \A bodies \in Bodies :
       bodies = [o \in MsgObject |-> bodies[o]] /\ \A o \in MsgObject : IsMessage(bodies[o])
  /\ \A body \in Edits : IsMessage(body)
  /\ Batches \subseteq Seq(MsgObject)
  /\ TokenLists \subseteq Seq(STRING)
  /\ "none" \notin TopicRefusals

messageVars == <<caller, edits, msgCall, asked, sent, urlPath, topicCall, subscribed>>

NoCall == [state |-> "idle", method |-> "none", dryRun |-> "no", items |-> << >>, results |-> << >>]

NoResponse == [successCount |-> 0, failureCount |-> 0, errors |-> {}]

NoTopicCall ==
  [state |-> "idle", op |-> "none", tokens |-> << >>, to |-> "none", response |-> NoResponse, refused |-> EmptyObject]

MessagesInit ==
  /\ caller \in Bodies
  /\ edits = 0
  /\ msgCall = [c \in MsgCall |-> NoCall]
  /\ asked = [c \in MsgCall |-> << >>]
  /\ sent = [c \in MsgCall |-> << >>]
  /\ urlPath = FALSE
  /\ topicCall = NoTopicCall
  /\ subscribed = {}
-----------------------------------------------------------------------------
(***************************************************************************)
(* What a call holds of a message: its own sections, and those it shares   *)
(* with the object of the caller they come from.                           *)
(***************************************************************************)
Owned(body) == [own |-> body, of |-> NoObject]

Shared(own, o) == [own |-> own, of |-> o]

\* Faulty variant: the message is used where the caller holds it.
deepCopyNothing(o) == Shared(EmptyObject, o)

\* utils/deep-copy.ts: a class instance is treated as a scalar.
deepCopy(o) == IF o \in Instance THEN Shared(EmptyObject, o) ELSE Owned(caller[o])

\* One message of a multicast: its token, and the sections of the message of all.
ForToken(o, token) ==
  LET target == Field("target", Field("token", token))
  IN IF o \in Instance THEN Shared(target, o) ELSE Owned(target ++ caller[o])

Content(item, heap) == IF item.of = NoObject THEN item.own ELSE item.own ++ heap[item.of]

\* What validateMessage() leaves of the message goes where its sections are: to the
\* call, and to the object of the caller.
OwnPart(item, message) == [item EXCEPT !.own = Only(message, DOMAIN @)]

SharedPart(item, message, heap) ==
  IF item.of = NoObject THEN heap
  ELSE [heap EXCEPT ![item.of] = Without(message, DOMAIN item.own) ++ @]
-----------------------------------------------------------------------------
(***************************************************************************)
(* The answers.                                                            *)
(***************************************************************************)
\* MESSAGING_SERVER_TO_CLIENT_CODE and MessagingClientErrorCode of utils/error.ts.
ServerToClientCode ==
  [InvalidParameters |-> "invalid-argument", MismatchSenderId |-> "mismatched-credential",
   Unavailable |-> "server-unavailable", InternalServerError |-> "internal-error",
   InvalidRegistration |-> "invalid-registration-token",
   NotRegistered |-> "registration-token-not-registered",
   InvalidPackageName |-> "invalid-package-name", MessageTooBig |-> "payload-size-limit-exceeded",
   InvalidDataKey |-> "invalid-data-payload-key", InvalidTtl |-> "invalid-options",
   DeviceMessageRateExceeded |-> "device-message-rate-exceeded",
   TopicsMessageRateExceeded |-> "topics-message-rate-exceeded",
   InvalidApnsCredential |-> "third-party-auth-error",
   NOT_FOUND |-> "registration-token-not-registered", PERMISSION_DENIED |-> "mismatched-credential",
   RESOURCE_EXHAUSTED |-> "message-rate-exceeded", UNAUTHENTICATED |-> "third-party-auth-error",
   APNS_AUTH_ERROR |-> "third-party-auth-error", INTERNAL |-> "internal-error",
   INVALID_ARGUMENT |-> "invalid-argument", QUOTA_EXCEEDED |-> "message-rate-exceeded",
   SENDER_ID_MISMATCH |-> "mismatched-credential", THIRD_PARTY_AUTH_ERROR |-> "third-party-auth-error",
   UNAVAILABLE |-> "server-unavailable", UNREGISTERED |-> "registration-token-not-registered",
   UNSPECIFIED_ERROR |-> "unknown-error"]

TopicServerToClientCode ==
  [NOT_FOUND |-> "registration-token-not-registered", INVALID_ARGUMENT |-> "invalid-registration-token",
   TOO_MANY_TOPICS |-> "too-many-topics", RESOURCE_EXHAUSTED |-> "too-many-topics",
   PERMISSION_DENIED |-> "authentication-error", DEADLINE_EXCEEDED |-> "server-unavailable",
   INTERNAL |-> "internal-error", UNKNOWN |-> "unknown-error"]

fromServerError(code) == At(ServerToClientCode, code, "unknown-error")

\* An answer is [status, isJson, code]; code is what getErrorCode() finds in it.
createFirebaseError(answer) ==
  IF answer.isJson THEN fromServerError(answer.code)
  ELSE CASE answer.status = 400 -> "invalid-argument"
         [] answer.status \in {401, 403} -> "authentication-error"
         [] answer.status = 500 -> "internal-error"
         [] answer.status = 503 -> "server-unavailable"
         [] OTHER -> "unknown-error"

\* invokeRequestHandler(), of send().
ResponseOfSend(answer) ==
  IF answer.status = 200 /\ answer.isJson /\ answer.code = "none" THEN "ok" ELSE createFirebaseError(answer)

\* buildSendResponse() and the catch() after it: the answers of sendEach() succeed
\* whatever the body of a 200 says.
SendResponse(answer) ==
  IF answer.status # 200 THEN createFirebaseError(answer)
  ELSE IF answer.isJson THEN "ok" ELSE "unable-to-parse-response"

fromTopicServerError(code) == At(TopicServerToClientCode, code, "unknown-error")

\* The places of the results that are errors.
Failed(results) == {i \in DOMAIN results : results[i] # "none"}

\* Faulty variant: the index counts the errors.
TopicResponseInARow(results) ==
  LET IsError(r) == r # "none"
      errors == SelectSeq(results, IsError)
  IN [successCount |-> Len(results) - Len(errors), failureCount |-> Len(errors),
      errors |-> {[index |-> i - 1, error |-> fromTopicServerError(errors[i])] : i \in DOMAIN errors}]

\* mapRawResponseToTopicManagementResponse(): the results of the tokens, in their order.
TopicResponse(results) ==
  [successCount |-> Cardinality(DOMAIN results \ Failed(results)),
   failureCount |-> Cardinality(Failed(results)),
   errors |-> {[index |-> i - 1, error |-> fromTopicServerError(results[i])] : i \in Failed(results)}]
-----------------------------------------------------------------------------
(***************************************************************************)
(* The calls.                                                              *)
(***************************************************************************)
Remember(c, messages) == asked' = [asked EXCEPT ![c] = messages]

\* What the message is now, and what it is to become.
Requested(o, message) ==
  [object |-> o, given |-> message, validated |-> validateMessage(message), edited |-> FALSE]

\* sendEach() converts its messages in one turn of the event loop, step by step here:
\* nothing else happens in the meantime.
BetweenTurns == \A c \in MsgCall : msgCall[c].state # "validating"

Begin(c, method, dryRun, items, result, state) ==
  /\ BetweenTurns
  /\ topicCall = NoTopicCall
  /\ \A d \in MsgCall : (msgCall[d].state = "idle") <=> (d >= c)
  /\ msgCall' = [msgCall EXCEPT ![c] =
                   [state |-> state, method |-> method, dryRun |-> dryRun, items |-> items,
                    results |-> [i \in DOMAIN items |-> result]]]
  /\ sent' = [sent EXCEPT ![c] = [i \in DOMAIN items |-> {}]]
  /\ UNCHANGED <<edits, urlPath, topicCall, subscribed>>

\* send(): the message is converted before the call returns, an instance also when
\* the call is then refused.
send(c, o, dryRun) ==
  LET item == deepCopy(o)
      validated == validateMessage(Content(item, caller))
      accepted == validated.verdict = "ok" /\ dryRun # "bad"
  IN /\ Begin(c, "send", dryRun, <<OwnPart(item, validated.message)>>, "waiting",
              IF accepted THEN "path" ELSE "refused")
     /\ caller' = SharedPart(item, validated.message, caller)
     /\ Remember(c, <<Requested(o, caller[o])>>)

\* The checks of sendEach() and sendEachForMulticast() before they return.
BatchAccepted(n, dryRun) == n \in 1..BatchLimit /\ dryRun # "bad"

sendEach(c, batch, dryRun) ==
  /\ Begin(c, "each", dryRun, [i \in DOMAIN batch |-> deepCopy(batch[i])], "copied",
           IF BatchAccepted(Len(batch), dryRun) THEN "path" ELSE "refused")
  /\ Remember(c, [i \in DOMAIN batch |-> Requested(batch[i], caller[batch[i]])])
  /\ UNCHANGED caller

sendEachForMulticast(c, o, tokens, dryRun) ==
  LET Message(token) == Field("target", Field("token", token)) ++ caller[o] IN
  /\ Begin(c, "each", dryRun, [i \in DOMAIN tokens |-> ForToken(o, tokens[i])], "copied",
           IF BatchAccepted(Len(tokens), dryRun) THEN "path" ELSE "refused")
  /\ Remember(c, [i \in DOMAIN tokens |-> Requested(o, Message(tokens[i]))])
  /\ UNCHANGED caller

\* getUrlPath(): sendEach() converts its messages only now.
UrlPathFound(c) ==
  /\ BetweenTurns
  /\ msgCall[c].state = "path"
  /\ urlPath' = TRUE
  /\ msgCall' = [msgCall EXCEPT ![c].state = IF msgCall[c].method = "send" THEN "sending" ELSE "validating"]
  /\ UNCHANGED <<caller, edits, asked, sent, topicCall, subscribed>>

\* One message after the other: what it leaves of a shared object is what the next finds.
ValidateNext(c, i) ==
  LET item == msgCall[c].items[i]
      validated == validateMessage(Content(item, caller))
  IN /\ msgCall[c].state = "validating"
     /\ \A j \in DOMAIN msgCall[c].items : msgCall[c].results[j] = "copied" <=> j >= i
     /\ caller' = SharedPart(item, validated.message, caller)
     /\ msgCall' = [msgCall EXCEPT
          ![c].state = IF \E j \in DOMAIN msgCall[c].items : j > i THEN @ ELSE "sending",
          ![c].items[i] = OwnPart(item, validated.message),
          ![c].results[i] = IF validated.verdict = "ok" THEN "waiting" ELSE validated.verdict]
     /\ UNCHANGED <<edits, asked, sent, urlPath, topicCall, subscribed>>

\* No project id.
UrlPathFails(c) ==
  /\ BetweenTurns
  /\ msgCall[c].state = "path"
  /\ ~urlPath
  /\ msgCall' = [msgCall EXCEPT ![c].state = "failed"]
  /\ UNCHANGED <<caller, edits, asked, sent, urlPath, topicCall, subscribed>>

SettleMessage(c, i, result) ==
  /\ msgCall' = [msgCall EXCEPT ![c].results[i] = result]
  /\ UNCHANGED <<caller, edits, asked, urlPath, topicCall, subscribed>>

\* The requests of a call run one after the other (bound): SendEach interleaves them.
Waiting(c, i, states) ==
  /\ BetweenTurns
  /\ msgCall[c].state = "sending"
  /\ msgCall[c].results[i] \in states
  /\ \A j \in 1..(i - 1) : msgCall[c].results[j] \notin {"waiting", "sent", "retry", "resent"}

\* buildEntity() of utils/api-request.ts: every attempt, made once there is a token,
\* writes the body anew.
Transmit(c, i) ==
  /\ Waiting(c, i, {"waiting", "retry"})
  /\ sent' = [sent EXCEPT ![c][i] =
                @ \cup {[message |-> Content(msgCall[c].items[i], caller),
                         validate_only |-> msgCall[c].dryRun = "yes"]}]
  /\ SettleMessage(c, i, IF msgCall[c].results[i] = "waiting" THEN "sent" ELSE "resent")

\* A lost connection, retried after a delay (once, bound).
RetryMessage(c, i) ==
  /\ Waiting(c, i, {"sent"})
  /\ SettleMessage(c, i, "retry")
  /\ UNCHANGED sent

Answered(c, i, answer) ==
  /\ Waiting(c, i, {"sent", "resent"})
  /\ SettleMessage(c, i, IF msgCall[c].method = "send" THEN ResponseOfSend(answer) ELSE SendResponse(answer))
  /\ UNCHANGED sent

\* No token, or no answer and no retry left.
MessageFails(c, i) ==
  /\ Waiting(c, i, {"waiting", "resent"})
  /\ SettleMessage(c, i, "app-error")
  /\ UNCHANGED sent

\* The caller changes an object between its calls.
CallerEdits(o, body) ==
  /\ BetweenTurns
  /\ edits < MaxEdits
  /\ topicCall = NoTopicCall
  /\ edits' = edits + 1
  /\ caller' = [caller EXCEPT ![o] = body]
  /\ asked' = [c \in MsgCall |-> [i \in DOMAIN asked[c] |->
                 [asked[c][i] EXCEPT !.edited = @ \/ asked[c][i].object = o]]]
  /\ UNCHANGED <<msgCall, sent, urlPath, topicCall, subscribed>>
-----------------------------------------------------------------------------
(***************************************************************************)
(* Topics.                                                                 *)
(***************************************************************************)
\* validateRegistrationTokensType(), validateTopicType(), validateRegistrationTokens()
\* and validateTopic(); the last two reject the promise, with the same code.
TopicCallAccepted(tokens, topic) ==
  /\ Len(tokens) \in 1..TokenLimit
  /\ "" \notin Range(tokens)
  /\ topic \in DOMAIN TopicGiven

\* The topic's full name, of normalizeTopic(), is in the request.
sendTopicManagementRequest(op, tokens, topic) ==
  /\ topicCall.state # "waiting"
  /\ topicCall' = [state |-> IF TopicCallAccepted(tokens, topic) THEN "waiting" ELSE "refused", op |-> op,
                   tokens |-> tokens, to |-> At(TopicGiven, topic, topic),
                   response |-> NoResponse, refused |-> EmptyObject]
  /\ UNCHANGED <<caller, edits, msgCall, asked, sent, urlPath, subscribed>>

subscribeToTopic(tokens, topic) == sendTopicManagementRequest("batchAdd", tokens, topic)

unsubscribeFromTopic(tokens, topic) == sendTopicManagementRequest("batchRemove", tokens, topic)

\* External: the service refuses some tokens, does for the others what it is asked,
\* and answers for every token, in their order.
TopicAnswered(refused) ==
  LET tokens == topicCall.tokens
      changed == {<<t, topicCall.to>> : t \in Range(tokens) \ DOMAIN refused}
      results == [i \in DOMAIN tokens |-> At(refused, tokens[i], "none")]
  IN /\ topicCall.state = "waiting"
     /\ subscribed' = IF topicCall.op = "batchAdd" THEN subscribed \cup changed ELSE subscribed \ changed
     /\ topicCall' = [topicCall EXCEPT !.state = "done", !.refused = refused, !.response = TopicResponse(results)]
     /\ UNCHANGED <<caller, edits, msgCall, asked, sent, urlPath>>

TopicFails ==
  /\ topicCall.state = "waiting"
  /\ topicCall' = [topicCall EXCEPT !.state = "failed"]
  /\ UNCHANGED <<caller, edits, msgCall, asked, sent, urlPath, subscribed>>
-----------------------------------------------------------------------------
MessagesNext ==
  \/ \E c \in MsgCall :
       \/ \E dryRun \in DryRun :
            \/ \E o \in MsgObject : send(c, o, dryRun)
            \/ \E batch \in Batches : sendEach(c, batch, dryRun)
            \/ \E o \in MsgObject, tokens \in TokenLists : sendEachForMulticast(c, o, tokens, dryRun)
       \/ UrlPathFound(c) \/ UrlPathFails(c)
       \/ \E i \in DOMAIN msgCall[c].items :
            \/ ValidateNext(c, i)
            \/ Transmit(c, i) \/ RetryMessage(c, i) \/ MessageFails(c, i)
            \/ \E answer \in FcmAnswers : Answered(c, i, answer)
  \/ \E o \in MsgObject, body \in Edits : CallerEdits(o, body)
  \* Topics share nothing with messages: they are managed before the first message (bound).
  \/ /\ \A c \in MsgCall : msgCall[c].state = "idle"
     /\ edits = 0
     /\ \/ \E tokens \in TokenLists, topic \in DOMAIN TopicGiven \cup {""} :
             subscribeToTopic(tokens, topic) \/ unsubscribeFromTopic(tokens, topic)
        \/ \E tokens \in SUBSET Range(topicCall.tokens) :
             \E refused \in [tokens -> TopicRefusals] : TopicAnswered(refused)
        \/ TopicFails

MessagesSpec == MessagesInit /\ [][MessagesNext]_messageVars
-----------------------------------------------------------------------------
(***************************************************************************)
(* Properties.                                                             *)
(***************************************************************************)
\* Every message is sent, at every attempt, as the API writes what it was when send()
\* or sendEach() was called, and is refused when it was to be: whatever the caller
\* does to a plain object afterwards, and as long as it leaves an instance of a class
\* alone, however many calls convert that instance in place.  (messaging.ts:151 and
\* 196, the copies; deep-copy.ts:67, what they share.)  A plain object is refused for
\* that only; an instance that was sent may be refused the next time, its values
\* being those of the API by then.
EveryRequestIsWhatWasAsked ==
  \A c \in MsgCall : \A i \in DOMAIN asked[c] :
    LET request == asked[c][i]  plain == request.object \notin Instance
        refused == msgCall[c].results[i] = InvalidPayload IN
    plain \/ ~request.edited =>
      /\ sent[c][i] \subseteq
           {[message |-> request.validated.message, validate_only |-> msgCall[c].dryRun = "yes"]}
      /\ msgCall[c].state = "sending" =>
           /\ request.validated.verdict # "ok" => refused
           /\ plain /\ refused => request.validated.verdict # "ok"

\* The response to a finished subscription counts every token once, and its errors
\* name the tokens the service refused, by their places in the list and with the
\* codes of the refusals; the other tokens are subscribed, or no longer.
\* (messaging.ts:55)
TopicErrorsFindTheirTokens ==
  topicCall.state = "done" =>
    LET response == topicCall.response  refused == topicCall.refused IN
    /\ response.successCount + response.failureCount = Len(topicCall.tokens)
    /\ response.failureCount = Cardinality(response.errors)
    /\ \A i \in DOMAIN topicCall.tokens :
         LET token == topicCall.tokens[i]
             errors == {e.error : e \in {f \in response.errors : f.index = i - 1}}
         IN IF Given(refused, token) THEN errors = {fromTopicServerError(refused[token])}
            ELSE errors = {} /\ (<<token, topicCall.to>> \in subscribed <=> topicCall.op = "batchAdd")
=============================================================================
