# firebase-admin-node: formal models

TLA+ models of the Firebase Admin SDK for Node.js, TLC configurations that check them on small
instances, and TLAPS proofs about them. The SDK is single-threaded JavaScript: what makes it hard is
promises that settle in any order, timers, sockets that report several events, listeners that call back
into the object that calls them, retries, and deletion while work is under way. In the services it is
requests that are built from what a caller names and must change that and nothing else, answers that
are lost after the server has done the work, and other clients that change the same data meanwhile.

Every definition is translated from the source (paths below are under `src/src/`); `PROJECT.json`
maps each one to its lines.

## Inventory

| Component | Source | State it keeps | Operations | What is hard | What makes it correct |
|---|---|---|---|---|---|
| App token cache | `app/firebase-app.ts` (`FirebaseAppInternals`) | cached token, stored promise, refresh flag, listeners | `getToken`, the refresh's then/catch/finally, add/remove listener | refreshes in flight together, answers out of order, listeners that re-enter or throw | a waiter waits for a live refresh; refreshes are shared; listeners end up with the cached token; the flag never sticks |
| App registry and lifecycle | `app/lifecycle.ts`, `app/firebase-app.ts` (`FirebaseApp`), `app/firebase-namespace.ts` | the apps by name, each app's services, its deleted flag | `initializeApp`, `getApp`, `deleteApp`, `FirebaseApp.delete`, `getOrInitService` | deletion is asynchronous, names are reused, services are created meanwhile | one live app per name; no service survives its app; a deletion deletes the app it was asked for |
| Realtime Database service | `database/database.ts` | databases by URL, token listener, refresh timer | `getDatabase`, `delete`, `onTokenChange`, `scheduleTokenRefresh` | timer against token changes and deletion | one timer; none survives deletion; every database is told the token |
| Firestore service | `firestore/firestore-internal.ts` | clients by database id, their settings | `initializeDatabase`, `getDatabase`, `delete` | settings against an existing client | one client per id, settings fixed at creation |
| HTTP client | `utils/api-request.ts` (`HttpClient`, `RequestClient`, `AsyncHttpCall`, HTTP/2 variants) | the attempt number, the request, its buffered answer | `send`, retry decision, back-off, timeout, abort | timeout against answer, aborts that look like network errors, retry limits, `Retry-After` | one outcome per call; only retryable failures are retried; attempts and delays stay in bounds |
| HTTP/2 sessions | `utils/api-request.ts` (`Http2SessionHandler`), `messaging/messaging.ts` (`sendEach`) | the session, its error promise, the batch's requests | open, request, error, close | session errors against answers, closing while retries wait | every message gets one answer, at its own index |
| Poller | `utils/api-request.ts` (`ExponentialBackoffPoller`) | completion flag, timers, the current call | `poll`, `repoll`, master timeout | timeout against a late answer | settles once, leaves no timer |
| JWT keys and signatures | `utils/jwt.ts` | cached keys and their expiry | `fetchPublicKeys`, `verify` | concurrent refreshes, cache expiry, tokens without key id | a token is accepted only with a served key that signed it |
| Credentials | `app/credential-internal.ts`, `app/credential-factory.ts` | memoised project id, account id, default credential | `getAccessToken`, `getApplicationDefault` | memoisation against failures | a memo only holds what a lookup answered |
| Auth: tokens | `auth/token-verifier.ts`, `auth/token-generator.ts`, `utils/crypto-signer.ts` | memoised service account | `verifyJWT`, `createCustomToken`, `sign` | order of checks, emulator mode | an unverified token is only accepted in emulator mode |
| Auth: users | `auth/auth-api-request.ts`, `base-auth.ts`, `user-record.ts`, `user-import-builder.ts`, `identifier.ts`, `action-code-settings-builder.ts` | none; the accounts are the server's | create, update, claims, revoke, delete, import, lookups, lists, session cookies, e-mail links | renamed fields, nulls, providers to link and unlink in one request; positions of a batch; two requests to a call; lost answers | a call changes what its properties say and nothing else; each error is reported at the index of the user it belongs to |
| Auth: providers, tenants, project | `auth/auth-config.ts`, `tenant.ts`, `tenant-manager.ts`, `project-config.ts`, `project-config-manager.ts` | tenant-aware clients; the configurations are the server's | create, update, get, delete, list | nested fields and update masks; conversions to the server's form and back | an update sets what it names; a provider of the code flow has its secret |
| Cloud Messaging | `messaging/*` | the URL path; the session of a batch | `send`, `sendEach`, `sendEachForMulticast`, topics | conversion in place of objects that calls share; see also HTTP/2 sessions | each request carries the message that was asked for; each answer at its index |
| App Check | `app-check/*` | token verifier's key cache | `createToken`, `verifyToken` | replay check after verification | consumed flag only for verified tokens |
| Project management | `project-management/*` | none | app creation with polling | creation against the long-running operation | polls end with the operation's outcome |
| Machine Learning | `machine-learning/*` | none | create/update/publish, operation polling | lock on a model under an operation | polling stops when done or out of time |
| Remote Config | `remote-config/*` | server template cache | get, validate, publish, rollback, list; `load`, `set`, `evaluate`, fetch responses | concurrent publishers, lost answers; overlapping loads; nested conditions, comparisons of texts, numbers and versions | no update is lost unless forced; a config is what its template says for its context |
| Security Rules | `security-rules/*` | none | releases from a ruleset or from source, create, get, delete and list rulesets | chains of two or three requests, any of which fails, is lost or meets another caller | a call that resolved has its ruleset in force; one that was refused leaves none behind |
| Functions, Extensions, Eventarc, Data Connect, Installations, Storage | their directories | per-app instances | validated calls | task queue naming | one instance per key |
| Errors, validators, deep copy | `utils/*.ts` | none | pure | none | none |

## The modules

Conventions. One JavaScript step is one action: what a handler does up to its next `await`, `then`,
timer or event is atomic, as it is on the single thread. Variables and operators have the names of the
fields and methods they model. A variable marked `history` in its comment exists only to state a
property and never enables or disables an action. A definition under "Faulty variant" is a plausible
bug and is used by no specification; each property has one that breaks it. Constants marked `bound`
are limits of the model, not of the code.

### AppToken: the token cache of an app

`cachedToken_`, `promiseToCachedToken_`, `isRefreshing` and `tokenListeners_` are the fields of
`FirebaseAppInternals`. A promise is represented by the number of the `refreshToken()` run that made
it; `phase[r]` and `result[r]` say where that run stands and what its promise settles with.

| Action | Code |
|---|---|
| `getToken(force)` | `getToken()` and the synchronous part of `refreshToken()`; a call that only returns the stored promise changes nothing |
| `CredentialAnswers`, `CredentialFails` | the `then()` on the credential's answer: well-formed and new, well-formed and the same, malformed or rejected |
| `NotifyListener`, `EndDispatch`, `ListenerThrows` | the `forEach` over the listeners, one call at a time, so that a listener may call `getToken`, add or remove listeners in the middle |
| `Settle` | the `finally()` |
| `addAuthTokenListener`, `removeAuthTokenListener` | these methods; the array is walked as it was when the `forEach` began |

The invariants say what callers rely on: whoever is told to wait waits for a live refresh
(`WaitersGetPendingPromise`), plain refreshes are shared (`PlainRefreshIsShared`), and listeners end up
with the cached token, not an older one, whatever the order of answers and registrations
(`ListenersInSync`). `GetTokenServesCache` is what a test says of a `getToken()` when no refresh is under way
and the cached token is good; it does not hold once a forced refresh has failed: see Findings.

### DatabaseToken: the Realtime Database service, composed with AppToken

It extends AppToken: `DNext` consists of AppToken's steps with the service as one of the listeners.
`NotifyListener` runs `onTokenChange` in the same step when it calls the service's listener;
`TimerFires` is the timer's forced `getToken`; `getDatabase`, `delete`, `DatabaseDeleted` and
`DeletionEnds` are the service's own operations. Every behaviour of the composition is one of AppToken, by
the way it is written, so the theorems about the cache hold here too (the lemma `TokenCacheUsed`).

### AppLife and AppLifecycle: the registry

`AppLife` is the abstract specification: an app is registered under a free name, leaves the registry,
and becomes unusable. `AppLifecycle` is the code: the store (a map from names to apps), each app's
services and flag, and one record per call of `FirebaseApp.delete()`. The refinement mapping
`lifeStatus` calls an app registered when the store holds it, closed when its flag is set and closing
in between (`ImplementsAppLife`). `AppsLeaveForCause` says why an app may be out of the store: its own
deletion, or the second deletion of an older app that had its name, whose `removeApp(this.name)` takes the
newer one out. `deletion[d].asked` is the app a caller passed to `deleteApp()`,
`deletion[d].app` the one that is deleted; they differ when a name was reused (see Findings).
`instance` records what became of every service, so that a service dropped from `services_` without
a `delete()` is still seen. `getApp()`, `getApps()` and the refused calls change nothing and are the
readers that `RegisteredAppIsUsable` is about. A service whose `delete()` is called twice, by two
overlapping deletions of its app, answers to either.

`MCLife` puts the registry next to the Poller (below) for TLC: they share no state, and a behaviour has one
of the two.

### HttpSend: one request with its retries

The first half is `AsyncHttpCall`: `request[i]` is the state of the Node.js request of attempt `i`,
`promise[i]` its promise; the events `error`, `response`, `end`, stream `error` and `timeout` come in
any order a socket can produce, also for attempts that are over. The second half is
`sendWithRetry()`: eligibility, back-off, `Retry-After`, and the wait before the next attempt.
Malformed and expired `Retry-After` headers are the values 0 and below.

### Poller: long-running operations

One `poll()` with its two timers, and the callbacks that project management and machine learning give
it (`projectManagementCallback`, `machineLearningCallback`), which decide from the server's answer
whether to go on. A timer fires at any time after it is due. A callback may answer after the deadline
or never.

### Batch and SendEach: sending a batch of messages

One `sendEach()`. `session` and `sessionPromise` are the HTTP/2 session and the promise of
`Http2SessionHandler`; `step[m]` says where message `m` stands: waiting for an access token, on an open
stream, waiting for a retry, or settled with `result[m]`. With `session = "none"` the batch uses
HTTP/1.1. Promise reactions run in the action of the event that causes them, since no event comes between.

| Action | Code |
|---|---|
| `UrlPathFound`, `UrlPathFails` | `getUrlPath()` settles: the batch starts, or the call fails |
| `Goaway`, `SessionError`, `SessionCloses`, `SessionDropped` | the session's events; `Goaway` is the one that lets open streams end, `SessionDropped` a connection that ends without an error |
| `TokenArrives`, `TokenFails`, `RetryElapses` | `AuthorizedHttp2Client.send`, `sendWithRetry`: `execute` throws on a session that is closed or closing |
| `Answered`, `StreamError`, `StreamEndsSilently` | the stream's events with `sendWithRetry`'s retries and `buildSendResponse()` |

What Node.js does with streams of a session that is closed or lost is external to the repository: open
streams of a drained session end normally, those of a destroyed one get its error one by one, those of a
lost connection are cancelled, which raises no `error` event. `Batch` is the abstract specification:
final responses, one outcome, complete when resolved.

### KeyCache and TokenVerifier: key fetchers and token verification

`KeyCache` models both fetchers (`jwks` chooses which). A call of `fetchPublicKeys()` is `sent`,
`answered` by the key server with the keys it has at that moment, and later `given`; so answers arrive
out of order and may be older than the keys the server has by then. `TokenVerifier` composes it with the
verifiers: a verification looks up the project id, checks the content (`verifyContent`), fetches keys
(twice for a token without a key id), checks the signature, and, when asked or on the emulator, reads
the user's record, which changes meanwhile (`revokeRefreshTokens`, `updateUser`). Signatures are
abstract: a token has a signer and a verification succeeds with that signer's key. A tenant's `Auth`
also compares the tenant.

### Users: the accounts of Auth

Several clients call `BaseAuth` at once. A call is validated and turned into a request, the server
applies it, the client converts the answer. The server and its answers are external; what it does with a
request (sets the fields given, deletes those in `deleteAttribute` and `deleteProvider`, adds
`linkProviderUserInfo`) follows from how the request is built and from the comments and tests about it.

| Module | Code |
|---|---|
| `JsObject` | objects as functions from field names, `undefined` fields as missing ones; `++` and `Field` are TLC's `@@` and `:>` written so that the provers can open them |
| `UserFormat` | the validators of `auth-api-request.ts` and the conversions of `user-record.ts` |
| `UserRequests` | what each call refuses and the request it builds: `createNewAccount`, `updateExistingAccount`, `setCustomUserClaims`, `getAccountInfoByIdentifiers`, session cookies, e-mail links |
| `UserImport` | `user-import-builder.ts`: hash options, the users the SDK refuses, `indexMap`, `buildResponse` |
| `Users` | the protocol: `createUser` ... `generateEmailLink` send (or refuse), `Serve*` is the server, `LoseAnswer` the HTTP client that repeats the request or gives up, `ReadBack` the second request of `createUser` and `updateUser`, `Return*` the answer to the caller |
| `UserStore` | the abstract specification: users as `UserRecord` shows them, changed one call at a time as the call's properties say |

`ImplementsUserStore` maps each account to the `UserRecord` it is read back as. Since the abstract update
speaks of the caller's properties only, a renamed field, a null, or a provider that goes astray between
the request and the record is a step `UserStore` does not have. `BatchResultsFindTheirItems` relates the
answer to a batch to what became of each position of the caller's list: `stored[c]` is the history of what
the server handled of it, for an import the positions of the request with the users it stored, so that two
equal users of a list are told apart. That a user has at most one provider of an id is an assumption about
the server (`OnePerId`): `isUserFound()` looks at the first one only.

Two things `UserStore` says because the code does them, though `UserProvider` and `UserProviderRequest` have
the fields: a provider linked by `updateUser()` loses its `photoURL` and `phoneNumber`, because
`validateProviderUserInfo()` (auth-api-request.ts:313) deletes keys it does not know and
`updateExistingAccount()` renames only `uid`; and an imported provider loses its `phoneNumber`
(user-import-builder.ts:428). The proof of the refinement failed on the first; the run now links a provider
with a photo.

### AuthConfigs: identity providers, tenants and the project configuration

`ProviderFormat` has SAML and OIDC configurations and `generateUpdateMask()`, `TenantFormat` the parts that
tenants and the project share (e-mail sign-in, second factors, SMS regions, reCAPTCHA, password policy,
test numbers), `AuthConfigs` the calls in the same form as `Users`. `ConfigStore` is the abstract
specification: a new configuration holds what was given over the defaults, an update sets what it names,
nested objects included, except for the parts the API replaces as a whole. Under each name is `<< >>` or
`<<configuration>>`. `ImplementsConfigStore` maps
each stored configuration to what the SDK shows of it; `CodeFlowHasSecret` is about sequences of calls.
`MCAuth` holds the inputs of both machines, good ones and refused ones.

### RemoteConfig: publishers

A publisher reads a template (`getTemplate`, `getTemplateAtVersion`), edits it (`EditTemplate`, also while a
call is under way: the template is an instance of a class, which the call shares), validates
and publishes it, rolls back, lists versions. `versions` are the server's, each with its ETag; a history
field `base` of a version says which one its template was read from. `Serve*` is the server, `LoseRcAnswer` a
lost answer: the request is repeated, or the call fails. A validation answers with an ETag of its own,
and `toRemoteConfigTemplate` keeps the caller's.

### ConditionEvaluator and ServerTemplate: the server template

`ConditionEvaluator` has the conditions: `and` and `or` with the depth that is counted, percent ranges, and
custom signals compared as texts, numbers or versions. The constant `Condition` is the set of conditions,
those in the lists of others too, so that the evaluator is a function. What JavaScript makes of a text (its number, its
segments, whether a pattern matches) is given by constants. `ServerTemplate` has `load()`, whose answers
come in any order, `set()`, `evaluate()`, the getters of a config and `RemoteConfigFetchResponse` with a
client that sends the ETag of what it holds. `ConfigMeetsTemplate` compares every value with a reference
definition (`Means`) that has no order of evaluation, counts lists instead of levels, and compares versions
segment by segment, a missing one as zero; every condition is evaluated, so that any of them may throw
(`AnyThrows`), one whose name is given again too. `Hash` is a constant and may collide:
`OnlyCollisionsMisleadClients` says that a client that is told its config has not changed holds the config
that was evaluated last, or one of the same hash.

### SecurityRules: rulesets and releases

One record per caller says which request of its chain is under way (`job[c].step`):
`releaseFirestoreRulesetFromSource` creates a ruleset, updates the release, creates the release if there is
none (`updateOrCreateRelease`). Any request may fail or lose its answer (`RulesAnswerLost`).
`job[c].seen` is history: the rulesets that were in force for the release during the call.

### MessageFormat, FcmFormat and Messages: what is sent

`validateMessage()` checks and converts a message in place, so a message it refuses stays half converted,
and one it converted may be given to it again. `MessageFormat` therefore has it as a sequence of steps
(`MessageSteps`): a step looks at one section, refuses the message or not (`Refuses`), rewrites the values of
some keys (`Rewritten`), and renames the section when it is its last (`renameProperties`). `validateMessage`
is what the steps before the first refusal leave. `FcmFormat` has the steps of the code in their order
and the names and values of the FCM API as tables; `FormatAssumption` says what of these tables makes a
second conversion harmless, and TLC evaluates it for them. Two bounds: topics that have their prefix twice or
nothing after it are left out (they are refused the first time and accepted the second), and a word in upper
case is not converted again (`priority` would get its prefix twice; only a message that was refused after
this step meets it, and that is refused again).

`Messages` has the caller's objects (`caller`), each call with its items, and the requests made of them.
`deepCopy()` copies plain objects and shares instances of classes, so an item has sections of its own
(`own`) and those of the caller's object it shares (`of`); a conversion goes to both (`OwnPart`, `SharedPart`).
`sendEach()` validates its messages in one turn of the event loop, here one after the other (`ValidateNext`)
with nothing in between (`BetweenTurns`), so two messages that share an object meet each other's conversion.
`CallerEdits` changes an object between turns. `EveryRequestIsWhatWasAsked` speaks of plain objects
whatever the caller does with them, and of instances the caller leaves alone, which calls convert, refuse and
send all the same. Requests of one call follow one another here; their races and the session of a
batch are in SendEach. Topic subscriptions are the other part: the service refuses any of the tokens for any
of its reasons, and `TopicResponse` counts the results and places the errors.

`MCServices` puts Remote Config, the server template, the rules and the messages side by side: they share
no state, and a behaviour uses one of them.

## The runs

| Run | Configuration | Shows |
|---|---|---|
| `life` | MCLife: 2 apps, 2 names, 3 deletions, a service with and one without `delete()`; a poll with delays 1 to 3, deadline 9, clock to 13 | the registry's invariants, why apps leave the store, the refinement of `AppLife`, that deletions end; that a pending poll is being polled, settles once, and settles |
| `http` | 4 attempts, statuses that succeed, fail and are retried, errors of socket and decoder, four kinds of `Retry-After` | attempts never overlap, retries happen exactly when they may, and `send()` settles unless an error of the stream is ignored |
| `database` | 2 refreshes, 2 token strings, the service and another listener, 1 URL, clock to 2 | the invariants of the token cache and of the service on top of it, and that the refresh flag clears |
| `idtoken` | 2 verifications, 6 kinds of token, 2 keys, one rotation, clock to 2 | token verification and the key cache |
| `send` | 3 messages and an invalid one, 2 retries, statuses 200, 204, 404 and 503, three stream errors | a batch over HTTP/1.1 and HTTP/2, and the refinement of `Batch` |
| `auth` | MCAuth: 2 clients, 2 users, 2 tenants, a SAML and an OIDC provider, 2 calls, 1 repeated request | users and configurations change only as the calls promise; results of a batch name their items; the code flow has its secret |
| `services` | MCServices: 2 publishers, 3 versions, 4 calls, 1 repeated request; 2 loads, 2 evaluations, depth 10; 2 callers, 2 rulesets, 2 calls, 1 repeated request; a hash of 4 bits; 2 messaging calls of a plain object and an instance, 1 edit, 2 refusals of topics | Remote Config, its server template, Security Rules and the content of messages |
| `token_cache` | 3 refreshes, 1 listener, clock to 3 | violation: `GetTokenServesCache` |
| `life_wrongapp` | 2 deletions | violation: `DeletesTheAppAsked` |
| `life_late` | two services with `delete()` | violation: `NoServiceOutlivesApp` |
| `http_hang` | 2 attempts | violation: `SendSettles` |
| `send_error` | 2 messages and an invalid one | violation: `ErrorMeansNoneSent` |

Why the bounds are enough. In `database`, two refreshes are the fewest for one that replaces the other or
answers late, and the second listener acts while the service has not been called yet; two token strings tell a
listener that was told the older token from one that was told the cached one. With two lifetimes a token
expires earlier or later than the one before, and is stale within the run or good for all of it. Two apps
and two names let a name be reused while another app has a name of its own; three deletions let one app be deleted twice
while the other is deleted once. Four attempts let the back-off (2, 4, 5) reach its cap. Delays of 1, 2, 3
reach the poller's cap well before its deadline. Two verifications with two fetches each let three
refreshes overlap; one rotation makes old and new answers differ; with a maximal age of 1 and a clock of 2,
keys expire within a run. Three messages let one be settled, one be on a stream and one wait while the
session fails; two retries let one of them be used up or refused.

In `auth`, two calls are the fewest for one that works on what another left or does meanwhile, between the
two requests of a creation too; the first of them also acts on a user and configurations that exist at the
start. The inputs name each way a field can be treated: renamed, null, replaced, unlinked by either of two
lists, nested, empty, refused. One repeated request is the fewest for a request that is applied twice. In
`services`, two publishers and three versions let a publisher edit a version that two others have
followed, and four calls let it read, edit, validate and publish while the other publishes or forces; the
templates nest conditions to the depth limit and one list beyond it, and their percentiles meet the ends
of the ranges; a release is missing, present, and deleted under two callers; the same object is sent twice
in one call and again in the next, a class instance too, which is converted the first time and may be refused
the second. `Hash` is the rolling hash of `processEtag()` over the characters of the config, kept to
four bits (`HashBits`) instead of 32, so that configs of the run do collide. The limits of a batch and of a
topic request are two (500 and 1000 in the code).

Symmetry is used for verifications (`idtoken`), which no definition tells apart, in a run without liveness.
Deadlock is not checked because every model stops at its bounds, as the program does when its callers ask
for nothing more.

## Fairness

Safety properties need none. `DFairSpec`: queued microtasks run and a started `forEach` goes on, which the
event loop guarantees, and the credential settles its promises, which is an assumption about the
credential. `LifeSpec` has the fairness of `AppLifecycle.FairSpec`: every service settles the promise of
its `delete()`, though it may reject; and of the poller that time passes and due timers
fire, while nothing is assumed of the callback. `HttpSend.FairSpec`: microtasks and timers run, and an open
socket eventually reports an event, which the idle timeout of the request (`HasTimeout`) ensures.
`SendEach.FairSpec`: the project id and the access tokens are looked up, timers fire, streams end (each has
a timeout), a closed session whose streams have ended closes; nothing makes a session fail. Callers are
never assumed to do anything. `auth` and `services` check safety only.

## Findings

Disagreements between the code and what its documentation or tests say, each shown by a run whose
expected result is a violation:

1. `token_cache`: `shouldRefresh()` looks at `cachedToken_`, but `getToken()` returns
   `promiseToCachedToken_`. A forced refresh that fails leaves a rejected promise stored while the cached
   token is good: with no refresh under way any more, every plain `getToken()` rejects until that token is
   about to expire. (That a caller waits for a forced refresh that is still pending is by design, and no
   part of the property.)
2. `life_wrongapp`: `deleteApp(app)` looks up `app.name` again and deletes the app that has the name now.
3. `life_late`: a service created while a deletion waits for the others is dropped undeleted.
4. `http_hang`: a stream error after Node marked the request destroyed is ignored, and nothing settles
   the promise of `send()`.
5. `send_error`: a GOAWAY or a session error rejects `sendEach()` although messages of the batch are or
   will be sent, while its documentation takes an error for a total failure.

Seen while modelling, without a run. In the core: a session error that comes before the project id is
known, or when it cannot be found, is a rejection without a handler; several forced refreshes share one
`isRefreshing` flag, so the first to end clears it for all (hence the condition `~forced` in two
invariants); when a service's `delete()` rejects, the app is out of the store but still usable, and its
deletion is never completed; `send()` retries four times by default, where `utils/api-request.ts:401` says
it "retries the request once"; a `max-age` that is no number makes the keys' expiry `NaN`, and they are
never fetched again.

In Auth: `createUser` and `updateUser` read the user back with a second request and fail if it was removed
in between, though they did their work; a repeated creation whose first answer was lost reports that the user
exists, and a repeated `createTenant` makes a second tenant; `validateCreateEditRequest` removes the keys
that are not *in* its table, so keys marked `false` stay; a SAML update of `enableRequestSigning` alone is
dropped; an OIDC update `{idToken: true}` of a stored `{code: true}` leaves both; `passwordRequired:
undefined` turns e-mail links on; a password policy update resets the fields it does not name; an empty
`recaptchaConfig` or `emailPrivacyConfig` clears what is stored; validating a password policy changes the
caller's object; reading a second-factor configuration without a state throws.

In the other services: a repeated `publishTemplate` whose first answer was lost reports
`failed-precondition` though it was applied, and a forced one stores two versions; of two
overlapping `load()`s whose answers swap, the older template stays in the cache; nesting counts two
levels for each list, so `MAX_CONDITION_RECURSION_DEPTH` of 10 admits four nested lists; a pattern that is
no regular expression makes `evaluate()` throw; two fetch responses whose hashes collide (32 bits) look
unchanged; two callers who create the same missing release get one `unknown-error`; a release that fails
after its ruleset was made leaves the ruleset; a message of class instances is converted in place, so
sending it again may be refused, and what the caller changes of it during the call is sent; the same holds of a
Remote Config template that the SDK made; `sendEach()` reports success for a status 200 with an error in its
body, which `send()` rejects; topics named `private/...` are accepted by `subscribeToTopic()` and refused by `send()`.

## What is proved

All theorems hold for every value of the constants, also of those that bound the runs, under the assumptions
`ConstantsAssumption` and the like in the modules, which say that numbers are natural, that the values
standing for "nothing" are distinct from real ones, and (in HttpSend) that a status or error code is of one
kind only. `ConfigsAssumption` says that names of providers, tenants and the project are apart, and that
what is stored to begin with has the secrets the API asks for and tells whether passwords are allowed where
it tells whether links may do for one (`LinkSignInIsKnown`; a tenant created by the SDK does, as
`ConfigStoreInv` shows). `ConfigsAreTyped` is what the types of the code require of a configuration where
`auth-config.ts` reads it unchecked: lists and objects where it reads members and fields, `enabled` beside
`passwordRequired`, test numbers that are either given or null. `ConditionsAssumption` and
`TemplatesAreTyped` say that lists of conditions hold conditions, that the segments of a version are numbers
or none, and that a pattern is matched or throws. `TokenListsAssumption` and `InputsAreTyped` that the lists
of a call are lists and their objects have the fields and dates the types of the code allow,
`ValuesAreGiven` that no id, address or text is the mark of null or of a missing value, `AccountsAreSound`
that the first accounts hold their user's id, one provider of an id and no password in clear. Each module
`X_proofs` proves theorems about `X`; in `Token_proofs` are those about AppToken and DatabaseToken, in
`AppLifecycle_proofs` also those about Poller, in `Services_proofs` those about RemoteConfig, SecurityRules,
ServerTemplate and Messages, in `Auth_proofs` those about AuthConfigs, in `UserStore_proofs` those about
Users.

- AppToken: `TypeCorrect`, `WaitersServed` (inductive with the types alone, because a run that stores
  its promise is in flight when the flag is set and the flag is cleared by the first that ends),
  `ListenersTold`, `PlainShared`, `PlainServesCache`. `ListenersInSync` is not inductive: it speaks of
  the time after a `forEach`. `ListenersInv` adds what holds during one (`ToldOrAhead`: a registered
  listener has been told the cached token or is still ahead in the array being walked).
  `PlainServesCache` needs that before the first forced refresh at most one run is in flight
  (`OneInFlight`), that it fetches only while the token is stale, and that its outcome agrees with the
  cache.
- DatabaseToken: `DTypeCorrect`, `TimerGone`, `TimerScheduled`. The lemma `TokenCacheUsed` carries
  AppToken's invariants over. `TimerGone` needs that a `forEach` that is under way
  after `delete()` no longer holds the service's listener (`DetachedInv`), `TimerScheduled` that the
  listener is registered and, during a `forEach`, still ahead (`Attached`).
- AppLifecycle: `TypeCorrect`, `StoreHoldsUsableApps`, `Refinement`, `DeletesAsked`, `LeftForCause`,
  `ServicesFreed`. `LeftForCause` rests on the order in which apps take a name: of the apps of one name only
  the newest is in the store, so a deletion that takes another app out of it is of an older one.
  The last needs to know of every service of an app whether the app still holds it, and of every one
  being deleted that a deletion waits for it or was rejected (`ServicesInv`).
- HttpSend: `SendCorrect` (types, no attempt abandoned, the outcome is that of the last attempt),
  `EveryRetryIsDue` and `NoRetryIsMissed`, from `SendInv`, which relates the state of each request to that
  of its promise, and the attempts before the current one to their errors and delays.
- Poller: `PollCorrect` and `SettledOnce` from `PollInv`.
- SendEach: `SendTypeCorrect`, `SessionNotLeaked`, `SessionErrorReported`, `NothingStarts` and the
  refinement `SendEachImplementsBatch`, all from `SendInv`. It says where an outcome comes from
  (`OutcomeFromCause`), that a failure that precedes the listener is still heard (`FailureIsHeard`), and
  that a result exists exactly for settled messages. `NothingStarts` combines them: after the outcome the
  session is not open, or no message is left to start.
- TokenVerifier: `TypeCorrect`, `AcceptedGenuine`, `AcceptedGoodUser`, `RefusedCause`, `NewestKeys`.
  `KeyInv` says that keys always published are in every key set on its way, cached or given, and that
  cached keys are not kept beyond their expiry; `VerifyInv` relates each verification's phase to its
  fetches. `NewestKeys` needs that without overlap at most one fetch is under way and its answer is
  newer than all before it.
- RemoteConfig: `NoUpdateIsLost` and `ConflictsAreReal` from `RcInv`: a template descends from the version
  its ETag names, wherever it is (in a publisher's hands, in a request, in an answer), and a request
  carries its publisher's template. An ETag that matches therefore means that the new version contains
  the one it replaces, and one that does not match means that the template is not of the active version.
- SecurityRules: `ReleasesAreInForce` and `RefusalsLeaveNothing` from `RulesInv`. Neither property is
  inductive: each speaks of the end of a call and needs what the requests of the call have reached.
  `RulesInv` says of each call which requests are of its kind (`StepOfKind`; so the only OK that settles a
  release is that of a request to release), that an OK to such a request was seen in force
  (`AnswerMeant`), and that rulesets are made only of source that the backend accepts, whichever requests
  are repeated.
- ServerTemplate: `LoadsAreFresh` and `OnlyCollisionsMislead` from `TemplateInv`: what a `load()` is
  answered was active at some time since it was called (`LoadOk`), and a client holds the config whose hash
  its ETag is (`FetchedOk`). The second theorem needs no injective `Hash`: either the client holds the
  config or two configs have the same hash.
- ConditionEvaluator, ServerTemplate: `ConfigsMeetTheirTemplates`, from `ServedInv` (what was evaluated is a
  template that `set()` or `load()` accepted). The evaluator and the reference are recursive functions, one
  on conditions and levels, the other on conditions and lists; that there is such a function, and one only,
  is proved by the least level at which it could fail (`EvaluationExists`, `EvaluationIs`, `MeaningExists`,
  `MeansIs`), as the library's induction takes an operator. `ConditionSays` goes down the levels: each list
  uses two of them (`LevelsAndLists`), the first result that decides an `or` or `and` is the quantifier over
  its members unless one throws (`OrSays`, `AndSays`), and the signs at the first segments that differ
  are the order of versions (`VersionsCompare`). The rest is about names: where no condition throws, the last
  of a name given twice counts (`ResultsAre`), and the first condition with a value decides
  (`ValueOfTheFirstMet`).
- MessageFormat, Messages: `RequestsAreAsAsked` from `MessagesInv`. `Reached(m, n)` says that message `n` is
  `m` after some of the steps that let it pass, section by section: what an object is turned into by any
  number of calls, refused ones included. A section converted twice is converted by the steps of both times
  (`ConvertedTwice`), one that a step refuses is refused by it still when others have converted it
  (`StaysRefused`); so `Reached` is transitive (`ReachedTwice`), and a message that was reached and is then
  accepted comes to what the first would have come to (`ValidatedLate`). `MessagesInv` says of every item of
  a call that what it holds is reached from the message the caller asked for, that it is all of its
  conversion once the item was accepted, and, of plain objects, that it is untouched until then (`Follows`);
  for instances as long as the caller has not edited them. The assumptions are `FormatAssumption`, about the
  tables of steps, names and values, and `MessagesAssumption`, that the caller's messages are objects of
  objects.
- Messages: `TopicErrorsAtTheirTokens` from `TopicInv`, which adds the types; what matters is what
  `TopicResponse` makes of any results: one error for each that failed, counted (`CountsAddUp`) and found at
  its place (`ErrorsAtTheirPlaces`).
- AuthConfigs: `CodeFlowKeepsSecret`. The property speaks of stored configurations; `ConfigInv` adds that a
  request under way carries a secret with the code flow and that an update's mask is that of its request
  (`RequestKeepsSecret`). The lemmas say what a mask names (`MaskPaths`), that an update with it sets the
  fields of its request, nested ones one by one, and keeps the rest (`PatchedIsChange`), that such a change
  keeps the secret with the flow (`ChangeKeepsSecret`), and that an accepted request with the code flow
  holds a secret (`AcceptedHasSecret`); together they cover an update that turns the code flow on against a
  stored secret and one that meets another client's.
- AuthConfigs, ConfigStore: the refinement `ConfigsKeepTheirPromises`, from `ConfigStoreInv`, which adds to
  `ConfigInv` that each request under way is what an accepted input was converted to, an update's with the
  mask of its fields (`ConfigsAsAsked`), and `LinkSignInIsKnown` of every stored tenant (`LinksAreKnown`). A
  step of the server is compared with the step of ConfigStore for that input, one kind of configuration at a
  time: `SamlChanged`, `OidcChanged`, `TenantChanged` and `ProjectChanged` say that what is shown after the
  request was applied under its mask is what was shown before with the fields the input names. `IsChangeOf`
  is such a change, stated by what is held under each key; a creation is a change of nothing
  (`CreatedIsChange`), which gives `SamlCreated`, `OidcCreated` and `TenantCreated`. Each part of a tenant
  or project has its lemma, since each is converted and merged in its own way: `EmailSignInChanged`,
  `FactorsPart`, `RecaptchaPart`, `PolicyPart`, `MergedPart`, `RegionsPart`. They need what the validation
  ensures (`TenantAccepted`, `ProjectAccepted`): states and enforcement that are known, so that a
  conversion back finds them, and bounds that are given.
- Users: `BatchResultsAreTrue`. `UsersInv` says of each call under way that its request is the one its input
  asks for (`RequestOk`), and of an answered one that its history and its answer tell of the same positions
  (`AnswerOk`), also after an answer was lost and the request repeated. `SortedByRank` (the numbers of a set,
  each at its rank) gives that `indexMap` is the inverse of counting the accepted users, `ImportResult` that
  errors of the SDK and of the server, mapped by it, name exactly the users that were not stored and add up
  with the successes; `FoundWhenMatched`, by way of the fields a record shows under other names, that
  `isUserFound()` finds a user exactly when the server matched it, for each of the four kinds of identifiers.
- Users, UserStore: the refinement `UsersKeepTheirPromises`, from `StoreInv`, which adds to `UsersInv` that
  each request under way is one the SDK made, without a refusal, of some call's input (`CallsAsAsked`), and
  that each account holds its user's id and no password in clear (`AccountsAreTheirs`). A step of the server
  is then compared with the step of UserStore for that input. `Held(o, k)` is what an object holds under a
  key, and the lemmas about `++`, `Rename` and the like say what it is after each of them; so both sides of an
  update, a creation or an import come down to the same value under every key (`CreatedShown`,
  `ChangedShown`, `ImportedShown`, `ClaimsShown`, `RevocationShown`). They need what the validation ensures:
  that only three fields of an update can be null (`NoForbiddenNull`), that claims, dates, ids of providers
  and second factors are there and convert back (`AcceptedUpdate`, `AcceptedClaims`, `AcceptedFactor`,
  `ImportIsComplete`); a field the checks let through unread would be lost here. `ServeImportShown` maps the
  positions of the request back to the caller's list.

The theorems without a property of a run (`TypeCorrect`, `StoreHoldsUsableApps`, `PlainServesCache` and
the other type invariants) are the ground the others stand on.

`FirstRefusal`, `validateMessage` and `Sorted` look for a first, least or next element, so what they return
is proved by the well-foundedness of finite sets (`LeastNumber`) and by counting (`SortedByRank`).

Every invariant, action property and refinement of the passing runs is stated by a theorem. Only
model-checked are the liveness properties (`RefreshFlagClears`, `DeletionCompletes`,
`SendSettlesUnlessIgnored`, `PollSettles`, `BatchSettles`), because fairness and ENABLED are out of the
prover's reach.

## What is not modelled

In the modelled components: a credential that throws instead of rejecting (it would leave
`isRefreshing` set for good); an operation that is done with neither an error nor a response (it would be
polled on); the parsing of request options and of answers, decompression and multipart bodies beyond their
errors; a second `DatabaseService.delete()`; stores other than the default `AppStore`; a second `poll()`
(it throws); an empty-string key id; a `max-age` that is no number; `_verifyAuthBlockingToken()`; the
replay check of App Check; the URLs of Auth's requests and the clients that `TenantManager` keeps by
tenant id; `createTemplateFromJSON()`, which checks what `publishTemplate()` checks again; the page size of
`listRulesetMetadata()`.

Of App Check only the verifier of tokens is modelled (in TokenVerifier), of Project management and Machine
Learning only the polling of operations (in Poller); the rest of them sends one request per method.

Whole components, with the reason in `PROJECT.json`: Firestore and Storage wrap another library and keep one
client to an id with no step between which another call comes; credentials come from a library and are an
external answer of the other modules; custom tokens are a validation and a signature; Functions,
Extensions, Eventarc, Data Connect, Installations and Instance ID send one request per method; entry points
re-export.

## What is left

In this order:

1. The memoised project id, account id and default credential, and `TenantManager`'s clients: one abstract
   `Memo` and refinements of it.
2. App Check's replay check after a verification; `waitForUnlocked()` of Machine Learning under the
   operations that lock a model.
3. A composition of HttpSend under AppToken, as DatabaseToken is one above it.
