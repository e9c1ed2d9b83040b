------------------------------ MODULE AppToken ------------------------------
(***************************************************************************)
(* The OAuth token cache of an app: class FirebaseAppInternals in          *)
(* src/src/app/firebase-app.ts.                                            *)
(*                                                                         *)
(* getToken() either returns the promise stored in promiseToCachedToken_   *)
(* or replaces it by the promise of a new refreshToken() run.  A run awaits *)
(* the credential, checks the answer, installs it in cachedToken_, calls   *)
(* every token listener, and in a later microtask (finally) clears         *)
(* isRefreshing.  The JavaScript thread runs one of these steps at a time; *)
(* while the listeners are being called (dispatch # NoDispatch) nothing    *)
(* else runs except what a listener itself calls.                          *)
(***************************************************************************)
EXTENDS Integers, Sequences, FiniteSets

CONSTANTS
  Listener,        \* callbacks that addAuthTokenListener may be given
  AccessToken,     \* the access_token strings a credential may answer
  Lifetime,        \* the expires_in values a credential may answer, in ticks
  Threshold,       \* TOKEN_EXPIRY_THRESHOLD_MILLIS, in ticks
  MaxTime,         \* bound: the clock stops here
  MaxRefresh,      \* bound: number of refreshToken() runs
  MaxListeners,    \* bound: length of tokenListeners_
  NoToken, Failed, NoDispatch

ASSUME ConstantsAssumption ==
  /\ Threshold \in Nat /\ MaxTime \in Nat /\ MaxRefresh \in Nat /\ MaxListeners \in Nat
  /\ Lifetime \subseteq Nat

VARIABLES
  now,                    \* Date.now()
  cachedToken_,           \* NoToken while undefined
  promiseToCachedToken_,  \* the refresh run whose promise is stored, 0 while undefined
  isRefreshing,
  tokenListeners_,
  phase,                  \* where each refreshToken() run stands
  result,                 \* what each run's promise settles with
  dispatch,               \* the forEach over the listeners that is on the stack
  told,                   \* history: the last access token each listener was called with
  installer,              \* history: the run that last assigned cachedToken_, 0 if none
  forced                  \* history: has getToken(true) been called?

vars == <<now, cachedToken_, promiseToCachedToken_, isRefreshing, tokenListeners_,
          phase, result, dispatch, told, installer, forced>>

Refresh == 1..MaxRefresh

\* FirebaseAccessToken; expirationTime is an absolute time.
Token == [accessToken : AccessToken, expirationTime : Nat]

\* A run is not started, awaits the credential, has an outcome but has not
\* reached its finally, or is over.
Phase == {"unused", "fetching", "settling", "settled"}

Dispatch == [refresh : Refresh, token : Token, listeners : Seq(Listener), called : Nat]

ASSUME DistinctValues ==
  /\ NoToken \notin Token \cup AccessToken /\ Failed \notin Token \cup {NoToken}
  /\ NoDispatch \notin Dispatch

InFlight == {r \in Refresh : phase[r] \in {"fetching", "settling"}}

Unused == {r \in Refresh : phase[r] = "unused"}

Listening == {tokenListeners_[i] : i \in 1..Len(tokenListeners_)}

\* Caller code runs from the event loop, or inside the listener being called.
CallerRuns == dispatch # NoDispatch => dispatch.called > 0

Idle == dispatch = NoDispatch
-----------------------------------------------------------------------------
Init ==
  /\ now = 0
  /\ cachedToken_ = NoToken
  /\ promiseToCachedToken_ = 0
  /\ isRefreshing = FALSE
  /\ tokenListeners_ = <<>>
  /\ phase = [r \in Refresh |-> "unused"]
  /\ result = [r \in Refresh |-> NoToken]
  /\ dispatch = NoDispatch
  /\ told = [l \in Listener |-> NoToken]
  /\ installer = 0
  /\ forced = FALSE

\* The cached token is missing or about to expire.
Stale == cachedToken_ # NoToken => cachedToken_.expirationTime - now <= Threshold

\* Faulty variant: does not ask whether a refresh is running.
shouldRefreshUnguarded == Stale

shouldRefresh == Stale /\ ~isRefreshing

\* Faulty variant: getToken drops the promise of the run it starts.
refreshTokenDropsPromise(r) ==
  /\ r \in Unused
  /\ \A q \in Unused : r <= q
  /\ isRefreshing' = TRUE
  /\ phase' = [phase EXCEPT ![r] = "fetching"]
  /\ UNCHANGED <<now, cachedToken_, promiseToCachedToken_, tokenListeners_, result,
                 dispatch, told, installer>>

\* The synchronous part of refreshToken() and the assignment of its promise.
\* Runs are numbered in the order they start.
refreshToken(r) ==
  /\ r \in Unused
  /\ \A q \in Unused : r <= q
  /\ isRefreshing' = TRUE
  /\ phase' = [phase EXCEPT ![r] = "fetching"]
  /\ promiseToCachedToken_' = r
  /\ UNCHANGED <<now, cachedToken_, tokenListeners_, result, dispatch, told, installer>>

\* getToken(forceRefresh) that starts a refresh.  A call that does not start
\* one returns promiseToCachedToken_ and changes nothing.
getToken(forceRefresh) ==
  /\ CallerRuns
  /\ ~forceRefresh => shouldRefresh
  /\ \E r \in Refresh : refreshToken(r)
  /\ forced' = (forced \/ forceRefresh)

\* The token built from a credential's answer.
NewToken(access_token, expires_in) ==
  [accessToken |-> access_token, expirationTime |-> now + expires_in]

\* The credential's promise resolves with a well-formed answer: the token is
\* built, and when it differs from the cached one it is installed and the
\* forEach over the listeners begins.
CredentialAnswers(r, access_token, expires_in) ==
  LET token == NewToken(access_token, expires_in)
  IN  /\ Idle
      /\ phase[r] = "fetching"
      /\ phase' = [phase EXCEPT ![r] = "settling"]
      /\ result' = [result EXCEPT ![r] = token]
      /\ IF cachedToken_ # token
         THEN /\ cachedToken_' = token
              /\ installer' = r
              /\ dispatch' = [refresh |-> r, token |-> token,
                              listeners |-> tokenListeners_, called |-> 0]
         ELSE UNCHANGED <<cachedToken_, installer, dispatch>>
      /\ UNCHANGED <<now, promiseToCachedToken_, isRefreshing, tokenListeners_, told, forced>>

\* The credential rejects, or answers something that is no token: the run's
\* promise will reject and the cache keeps what it has.
CredentialFails(r) ==
  /\ Idle
  /\ phase[r] = "fetching"
  /\ phase' = [phase EXCEPT ![r] = "settling"]
  /\ result' = [result EXCEPT ![r] = Failed]
  /\ UNCHANGED <<now, cachedToken_, promiseToCachedToken_, isRefreshing,
                 tokenListeners_, dispatch, told, installer, forced>>

\* The forEach calls its next listener.  It walks the array as it was when the
\* forEach began: push appends behind its end, removal builds another array.
NotifyListener ==
  /\ dispatch # NoDispatch
  /\ dispatch.called < Len(dispatch.listeners)
  /\ dispatch' = [dispatch EXCEPT !.called = @ + 1]
  /\ told' = [told EXCEPT ![dispatch.listeners[dispatch.called + 1]] = dispatch.token.accessToken]
  /\ UNCHANGED <<now, cachedToken_, promiseToCachedToken_, isRefreshing,
                 tokenListeners_, phase, result, installer, forced>>

\* The last listener returned.
EndDispatch ==
  /\ dispatch # NoDispatch
  /\ dispatch.called = Len(dispatch.listeners)
  /\ dispatch' = NoDispatch
  /\ UNCHANGED <<now, cachedToken_, promiseToCachedToken_, isRefreshing,
                 tokenListeners_, phase, result, told, installer, forced>>

\* A listener throws: the forEach is abandoned and the throw lands in the
\* catch of the refresh, whose promise rejects although the token is cached.
ListenerThrows ==
  /\ dispatch # NoDispatch
  /\ dispatch.called > 0
  /\ dispatch' = NoDispatch
  /\ result' = [result EXCEPT ![dispatch.refresh] = Failed]
  /\ UNCHANGED <<now, cachedToken_, promiseToCachedToken_, isRefreshing,
                 tokenListeners_, phase, told, installer, forced>>

\* Faulty variant: the flag is cleared in then(), so only on success.
SettleOnSuccess(r) ==
  /\ Idle
  /\ phase[r] = "settling"
  /\ phase' = [phase EXCEPT ![r] = "settled"]
  /\ isRefreshing' = (isRefreshing /\ result[r] = Failed)
  /\ UNCHANGED <<now, cachedToken_, promiseToCachedToken_, tokenListeners_,
                 result, dispatch, told, installer, forced>>

\* The finally microtask of a run, after which its promise is settled.
Settle(r) ==
  /\ Idle
  /\ phase[r] = "settling"
  /\ phase' = [phase EXCEPT ![r] = "settled"]
  /\ isRefreshing' = FALSE
  /\ UNCHANGED <<now, cachedToken_, promiseToCachedToken_, tokenListeners_,
                 result, dispatch, told, installer, forced>>

\* A listener that is added while a token is cached is called at once.
ToldOnAdd(l) ==
  IF cachedToken_ = NoToken THEN told ELSE [told EXCEPT ![l] = cachedToken_.accessToken]

\* Registers a listener.
addAuthTokenListener(l) ==
  /\ CallerRuns
  /\ Len(tokenListeners_) < MaxListeners
  /\ tokenListeners_' = Append(tokenListeners_, l)
  /\ told' = ToldOnAdd(l)
  /\ UNCHANGED <<now, cachedToken_, promiseToCachedToken_, isRefreshing,
                 phase, result, dispatch, installer, forced>>

\* What filter() leaves of the sequence s without listener l: e lists, in
\* order, the positions it keeps.
IsFiltered(s, l, kept) ==
  LET positions == {i \in 1..Len(s) : s[i] # l}
  IN  \E n \in 0..Len(s) : \E e \in [1..n -> positions] :
        /\ \A i, j \in 1..n : i < j => e[i] < e[j]
        /\ \A i \in positions : \E j \in 1..n : e[j] = i
        /\ kept = [j \in 1..n |-> s[e[j]]]

\* Faulty variant: the array is changed in place under a forEach that walks it,
\* which then passes over the listener after a removed one.
removeAuthTokenListenerInPlace(l) ==
  /\ CallerRuns
  /\ l \in Listening
  /\ IsFiltered(tokenListeners_, l, tokenListeners_')
  /\ dispatch' = IF Idle THEN dispatch
                 ELSE [dispatch EXCEPT !.listeners = tokenListeners_',
                                       !.called = IF @ < Len(tokenListeners_') THEN @
                                                  ELSE Len(tokenListeners_')]
  /\ UNCHANGED <<now, cachedToken_, promiseToCachedToken_, isRefreshing,
                 phase, result, told, installer, forced>>

\* Drops every registration of a listener.
removeAuthTokenListener(l) ==
  /\ CallerRuns
  /\ l \in Listening
  /\ IsFiltered(tokenListeners_, l, tokenListeners_')
  /\ UNCHANGED <<now, cachedToken_, promiseToCachedToken_, isRefreshing,
                 phase, result, dispatch, told, installer, forced>>

\* Time passes between steps of the event loop.
Tick ==
  /\ now < MaxTime
  /\ now' = now + 1
  /\ UNCHANGED <<cachedToken_, promiseToCachedToken_, isRefreshing, tokenListeners_,
                 phase, result, dispatch, told, installer, forced>>

RunStep(r) ==
  \/ \E a \in AccessToken, e \in Lifetime : CredentialAnswers(r, a, e)
  \/ CredentialFails(r)
  \/ Settle(r)

DispatchStep == NotifyListener \/ EndDispatch

Next ==
  \/ \E force \in BOOLEAN : getToken(force)
  \/ \E r \in Refresh : RunStep(r)
  \/ DispatchStep
  \/ ListenerThrows
  \/ \E l \in Listener : addAuthTokenListener(l) \/ removeAuthTokenListener(l)
  \/ Tick

Spec == Init /\ [][Next]_vars

\* The event loop runs queued microtasks and finishes a synchronous forEach;
\* the credential is assumed to settle its promise one way or the other.
Fairness ==
  /\ WF_vars(DispatchStep)
  /\ \A r \in Refresh : WF_vars(RunStep(r))

FairSpec == Spec /\ Fairness
-----------------------------------------------------------------------------
(***************************************************************************)
(* Properties.                                                             *)
(***************************************************************************)

\* The variables hold what the fields of the class and the promises can hold.
TypeOK ==
  /\ now \in Nat
  /\ cachedToken_ \in Token \cup {NoToken}
  /\ promiseToCachedToken_ \in Refresh \cup {0}
  /\ isRefreshing \in BOOLEAN
  /\ tokenListeners_ \in Seq(Listener)
  /\ phase \in [Refresh -> Phase]
  /\ result \in [Refresh -> Token \cup {NoToken, Failed}]
  /\ dispatch \in Dispatch \cup {NoDispatch}
  /\ told \in [Listener -> AccessToken \cup {NoToken}]
  /\ installer \in Refresh \cup {0}
  /\ forced \in BOOLEAN

\* While isRefreshing is set, the stored promise is the one of a run that is
\* still in flight: whoever is told to wait for the running refresh waits for a
\* promise that a refresh is going to settle, never for an old one.
WaitersGetPendingPromise ==
  isRefreshing => promiseToCachedToken_ \in InFlight

\* As long as nobody has forced a refresh, getToken() never starts one next to
\* another (test/unit/app/firebase-app.spec.ts: "only refreshes the token once
\* for concurrent calls").
PlainRefreshIsShared == ~forced /\ shouldRefresh => InFlight = {}

\* The promise getToken() returns without a refresh is fulfilled with the token
\* that getCachedToken() returns.
ServesCache ==
  promiseToCachedToken_ # 0 /\ result[promiseToCachedToken_] = cachedToken_

\* When every refresh is over and the cached token is good, getToken() serves it
\* (test/unit/app/firebase-app.spec.ts:767, "returns the cached token").
GetTokenServesCache == InFlight = {} /\ ~Stale => ServesCache

\* So it does as long as nobody has forced a refresh, unless a listener aborted
\* the forEach that announced the cached token.
PlainGetTokenServesCache ==
  (/\ ~forced
   /\ cachedToken_ # NoToken
   /\ result[installer] # Failed
   /\ ~isRefreshing
   /\ ~Stale) => ServesCache

\* Outside a forEach, unless a listener aborted the one that announced the
\* cached token, every registered listener was last called with the cached
\* access token, however it was added or removed meanwhile, and whichever of
\* several refreshes answered last.
ListenersInSync ==
  (/\ dispatch = NoDispatch
   /\ cachedToken_ # NoToken
   /\ result[installer] # Failed) => \A l \in Listening : told[l] = cachedToken_.accessToken

\* The refresh flag never sticks: it would switch proactive refresh off for good.
RefreshFlagClears == isRefreshing ~> ~isRefreshing
=============================================================================
