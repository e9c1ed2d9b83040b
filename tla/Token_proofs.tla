---------------------------- MODULE Token_proofs ----------------------------
(***************************************************************************)
(* Proofs about AppToken: type correctness, the promise a waiting caller   *)
(* gets, the listeners, and, as long as nobody forces a refresh, that      *)
(* refreshes are shared and that the stored promise and the cached token   *)
(* agree.  And about DatabaseToken: that the timer is set for the cached   *)
(* token and gone after delete().  A step of it is one of AppToken or      *)
(* leaves the token cache alone, so all that is proved of AppToken is used. *)
(***************************************************************************)
EXTENDS DatabaseToken, TLAPS

\* What filter() leaves is again a sequence of listeners, each of which was there.
LEMMA FilteredListeners ==
  ASSUME NEW s \in Seq(Listener), NEW l, NEW kept, IsFiltered(s, l, kept)
  PROVE  /\ kept \in Seq(Listener)
         /\ \A i \in 1..Len(kept) : \E j \in 1..Len(s) : kept[i] = s[j]
<1>1. PICK n \in 0..Len(s) : \E e \in [1..n -> {i \in 1..Len(s) : s[i] # l}] :
                                 kept = [j \in 1..n |-> s[e[j]]]
  BY DEF IsFiltered
<1>2. PICK e \in [1..n -> {i \in 1..Len(s) : s[i] # l}] : kept = [j \in 1..n |-> s[e[j]]]
  BY <1>1
<1>3. n \in Nat
  BY <1>1
<1>4. \A j \in 1..n : e[j] \in 1..Len(s) /\ s[e[j]] \in Listener
  BY <1>2
<1>5. kept \in Seq(Listener) /\ Len(kept) = n
  BY <1>2, <1>3, <1>4
<1> QED
  BY <1>2, <1>4, <1>5

\* Type correctness: every step of the token machinery keeps the fields and
\* the promises within their types.
THEOREM TypeCorrect == Spec => []TypeOK
<1>1. Init => TypeOK
  <2> SUFFICES ASSUME Init PROVE TypeOK
    OBVIOUS
  <2>1. tokenListeners_ \in Seq(Listener)
    BY DEF Init
  <2>2. phase \in [Refresh -> Phase]
    BY DEF Init, Phase
  <2>3. result \in [Refresh -> Token \cup {NoToken, Failed}]
    BY DEF Init
  <2>4. told \in [Listener -> AccessToken \cup {NoToken}]
    BY DEF Init
  <2> QED
    BY <2>1, <2>2, <2>3, <2>4 DEF Init, TypeOK
<1>2. TypeOK /\ [Next]_vars => TypeOK'
  <2> SUFFICES ASSUME TypeOK, [Next]_vars PROVE TypeOK'
    OBVIOUS
  <2> USE DEF TypeOK, Phase
  <2>1. ASSUME NEW force \in BOOLEAN, getToken(force) PROVE TypeOK'
    BY <2>1 DEF getToken, refreshToken
  <2>2. ASSUME NEW r \in Refresh, NEW a \in AccessToken, NEW x \in Lifetime,
               CredentialAnswers(r, a, x)
        PROVE  TypeOK'
    <3> DEFINE token == NewToken(a, x)
    <3>1. token \in Token
      BY ConstantsAssumption DEF Token, NewToken
    <3>2. dispatch' \in Dispatch \cup {NoDispatch}
      BY <2>2, <3>1 DEF CredentialAnswers, Dispatch
    <3>3. cachedToken_' \in Token \cup {NoToken} /\ result' \in [Refresh -> Token \cup {NoToken, Failed}]
      BY <2>2, <3>1 DEF CredentialAnswers
    <3> QED
      BY <2>2, <3>2, <3>3 DEF CredentialAnswers
  <2>3. ASSUME NEW r \in Refresh, CredentialFails(r) PROVE TypeOK'
    BY <2>3 DEF CredentialFails
  <2>4. ASSUME NEW r \in Refresh, Settle(r) PROVE TypeOK'
    BY <2>4 DEF Settle
  <2>5. CASE NotifyListener
    <3>1. dispatch \in Dispatch
      BY <2>5 DEF NotifyListener
    <3>2. dispatch.token.accessToken \in AccessToken
      BY <3>1 DEF Dispatch, Token
    <3>3. dispatch.listeners[dispatch.called + 1] \in Listener
      BY <2>5, <3>1 DEF NotifyListener, Dispatch
    <3>4. dispatch' \in Dispatch
      BY <2>5, <3>1 DEF NotifyListener, Dispatch
    <3>5. told' \in [Listener -> AccessToken \cup {NoToken}]
      BY <2>5, <3>2, <3>3 DEF NotifyListener
    <3> QED
      BY <2>5, <3>4, <3>5 DEF NotifyListener
  <2>6. CASE EndDispatch
    BY <2>6 DEF EndDispatch
  <2>7. CASE ListenerThrows
    BY <2>7 DEF ListenerThrows, Dispatch
  <2>8. ASSUME NEW l \in Listener, addAuthTokenListener(l) PROVE TypeOK'
    <3>1. told' \in [Listener -> AccessToken \cup {NoToken}]
      BY <2>8 DEF addAuthTokenListener, ToldOnAdd, Token
    <3> QED
      BY <2>8, <3>1 DEF addAuthTokenListener
  <2>9. ASSUME NEW l \in Listener, removeAuthTokenListener(l) PROVE TypeOK'
    BY <2>9, FilteredListeners DEF removeAuthTokenListener
  <2>10. CASE Tick
    BY <2>10 DEF Tick
  <2>11. CASE UNCHANGED vars
    BY <2>11 DEF vars
  <2> QED
    BY <2>1, <2>2, <2>3, <2>4, <2>5, <2>6, <2>7, <2>8, <2>9, <2>10, <2>11
       DEF Next, RunStep, DispatchStep
<1> QED
  BY <1>1, <1>2, PTL DEF Spec

\* Callers that are told to wait for the running refresh wait for a promise
\* that a refresh in flight is going to settle.
THEOREM WaitersServed == Spec => []WaitersGetPendingPromise
<1>1. Init => WaitersGetPendingPromise
  BY DEF Init, WaitersGetPendingPromise
<1>2. TypeOK /\ WaitersGetPendingPromise /\ [Next]_vars => WaitersGetPendingPromise'
  <2> SUFFICES ASSUME TypeOK, WaitersGetPendingPromise, [Next]_vars
               PROVE  WaitersGetPendingPromise'
    OBVIOUS
  <2> USE DEF TypeOK, WaitersGetPendingPromise, InFlight
  <2>1. ASSUME NEW force \in BOOLEAN, getToken(force) PROVE WaitersGetPendingPromise'
    BY <2>1 DEF getToken, refreshToken
  <2>2. ASSUME NEW r \in Refresh, NEW a \in AccessToken, NEW x \in Lifetime,
               CredentialAnswers(r, a, x)
        PROVE  WaitersGetPendingPromise'
    BY <2>2 DEF CredentialAnswers
  <2>3. ASSUME NEW r \in Refresh, CredentialFails(r) PROVE WaitersGetPendingPromise'
    BY <2>3 DEF CredentialFails
  <2>4. ASSUME NEW r \in Refresh, Settle(r) PROVE WaitersGetPendingPromise'
    BY <2>4 DEF Settle
  <2>5. CASE \/ NotifyListener \/ EndDispatch \/ ListenerThrows \/ Tick \/ UNCHANGED vars
             \/ \E l \in Listener : addAuthTokenListener(l) \/ removeAuthTokenListener(l)
    BY <2>5 DEF NotifyListener, EndDispatch, ListenerThrows, Tick, vars,
                addAuthTokenListener, removeAuthTokenListener
  <2> QED
    BY <2>1, <2>2, <2>3, <2>4, <2>5 DEF Next, RunStep, DispatchStep
<1> QED
  BY <1>1, <1>2, TypeCorrect, PTL DEF Spec
-----------------------------------------------------------------------------
(***************************************************************************)
(* Listeners.  The invariant says who installed the cached token and, while *)
(* the forEach runs, that whoever is registered and not yet told is still   *)
(* ahead in the array the forEach walks.                                    *)
(***************************************************************************)
InstalledByPastRun ==
  cachedToken_ # NoToken => installer \in Refresh /\ phase[installer] \in {"settling", "settled"}

ToldOrAhead ==
  dispatch # NoDispatch =>
    /\ cachedToken_ = dispatch.token /\ installer = dispatch.refresh
    /\ \A l \in Listening :
         told[l] # dispatch.token.accessToken =>
           \E i \in 1..Len(dispatch.listeners) :
             i > dispatch.called /\ dispatch.listeners[i] = l

ListenersInv == InstalledByPastRun /\ ToldOrAhead /\ ListenersInSync

\* Every step of the token machinery preserves the listeners' invariant.
LEMMA ListenersStep == TypeOK /\ ListenersInv /\ [Next]_vars => ListenersInv'
<1> SUFFICES ASSUME TypeOK, ListenersInv, [Next]_vars PROVE ListenersInv'
  OBVIOUS
<1> USE DistinctValues DEF TypeOK, ListenersInv, InstalledByPastRun, ToldOrAhead, ListenersInSync,
                           Listening
<1>1. ASSUME NEW force \in BOOLEAN, getToken(force) PROVE ListenersInv'
  BY <1>1 DEF getToken, refreshToken, Unused
<1>2. ASSUME NEW r \in Refresh, NEW a \in AccessToken, NEW x \in Lifetime,
             CredentialAnswers(r, a, x)
      PROVE  ListenersInv'
  <2> DEFINE token == NewToken(a, x)
  <2>1. CASE cachedToken_ # token
    <3>1. /\ cachedToken_' = token /\ installer' = r /\ phase'[r] = "settling"
          /\ tokenListeners_' = tokenListeners_ /\ told' = told
          /\ dispatch' = [refresh |-> r, token |-> token, listeners |-> tokenListeners_, called |-> 0]
      BY <1>2, <2>1 DEF CredentialAnswers
    <3>2. token \in Token
      BY ConstantsAssumption DEF Token, NewToken
    <3>3. dispatch' \in Dispatch
      BY <3>1, <3>2 DEF Dispatch
    <3> QED
      BY <3>1, <3>3
  <2>2. CASE cachedToken_ = token
    <3>1. /\ UNCHANGED <<cachedToken_, installer, dispatch, tokenListeners_, told>>
          /\ phase' = [phase EXCEPT ![r] = "settling"]
          /\ result' = [result EXCEPT ![r] = token]
          /\ phase[r] = "fetching" /\ dispatch = NoDispatch
      BY <1>2, <2>2 DEF CredentialAnswers, Idle
    <3>2. cachedToken_ # NoToken
      BY <2>2, ConstantsAssumption DEF Token, NewToken
    <3>3. installer # r /\ installer \in Refresh
      BY <3>1, <3>2
    <3> QED
      BY <3>1, <3>2, <3>3
  <2> QED
    BY <2>1, <2>2
<1>3. ASSUME NEW r \in Refresh, CredentialFails(r) PROVE ListenersInv'
  BY <1>3 DEF CredentialFails, Idle
<1>4. ASSUME NEW r \in Refresh, Settle(r) PROVE ListenersInv'
  BY <1>4 DEF Settle, Idle
<1>5. CASE NotifyListener
  <2> DEFINE next == dispatch.listeners[dispatch.called + 1]
  <2>1. /\ dispatch \in Dispatch /\ dispatch.called \in Nat
        /\ dispatch.listeners \in Seq(Listener)
    BY <1>5 DEF NotifyListener, Dispatch
  <2>0. dispatch' = [dispatch EXCEPT !.called = dispatch.called + 1]
    BY <1>5 DEF NotifyListener
  <2>2. /\ dispatch' \in Dispatch /\ dispatch'.called = dispatch.called + 1
        /\ dispatch'.listeners = dispatch.listeners /\ dispatch'.token = dispatch.token
        /\ dispatch'.refresh = dispatch.refresh
    BY <2>0, <2>1 DEF Dispatch
  <2>3. /\ UNCHANGED <<cachedToken_, installer, tokenListeners_, phase, result>>
        /\ next \in Listener
        /\ told' = [told EXCEPT ![next] = dispatch.token.accessToken]
    BY <1>5, <2>1 DEF NotifyListener
  <2>4. ASSUME NEW l \in Listening', told'[l] # dispatch.token.accessToken
        PROVE  \E i \in 1..Len(dispatch.listeners) :
                  i > dispatch.called + 1 /\ dispatch.listeners[i] = l
    <3>1. l \in Listening /\ l # next /\ told[l] # dispatch.token.accessToken
      BY <2>3, <2>4
    <3>2. PICK i \in 1..Len(dispatch.listeners) : i > dispatch.called /\ dispatch.listeners[i] = l
      BY <1>5, <3>1 DEF NotifyListener
    <3> QED
      BY <2>1, <3>1, <3>2
  <2>5. dispatch' # NoDispatch /\ dispatch # NoDispatch
    BY <1>5, <2>2 DEF NotifyListener
  <2>6. ToldOrAhead'
    BY <2>2, <2>3, <2>4, <2>5
  <2>7. InstalledByPastRun' /\ ListenersInSync'
    BY <2>3, <2>5
  <2> QED
    BY <2>6, <2>7
<1>6. CASE EndDispatch
  <2>1. dispatch # NoDispatch /\ dispatch' = NoDispatch /\ dispatch.called = Len(dispatch.listeners)
    BY <1>6 DEF EndDispatch
  <2>2. \A l \in Listening : told[l] = cachedToken_.accessToken
    BY <1>6, <2>1 DEF EndDispatch, Dispatch
  <2> QED
    BY <1>6, <2>1, <2>2 DEF EndDispatch
<1>7. CASE ListenerThrows
  <2>1. dispatch \in Dispatch /\ installer = dispatch.refresh /\ dispatch.refresh \in Refresh
    BY <1>7 DEF ListenerThrows, Dispatch
  <2>2. result'[installer] = Failed /\ UNCHANGED <<cachedToken_, installer, phase>>
    BY <1>7, <2>1 DEF ListenerThrows
  <2>3. dispatch' = NoDispatch
    BY <1>7 DEF ListenerThrows
  <2> QED
    BY <2>2, <2>3
<1>8. ASSUME NEW l \in Listener, addAuthTokenListener(l) PROVE ListenersInv'
  <2>1. /\ UNCHANGED <<cachedToken_, installer, dispatch, phase, result>>
        /\ tokenListeners_' = Append(tokenListeners_, l)
        /\ told' = IF cachedToken_ = NoToken THEN told
                   ELSE [told EXCEPT ![l] = cachedToken_.accessToken]
    BY <1>8 DEF addAuthTokenListener, ToldOnAdd
  <2>2. Listening' = Listening \cup {l}
    BY <2>1
  <2>3. Listening \subseteq Listener
    OBVIOUS
  <2>4. cachedToken_ # NoToken =>
           \A k \in Listening' : IF k = l THEN told'[k] = cachedToken_.accessToken
                                 ELSE told'[k] = told[k] /\ k \in Listening
    BY <2>1, <2>2, <2>3
  <2>5. InstalledByPastRun'
    BY <2>1
  <2>6. ASSUME dispatch # NoDispatch PROVE ToldOrAhead'
    <3>1. dispatch \in Dispatch /\ cachedToken_ = dispatch.token
      BY <2>6
    <3>2. cachedToken_ # NoToken
      BY <3>1 DEF Dispatch
    <3> HIDE DEF Listening
    <3> QED
      BY <2>1, <2>4, <3>1, <3>2
  <2>7. ASSUME dispatch = NoDispatch PROVE ListenersInSync'
    <3> HIDE DEF Listening
    <3> QED
      BY <2>1, <2>4, <2>7
  <2> QED
    BY <2>1, <2>5, <2>6, <2>7
<1>9. ASSUME NEW l \in Listener, removeAuthTokenListener(l) PROVE ListenersInv'
  <2>1. /\ Listening' \subseteq Listening
        /\ UNCHANGED <<cachedToken_, installer, told, dispatch, phase, result>>
    BY <1>9, FilteredListeners DEF removeAuthTokenListener
  <2> QED
    BY <2>1
<1>10. CASE Tick
  BY <1>10 DEF Tick
<1>11. CASE UNCHANGED vars
  BY <1>11 DEF vars
<1> QED
  BY <1>1, <1>2, <1>3, <1>4, <1>5, <1>6, <1>7, <1>8, <1>9, <1>10, <1>11
     DEF Next, RunStep, DispatchStep

\* Whichever refresh answered last, and however listeners came and went, every
\* registered listener ends up told the cached access token.
THEOREM ListenersTold == Spec => []ListenersInSync
<1>1. Init => ListenersInv
  BY DEF Init, ListenersInv, InstalledByPastRun, ToldOrAhead, ListenersInSync
<1>2. ListenersInv => ListenersInSync
  BY DEF ListenersInv
<1> QED
  BY <1>1, <1>2, TypeCorrect, ListenersStep, PTL DEF Spec
-----------------------------------------------------------------------------
(***************************************************************************)
(* While nobody has forced a refresh, at most one run is in flight, it is  *)
(* the one whose promise is stored, and it was started because the cached  *)
(* token was stale; so the promise it leaves behind either carries the     *)
(* cached token or is one that the next getToken() replaces.               *)
(***************************************************************************)
OneInFlight == forced \/ InFlight = IF isRefreshing THEN {promiseToCachedToken_} ELSE {}

FetchingWhenStale == forced \/ \A r \in Refresh : phase[r] = "fetching" => Stale

\* A listener threw at the cached token.
Aborted == cachedToken_ # NoToken /\ result[installer] = Failed

OutcomeAgrees ==
  forced \/ \A r \in Refresh :
    phase[r] = "settling" => (result[r] # cachedToken_ => Stale \/ Aborted)

CacheInv == OneInFlight /\ FetchingWhenStale /\ OutcomeAgrees /\ PlainGetTokenServesCache

\* Until a refresh is forced, no step puts a second run in flight.
LEMMA OneInFlightStep == TypeOK /\ OneInFlight /\ [Next]_vars => OneInFlight'
<1> SUFFICES ASSUME TypeOK, OneInFlight, [Next]_vars, ~forced' PROVE OneInFlight'
  BY DEF OneInFlight
<1> USE DEF TypeOK, OneInFlight, InFlight
<1>1. ASSUME NEW force \in BOOLEAN, getToken(force) PROVE OneInFlight'
  <2>1. ~isRefreshing /\ ~forced
    BY <1>1 DEF getToken, shouldRefresh
  <2>2. PICK r \in Refresh : refreshToken(r)
    BY <1>1 DEF getToken
  <2> QED
    BY <2>1, <2>2 DEF refreshToken
<1>2. ASSUME NEW r \in Refresh, NEW a \in AccessToken, NEW x \in Lifetime,
             CredentialAnswers(r, a, x)
      PROVE  OneInFlight'
  BY <1>2 DEF CredentialAnswers
<1>3. ASSUME NEW r \in Refresh, CredentialFails(r) PROVE OneInFlight'
  BY <1>3 DEF CredentialFails
<1>4. ASSUME NEW r \in Refresh, Settle(r) PROVE OneInFlight'
  BY <1>4 DEF Settle
<1>5. CASE \/ NotifyListener \/ EndDispatch \/ ListenerThrows \/ Tick \/ UNCHANGED vars
           \/ \E l \in Listener : addAuthTokenListener(l) \/ removeAuthTokenListener(l)
  BY <1>5 DEF NotifyListener, EndDispatch, ListenerThrows, Tick, vars,
              addAuthTokenListener, removeAuthTokenListener
<1> QED
  BY <1>1, <1>2, <1>3, <1>4, <1>5 DEF Next, RunStep, DispatchStep

\* Concurrent getToken() calls share one refresh until one of them forces it.
THEOREM PlainShared == Spec => []PlainRefreshIsShared
<1>1. Init => OneInFlight
  BY DEF Init, OneInFlight, InFlight
<1>2. OneInFlight => PlainRefreshIsShared
  BY DEF OneInFlight, PlainRefreshIsShared, shouldRefresh
<1>3. TypeOK /\ OneInFlight /\ [Next]_vars => OneInFlight'
  BY OneInFlightStep
<1> QED
  BY <1>1, <1>2, <1>3, TypeCorrect, PTL DEF Spec

\* A token that is stale stays stale as time passes.
LEMMA StaleGrows == ASSUME TypeOK, Stale, cachedToken_' = cachedToken_,
                           now' = now \/ now' = now + 1
                    PROVE  Stale'
  BY ConstantsAssumption DEF TypeOK, Stale, Token

\* Until a refresh is forced, every step keeps the stored promise and the
\* cached token in agreement.
LEMMA CacheStep ==
  TypeOK /\ InstalledByPastRun /\ ToldOrAhead /\ CacheInv /\ [Next]_vars => CacheInv'
<1> SUFFICES ASSUME TypeOK, InstalledByPastRun, ToldOrAhead, CacheInv, [Next]_vars, ~forced'
             PROVE  CacheInv'
  BY OneInFlightStep DEF CacheInv, OneInFlight, FetchingWhenStale, OutcomeAgrees, PlainGetTokenServesCache
<1>a. ~forced
  BY DEF Next, getToken, RunStep, CredentialAnswers, CredentialFails, Settle, DispatchStep,
         NotifyListener, EndDispatch, ListenerThrows, addAuthTokenListener,
         removeAuthTokenListener, Tick, vars, TypeOK
<1> USE <1>a DEF TypeOK, CacheInv, InFlight, InstalledByPastRun, Aborted, ServesCache
<1>0. OneInFlight'
  BY OneInFlightStep
<1>1. ASSUME NEW force \in BOOLEAN, getToken(force) PROVE CacheInv'
  <2>1. Stale /\ ~isRefreshing
    BY <1>1 DEF getToken, shouldRefresh
  <2>2. PICK r \in Refresh : refreshToken(r)
    BY <1>1 DEF getToken
  <2>3. Stale'
    BY <2>1, <2>2 DEF refreshToken, Stale
  <2> QED
    BY <1>0, <2>3 DEF FetchingWhenStale, OutcomeAgrees, PlainGetTokenServesCache
<1>2. ASSUME NEW r \in Refresh, NEW a \in AccessToken, NEW x \in Lifetime,
             CredentialAnswers(r, a, x)
      PROVE  CacheInv'
  <2>1. InFlight = {r} /\ isRefreshing
    BY <1>2 DEF CredentialAnswers, OneInFlight
  <2>2. isRefreshing' /\ phase' = [phase EXCEPT ![r] = "settling"]
    BY <1>2, <2>1 DEF CredentialAnswers
  <2>3. result'[r] = cachedToken_'
    BY <1>2 DEF CredentialAnswers
  <2>4. FetchingWhenStale' /\ OutcomeAgrees' /\ PlainGetTokenServesCache'
    BY <2>1, <2>2, <2>3 DEF FetchingWhenStale, OutcomeAgrees, PlainGetTokenServesCache
  <2> QED
    BY <1>0, <2>4
<1>3. ASSUME NEW r \in Refresh, CredentialFails(r) PROVE CacheInv'
  <2>1. Stale
    BY <1>3 DEF CredentialFails, FetchingWhenStale
  <2>2. Stale'
    BY <1>3, <2>1 DEF CredentialFails, Stale
  <2> QED
    BY <1>0, <2>2 DEF FetchingWhenStale, OutcomeAgrees, PlainGetTokenServesCache
<1>4. ASSUME NEW r \in Refresh, Settle(r) PROVE CacheInv'
  <2>1. InFlight = {r} /\ r = promiseToCachedToken_ /\ r # 0
    BY <1>4, ConstantsAssumption DEF Settle, OneInFlight, Refresh
  <2>2. /\ UNCHANGED <<cachedToken_, now, result, promiseToCachedToken_, installer>>
        /\ phase' = [phase EXCEPT ![r] = "settled"] /\ phase[r] = "settling"
    BY <1>4 DEF Settle
  <2>3. Stale' = Stale
    BY <2>2 DEF Stale
  <2>4. ~Stale /\ ~Aborted => result[r] = cachedToken_
    BY <2>2 DEF OutcomeAgrees
  <2>5. FetchingWhenStale' /\ OutcomeAgrees' /\ PlainGetTokenServesCache'
    BY <2>1, <2>2, <2>3, <2>4 DEF FetchingWhenStale, OutcomeAgrees, PlainGetTokenServesCache
  <2> QED
    BY <1>0, <2>5
<1>5. CASE \/ NotifyListener \/ EndDispatch \/ UNCHANGED vars
           \/ \E l \in Listener : addAuthTokenListener(l) \/ removeAuthTokenListener(l)
  <2>1. UNCHANGED <<cachedToken_, now, result, promiseToCachedToken_, phase, isRefreshing, installer>>
    BY <1>5 DEF NotifyListener, EndDispatch, vars, addAuthTokenListener, removeAuthTokenListener
  <2>2. Stale' = Stale
    BY <2>1 DEF Stale
  <2> QED
    BY <1>0, <2>1, <2>2 DEF FetchingWhenStale, OutcomeAgrees, PlainGetTokenServesCache
<1>6. CASE Tick
  <2>1. UNCHANGED <<cachedToken_, result, promiseToCachedToken_, phase, isRefreshing, installer>>
    BY <1>6 DEF Tick
  <2>2. Stale => Stale'
    BY <1>6, StaleGrows DEF Tick
  <2> QED
    BY <1>0, <2>1, <2>2 DEF FetchingWhenStale, OutcomeAgrees, PlainGetTokenServesCache
<1>7. CASE ListenerThrows
  <2>1. /\ UNCHANGED <<cachedToken_, now, promiseToCachedToken_, phase, isRefreshing, installer>>
        /\ result' = [result EXCEPT ![dispatch.refresh] = Failed]
        /\ dispatch \in Dispatch
    BY <1>7 DEF ListenerThrows
  <2>2. cachedToken_ # NoToken /\ installer = dispatch.refresh /\ installer \in Refresh
    BY <2>1, DistinctValues DEF ToldOrAhead, Dispatch
  <2>3. Aborted'
    BY <2>1, <2>2
  <2>4. Stale' = Stale
    BY <2>1 DEF Stale
  <2> QED
    BY <1>0, <2>1, <2>3, <2>4 DEF FetchingWhenStale, OutcomeAgrees, PlainGetTokenServesCache
<1> QED
  BY <1>1, <1>2, <1>3, <1>4, <1>5, <1>6, <1>7 DEF Next, RunStep, DispatchStep

\* Until a refresh is forced, getToken() and getCachedToken() agree whenever
\* getToken() does not start or await a refresh and no listener threw.
THEOREM PlainServesCache == Spec => []PlainGetTokenServesCache
<1>1. Init => CacheInv /\ ListenersInv
  BY DEF Init, CacheInv, OneInFlight, InFlight, FetchingWhenStale, OutcomeAgrees,
         PlainGetTokenServesCache, Stale, ListenersInv, InstalledByPastRun, ToldOrAhead,
         ListenersInSync
<1>2. CacheInv => PlainGetTokenServesCache
  BY DEF CacheInv
<1>3. TypeOK /\ ListenersInv /\ CacheInv /\ [Next]_vars => CacheInv' /\ ListenersInv'
  BY CacheStep, ListenersStep DEF ListenersInv
<1> QED
  BY <1>1, <1>2, <1>3, TypeCorrect, PTL DEF Spec

-----------------------------------------------------------------------------
(* The database service on top of the token cache. *)

\* Every step is a step of AppToken or leaves it alone.
LEMMA DStepIsTokenStep == [DNext]_allvars => [Next]_vars
<1> SUFFICES ASSUME [DNext]_allvars PROVE [Next]_vars
  OBVIOUS
<1>1. CASE TokenStep
  BY <1>1 DEF TokenStep, Next, DispatchStep
<1>2. CASE NotifyListener
  BY <1>2 DEF Next, DispatchStep
<1>3. ASSUME NEW u \in Url, getDatabase(u) PROVE [Next]_vars
  BY <1>3, DatabaseAssumption DEF getDatabase, Next
<1>4. ASSUME NEW u \in Url, DatabaseDeleted(u) PROVE [Next]_vars
  BY <1>4 DEF DatabaseDeleted
<1>5. CASE delete
  BY <1>5, DatabaseAssumption DEF delete, Next
<1>6. CASE DeletionEnds
  BY <1>6 DEF DeletionEnds
<1>7. CASE TimerFires
  BY <1>7 DEF TimerFires, Next
<1>8. CASE UNCHANGED allvars
  BY <1>8 DEF allvars
<1> QED
  BY <1>1, <1>2, <1>3, <1>4, <1>5, <1>6, <1>7, <1>8 DEF DNext

\* So what holds of AppToken holds of the app the service is of.
LEMMA TokenCacheUsed == DSpec => Spec
<1>1. DInit => Init
  BY DEF DInit
<1> QED
  BY <1>1, DStepIsTokenStep, PTL DEF DSpec, Spec

\* What is proved above of the token cache and the proofs below use.
LEMMA TokenInvHolds == DSpec => [](TypeOK /\ ListenersInv)
<1>1. Init => ListenersInv
  BY DEF Init, ListenersInv, InstalledByPastRun, ToldOrAhead, ListenersInSync
<1> QED
  BY <1>1, TokenCacheUsed, TypeCorrect, ListenersStep, PTL DEF Spec
-----------------------------------------------------------------------------
\* The timer is set to a natural number.
LEMMA TimerType ==
  ASSUME TypeOK', now \in Nat, tokenRefreshTimeout \in Nat PROVE onTokenChange \in Nat
<1>1. cachedToken_' \in Token \cup {NoToken}
  BY DEF TypeOK
<1> QED
  BY <1>1, DatabaseAssumption DEF onTokenChange, Token

OwnTypes ==
  /\ tokenListener \in BOOLEAN
  /\ tokenRefreshTimeout \in Nat
  /\ databases \in SUBSET Url
  /\ database \in [Url -> {"none", "open", "deleting", "deleted"}]
  /\ service \in {"active", "deleting", "deleted"}
  /\ misused \in BOOLEAN

\* Type correctness of the service on top of the token cache.
THEOREM DTypeCorrect == DSpec => []DTypeOK
<1>1. DInit => OwnTypes
  <2> SUFFICES ASSUME DInit PROVE OwnTypes
    OBVIOUS
  <2>1. database \in [Url -> {"none", "open", "deleting", "deleted"}]
    BY DEF DInit
  <2> QED
    BY <2>1 DEF DInit, OwnTypes
<1>2. TypeOK /\ TypeOK' /\ OwnTypes /\ [DNext]_allvars => OwnTypes'
  <2> SUFFICES ASSUME TypeOK, TypeOK', OwnTypes, [DNext]_allvars PROVE OwnTypes'
    OBVIOUS
  <2> USE DEF OwnTypes
  <2>0. onTokenChange \in Nat
    BY TimerType DEF TypeOK
  <2> HIDE DEF onTokenChange
  <2>1. CASE UNCHANGED dvars
    BY <2>1 DEF dvars
  <2>2. CASE /\ NotifyListener
             /\ tokenRefreshTimeout' = IF CallsDb THEN onTokenChange ELSE tokenRefreshTimeout
             /\ UNCHANGED <<tokenListener, databases, database, service, misused>>
    BY <2>0, <2>2
  <2>3. ASSUME NEW u \in Url, getDatabase(u) PROVE OwnTypes'
    BY <2>0, <2>3 DEF getDatabase
  <2>4. ASSUME NEW u \in Url, DatabaseDeleted(u) PROVE OwnTypes'
    BY <2>4 DEF DatabaseDeleted
  <2>5. CASE delete
    BY <2>5 DEF delete, TimerCleared
  <2>6. CASE DeletionEnds
    BY <2>6 DEF DeletionEnds
  <2>7. CASE TimerFires
    BY <2>7 DEF TimerFires
  <2> QED
    BY <2>1, <2>2, <2>3, <2>4, <2>5, <2>6, <2>7 DEF DNext, allvars, dvars
<1>3. TypeOK /\ OwnTypes <=> DTypeOK
  BY DEF OwnTypes, DTypeOK
<1> QED
  BY <1>1, <1>2, <1>3, TokenInvHolds, PTL DEF DSpec
-----------------------------------------------------------------------------
(***************************************************************************)
(* No timer after delete().                                                *)
(***************************************************************************)
\* Nothing leads to onTokenChange: it is neither registered nor in the array
\* that a running forEach walks, and the timer is off.
Detached ==
  /\ tokenRefreshTimeout = 0
  /\ db \notin Listening
  /\ dispatch # NoDispatch =>
       \A i \in 1..Len(dispatch.listeners) : dispatch.listeners[i] # db

DetachedInv ==
  /\ service = "active" /\ ~tokenListener => Detached
  /\ service # "active" /\ ~misused => Detached

\* The listeners after one is removed.
LEMMA ListeningAfterRemove ==
  ASSUME TypeOK, NEW l \in Listener, removeAuthTokenListener(l)
  PROVE  Listening' = Listening \ {l}
<1> DEFINE s == tokenListeners_
           positions == {i \in 1..Len(s) : s[i] # l}
<1>1. PICK n \in 0..Len(s) : \E e \in [1..n -> positions] :
         /\ \A i \in positions : \E j \in 1..n : e[j] = i
         /\ tokenListeners_' = [j \in 1..n |-> s[e[j]]]
  BY DEF removeAuthTokenListener, IsFiltered
<1>2. PICK e \in [1..n -> positions] :
         /\ \A i \in positions : \E j \in 1..n : e[j] = i
         /\ tokenListeners_' = [j \in 1..n |-> s[e[j]]]
  BY <1>1
<1>3. n \in Nat /\ s \in Seq(Listener)
  BY <1>1 DEF TypeOK
<1>4. Len(tokenListeners_') = n
  BY <1>2, <1>3
<1>5. ASSUME NEW k, k \in Listening' PROVE k \in Listening \ {l}
  BY <1>2, <1>4, <1>5 DEF Listening
<1>6. ASSUME NEW k, k \in Listening \ {l} PROVE k \in Listening'
  <2>1. PICK i \in positions : s[i] = k
    BY <1>6 DEF Listening
  <2>2. PICK j \in 1..n : e[j] = i
    BY <1>2
  <2> QED
    BY <1>2, <1>4, <2>1, <2>2 DEF Listening
<1> QED
  BY <1>5, <1>6

\* The listeners after one is added.
LEMMA ListeningAfterAdd ==
  ASSUME TypeOK, NEW l \in Listener, addAuthTokenListener(l)
  PROVE  Listening' = Listening \cup {l}
BY DEF TypeOK, addAuthTokenListener, Listening

\* Steps of the token cache that do not call or register db keep it detached.
LEMMA TokenStepKeepsDetached ==
  ASSUME TypeOK, Detached, TokenStep, UNCHANGED dvars PROVE Detached'
<1> USE DEF Detached
<1>0. tokenRefreshTimeout' = 0
  BY DEF dvars
<1>1. ASSUME NEW force \in BOOLEAN, getToken(force) PROVE Detached'
  BY <1>0, <1>1 DEF getToken, refreshToken, Listening
<1>2. ASSUME NEW r \in Refresh, NEW a \in AccessToken, NEW x \in Lifetime,
             CredentialAnswers(r, a, x)
      PROVE  Detached'
  <2>1. /\ Listening' = Listening
        /\ \/ dispatch' = dispatch
           \/ dispatch' = [refresh |-> r, token |-> NewToken(a, x), listeners |-> tokenListeners_, called |-> 0]
    BY <1>2 DEF CredentialAnswers, Listening
  <2>2. ASSUME NEW i \in 1..Len(tokenListeners_) PROVE tokenListeners_[i] # db
    BY DEF Listening
  <2> QED
    BY <1>0, <2>1, <2>2
<1>3. ASSUME NEW r \in Refresh, CredentialFails(r) \/ Settle(r) PROVE Detached'
  BY <1>0, <1>3 DEF CredentialFails, Settle, Listening
<1>4. CASE EndDispatch \/ ListenerThrows \/ Tick
  BY <1>0, <1>4 DEF EndDispatch, ListenerThrows, Tick, Listening
<1>5. ASSUME NEW l \in Listener \ {db}, addAuthTokenListener(l) PROVE Detached'
  <2>1. Listening' = Listening \cup {l} /\ dispatch' = dispatch
    BY <1>5, ListeningAfterAdd DEF addAuthTokenListener
  <2> QED
    BY <1>0, <2>1
<1>6. ASSUME NEW l \in Listener \ {db}, removeAuthTokenListener(l) PROVE Detached'
  <2>1. Listening' = Listening \ {l} /\ dispatch' = dispatch
    BY <1>6, ListeningAfterRemove DEF removeAuthTokenListener
  <2> QED
    BY <1>0, <2>1
<1> QED
  BY <1>1, <1>2, <1>3, <1>4, <1>5, <1>6 DEF TokenStep, RunStep

\* Once db is detached and stays so by the callers' discipline, no step of the
\* service attaches it again.
LEMMA DetachedStep == DTypeOK /\ DetachedInv /\ [DNext]_allvars => DetachedInv'
<1> SUFFICES ASSUME DTypeOK, DetachedInv, [DNext]_allvars PROVE DetachedInv'
  OBVIOUS
<1> USE DEF DTypeOK, DetachedInv
<1>1. CASE TokenStep /\ UNCHANGED dvars
  BY <1>1, TokenStepKeepsDetached DEF dvars
<1>2. CASE /\ NotifyListener
           /\ tokenRefreshTimeout' = IF CallsDb THEN onTokenChange ELSE tokenRefreshTimeout
           /\ UNCHANGED <<tokenListener, databases, database, service, misused>>
  <2> SUFFICES ASSUME Detached PROVE Detached'
    BY <1>2
  <2>1. /\ dispatch \in Dispatch /\ dispatch # NoDispatch
        /\ dispatch.called < Len(dispatch.listeners)
        /\ dispatch' = [dispatch EXCEPT !.called = dispatch.called + 1]
        /\ tokenListeners_' = tokenListeners_
    BY <1>2 DEF NotifyListener, TypeOK
  <2>2. dispatch.called + 1 \in 1..Len(dispatch.listeners)
    BY <2>1 DEF Dispatch
  <2>3. ~CallsDb
    BY <2>1, <2>2 DEF CallsDb, Detached
  <2>4. dispatch'.listeners = dispatch.listeners
    BY <2>1 DEF Dispatch
  <2> QED
    BY <1>2, <2>1, <2>3, <2>4 DEF Detached, Listening
<1>3. ASSUME NEW u \in Url, getDatabase(u) PROVE DetachedInv'
  BY <1>3 DEF getDatabase
<1>4. ASSUME NEW u \in Url, DatabaseDeleted(u) PROVE DetachedInv'
  BY <1>4 DEF DatabaseDeleted, vars, Detached, Listening
<1>5. CASE delete
  <2>1. CASE ~tokenListener
    BY <1>5, <2>1 DEF delete, TimerCleared, vars, Detached, Listening
  <2>2. CASE tokenListener
    <3>1. Listening' = Listening \ {db} /\ dispatch' = dispatch
      BY <1>5, <2>2, ListeningAfterRemove, DatabaseAssumption DEF delete, removeAuthTokenListener
    <3>2. ~misused' => dispatch = NoDispatch
      BY <1>5 DEF delete, Idle
    <3> QED
      BY <1>5, <2>2, <3>1, <3>2 DEF delete, TimerCleared, Detached
  <2> QED
    BY <2>1, <2>2
<1>6. CASE DeletionEnds
  BY <1>6 DEF DeletionEnds, vars, Detached, Listening
<1>7. CASE TimerFires
  <2>1. ~Detached
    BY <1>7 DEF TimerFires, Detached
  <2> QED
    BY <1>7, <2>1 DEF TimerFires
<1>8. CASE UNCHANGED allvars
  BY <1>8 DEF allvars, vars, dvars, Detached, Listening
<1> QED
  BY <1>1, <1>2, <1>3, <1>4, <1>5, <1>6, <1>7, <1>8 DEF DNext

\* After delete() no timer refreshes the token, whatever refreshes were in
\* flight, as long as the callers keep to the discipline that misused records.
THEOREM TimerGone == DSpec => []NoTimerAfterDelete
<1>1. DInit => DetachedInv
  BY DatabaseAssumption DEF DInit, Init, DetachedInv, Detached, Listening
<1>2. DetachedInv => NoTimerAfterDelete
  BY DEF DetachedInv, Detached, NoTimerAfterDelete
<1> QED
  BY <1>1, <1>2, DetachedStep, DTypeCorrect, PTL DEF DSpec
-----------------------------------------------------------------------------
(***************************************************************************)
(* The timer.  It is set for the cached token as soon as the forEach that  *)
(* announces the token has passed db, if no listener aborted it.           *)
(***************************************************************************)
DbAhead ==
  /\ dispatch # NoDispatch
  /\ \E i \in 1..Len(dispatch.listeners) : i > dispatch.called /\ dispatch.listeners[i] = db

Attached == tokenListener /\ service = "active" => db \in Listening

WantsTimer ==
  /\ tokenListener /\ service = "active"
  /\ cachedToken_ # NoToken
  /\ cachedToken_.expirationTime - Ahead > now
  /\ result[installer] # Failed
  /\ ~DbAhead

TimerSet == WantsTimer => tokenRefreshTimeout = cachedToken_.expirationTime - Ahead

\* The service stays registered while it is active.
LEMMA AttachedStep == DTypeOK /\ Attached /\ [DNext]_allvars => Attached'
<1> SUFFICES ASSUME DTypeOK, Attached, [DNext]_allvars PROVE Attached'
  OBVIOUS
<1> USE DEF DTypeOK, Attached
<1>1. CASE TokenStep /\ UNCHANGED dvars
  <2>1. db \in Listening => db \in Listening'
    <3>1. ASSUME NEW l \in Listener \ {db}, addAuthTokenListener(l)
          PROVE  db \in Listening => db \in Listening'
      BY <3>1, ListeningAfterAdd
    <3>2. ASSUME NEW l \in Listener \ {db}, removeAuthTokenListener(l)
          PROVE  db \in Listening => db \in Listening'
      BY <3>2, ListeningAfterRemove
    <3>3. CASE tokenListeners_' = tokenListeners_
      BY <3>3 DEF Listening
    <3> QED
      BY <1>1, <3>1, <3>2, <3>3
         DEF TokenStep, getToken, refreshToken, RunStep, CredentialAnswers, CredentialFails, Settle,
             EndDispatch, ListenerThrows, Tick
  <2> QED
    BY <1>1, <2>1 DEF dvars
<1>2. CASE NotifyListener /\ UNCHANGED <<tokenListener, databases, database, service, misused>>
  BY <1>2 DEF NotifyListener, Listening
<1>3. ASSUME NEW u \in Url, getDatabase(u) PROVE Attached'
  <2>1. CASE NeedsListener
    BY <1>3, <2>1, ListeningAfterAdd, DatabaseAssumption DEF getDatabase
  <2>2. CASE ~NeedsListener
    BY <1>3, <2>2 DEF getDatabase, NeedsListener, vars, Listening
  <2> QED
    BY <2>1, <2>2
<1>4. ASSUME NEW u \in Url, DatabaseDeleted(u) PROVE Attached'
  BY <1>4 DEF DatabaseDeleted, vars, Listening
<1>5. CASE delete \/ DeletionEnds
  BY <1>5 DEF delete, DeletionEnds
<1>6. CASE TimerFires
  BY <1>6 DEF TimerFires, getToken, refreshToken, Listening
<1>7. CASE UNCHANGED allvars
  BY <1>7 DEF allvars, vars, dvars, Listening
<1> QED
  BY <1>1, <1>2, <1>3, <1>4, <1>5, <1>6, <1>7 DEF DNext

\* A token step that lets the timer be leaves it right.
LEMMA TokenStepKeepsTimer ==
  ASSUME TypeOK, ListenersInv, Attached, TimerSet, TokenStep, UNCHANGED dvars
  PROVE  TimerSet'
<1> USE DistinctValues DEF TypeOK, ListenersInv, InstalledByPastRun, ToldOrAhead
<1>0. ASSUME WantsTimer, cachedToken_' = cachedToken_ PROVE TimerSet'
  BY <1>0 DEF TimerSet, dvars
<1>1. SUFFICES ASSUME WantsTimer' PROVE WantsTimer /\ cachedToken_' = cachedToken_
  BY <1>0 DEF TimerSet
<1> USE DEF WantsTimer, dvars
<1>2. ASSUME NEW force \in BOOLEAN, getToken(force) PROVE WantsTimer /\ cachedToken_' = cachedToken_
  BY <1>1, <1>2 DEF getToken, refreshToken, DbAhead
<1>3. ASSUME NEW r \in Refresh, NEW a \in AccessToken, NEW x \in Lifetime,
             CredentialAnswers(r, a, x)
      PROVE  WantsTimer /\ cachedToken_' = cachedToken_
  <2>1. CASE cachedToken_ # NewToken(a, x)
    <3>1. PICK i \in 1..Len(tokenListeners_) : tokenListeners_[i] = db
      BY <1>1 DEF Attached, Listening
    <3>2. dispatch' = [refresh |-> r, token |-> NewToken(a, x), listeners |-> tokenListeners_, called |-> 0]
      BY <1>3, <2>1 DEF CredentialAnswers
    <3>3. dispatch'.listeners = tokenListeners_ /\ dispatch'.called = 0 /\ 0 < i
      BY <3>1, <3>2
    <3>4. NewToken(a, x) \in Token
      BY ConstantsAssumption DEF Token, NewToken
    <3>5. dispatch' # NoDispatch
      BY <3>2, <3>4 DEF Dispatch
    <3>6. DbAhead'
      BY <3>1, <3>3, <3>5 DEF DbAhead
    <3> QED
      BY <1>1, <3>6
  <2>2. CASE cachedToken_ = NewToken(a, x)
    <3>1. /\ UNCHANGED <<now, cachedToken_, installer, dispatch>>
          /\ phase[r] = "fetching"
          /\ result' = [result EXCEPT ![r] = NewToken(a, x)]
      BY <1>3, <2>2 DEF CredentialAnswers
    <3>2. installer # r /\ installer \in Refresh
      BY <1>1, <3>1
    <3> QED
      BY <1>1, <3>1, <3>2 DEF DbAhead
  <2> QED
    BY <2>1, <2>2
<1>4. ASSUME NEW r \in Refresh, CredentialFails(r) \/ Settle(r)
      PROVE  WantsTimer /\ cachedToken_' = cachedToken_
  BY <1>1, <1>4 DEF CredentialFails, Settle, DbAhead
<1>5. CASE EndDispatch
  BY <1>1, <1>5 DEF EndDispatch, DbAhead, Dispatch
<1>6. CASE ListenerThrows
  <2>1. dispatch \in Dispatch /\ installer = dispatch.refresh /\ dispatch.refresh \in Refresh
    BY <1>6 DEF ListenerThrows, Dispatch
  <2>2. result'[installer'] = Failed
    BY <1>6, <2>1 DEF ListenerThrows
  <2> QED
    BY <1>1, <2>2
<1>7. ASSUME NEW l \in Listener, addAuthTokenListener(l) \/ removeAuthTokenListener(l)
      PROVE  WantsTimer /\ cachedToken_' = cachedToken_
  BY <1>1, <1>7 DEF addAuthTokenListener, removeAuthTokenListener, DbAhead
<1>8. CASE Tick
  <2>1. cachedToken_ \in Token /\ cachedToken_.expirationTime \in Nat
    BY <1>1, <1>8 DEF Tick, Token
  <2> QED
    BY <1>1, <1>8, <2>1, DatabaseAssumption DEF Tick, DbAhead
<1> QED
  BY <1>2, <1>3, <1>4, <1>5, <1>6, <1>7, <1>8 DEF TokenStep, RunStep

\* Every step of the service leaves the timer right.
LEMMA TimerStep ==
  DTypeOK /\ ListenersInv /\ Attached /\ TimerSet /\ [DNext]_allvars => TimerSet'
<1> SUFFICES ASSUME DTypeOK, ListenersInv, Attached, TimerSet, [DNext]_allvars PROVE TimerSet'
  OBVIOUS
<1> USE DEF DTypeOK
<1>1. CASE TokenStep /\ UNCHANGED dvars
  BY <1>1, TokenStepKeepsTimer
<1>2. CASE /\ NotifyListener
           /\ tokenRefreshTimeout' = IF CallsDb THEN onTokenChange ELSE tokenRefreshTimeout
           /\ UNCHANGED <<tokenListener, databases, database, service, misused>>
  <2>1. /\ dispatch \in Dispatch /\ dispatch # NoDispatch
        /\ dispatch' = [dispatch EXCEPT !.called = dispatch.called + 1]
        /\ UNCHANGED <<cachedToken_, installer, result, now>>
    BY <1>2 DEF NotifyListener, TypeOK
  <2>2. /\ dispatch' \in Dispatch /\ dispatch' # NoDispatch /\ dispatch.called \in Nat
        /\ dispatch'.listeners = dispatch.listeners /\ dispatch'.called = dispatch.called + 1
    BY <2>1, DistinctValues DEF Dispatch
  <2>3. CASE CallsDb
    BY <1>2, <2>1, <2>3 DEF TimerSet, WantsTimer, onTokenChange
  <2>4. CASE ~CallsDb
    <3>1. DbAhead => DbAhead'
      <4>1. SUFFICES ASSUME DbAhead PROVE DbAhead'
        OBVIOUS
      <4>2. PICK i \in 1..Len(dispatch.listeners) : i > dispatch.called /\ dispatch.listeners[i] = db
        BY <4>1 DEF DbAhead
      <4>3. i # dispatch.called + 1
        BY <1>2, <2>1, <2>4, <4>2 DEF CallsDb, NotifyListener
      <4>4. i > dispatch'.called
        BY <2>2, <4>2, <4>3
      <4> QED
        BY <2>2, <4>2, <4>4 DEF DbAhead
    <3> QED
      BY <1>2, <2>1, <2>4, <3>1 DEF TimerSet, WantsTimer
  <2> QED
    BY <2>3, <2>4
<1>3. ASSUME NEW u \in Url, getDatabase(u) PROVE TimerSet'
  <2>1. CASE NeedsListener
    BY <1>3, <2>1 DEF getDatabase, addAuthTokenListener, TimerSet, WantsTimer, onTokenChange
  <2>2. CASE ~NeedsListener
    BY <1>3, <2>2 DEF getDatabase, NeedsListener, vars, TimerSet, WantsTimer, DbAhead
  <2> QED
    BY <2>1, <2>2
<1>4. ASSUME NEW u \in Url, DatabaseDeleted(u) PROVE TimerSet'
  BY <1>4 DEF DatabaseDeleted, vars, TimerSet, WantsTimer, DbAhead
<1>5. CASE delete
  BY <1>5 DEF delete, TimerSet, WantsTimer
<1>6. CASE DeletionEnds
  BY <1>6 DEF DeletionEnds, TimerSet, WantsTimer
<1>7. CASE TimerFires
  <2>1. /\ UNCHANGED <<cachedToken_, installer, result, now, dispatch, tokenListener, service>>
        /\ tokenRefreshTimeout <= now
    BY <1>7 DEF TimerFires, getToken, refreshToken
  <2>2. WantsTimer => cachedToken_ \in Token /\ cachedToken_.expirationTime \in Nat
    BY DEF WantsTimer, TypeOK, Token
  <2>3. ~WantsTimer
    BY <2>1, <2>2, DatabaseAssumption DEF TimerSet, WantsTimer, TypeOK
  <2> QED
    BY <2>1, <2>3 DEF TimerSet, WantsTimer, DbAhead
<1>8. CASE UNCHANGED allvars
  BY <1>8 DEF allvars, vars, dvars, TimerSet, WantsTimer, DbAhead
<1> QED
  BY <1>1, <1>2, <1>3, <1>4, <1>5, <1>6, <1>7, <1>8 DEF DNext

\* Whenever the app's token changes, and whatever refreshes answer in whatever
\* order, the timer that refreshes the cached token in time is set.
THEOREM TimerScheduled == DSpec => []RefreshIsScheduled
<1>1. DInit => Attached /\ TimerSet
  BY DEF DInit, Attached, TimerSet, WantsTimer
<1>2. TimerSet => RefreshIsScheduled
  BY DEF TimerSet, WantsTimer, DbAhead, RefreshIsScheduled, Idle
<1> QED
  BY <1>1, <1>2, AttachedStep, TimerStep, DTypeCorrect, TokenInvHolds, PTL DEF DSpec
=============================================================================
