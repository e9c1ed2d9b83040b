------------------------------ MODULE KeyCache ------------------------------
(***************************************************************************)
(* The cache of public keys that token signatures are checked with:        *)
(* UrlKeyFetcher (ID tokens, session cookies) and JwksFetcher (App Check)  *)
(* in src/src/utils/jwt.ts.                                                *)
(*                                                                         *)
(* Nothing shares a refresh: every call that finds the cache stale sends a *)
(* request of its own, and the last answer to arrive is the one that stays.*)
(***************************************************************************)
EXTENDS Integers

CONSTANTS
  Call,        \* the calls of fetchPublicKeys()
  Kid,         \* key ids; each stands for its key too
  KeySet,      \* bound: the key sets that the server may publish
  MaxAge,      \* the age the server allows a key set, or JwksFetcher's six hours
  MaxCalls,    \* bound: how many calls the key server answers
  MaxTime,     \* bound: the clock stops here
  MaxRotations,\* bound: how often the published keys change
  NoKeys

ASSUME ConstantsAssumption ==
  /\ MaxAge \in Nat \ {0} /\ MaxTime \in Nat /\ MaxCalls \in Nat /\ MaxRotations \in Nat
  /\ KeySet \subseteq SUBSET Kid /\ \A ks \in KeySet : NoKeys # ks

VARIABLES
  jwks,                \* is this a JwksFetcher?
  now,                 \* Date.now()
  published,           \* the keys that the key server serves
  rotations,           \* how often they have changed
  publicKeys,
  publicKeysExpireAt,
  fetch,               \* where each call stands
  keys,                \* the key set on its way to each call, or given to it
  age,                 \* history: how old the keys were that a call was given
  received,            \* history: when the cached keys were received
  order,               \* history: in what order the server answered the calls
  newest,              \* history: the keys of the newest answer received
  unpublished,         \* history: the keys not always published
  overlapped           \* history: was a refresh begun while one was under way?

codeVars == <<publicKeys, publicKeysExpireAt, fetch, keys>>

history == <<age, received, order, newest, unpublished, overlapped>>

cacheVars == <<jwks, now, published, rotations, codeVars, history>>

FetchStatus == {"none", "sent", "answered", "given", "failed"}

UnderWay == {c \in Call : fetch[c] \in {"sent", "answered"}}
-----------------------------------------------------------------------------
CacheInit ==
  /\ jwks \in BOOLEAN
  /\ now = 0
  /\ published \in KeySet
  /\ rotations = 0
  /\ publicKeys = NoKeys
  /\ publicKeysExpireAt = 0
  /\ fetch = [c \in Call |-> "none"]
  /\ keys = [c \in Call |-> NoKeys]
  /\ age = [c \in Call |-> 0]
  /\ received = 0
  /\ order = [c \in Call |-> 0]
  /\ newest = [order |-> 0, keys |-> NoKeys]
  /\ unpublished = Kid \ published
  /\ overlapped = FALSE

\* Faulty variant: the keys are kept for good.
shouldRefreshOnce == publicKeys = NoKeys

shouldRefresh == publicKeys = NoKeys \/ publicKeysExpireAt <= now

\* fetchPublicKeys() sends a request, or resolves with the cached keys.
fetchPublicKeys(c) ==
  /\ fetch[c] = "none"
  /\ IF shouldRefresh
     THEN /\ fetch' = [fetch EXCEPT ![c] = "sent"]
          /\ overlapped' = (overlapped \/ UnderWay # {})
          /\ UNCHANGED <<keys, age>>
     ELSE /\ fetch' = [fetch EXCEPT ![c] = "given"]
          /\ keys' = [keys EXCEPT ![c] = publicKeys]
          /\ age' = [age EXCEPT ![c] = now - received]
          /\ UNCHANGED overlapped
  /\ UNCHANGED <<jwks, now, published, rotations, publicKeys, publicKeysExpireAt, received, order, newest,
                 unpublished>>

\* The key server answers with the keys it has now; the answer takes its time.
ServerAnswers(c) ==
  /\ fetch[c] = "sent"
  /\ fetch' = [fetch EXCEPT ![c] = "answered"]
  /\ keys' = [keys EXCEPT ![c] = published]
  /\ \E n \in 1..MaxCalls :
       /\ \A d \in Call : order[d] < n
       /\ n = 1 \/ \E d \in Call : order[d] = n - 1
       /\ order' = [order EXCEPT ![c] = n]
  /\ UNCHANGED <<jwks, now, published, rotations, publicKeys, publicKeysExpireAt, age, received, newest,
                 unpublished, overlapped>>

\* When the keys of an answer expire: a certificate URL may not send a max-age.
ExpiresAt == IF jwks THEN {now + MaxAge} ELSE {now + MaxAge, 0}

\* Faulty variant: the answer is returned, but the cache keeps its first keys.
InstalledOnce(c) == IF publicKeys = NoKeys THEN keys[c] ELSE publicKeys

Installed(c) == keys[c]

\* The answer arrives: the cache takes its keys, and so does the call.
RefreshEnds(c) ==
  /\ fetch[c] = "answered"
  /\ fetch' = [fetch EXCEPT ![c] = "given"]
  /\ publicKeys' = Installed(c)
  /\ publicKeysExpireAt' \in ExpiresAt
  /\ received' = now
  /\ newest' = IF newest.order < order[c] THEN [order |-> order[c], keys |-> keys[c]] ELSE newest
  /\ UNCHANGED <<jwks, now, published, rotations, keys, age, order, unpublished, overlapped>>

\* The request fails, or is answered with something that is no key set.
\* JwksFetcher has already expired the keys it holds when it meets a key that
\* it cannot read.
RefreshFails(c) ==
  /\ fetch[c] = "sent"
  /\ fetch' = [fetch EXCEPT ![c] = "failed"]
  /\ \/ UNCHANGED publicKeysExpireAt
     \/ jwks /\ publicKeysExpireAt' = 0
  /\ UNCHANGED <<jwks, now, published, rotations, publicKeys, keys, history>>

\* The key server changes its keys.
Rotate ==
  /\ rotations < MaxRotations
  /\ rotations' = rotations + 1
  /\ published' \in KeySet
  /\ unpublished' = unpublished \cup (Kid \ published')
  /\ UNCHANGED <<jwks, now, codeVars, age, received, order, newest, overlapped>>

Tick ==
  /\ now < MaxTime
  /\ now' = now + 1
  /\ UNCHANGED <<jwks, published, rotations, codeVars, history>>

FetchStep(c) == ServerAnswers(c) \/ RefreshEnds(c) \/ RefreshFails(c)
-----------------------------------------------------------------------------
(***************************************************************************)
(* Properties.                                                             *)
(***************************************************************************)
CacheTypeOK ==
  /\ jwks \in BOOLEAN
  /\ now \in Nat
  /\ published \in KeySet
  /\ rotations \in Nat
  /\ publicKeys \in {NoKeys} \cup KeySet
  /\ publicKeysExpireAt \in Nat /\ publicKeysExpireAt <= now + MaxAge
  /\ fetch \in [Call -> FetchStatus]
  /\ keys \in [Call -> {NoKeys} \cup KeySet]
  /\ age \in [Call -> Int]
  /\ received \in Nat
  /\ order \in [Call -> Nat]
  /\ newest \in [order : Nat, keys : {NoKeys} \cup KeySet]
  /\ unpublished \in SUBSET Kid
  /\ overlapped \in BOOLEAN

\* As long as no two refreshes are under way together, the cache holds the keys
\* of the newest answer: an older one never takes its place.
CacheIsNewest == ~overlapped => publicKeys = newest.keys
=============================================================================
