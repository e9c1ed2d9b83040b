------------------------ MODULE TokenVerifier_proofs ------------------------
(***************************************************************************)
(* Proofs about KeyCache and TokenVerifier: which tokens are accepted, with *)
(* which keys, for which users, and why tokens are refused.                *)
(***************************************************************************)
EXTENDS TokenVerifier, TLAPS

\* The cache: every key that an answer lacks was unpublished at some time, and no
\* call is given keys that have expired.
CachedOk ==
  publicKeys # NoKeys =>
    /\ Kid \ publicKeys \subseteq unpublished
    /\ received <= now /\ publicKeysExpireAt <= received + MaxAge

CallOk(c) ==
  /\ fetch[c] \in {"answered", "given"} => keys[c] # NoKeys /\ Kid \ keys[c] \subseteq unpublished
  /\ age[c] < MaxAge

KeyInv ==
  /\ CacheTypeOK
  /\ Kid \ published \subseteq unpublished
  /\ CachedOk
  /\ \A c \in Call : CallOk(c)

CacheStep ==
  \/ \E c \in Call : fetchPublicKeys(c) \/ FetchStep(c)
  \/ Rotate
  \/ Tick
  \/ UNCHANGED cacheVars

\* What no step of the cache takes from a call that has its keys.
CacheStays ==
  /\ jwks' = jwks
  /\ unpublished \subseteq unpublished'
  /\ \A c \in Call : fetch[c] = "given" =>
       fetch'[c] = "given" /\ keys'[c] = keys[c] /\ age'[c] = age[c]

LEMMA KeyStep == ASSUME KeyInv, CacheStep PROVE KeyInv' /\ CacheStays
<1> USE ConstantsAssumption
<1>1. ASSUME NEW c \in Call, fetchPublicKeys(c) PROVE KeyInv' /\ CacheStays
  <2>1. CASE shouldRefresh
    <3>1. /\ fetch' = [fetch EXCEPT ![c] = "sent"] /\ overlapped' \in BOOLEAN
          /\ UNCHANGED <<jwks, now, published, rotations, publicKeys, publicKeysExpireAt, keys, age,
                         received, order, newest, unpublished>>
          /\ fetch[c] = "none"
      BY <1>1, <2>1 DEF fetchPublicKeys, KeyInv, CacheTypeOK
    <3>2. CacheTypeOK'
      BY <3>1 DEF KeyInv, CacheTypeOK, FetchStatus
    <3>3. \A d \in Call : CallOk(d)'
      BY <3>1 DEF KeyInv, CallOk, CacheTypeOK
    <3> QED
      BY <3>1, <3>2, <3>3 DEF KeyInv, CachedOk, CacheStays, CacheTypeOK
  <2>2. CASE ~shouldRefresh
    <3>1. /\ fetch' = [fetch EXCEPT ![c] = "given"] /\ keys' = [keys EXCEPT ![c] = publicKeys]
          /\ age' = [age EXCEPT ![c] = now - received]
          /\ UNCHANGED <<jwks, now, published, rotations, publicKeys, publicKeysExpireAt,
                         received, order, newest, unpublished, overlapped>>
          /\ fetch[c] = "none"
      BY <1>1, <2>2 DEF fetchPublicKeys
    <3>2. publicKeys # NoKeys /\ now < publicKeysExpireAt
      BY <2>2 DEF shouldRefresh, KeyInv, CacheTypeOK
    <3>3. CacheTypeOK'
      BY <3>1 DEF KeyInv, CacheTypeOK, FetchStatus
    <3>4. now - received < MaxAge
      BY <3>2 DEF KeyInv, CachedOk, CacheTypeOK
    <3>5. \A d \in Call : CallOk(d)'
      BY <3>1, <3>2, <3>4 DEF KeyInv, CallOk, CachedOk, CacheTypeOK
    <3> QED
      BY <3>1, <3>3, <3>5 DEF KeyInv, CachedOk, CacheStays, CacheTypeOK
  <2> QED
    BY <2>1, <2>2
<1>2. ASSUME NEW c \in Call, ServerAnswers(c) PROVE KeyInv' /\ CacheStays
  <2>1. /\ fetch[c] = "sent" /\ fetch' = [fetch EXCEPT ![c] = "answered"]
        /\ keys' = [keys EXCEPT ![c] = published]
        /\ \E n \in 1..MaxCalls : order' = [order EXCEPT ![c] = n]
        /\ UNCHANGED <<jwks, now, published, rotations, publicKeys, publicKeysExpireAt, age,
                       received, newest, unpublished, overlapped>>
    BY <1>2 DEF ServerAnswers
  <2>2. CacheTypeOK'
    BY <2>1 DEF KeyInv, CacheTypeOK, FetchStatus
  <2>3. published # NoKeys
    BY DEF KeyInv, CacheTypeOK
  <2>4. \A d \in Call : CallOk(d)'
    BY <2>1, <2>3 DEF KeyInv, CallOk, CacheTypeOK
  <2> QED
    BY <2>1, <2>2, <2>4 DEF KeyInv, CachedOk, CacheStays, CacheTypeOK
<1>3. ASSUME NEW c \in Call, RefreshEnds(c) PROVE KeyInv' /\ CacheStays
  <2>1. /\ fetch[c] = "answered" /\ fetch' = [fetch EXCEPT ![c] = "given"]
        /\ publicKeys' = keys[c] /\ received' = now
        /\ UNCHANGED <<jwks, now, published, rotations, keys, age, order, unpublished, overlapped>>
    BY <1>3 DEF RefreshEnds, Installed
  <2>2. publicKeysExpireAt' \in Nat /\ publicKeysExpireAt' <= now + MaxAge
    BY <1>3 DEF RefreshEnds, ExpiresAt, KeyInv, CacheTypeOK
  <2>3. newest' \in [order : Nat, keys : {NoKeys} \cup KeySet]
    BY <1>3 DEF RefreshEnds, KeyInv, CacheTypeOK
  <2>4. CacheTypeOK'
    BY <2>1, <2>2, <2>3 DEF KeyInv, CacheTypeOK, FetchStatus
  <2>5. \A d \in Call : CallOk(d)'
    BY <2>1 DEF KeyInv, CallOk, CacheTypeOK
  <2>6. CachedOk'
    BY <2>1, <2>2 DEF KeyInv, CachedOk, CallOk, CacheTypeOK
  <2> QED
    BY <2>1, <2>4, <2>5, <2>6 DEF KeyInv, CacheStays, CacheTypeOK
<1>4. ASSUME NEW c \in Call, RefreshFails(c) PROVE KeyInv' /\ CacheStays
  <2>1. /\ fetch[c] = "sent" /\ fetch' = [fetch EXCEPT ![c] = "failed"]
        /\ publicKeysExpireAt' \in {publicKeysExpireAt, 0}
        /\ UNCHANGED <<jwks, now, published, rotations, publicKeys, keys, history>>
    BY <1>4 DEF RefreshFails
  <2>2. CacheTypeOK'
    BY <2>1 DEF KeyInv, CacheTypeOK, FetchStatus, history
  <2>3. \A d \in Call : CallOk(d)'
    BY <2>1 DEF KeyInv, CallOk, CacheTypeOK, history
  <2> QED
    BY <2>1, <2>2, <2>3 DEF KeyInv, CachedOk, CacheStays, CacheTypeOK, history
<1>5. CASE Rotate
  <2>1. /\ published' \in KeySet /\ rotations' = rotations + 1
        /\ unpublished' = unpublished \cup (Kid \ published')
        /\ UNCHANGED <<jwks, now, codeVars, age, received, order, newest, overlapped>>
    BY <1>5 DEF Rotate
  <2>2. CacheTypeOK'
    BY <2>1 DEF KeyInv, CacheTypeOK, codeVars
  <2>3. \A d \in Call : CallOk(d)'
    BY <2>1 DEF KeyInv, CallOk, codeVars
  <2> QED
    BY <2>1, <2>2, <2>3 DEF KeyInv, CachedOk, CacheStays, codeVars
<1>6. CASE Tick
  <2>1. now' = now + 1 /\ UNCHANGED <<jwks, published, rotations, codeVars, history>>
    BY <1>6 DEF Tick
  <2> QED
    BY <2>1 DEF KeyInv, CacheTypeOK, CachedOk, CallOk, CacheStays, codeVars, history
<1>7. CASE UNCHANGED cacheVars
  BY <1>7 DEF cacheVars, codeVars, history, KeyInv, CacheTypeOK, CachedOk, CallOk, CacheStays
<1> QED
  BY <1>1, <1>2, <1>3, <1>4, <1>5, <1>6, <1>7 DEF CacheStep, FetchStep

-----------------------------------------------------------------------------
\* What is known of a verification in each phase.
Genuine(v) ==
  /\ phase[v] \in {"signature", "withoutKid", "user", "accepted"} => verifyContent(asked[v].token)
  /\ phase[v] \in {"user", "accepted"} /\ ~emulator =>
       fetch[Awaited(v)] = "given" /\ SignedBy(asked[v].token, keys[Awaited(v)])
  /\ phase[v] = "accepted" /\ asked[v].tenantId # NoTenant =>
       asked[v].token.tenant = asked[v].tenantId

Watched(v) ==
  /\ phase[v] \in Active /\ GoodFor(user, asked[v].token) => wasGood[v]
  /\ phase[v] = "accepted" /\ (asked[v].check \/ emulator) => wasGood[v]

Refused(v) ==
  (/\ phase[v] \in {"noMatchingKid", "invalidSignature"}
   /\ ~emulator
   /\ asked[v].token.kid \in {NoKid, asked[v].token.signer}) => asked[v].token.signer \in unpublished

VerifyTypeOK ==
  /\ emulator \in BOOLEAN
  /\ phase \in [Verification -> {"unused"} \cup Active \cup Outcome]
  /\ asked \in [Verification -> Asked \cup {NotAsked}]
  /\ \A v \in Verification : phase[v] # "unused" => asked[v] \in Asked
  /\ user \in [disabled : BOOLEAN, validSince : Nat]
  /\ wasGood \in [Verification -> BOOLEAN]

\* The fields of what is asked.
LEMMA AskedFields ==
  ASSUME NEW q \in Asked
  PROVE  /\ q.token \in Token /\ q.check \in BOOLEAN /\ q.tenantId \in Tenant \cup {NoTenant}
         /\ q.token.kid \in Kid \cup {NoKid} /\ q.token.signer \in Kid \cup {Unsigned}
         /\ q.token.auth_time \in Nat
BY AskedAssumption DEF Token

LEMMA AwaitedCall == ASSUME NEW v \in Verification PROVE Awaited(v) \in Call
BY CallAssumption DEF Awaited

VerifyInv ==
  /\ KeyInv
  /\ VerifyTypeOK
  /\ \A v \in Verification : Genuine(v) /\ Watched(v) /\ Refused(v)

\* A verification that does not move keeps what is known of it.
LEMMA OthersStay ==
  ASSUME VerifyInv, CacheStays, NEW v \in Verification,
         UNCHANGED <<emulator, user>>, phase'[v] = phase[v], asked'[v] = asked[v], wasGood'[v] = wasGood[v]
  PROVE  (Genuine(v) /\ Watched(v) /\ Refused(v))'
<1>1. Awaited(v)' = Awaited(v) /\ Awaited(v) \in Call
  BY AwaitedCall DEF Awaited
<1>2. jwks' = jwks /\ unpublished \subseteq unpublished'
  BY DEF CacheStays
<1>3. fetch[Awaited(v)] = "given" =>
        fetch'[Awaited(v)] = "given" /\ keys'[Awaited(v)] = keys[Awaited(v)]
  BY <1>1 DEF CacheStays
<1>4. verifyContent(asked[v].token)' <=> verifyContent(asked[v].token)
  BY <1>2 DEF verifyContent
<1>5. Genuine(v)'
  <2>1. Genuine(v)
    BY DEF VerifyInv
  <2>2. phase[v] \in {"user", "accepted"} /\ ~emulator =>
          fetch'[Awaited(v)] = "given" /\ SignedBy(asked[v].token, keys'[Awaited(v)])
    BY <1>3, <2>1 DEF Genuine
  <2> QED
    BY <1>1, <1>4, <2>1, <2>2 DEF Genuine
<1>6. Watched(v)'
  BY DEF VerifyInv, Watched
<1>7. Refused(v)'
  BY <1>2 DEF VerifyInv, Refused
<1> QED
  BY <1>5, <1>6, <1>7

\* Phases in which nothing is claimed of a verification but that its user is watched.
LEMMA MoveStep ==
  ASSUME VerifyInv, CacheStep, NEW v \in Verification, NEW x \in Active \cup Outcome,
         phase[v] \in Active, phase' = [phase EXCEPT ![v] = x], UNCHANGED <<emulator, asked, user, wasGood>>,
         (Genuine(v) /\ Refused(v))',
         x = "accepted" => (asked[v].check \/ emulator => wasGood[v])
  PROVE  VerifyInv'
<1>1. KeyInv' /\ CacheStays
  BY KeyStep DEF VerifyInv
<1>2. VerifyTypeOK'
  BY DEF VerifyInv, VerifyTypeOK, Active
<1>3. ASSUME NEW w \in Verification, w # v PROVE (Genuine(w) /\ Watched(w) /\ Refused(w))'
  <2>1. phase'[w] = phase[w]
    BY <1>3 DEF VerifyInv, VerifyTypeOK
  <2> QED
    BY <1>1, <2>1, OthersStay
<1>4. Watched(v)'
  <2>1. phase'[v] = x
    BY DEF VerifyInv, VerifyTypeOK
  <2>2. GoodFor(user, asked[v].token) => wasGood[v]
    BY DEF VerifyInv, Watched
  <2> QED
    BY <2>1, <2>2 DEF Watched
<1> QED
  BY <1>1, <1>2, <1>3, <1>4 DEF VerifyInv

\* What jwt.verify's outcome says of the keys.
LEMMA SignatureFacts ==
  ASSUME VerifyInv, NEW v \in Verification, phase[v] = "signature",
         emulator \/ fetch[Awaited(v)] \in {"given", "failed"}
  PROVE  /\ SignatureOutcome(v) \in {"ok", "invalidSignature", "expired", "keyFetchError", "noMatchingKid"}
         /\ SignatureOutcome(v) = "ok" /\ ~emulator =>
              fetch[Awaited(v)] = "given" /\ SignedBy(asked[v].token, keys[Awaited(v)])
         /\ (/\ SignatureOutcome(v) \in {"noMatchingKid", "invalidSignature"}
             /\ ~emulator
             /\ asked[v].token.kid \in {NoKid, asked[v].token.signer}) =>
              asked[v].token.signer \in unpublished
<1> DEFINE t == asked[v].token
           ks == keys[Awaited(v)]
<1>1. asked[v] \in Asked
  BY DEF VerifyInv, VerifyTypeOK
<1>2. SignatureOutcome(v) \in {"ok", "invalidSignature", "expired", "keyFetchError", "noMatchingKid"}
  BY DEF SignatureOutcome
<1>3. SignatureOutcome(v) = "ok" /\ ~emulator => fetch[Awaited(v)] = "given" /\ SignedBy(t, ks)
  BY DEF SignatureOutcome
<1>4. ASSUME SignatureOutcome(v) \in {"noMatchingKid", "invalidSignature"}, ~emulator,
             t.kid \in {NoKid, t.signer}
      PROVE  t.signer \in unpublished
  <2>1. fetch[Awaited(v)] = "given" /\ t.signer \notin ks
    <3>1. fetch[Awaited(v)] = "given"
      BY <1>4 DEF SignatureOutcome
    <3>2. (t.kid # NoKid /\ t.kid \notin ks) \/ ~SignedBy(t, ks)
      BY <1>4 DEF SignatureOutcome
    <3> QED
      BY <1>4, <3>1, <3>2 DEF SignedBy
  <2>2. Kid \ ks \subseteq unpublished
    BY <2>1, AwaitedCall DEF VerifyInv, KeyInv, CallOk
  <2>3. verifyContent(t)
    BY DEF VerifyInv, Genuine
  <2>4. t.signer \in Kid
    <3>1. t.signer # Unsigned
      BY <1>4, <2>3 DEF verifyContent
    <3> QED
      BY <1>1, <3>1, AskedFields
  <2> QED
    BY <2>1, <2>2, <2>4
<1> QED
  BY <1>2, <1>3, <1>4

\* A step of a verification that is under way.
LEMMA VerifyStepKeeps == ASSUME VerifyInv, NEW v \in Verification, VerifyStep(v) PROVE VerifyInv'
<1>0. Genuine(v) /\ Refused(v) /\ Watched(v) /\ phase \in [Verification -> {"unused"} \cup Active \cup Outcome]
  BY DEF VerifyInv, VerifyTypeOK
<1>1. CASE decodeAndVerify(v)
  <2>1. CacheStep
    BY <1>1, CallAssumption DEF decodeAndVerify, CacheStep
  <2>2. PICK x \in {"invalidArgument", "withoutKid", "signature"} :
          /\ phase' = [phase EXCEPT ![v] = x]
          /\ x # "invalidArgument" => verifyContent(asked[v].token)
    BY <1>1 DEF decodeAndVerify, Settles
  <2>3. phase[v] = "project" /\ UNCHANGED <<emulator, asked, user, wasGood>>
    BY <1>1 DEF decodeAndVerify
  <2>4. phase'[v] = x
    BY <1>0, <2>2
  <2>5. verifyContent(asked[v].token)' <=> verifyContent(asked[v].token)
    BY <2>1, <2>3, KeyStep DEF VerifyInv, CacheStays, verifyContent
  <2>6. (Genuine(v) /\ Refused(v))'
    BY <2>2, <2>3, <2>4, <2>5 DEF Genuine, Refused
  <2> QED
    BY <2>1, <2>2, <2>3, <2>6, MoveStep DEF Active, Outcome
<1>2. CASE ProjectIdFails(v) \/ GetUserFails(v)
  <2>1. PICK x \in {"invalidArgument", "userError"} : phase' = [phase EXCEPT ![v] = x]
    BY <1>2 DEF ProjectIdFails, GetUserFails, Settles
  <2>2. phase[v] \in Active /\ UNCHANGED <<cacheVars, emulator, asked, user, wasGood>>
    BY <1>2 DEF ProjectIdFails, GetUserFails, Active
  <2>3. (Genuine(v) /\ Refused(v))'
    BY <1>0, <2>1 DEF Genuine, Refused
  <2> QED
    BY <2>1, <2>2, <2>3, MoveStep DEF Active, Outcome, CacheStep
<1>3. CASE verifyWithoutKid(v)
  <2>1. CacheStep
    BY <1>3, CallAssumption DEF verifyWithoutKid, CacheStep
  <2>2. /\ phase[v] = "withoutKid" /\ phase' = [phase EXCEPT ![v] = "signature"]
        /\ UNCHANGED <<emulator, asked, user, wasGood>>
    BY <1>3 DEF verifyWithoutKid, Settles
  <2>3. phase'[v] = "signature"
    BY <1>0, <2>2
  <2>4. verifyContent(asked[v].token)'
    BY <1>0, <2>1, <2>2, KeyStep DEF VerifyInv, CacheStays, verifyContent, Genuine
  <2>5. (Genuine(v) /\ Refused(v))'
    BY <2>2, <2>3, <2>4 DEF Genuine, Refused
  <2> QED
    BY <2>1, <2>2, <2>5, MoveStep DEF Active, Outcome
<1>4. CASE verifySignature(v)
  <2> DEFINE x == IF SignatureOutcome(v) # "ok" THEN SignatureOutcome(v)
                  ELSE IF ChecksUser(v) THEN "user" ELSE CheckedTenant(v)
  <2>1. /\ phase[v] = "signature" /\ phase' = [phase EXCEPT ![v] = x]
        /\ UNCHANGED <<cacheVars, emulator, asked, user, wasGood>>
        /\ emulator \/ fetch[Awaited(v)] \in {"given", "failed"}
    BY <1>4 DEF verifySignature, Settles
  <2>2. phase'[v] = x
    BY <1>0, <2>1
  <2>3. /\ x \in Active \cup Outcome
        /\ x \notin {"signature", "withoutKid"}
        /\ x \in {"user", "accepted"} => SignatureOutcome(v) = "ok"
        /\ x \in {"noMatchingKid", "invalidSignature"} => SignatureOutcome(v) = x
        /\ x = "accepted" => CheckedTenant(v) = "accepted" /\ ~ChecksUser(v)
    BY <2>1, SignatureFacts DEF Active, Outcome, CheckedTenant
  <2>4. UNCHANGED <<jwks, fetch, keys, unpublished, emulator, asked>>
    BY <2>1 DEF cacheVars, codeVars, history
  <2>5. Genuine(v)'
    <3> HIDE DEF x
    <3>1. verifyContent(asked[v].token)
      BY <1>0, <2>1 DEF Genuine
    <3>2. x \in {"user", "accepted"} /\ ~emulator =>
            fetch[Awaited(v)] = "given" /\ SignedBy(asked[v].token, keys[Awaited(v)])
      BY <2>1, <2>3, SignatureFacts
    <3>3. x = "accepted" /\ asked[v].tenantId # NoTenant => asked[v].token.tenant = asked[v].tenantId
      BY <2>3 DEF CheckedTenant
    <3> QED
      BY <2>2, <2>4, <3>1, <3>2, <3>3 DEF Genuine, verifyContent, SignedBy, Awaited
  <2>6. Refused(v)'
    <3> HIDE DEF x
    <3>1. (/\ x \in {"noMatchingKid", "invalidSignature"} /\ ~emulator
           /\ asked[v].token.kid \in {NoKid, asked[v].token.signer}) =>
             asked[v].token.signer \in unpublished
      BY <2>1, <2>3, SignatureFacts
    <3> QED
      BY <2>2, <2>4, <3>1 DEF Refused
  <2>7. x = "accepted" => ~(asked[v].check \/ emulator)
    BY <2>3 DEF ChecksUser
  <2> HIDE DEF x
  <2> QED
    BY <2>1, <2>3, <2>5, <2>6, <2>7, MoveStep DEF Active, CacheStep
<1>5. CASE verifyDecodedJWTNotRevokedOrDisabled(v)
  <2>1. PICK x \in {"userError", "disabled", "revoked", "mismatchingTenant", "accepted"} :
          /\ phase' = [phase EXCEPT ![v] = x]
          /\ x = "accepted" => CheckedTenant(v) = "accepted" /\ ~user.disabled /\ ~Revoked(user, asked[v].token)
    BY <1>5 DEF verifyDecodedJWTNotRevokedOrDisabled, Settles, CheckedTenant
  <2>2. phase[v] = "user" /\ UNCHANGED <<cacheVars, emulator, asked, user, wasGood>>
    BY <1>5 DEF verifyDecodedJWTNotRevokedOrDisabled
  <2>3. phase'[v] = x
    BY <1>0, <2>1
  <2>4. UNCHANGED <<jwks, fetch, keys, unpublished, emulator, asked>>
    BY <2>2 DEF cacheVars, codeVars, history
  <2>5. Genuine(v)'
    <3>1. x = "accepted" /\ asked[v].tenantId # NoTenant => asked[v].token.tenant = asked[v].tenantId
      BY <2>1 DEF CheckedTenant
    <3> QED
      BY <1>0, <2>2, <2>3, <2>4, <3>1 DEF Genuine, verifyContent, SignedBy, Awaited
  <2>6. Refused(v)'
    BY <2>3 DEF Refused
  <2>7. x = "accepted" => wasGood[v]
    <3>1. x = "accepted" => GoodFor(user, asked[v].token)
      <4>1. asked[v] \in Asked /\ user \in [disabled : BOOLEAN, validSince : Nat]
        BY <2>2 DEF VerifyInv, VerifyTypeOK
      <4>2. asked[v].token.auth_time \in Nat /\ user.validSince \in Nat
        BY <4>1, AskedFields
      <4> QED
        BY <2>1, <4>2 DEF GoodFor, Revoked
    <3> QED
      BY <1>0, <2>2, <3>1 DEF Watched, Active
  <2> QED
    BY <2>1, <2>2, <2>5, <2>6, <2>7, MoveStep DEF Active, Outcome, CacheStep
<1> QED
  BY <1>1, <1>2, <1>3, <1>4, <1>5 DEF VerifyStep

\* The user's record changes: whoever finds it good has seen it good.
LEMMA ChangeUserKeeps ==
  ASSUME VerifyInv, NEW u \in [disabled : BOOLEAN, validSince : Nat], ChangeUser(u)
  PROVE  VerifyInv'
<1>1. /\ user' = u /\ UNCHANGED <<cacheVars, emulator, phase, asked>>
      /\ wasGood' = [v \in Verification |->
                       wasGood[v] \/ (phase[v] \in Active /\ GoodFor(u, asked[v].token))]
  BY DEF ChangeUser
<1>2. KeyInv'
  BY <1>1, KeyStep DEF CacheStep, VerifyInv
<1>3. VerifyTypeOK'
  <2>1. wasGood' \in [Verification -> BOOLEAN]
    BY <1>1 DEF VerifyInv, VerifyTypeOK
  <2> QED
    BY <1>1, <2>1 DEF VerifyInv, VerifyTypeOK
<1>4. ASSUME NEW v \in Verification PROVE (Genuine(v) /\ Watched(v) /\ Refused(v))'
  <2>1. UNCHANGED <<jwks, fetch, keys, unpublished, emulator, phase, asked>>
    BY <1>1 DEF cacheVars, codeVars, history
  <2>2. (Genuine(v) /\ Refused(v))'
    BY <2>1 DEF VerifyInv, Genuine, Refused, verifyContent, SignedBy, Awaited
  <2>3. wasGood'[v] <=> wasGood[v] \/ (phase[v] \in Active /\ GoodFor(u, asked[v].token))
    BY <1>1
  <2>4. Watched(v)'
    BY <1>1, <2>1, <2>3 DEF VerifyInv, Watched
  <2> QED
    BY <2>2, <2>4
<1> QED
  BY <1>2, <1>3, <1>4 DEF VerifyInv

LEMMA VerifyNext == VerifyInv /\ [Next]_vars => VerifyInv'
<1> SUFFICES ASSUME VerifyInv, [Next]_vars PROVE VerifyInv'
  OBVIOUS
<1>1. ASSUME NEW v \in Verification, NEW q \in Asked, verifyIdToken(v, q) PROVE VerifyInv'
  <2>1. /\ phase' = [phase EXCEPT ![v] = "project"] /\ asked' = [asked EXCEPT ![v] = q]
        /\ wasGood' = [wasGood EXCEPT ![v] = GoodFor(user, q.token)]
        /\ UNCHANGED <<cacheVars, emulator, user>>
    BY <1>1 DEF verifyIdToken
  <2>2. CacheStep
    BY <2>1 DEF CacheStep
  <2>3. KeyInv' /\ CacheStays
    BY <2>2, KeyStep DEF VerifyInv
  <2>4. GoodFor(user, q.token) \in BOOLEAN
    BY Zenon DEF GoodFor
  <2>5. VerifyTypeOK'
    <3>1. wasGood' \in [Verification -> BOOLEAN]
      BY <2>1, <2>4 DEF VerifyInv, VerifyTypeOK
    <3> QED
      BY <2>1, <3>1 DEF VerifyInv, VerifyTypeOK, Active
  <2>6. ASSUME NEW w \in Verification, w # v PROVE (Genuine(w) /\ Watched(w) /\ Refused(w))'
    <3>1. phase'[w] = phase[w] /\ asked'[w] = asked[w] /\ wasGood'[w] = wasGood[w]
      BY <2>1, <2>6 DEF VerifyInv, VerifyTypeOK
    <3> QED
      BY <2>1, <2>3, <3>1, OthersStay
  <2>7. (Genuine(v) /\ Watched(v) /\ Refused(v))'
    <3>1. phase'[v] = "project" /\ asked'[v] = q
      BY <2>1 DEF VerifyInv, VerifyTypeOK
    <3>2. wasGood'[v] <=> GoodFor(user, q.token)
      BY <2>1, <2>4 DEF VerifyInv, VerifyTypeOK
    <3>3. (Genuine(v) /\ Refused(v))'
      BY <3>1 DEF Genuine, Refused
    <3>4. Watched(v)'
      BY <2>1, <3>1, <3>2 DEF Watched
    <3> QED
      BY <3>3, <3>4
  <2> QED
    BY <2>3, <2>5, <2>6, <2>7 DEF VerifyInv
<1>2. ASSUME NEW v \in Verification, VerifyStep(v) PROVE VerifyInv'
  BY <1>2, VerifyStepKeeps
<1>3. CASE revokeRefreshTokens
  <2>1. [user EXCEPT !.validSince = now] \in [disabled : BOOLEAN, validSince : Nat]
    BY DEF VerifyInv, VerifyTypeOK, KeyInv, CacheTypeOK
  <2> QED
    BY <1>3, <2>1, ChangeUserKeeps DEF revokeRefreshTokens
<1>4. ASSUME NEW d \in BOOLEAN, updateUser(d) PROVE VerifyInv'
  <2>1. [user EXCEPT !.disabled = d] \in [disabled : BOOLEAN, validSince : Nat]
    BY DEF VerifyInv, VerifyTypeOK
  <2> QED
    BY <1>4, <2>1, ChangeUserKeeps DEF updateUser
<1>5. ASSUME CacheStep, UNCHANGED verifyVars PROVE VerifyInv'
  <2>1. KeyInv' /\ CacheStays
    BY <1>5, KeyStep DEF VerifyInv
  <2>2. UNCHANGED <<emulator, phase, asked, user, wasGood>>
    BY <1>5 DEF verifyVars
  <2>3. VerifyTypeOK'
    BY <2>2 DEF VerifyInv, VerifyTypeOK
  <2>4. ASSUME NEW v \in Verification PROVE (Genuine(v) /\ Watched(v) /\ Refused(v))'
    BY <2>1, <2>2, OthersStay
  <2> QED
    BY <2>1, <2>3, <2>4 DEF VerifyInv
<1>6. CASE UNCHANGED vars
  BY <1>5, <1>6 DEF vars, CacheStep
<1> QED
  BY <1>1, <1>2, <1>3, <1>4, <1>5, <1>6 DEF Next, CacheStep

LEMMA VerifyInvHolds == Spec => []VerifyInv
<1>1. Init => VerifyInv
  <2> SUFFICES ASSUME Init PROVE VerifyInv
    OBVIOUS
  <2>0. overlapped \in BOOLEAN
    BY Zenon DEF Init, CacheInit
  <2>1. CacheTypeOK
    BY <2>0, ConstantsAssumption DEF Init, CacheInit, CacheTypeOK, FetchStatus
  <2>2. KeyInv
    BY <2>1, ConstantsAssumption DEF Init, CacheInit, KeyInv, CachedOk, CallOk
  <2>3. wasGood \in [Verification -> BOOLEAN]
    BY Zenon DEF Init
  <2>4. VerifyTypeOK
    BY <2>3 DEF Init, VerifyTypeOK
  <2>5. \A v \in Verification : Genuine(v) /\ Watched(v) /\ Refused(v)
    BY DEF Init, Genuine, Watched, Refused, Active
  <2> QED
    BY <2>2, <2>4, <2>5 DEF VerifyInv
<1> QED
  BY <1>1, VerifyNext, PTL DEF Spec

\* For any number of keys, verifications, tenants and rotations the variables keep
\* their types.
THEOREM TypeCorrect == Spec => []TypeOK
<1>1. VerifyInv => TypeOK
  BY DEF VerifyInv, VerifyTypeOK, KeyInv, TypeOK
<1> QED
  BY <1>1, VerifyInvHolds, PTL

\* Only tokens with the right content and tenant are accepted, signed by the key
\* they name, which was among keys the server sent not longer ago than MaxAge.
THEOREM AcceptedGenuine == Spec => []AcceptedWithFreshKey
<1>1. VerifyInv => AcceptedWithFreshKey
  <2> SUFFICES ASSUME VerifyInv, NEW v \in Verification, phase[v] = "accepted"
               PROVE  /\ verifyContent(asked[v].token)
                      /\ asked[v].tenantId # NoTenant => asked[v].token.tenant = asked[v].tenantId
                      /\ ~emulator => /\ asked[v].token.signer \in keys[Awaited(v)]
                                      /\ asked[v].token.kid # NoKid => asked[v].token.kid = asked[v].token.signer
                                      /\ age[Awaited(v)] < MaxAge
    BY DEF AcceptedWithFreshKey
  <2>1. age[Awaited(v)] < MaxAge
    BY AwaitedCall DEF VerifyInv, KeyInv, CallOk
  <2>2. Genuine(v)
    BY DEF VerifyInv
  <2> QED
    BY <2>1, <2>2 DEF Genuine, SignedBy
<1> QED
  BY <1>1, VerifyInvHolds, PTL

\* A verification that looks at the user never misses a revocation or a disabling
\* that lasted through the call.
THEOREM AcceptedGoodUser == Spec => []AcceptedForGoodUser
<1>1. VerifyInv => AcceptedForGoodUser
  BY DEF VerifyInv, Watched, AcceptedForGoodUser
<1> QED
  BY <1>1, VerifyInvHolds, PTL

\* A token whose key has been published all along is never refused for its key or
\* signature, however fetches and rotations interleave.
THEOREM RefusedCause == Spec => []RefusedForCause
<1>1. VerifyInv => RefusedForCause
  BY DEF VerifyInv, Refused, RefusedForCause
<1> QED
  BY <1>1, VerifyInvHolds, PTL
-----------------------------------------------------------------------------
\* Until refreshes overlap one is under way at most, and its answer is newer than
\* those received.
OneUnderWay ==
  ~overlapped =>
    /\ publicKeys = newest.keys
    /\ \A c, d \in Call : c \in UnderWay /\ d \in UnderWay => c = d
    /\ \A c \in Call : fetch[c] = "answered" => newest.order < order[c]

NewestInv ==
  /\ CacheTypeOK
  /\ newest.order = 0 \/ \E d \in Call : order[d] = newest.order
  /\ \A c \in Call : fetch[c] \in {"none", "sent"} => order[c] = 0
  /\ OneUnderWay

LEMMA NewestStep == ASSUME NewestInv, KeyInv', CacheStep PROVE NewestInv'
<1>0. CacheTypeOK' /\ CacheTypeOK
  BY DEF KeyInv, NewestInv
<1> USE DEF OneUnderWay
<1>1. ASSUME NEW c \in Call, fetchPublicKeys(c) PROVE NewestInv'
  <2>1. UNCHANGED <<publicKeys, newest, order>> /\ (overlapped => overlapped')
    BY <1>1 DEF fetchPublicKeys
  <2>2. \/ fetch' = [fetch EXCEPT ![c] = "sent"] /\ (~overlapped' => UnderWay = {})
        \/ fetch' = [fetch EXCEPT ![c] = "given"]
    BY <1>1 DEF fetchPublicKeys
  <2>3. fetch[c] = "none"
    BY <1>1 DEF fetchPublicKeys
  <2> QED
    BY <1>0, <2>1, <2>2, <2>3 DEF NewestInv, UnderWay, CacheTypeOK
<1>2. ASSUME NEW c \in Call, ServerAnswers(c) PROVE NewestInv'
  <2>1. /\ fetch[c] = "sent" /\ fetch' = [fetch EXCEPT ![c] = "answered"]
        /\ UNCHANGED <<publicKeys, newest, overlapped>>
    BY <1>2 DEF ServerAnswers
  <2>2. PICK n \in 1..MaxCalls : (\A d \in Call : order[d] < n) /\ order' = [order EXCEPT ![c] = n]
    BY <1>2 DEF ServerAnswers
  <2>3. n \in Nat /\ 0 < n /\ newest.order \in Nat /\ order \in [Call -> Nat]
    BY <1>0, <2>2, ConstantsAssumption DEF CacheTypeOK
  <2>4. newest.order < n
    BY <2>2, <2>3 DEF NewestInv
  <2>5. order[c] = 0
    BY <2>1 DEF NewestInv
  <2>6. newest.order = 0 \/ \E d \in Call : order'[d] = newest.order
    BY <2>2, <2>3, <2>5 DEF NewestInv
  <2> QED
    BY <1>0, <2>1, <2>2, <2>3, <2>4, <2>6 DEF NewestInv, UnderWay, CacheTypeOK
<1>3. ASSUME NEW c \in Call, RefreshEnds(c) PROVE NewestInv'
  <2>1. /\ fetch[c] = "answered" /\ fetch' = [fetch EXCEPT ![c] = "given"] /\ publicKeys' = keys[c]
        /\ newest' = IF newest.order < order[c] THEN [order |-> order[c], keys |-> keys[c]] ELSE newest
        /\ UNCHANGED <<order, overlapped>>
    BY <1>3 DEF RefreshEnds, Installed
  <2>2. newest'.order = 0 \/ \E d \in Call : order'[d] = newest'.order
    BY <2>1 DEF NewestInv
  <2>3. ~overlapped => newest' = [order |-> order[c], keys |-> keys[c]]
    BY <2>1 DEF NewestInv
  <2>4. ~overlapped => \A d \in Call : d # c => d \notin UnderWay
    BY <2>1 DEF NewestInv, UnderWay
  <2>5. \A d \in Call : d # c => fetch'[d] = fetch[d]
    BY <1>0, <2>1 DEF CacheTypeOK
  <2>6. fetch'[c] = "given"
    BY <1>0, <2>1 DEF CacheTypeOK
  <2> QED
    BY <1>0, <2>1, <2>2, <2>3, <2>4, <2>5, <2>6 DEF NewestInv, UnderWay
<1>4. ASSUME NEW c \in Call, RefreshFails(c) PROVE NewestInv'
  <2>1. /\ fetch[c] = "sent" /\ fetch' = [fetch EXCEPT ![c] = "failed"]
        /\ UNCHANGED <<publicKeys, newest, order, overlapped>>
    BY <1>4 DEF RefreshFails, history
  <2> QED
    BY <1>0, <2>1 DEF NewestInv, UnderWay, CacheTypeOK
<1>5. CASE Rotate \/ Tick \/ UNCHANGED cacheVars
  <2>1. UNCHANGED <<publicKeys, newest, order, overlapped, fetch>>
    BY <1>5 DEF Rotate, Tick, cacheVars, codeVars, history
  <2> QED
    BY <1>0, <2>1 DEF NewestInv, UnderWay
<1> QED
  BY <1>1, <1>2, <1>3, <1>4, <1>5 DEF CacheStep, FetchStep

\* Every step of the whole is one of the cache.
LEMMA NextIsCacheStep == ASSUME [Next]_vars PROVE CacheStep
<1>1. ASSUME NEW v \in Verification, VerifyStep(v) PROVE CacheStep
  BY <1>1, CallAssumption
     DEF VerifyStep, decodeAndVerify, ProjectIdFails, verifyWithoutKid, verifySignature,
         verifyDecodedJWTNotRevokedOrDisabled, GetUserFails, CacheStep
<1> QED
  BY <1>1 DEF Next, vars, verifyIdToken, revokeRefreshTokens, updateUser, ChangeUser, CacheStep

\* As long as no two refreshes are under way together the cache holds the newest
\* keys it has received, for any number of calls.
THEOREM NewestKeys == Spec => []CacheIsNewest
<1>1. Init => NewestInv
  <2> SUFFICES ASSUME Init PROVE NewestInv
    OBVIOUS
  <2>0. overlapped \in BOOLEAN
    BY Zenon DEF Init, CacheInit
  <2>1. CacheTypeOK
    BY <2>0, ConstantsAssumption DEF Init, CacheInit, CacheTypeOK, FetchStatus
  <2> QED
    BY <2>1 DEF Init, CacheInit, NewestInv, OneUnderWay, UnderWay
<1>2. NewestInv /\ VerifyInv' /\ [Next]_vars => NewestInv'
  BY NewestStep, NextIsCacheStep DEF VerifyInv
<1>3. NewestInv => CacheIsNewest
  BY DEF NewestInv, OneUnderWay, CacheIsNewest
<1> QED
  BY <1>1, <1>2, <1>3, VerifyInvHolds, PTL DEF Spec
=============================================================================
