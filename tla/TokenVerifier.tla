--------------------------- MODULE TokenVerifier ---------------------------
(***************************************************************************)
(* Verifying a signed token with the cached keys: PublicKeySignatureVerifier*)
(* (src/src/utils/jwt.ts) under verifyIdToken() (FirebaseTokenVerifier,    *)
(* BaseAuth, TenantAwareAuth) and under App Check (AppCheckTokenVerifier). *)
(*                                                                         *)
(* An ID token may also be checked against its user's record, which is read *)
(* after the signature and may change while the verification goes on.      *)
(***************************************************************************)
EXTENDS KeyCache

CONSTANTS
  Verification,  \* the verifyIdToken() or verifyToken() calls
  Asked,         \* bound: what they are asked
  Tenant,        \* tenant ids
  NoTenant, NotAsked,
  NoKid,         \* a token without a key id
  Unsigned       \* the signer of a token that no key signed

\* A verification fetches keys for the token's key id, and once more without one.
ASSUME CallAssumption == Call = Verification \X {"kid", "all"}

\* A token; claims says which claim, if any, is not what it should be.
Token ==
  [kid : Kid \cup {NoKid}, signer : Kid \cup {Unsigned},
   claims : {"good", "aud", "iss", "sub", "subOfEvent"},
   exp : Nat, auth_time : Nat, tenant : Tenant \cup {NoTenant}]

\* What a call is asked: checkRevoked, and the tenant of the Auth it is made on.
ASSUME AskedAssumption ==
  /\ Asked \subseteq [token : Token, check : BOOLEAN, tenantId : Tenant \cup {NoTenant}]
  /\ NotAsked \notin Asked

VARIABLES
  emulator,   \* is this process talking to the Auth emulator?
  phase,      \* where each verification stands, or its outcome
  asked,      \* what it was asked, NotAsked before the call
  user,       \* the record of the tokens' user; validSince 0 for none
  wasGood     \* history: was the user good for the token during the call?

verifyVars == <<emulator, phase, asked, user, wasGood>>

vars == <<cacheVars, verifyVars>>

Active == {"project", "signature", "withoutKid", "user"}

Outcome == {"accepted", "invalidArgument", "invalidSignature", "noMatchingKid", "keyFetchError",
            "expired", "disabled", "revoked", "userError", "mismatchingTenant"}

\* Neither disabled nor revoked since the token's authentication.
GoodFor(u, t) == ~u.disabled /\ t.auth_time >= u.validSince

Init ==
  /\ CacheInit
  /\ emulator \in BOOLEAN /\ (emulator => ~jwks)
  /\ phase = [v \in Verification |-> "unused"]
  /\ asked = [v \in Verification |-> NotAsked]
  /\ user = [disabled |-> FALSE, validSince |-> 0]
  /\ wasGood = [v \in Verification |-> FALSE]

\* verifyIdToken(token, checkRevoked), verifySessionCookie() or App Check's
\* verifyToken(token): first the project id is looked up.
verifyIdToken(v, q) ==
  /\ phase[v] = "unused"
  /\ jwks => ~q.check /\ q.tenantId = NoTenant
  /\ phase' = [phase EXCEPT ![v] = "project"]
  /\ asked' = [asked EXCEPT ![v] = q]
  /\ wasGood' = [wasGood EXCEPT ![v] = GoodFor(user, q.token)]
  /\ UNCHANGED <<cacheVars, emulator, user>>

Settles(v, outcome) == phase' = [phase EXCEPT ![v] = outcome]

\* verifyContent() of the two verifiers finds nothing wrong.
verifyContent(t) ==
  IF jwks
  THEN t.signer # Unsigned /\ t.claims = "good"
  ELSE /\ emulator \/ t.kid # NoKid
       /\ emulator \/ t.signer # Unsigned
       /\ t.claims \in {"good", "subOfEvent"}

\* The project id is known: the content is checked, and the signature's keys
\* are fetched, except for the emulator, whose tokens are not signed.
decodeAndVerify(v) ==
  /\ phase[v] = "project"
  /\ \/ ~verifyContent(asked[v].token) /\ Settles(v, "invalidArgument") /\ UNCHANGED cacheVars
     \/ /\ verifyContent(asked[v].token) /\ ~emulator
        /\ Settles(v, IF asked[v].token.kid = NoKid THEN "withoutKid" ELSE "signature")
        /\ fetchPublicKeys(<<v, "kid">>)
     \/ /\ verifyContent(asked[v].token) /\ emulator
        /\ Settles(v, "signature")
        /\ UNCHANGED cacheVars
  /\ UNCHANGED <<emulator, asked, user, wasGood>>

\* There is no project id.
ProjectIdFails(v) ==
  /\ phase[v] = "project"
  /\ Settles(v, "invalidArgument")
  /\ UNCHANGED <<cacheVars, emulator, asked, user, wasGood>>

\* No key id: fetch again, to try all the keys.  The fetch for the key id goes
\* on, and its answer is for nobody.
verifyWithoutKid(v) ==
  /\ phase[v] = "withoutKid"
  /\ Settles(v, "signature")
  /\ fetchPublicKeys(<<v, "all">>)
  /\ UNCHANGED <<emulator, asked, user, wasGood>>

\* The fetch whose answer a verification waits for.
Awaited(v) == IF asked[v].token.kid = NoKid THEN <<v, "all">> ELSE <<v, "kid">>

\* Faulty variant: a key id is required.
SignedByKid(t, ks) == t.signer \in ks /\ t.signer = t.kid

\* The signature is right: by the key with the token's key id, or by any key.
SignedBy(t, ks) == t.signer \in ks /\ (t.kid # NoKid => t.signer = t.kid)

\* What jwt.verify makes of the keys.
SignatureOutcome(v) ==
  LET t == asked[v].token
      expired == t.exp <= now
  IN  IF emulator
      THEN IF t.signer # Unsigned THEN "invalidSignature" ELSE IF expired THEN "expired" ELSE "ok"
      ELSE IF fetch[Awaited(v)] = "failed" THEN "keyFetchError"
      ELSE IF t.kid # NoKid /\ t.kid \notin keys[Awaited(v)] THEN "noMatchingKid"
      ELSE IF ~SignedBy(t, keys[Awaited(v)]) THEN "invalidSignature"
      ELSE IF expired THEN "expired" ELSE "ok"

\* Faulty variant: the user is only looked at for the emulator.
ChecksUserNever(v) == emulator

ChecksUser(v) == asked[v].check \/ emulator

\* The tenant's Auth refuses tokens of other tenants.
CheckedTenant(v) ==
  IF asked[v].tenantId # NoTenant /\ asked[v].token.tenant # asked[v].tenantId THEN "mismatchingTenant" ELSE "accepted"

\* The keys have come, or failed to: the signature is checked.
verifySignature(v) ==
  /\ phase[v] = "signature"
  /\ emulator \/ fetch[Awaited(v)] \in {"given", "failed"}
  /\ Settles(v, IF SignatureOutcome(v) # "ok" THEN SignatureOutcome(v)
                ELSE IF ChecksUser(v) THEN "user" ELSE CheckedTenant(v))
  /\ UNCHANGED <<cacheVars, emulator, asked, user, wasGood>>

Revoked(u, t) == t.auth_time < u.validSince

\* The server answers getUser(sub); a token without one has no user.
verifyDecodedJWTNotRevokedOrDisabled(v) ==
  /\ phase[v] = "user"
  /\ Settles(v, IF asked[v].token.claims = "subOfEvent" THEN "userError"
                ELSE IF user.disabled THEN "disabled"
                ELSE IF Revoked(user, asked[v].token) THEN "revoked"
                ELSE CheckedTenant(v))
  /\ UNCHANGED <<cacheVars, emulator, asked, user, wasGood>>

\* The request for the user's record fails.
GetUserFails(v) ==
  /\ phase[v] = "user"
  /\ Settles(v, "userError")
  /\ UNCHANGED <<cacheVars, emulator, asked, user, wasGood>>

\* The user's record changes: revokeRefreshTokens(), updateUser({disabled}).
\* App Check's tokens are not those of a user.
ChangeUser(u) ==
  /\ ~jwks
  /\ user' = u
  /\ wasGood' = [v \in Verification |->
                   wasGood[v] \/ (phase[v] \in Active /\ GoodFor(u, asked[v].token))]
  /\ UNCHANGED <<cacheVars, emulator, phase, asked>>

revokeRefreshTokens == ChangeUser([user EXCEPT !.validSince = now])

updateUser(disabled) == ChangeUser([user EXCEPT !.disabled = disabled])

VerifyStep(v) ==
  \/ decodeAndVerify(v)
  \/ ProjectIdFails(v)
  \/ verifyWithoutKid(v)
  \/ verifySignature(v)
  \/ verifyDecodedJWTNotRevokedOrDisabled(v)
  \/ GetUserFails(v)

Next ==
  \/ \E v \in Verification :
       \/ \E q \in Asked : verifyIdToken(v, q)
       \/ VerifyStep(v)
  \/ revokeRefreshTokens
  \/ \E disabled \in BOOLEAN : updateUser(disabled)
  \/ \E c \in Call : FetchStep(c) /\ UNCHANGED verifyVars
  \/ (Rotate \/ Tick) /\ UNCHANGED verifyVars

Spec == Init /\ [][Next]_vars
-----------------------------------------------------------------------------
(***************************************************************************)
(* Properties.                                                             *)
(***************************************************************************)
TypeOK ==
  /\ CacheTypeOK
  /\ emulator \in BOOLEAN
  /\ phase \in [Verification -> {"unused"} \cup Active \cup Outcome]
  /\ asked \in [Verification -> Asked \cup {NotAsked}]
  /\ user \in [disabled : BOOLEAN, validSince : Nat]
  /\ wasGood \in [Verification -> BOOLEAN]

\* An accepted token was signed, away from the emulator, by the key it names,
\* which the server had among its keys, in an answer not older than the age the
\* server allows it, whoever fetched it; and the token is of the right tenant.
AcceptedWithFreshKey ==
  \A v \in Verification :
    phase[v] = "accepted" =>
      /\ verifyContent(asked[v].token)
      /\ asked[v].tenantId # NoTenant => asked[v].token.tenant = asked[v].tenantId
      /\ ~emulator => /\ asked[v].token.signer \in keys[Awaited(v)]
                      /\ asked[v].token.kid # NoKid => asked[v].token.kid = asked[v].token.signer
                      /\ age[Awaited(v)] < MaxAge

\* A verification that is asked to look at the user (the emulator's always do)
\* accepts the token only if at some moment of the call the user was enabled and
\* the session not revoked: a revocation before the call is never missed.
AcceptedForGoodUser ==
  \A v \in Verification :
    phase[v] = "accepted" /\ (asked[v].check \/ emulator) => wasGood[v]

\* A token signed by the key it names, or that names none, is never refused for
\* its key or signature as long as that key has been published all along,
\* however fetches and rotations of other keys interleave.
RefusedForCause ==
  \A v \in Verification :
    (/\ phase[v] \in {"noMatchingKid", "invalidSignature"}
     /\ ~emulator
     /\ asked[v].token.kid \in {NoKid, asked[v].token.signer}) => asked[v].token.signer \in unpublished
=============================================================================
