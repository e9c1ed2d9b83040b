----------------------------- MODULE UserImport -----------------------------
(***************************************************************************)
(* user-import-builder.ts: the request that imports a list of users, and   *)
(* the result made of the refusals of the SDK and the errors of the        *)
(* server.  A user the SDK refuses is left out of the request, so that the *)
(* positions of the request and of the caller's list differ.               *)
(***************************************************************************)
EXTENDS UserFormat

HashAlgorithms ==
  [keyed |-> {"HMAC_SHA512", "HMAC_SHA256", "HMAC_SHA1", "HMAC_MD5"},
   digest |-> {"MD5", "SHA1", "SHA256", "SHA512"},
   derived |-> {"PBKDF_SHA1", "PBKDF2_SHA256"}]

NaN == -1

(* parseInt of the field where it is given, NaN otherwise.                  *)
getNumberField(hash, key) == IF Given(hash.numbers, key) THEN hash.numbers[key] ELSE NaN

InRange(hash, key, low, high, code) == Require(getNumberField(hash, key) \in low..high, code)

IsNumber(hash, key, code) == Require(getNumberField(hash, key) # NaN, code)

ScryptChecks(hash) ==
  <<Require(hash.key = "buffer", "INVALID_HASH_KEY"),
    InRange(hash, "rounds", 1, 8, "INVALID_HASH_ROUNDS"),
    InRange(hash, "memoryCost", 1, 14, "INVALID_HASH_MEMORY_COST"),
    Require(hash.saltSeparator # "bad", "INVALID_HASH_SALT_SEPARATOR")>>

StandardScryptChecks(hash) ==
  <<IsNumber(hash, "memoryCost", "INVALID_HASH_MEMORY_COST"),
    IsNumber(hash, "parallelization", "INVALID_HASH_PARALLELIZATION"),
    IsNumber(hash, "blockSize", "INVALID_HASH_BLOCK_SIZE"),
    IsNumber(hash, "derivedKeyLength", "INVALID_HASH_DERIVED_KEY_LENGTH")>>

HashRefusal(hash) ==
  CASE hash.algorithm \in HashAlgorithms.keyed -> Require(hash.key = "buffer", "INVALID_HASH_KEY")
    [] hash.algorithm \in HashAlgorithms.digest ->
         InRange(hash, "rounds", IF hash.algorithm = "MD5" THEN 0 ELSE 1, 8192, "INVALID_HASH_ROUNDS")
    [] hash.algorithm \in HashAlgorithms.derived ->
         InRange(hash, "rounds", 0, 120000, "INVALID_HASH_ROUNDS")
    [] hash.algorithm = "SCRYPT" -> FirstRefusal(ScryptChecks(hash))
    [] hash.algorithm = "STANDARD_SCRYPT" -> FirstRefusal(StandardScryptChecks(hash))
    [] hash.algorithm = "BCRYPT" -> "ok"
    [] OTHER -> "INVALID_HASH_ALGORITHM"

IsUserImportOptions(options) ==
  options.given = "hash" =>
    /\ DOMAIN options.hash \subseteq {"algorithm", "key", "saltSeparator", "numbers"}
    /\ DOMAIN options.hash.numbers \subseteq
         {"rounds", "memoryCost", "parallelization", "blockSize", "derivedKeyLength"}

(* The options are looked at only when some user has a password.            *)
populateOptions(options, requiresHashOptions) ==
  IF ~requiresHashOptions THEN "ok"
  ELSE CASE options.given = "no" -> "INVALID_ARGUMENT"
         [] options.given = "empty" -> "MISSING_HASH_ALGORITHM"
         [] OTHER -> HashRefusal(options.hash)

----------------------------------------------------------------------------

WireNames ==
  [localId |-> "uid", email |-> "email", emailVerified |-> "emailVerified",
   displayName |-> "displayName", disabled |-> "disabled", photoUrl |-> "photoURL",
   phoneNumber |-> "phoneNumber", tenantId |-> "tenantId", customAttributes |-> "customClaims",
   passwordHash |-> "passwordHash", salt |-> "passwordSalt",
   createdAt |-> "creationTime", lastLoginAt |-> "lastSignInTime"]

PasswordRefusal(u) ==
  FirstRefusal(<<Verdict(<<Check("passwordHash", {"hash"}, "INVALID_PASSWORD_HASH")>>, u.attrs),
                 Verdict(<<Check("passwordSalt", {"salt"}, "INVALID_PASSWORD_SALT")>>, u.attrs)>>)

(* A user record as given by the caller: attrs, providerData, factors.      *)
UserMetadataRequest == {"lastSignInTime", "creationTime"}

UserProviderRequest == {"uid", "displayName", "email", "phoneNumber", "photoURL", "providerId"}

IsUserImportRecord(u) ==
  /\ DOMAIN u.attrs \subseteq {"uid", "email", "emailVerified", "displayName", "phoneNumber", "photoURL", "disabled",
                              "customClaims", "passwordHash", "passwordSalt", "tenantId"} \cup UserMetadataRequest
  /\ Given(u.attrs, "customClaims") => u.attrs.customClaims \in DOMAIN JsonOf \ {"null"}
  /\ \A k \in UserMetadataRequest \cap DOMAIN u.attrs : u.attrs[k] \in Utc
  /\ u.providerData \in Seq(Range(u.providerData))
  /\ \A i \in DOMAIN u.providerData : DOMAIN u.providerData[i] \subseteq UserProviderRequest
  /\ AreFactors(u.factors)

populateUploadAccountUser(u) ==
  LET a == u.attrs
      claims == [k \in DOMAIN a \cap {"customClaims"} |-> JsonOf[a[k]]]
      times == [k \in DOMAIN a \cap {"creationTime", "lastSignInTime"} |-> IsoOf[a[k]]]
  IN [attrs |-> RenameBack(claims ++ times ++ a, WireNames),
      providers |-> Each(LAMBDA p : RenameBack(p, [rawId |-> "uid", providerId |-> "providerId",
                                                   email |-> "email", displayName |-> "displayName",
                                                   photoUrl |-> "photoURL"]), u.providerData),
      link |-> << >>,
      factors |-> Each(convertMultiFactorInfoToServerFormat, u.factors)]

UserRefusal(u) ==
  LET early == FirstRefusal(<<PasswordRefusal(u)>> \o Each(FactorRefusal, u.factors))
  IN IF early # "ok" THEN early
     ELSE validateCreateEditRequest(populateUploadAccountUser(u), TRUE)

----------------------------------------------------------------------------
(* The builder: the positions of the caller's list, from 1.                 *)

Accepted(users) == {i \in DOMAIN users : UserRefusal(users[i]) = "ok"}

(* Faulty variant: the position of the request taken for the caller's.      *)
indexMapForgotten(users) == [i \in 1..Cardinality(Accepted(users)) |-> i]

(* indexMap: the caller's position of each user of the request.             *)
indexMap(users) == Sorted(Accepted(users))

populateUsers(users) == [k \in DOMAIN indexMap(users) |-> populateUploadAccountUser(users[indexMap(users)[k]])]

userImportResultErrors(users) ==
  {[index |-> i, code |-> UserRefusal(users[i])] : i \in DOMAIN users \ Accepted(users)}

requiresHashOptions(users) == \E i \in Accepted(users) : Given(users[i].attrs, "passwordHash")

(* failedUploads: the positions of the request the server refused.  The     *)
(* errors are in the order of their positions in the caller's list.         *)
buildResponse(users, failedUploads) ==
  LET refused == userImportResultErrors(users)
      failed == {[index |-> indexMap(users)[f], code |-> "INVALID_USER_IMPORT"] : f \in failedUploads}
      errors == refused \cup failed
      order == Sorted({e.index : e \in errors})
  IN [successCount |-> Cardinality(Accepted(users)) - Cardinality(failedUploads),
      failureCount |-> Cardinality(refused) + Cardinality(failedUploads),
      errors |-> [k \in DOMAIN order |-> CHOOSE e \in errors : e.index = order[k]]]

(* The request of a tenant's users must not name another tenant.            *)
TenantMismatch(users, tenantId) ==
  \E i \in DOMAIN users :
    Given(users[i].attrs, "tenantId") /\ users[i].attrs.tenantId \in Text \ {tenantId}
=============================================================================
