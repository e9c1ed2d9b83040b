----------------------------- MODULE UserFormat -----------------------------
(***************************************************************************)
(* How calls about users become requests of the Identity Toolkit and how   *)
(* its answers become user records: auth-api-request.ts, user-record.ts,   *)
(* identifier.ts and the factor conversion of user-import-builder.ts.      *)
(* A request is a record: attrs holds its scalar fields, link the provider *)
(* to link (at most one), factors the second factors.                      *)
(***************************************************************************)
EXTENDS JsObject

CONSTANTS
  Uid,        \* user ids
  Email, Phone, Text, Url

(* No value a field may have stands for a missing one or null.              *)
ASSUME ValuesAreGiven == {"null", "undefined"} \cap (Uid \cup Email \cup Phone \cup Text \cup Url) = {}

Utc == {"utc1", "utc2"}

(* new Date(utc).toISOString() and new Date(iso).toUTCString() *)
IsoOf == [utc1 |-> "iso1", utc2 |-> "iso2"]
UtcOf == [iso1 |-> "utc1", iso2 |-> "utc2"]
Iso == {"iso1", "iso2"}

(* JSON.stringify and JSON.parse of the custom claims.  "reserved" holds a  *)
(* reserved claim, "large" is longer than 1000 characters.                  *)
JsonOf == [null |-> "{}", admin |-> "{admin}", reserved |-> "{reserved}", large |-> "{large}"]
ClaimsOf == [x \in {"{}", "{admin}"} |-> IF x = "{}" THEN "none" ELSE "admin"]

EditChecks ==
  <<Check("tenantId", Text, "INVALID_TENANT_ID"),
    Check("displayName", Text \cup {""}, "INVALID_DISPLAY_NAME"),
    Check("localId", Uid, "INVALID_UID"),
    Check("email", Email, "INVALID_EMAIL"),
    Check("phoneNumber", Phone, "INVALID_PHONE_NUMBER"),
    Check("password", {"secret"}, "INVALID_PASSWORD"),
    Check("rawPassword", {"secret"}, "INVALID_PASSWORD"),
    Check("emailVerified", Bool, "INVALID_EMAIL_VERIFIED"),
    Check("photoUrl", Url, "INVALID_PHOTO_URL"),
    Check("disabled", Bool, "INVALID_DISABLED_FIELD"),
    Check("validSince", {"now"}, "INVALID_TOKENS_VALID_AFTER_TIME"),
    Check("createdAt", Iso, "INVALID_CREATION_TIME"),
    Check("lastLoginAt", Iso, "INVALID_LAST_SIGN_IN_TIME"),
    Check("disableUser", Bool, "INVALID_DISABLED_FIELD"),
    Check("customAttributes", {"{}", "{admin}", "{large}"}, "FORBIDDEN_CLAIM"),
    Check("customAttributes", {"{}", "{admin}"}, "CLAIMS_TOO_LARGE"),
    Check("passwordHash", {"hash"}, "INVALID_PASSWORD_HASH"),
    Check("salt", {"salt"}, "INVALID_PASSWORD_SALT")>>

ProviderChecks ==
  <<Check("providerId", Text, "INVALID_PROVIDER_ID"),
    Check("displayName", Text \cup {""}, "INVALID_DISPLAY_NAME"),
    Check("rawId", Text, "INVALID_UID"),
    Check("email", Email, "INVALID_EMAIL"),
    Check("photoUrl", Url, "INVALID_PHOTO_URL")>>

FactorChecks ==
  <<Check("mfaEnrollmentId", Text, "INVALID_UID"),
    Check("displayName", Text \cup {""}, "INVALID_DISPLAY_NAME"),
    Check("enrolledAt", Iso, "INVALID_ENROLLMENT_TIME"),
    Check("phoneInfo", Phone \cup {"undefined"}, "INVALID_PHONE_NUMBER"),
    Check("phoneInfo", Phone, "INVALID_ENROLLED_FACTORS")>>

validateProviderUserInfo(p) == Verdict(ProviderChecks, Requiring(p, {"providerId", "rawId"}))

validateAuthFactorInfo(f) == Verdict(FactorChecks, Requiring(f, {"phoneInfo"}))

ValidKeys ==
  {"displayName", "localId", "email", "password", "rawPassword", "emailVerified", "photoUrl",
   "disabled", "disableUser", "phoneNumber", "customAttributes", "validSince", "tenantId",
   "passwordHash", "salt", "createdAt", "lastLoginAt"}

ProviderKeys == {"rawId", "providerId", "email", "displayName", "photoUrl"}

KnownProvider(p) == Only(p, ProviderKeys)

(* The request without the keys it does not know of.  A provider to link is *)
(* not renamed: its photoURL is one of them, as is its phone number.        *)
KnownPart(r) == [r EXCEPT !.attrs = Only(@, ValidKeys), !.link = Each(KnownProvider, @)]

validateCreateEditRequest(r, upload) ==
  LET attrs == IF upload THEN Requiring(r.attrs, {"localId"}) ELSE r.attrs
  IN FirstRefusal(<<Verdict(EditChecks, attrs)>>
                  \o Each(validateProviderUserInfo, r.providers)
                  \o Each(validateProviderUserInfo, r.link)
                  \o Each(validateAuthFactorInfo, r.factors))

----------------------------------------------------------------------------
(* Second factors *)

CreateMultiFactorInfoRequest == {"displayName", "factorId", "phoneNumber"}

UpdateMultiFactorInfoRequest == {"uid", "enrollmentTime"} \cup CreateMultiFactorInfoRequest

AreFactors(list) ==
  list \in Seq(Range(list)) /\ \A i \in DOMAIN list : DOMAIN list[i] \subseteq UpdateMultiFactorInfoRequest

FactorRefusal(f) ==
  FirstRefusal(<<Verdict(<<Check("enrollmentTime", Utc, "INVALID_ENROLLMENT_TIME")>>, f),
                 Verdict(<<Check("factorId", {"phone"}, "UNSUPPORTED_SECOND_FACTOR")>>,
                         Requiring(f, {"factorId"}))>>)

convertMultiFactorInfoToServerFormat(f) ==
  LET times == [k \in DOMAIN f \cap {"enrollmentTime"} |-> IsoOf[f[k]]]
  IN RenameBack(times ++ f, [mfaEnrollmentId |-> "uid", displayName |-> "displayName",
                             phoneInfo |-> "phoneNumber", enrolledAt |-> "enrollmentTime"])

PhoneMultiFactorInfo(f) ==
  [k \in DOMAIN f \cap {"phoneInfo"} |-> f[k]] ++ Field("factorId", "phone")

TotpMultiFactorInfo(f) ==
  [k \in DOMAIN f \cap {"totpInfo"} |-> f[k]] ++ Field("factorId", "totp")

initFromServerResponse(f) ==
  LET times == [k \in DOMAIN f \cap {"enrolledAt"} |-> UtcOf[f[k]]]
  IN RenameBack(times ++ f, [uid |-> "mfaEnrollmentId", displayName |-> "displayName",
                             enrollmentTime |-> "enrolledAt"])

(* Factors the SDK does not know are left out of the user record. *)
IsKnownFactor(f) ==
  /\ Given(f, "mfaEnrollmentId")
  /\ Given(f, "phoneInfo") \/ Given(f, "totpInfo")

initMultiFactorInfo(f) ==
  initFromServerResponse(f)
  ++ (IF Given(f, "phoneInfo") THEN Rename(PhoneMultiFactorInfo(f), "phoneInfo", "phoneNumber")
      ELSE TotpMultiFactorInfo(f))

MultiFactorSettings(mfaInfo) ==
  LET known == Sorted({i \in DOMAIN mfaInfo : IsKnownFactor(mfaInfo[i])})
  IN [k \in DOMAIN known |-> initMultiFactorInfo(mfaInfo[known[k]])]

----------------------------------------------------------------------------
(* User records *)

UserInfo(p) ==
  RenameBack(p, [uid |-> "rawId", displayName |-> "displayName", email |-> "email",
                 photoURL |-> "photoUrl", providerId |-> "providerId", phoneNumber |-> "phoneNumber"])

(* The field of the server each field of a record stands for.              *)
ServerNames ==
  [uid |-> "localId", email |-> "email", emailVerified |-> "emailVerified",
   displayName |-> "displayName", photoURL |-> "photoUrl", phoneNumber |-> "phoneNumber",
   disabled |-> "disabled", passwordHash |-> "passwordHash", passwordSalt |-> "salt",
   customClaims |-> "customAttributes", tokensValidAfterTime |-> "validSince",
   tenantId |-> "tenantId", creationTime |-> "createdAt", lastSignInTime |-> "lastLoginAt"]

(* Dates the server gives become UTC strings. *)
parseDate(time) == UtcOf[time]

UserMetadata == {"createdAt", "lastLoginAt"}

(* A field of the record for the field k of the answer a.                   *)
RecordField(a, k) ==
  IF ~Given(a, k) THEN "false"
  ELSE IF k = "customAttributes" THEN ClaimsOf[a[k]]
  ELSE IF k \in UserMetadata THEN parseDate(a[k])
  ELSE a[k]

(* A redacted password is not shown.                                        *)
Shows(a, k) ==
  \/ k \in {"emailVerified", "disabled"}
  \/ Given(a, k) /\ ~(k = "passwordHash" /\ a[k] = "REDACTED")

UserRecord(account) ==
  LET a == account.attrs
  IN [attrs |-> [n \in {m \in DOMAIN ServerNames : Shows(a, ServerNames[m])} |-> RecordField(a, ServerNames[n])],
      providerData |-> {UserInfo(p) : p \in account.providers},
      multiFactor |-> MultiFactorSettings(account.mfaInfo)]
=============================================================================
