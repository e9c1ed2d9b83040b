---------------------------- MODULE UserRequests ----------------------------
(***************************************************************************)
(* The requests BaseAuth and AbstractAuthRequestHandler build for a single *)
(* user: createUser, updateUser, setCustomUserClaims, revokeRefreshTokens, *)
(* the lookups, session cookies and e-mail action links.  The properties a *)
(* caller gives are a record: attrs with the scalar fields, link with the  *)
(* provider to link (a sequence of at most one), unlink with the providers *)
(* to unlink, factors with the second factors: none given, null or a list. *)
(***************************************************************************)
EXTENDS UserFormat, Integers

CONSTANTS MaxGet, MaxDelete, MaxUpload  \* users in one batch of a kind

NoFactors == [given |-> "no", list |-> << >>]

EmptyRequest ==
  [attrs |-> EmptyObject, deleteAttribute |-> {}, deleteProvider |-> {},
   providers |-> << >>, link |-> << >>, factors |-> << >>, mfa |-> "keep"]

Properties(attrs) == [attrs |-> attrs, link |-> << >>, unlink |-> << >>, factors |-> NoFactors]

IsNull(o, k) == Given(o, k) /\ o[k] = "null"

----------------------------------------------------------------------------
(* The properties the calls are given *)

UpdateRequest == {"disabled", "displayName", "email", "emailVerified", "password", "phoneNumber", "photoURL"}

CreateRequest == {"uid"} \cup UpdateRequest

UserProvider == {"uid", "displayName", "email", "phoneNumber", "photoURL", "providerId"}

IsRequest(p, fields) ==
  /\ DOMAIN p.attrs \subseteq fields
  /\ p.link \in Seq(Range(p.link)) /\ DOMAIN p.link \subseteq {1}
  /\ \A i \in DOMAIN p.link : DOMAIN p.link[i] \subseteq UserProvider
  /\ p.unlink \in Seq(Range(p.unlink))
  /\ p.factors.given \in {"no", "null", "list"} /\ AreFactors(p.factors.list)
  /\ p.factors.given # "list" => p.factors.list = << >>

----------------------------------------------------------------------------
(* updateUser *)

(* Phone and e-mail "providers" are fields of their own: what conflicts.    *)
UpdateConflict(p) ==
  LET Linking(id) == \E i \in DOMAIN p.link : p.link[i].providerId = id
  IN \/ Linking("email") /\ Given(p.attrs, "email")
     \/ Linking("phone") /\ Given(p.attrs, "phoneNumber")
     \/ Contains(p.unlink, "phone") /\ ~Linking("phone") /\ IsNull(p.attrs, "phoneNumber")

LinkedField == [email |-> "email", phone |-> "phoneNumber"]

RedirectLink(p) ==
  IF p.link # << >> /\ p.link[1].providerId \in DOMAIN LinkedField
  THEN [p EXCEPT !.attrs = Field(LinkedField[p.link[1].providerId], p.link[1].uid) ++ @,
                 !.link = << >>]
  ELSE p

PropertiesRefusal(uid, p) ==
  LET unlinkAll == Each(LAMBDA id : Require(id \in Text \cup {"phone"}, "INVALID_ARGUMENT"), p.unlink)
      linkChecks == <<Check("providerId", Text, "INVALID_ARGUMENT"), Check("uid", Text, "INVALID_ARGUMENT")>>
  IN FirstRefusal(<<Require(uid \in Uid, "INVALID_UID")>>
       \o (IF p.link # << >>
           THEN <<Verdict(linkChecks, Requiring(p.link[1], {"providerId", "uid"}))>>
           ELSE unlinkAll)
       \o (IF p.factors.given = "list" THEN Each(FactorRefusal, p.factors.list) ELSE << >>))

DeletableParams == [displayName |-> "DISPLAY_NAME", photoURL |-> "PHOTO_URL"]

DroppedPhone(p) == IF IsNull(p.attrs, "phoneNumber") THEN {"phone"} ELSE {}

(* Faulty variant: the providers to unlink replace the phone to remove.     *)
UnlinkedReplacingPhone(p) == IF p.unlink = << >> THEN DroppedPhone(p) ELSE ToSet(p.unlink)

UnlinkedProviders(p) == DroppedPhone(p) \cup ToSet(p.unlink)

updateExistingAccount(uid, p) ==
  LET a == p.attrs
      removed == {k \in DOMAIN DeletableParams : IsNull(a, k)}
      kept == Without(a, removed \cup {k \in {"phoneNumber"} : IsNull(a, k)})
  IN [EmptyRequest EXCEPT
        !.attrs = Field("localId", uid) ++ Rename(Rename(kept, "photoURL", "photoUrl"), "disabled", "disableUser"),
        !.deleteAttribute = {DeletableParams[k] : k \in removed},
        !.deleteProvider = UnlinkedProviders(p),
        !.link = Each(LAMBDA l : Rename(l, "uid", "rawId"), p.link),
        !.factors = IF p.factors.given = "list"
                    THEN Each(convertMultiFactorInfoToServerFormat, p.factors.list) ELSE << >>,
        !.mfa = IF p.factors.given = "no" THEN "keep" ELSE "replace"]

SetAccountInfoRefusal(r) ==
  FirstRefusal(<<Require(Given(r.attrs, "localId"), "INTERNAL_ERROR"),
                 Require(~Given(r.attrs, "tenantId"), "INVALID_ARGUMENT"),
                 validateCreateEditRequest(r, FALSE)>>)

ClaimsRefusal(uid, claims) ==
  FirstRefusal(<<Require(uid \in Uid, "INVALID_UID"), Require(claims # "bad", "INVALID_ARGUMENT")>>)

setCustomUserClaims(uid, claims) ==
  [EmptyRequest EXCEPT !.attrs = Field("localId", uid) ++ Field("customAttributes", JsonOf[claims])]

UidRefusal(uid) == Require(uid \in Uid, "INVALID_UID")

revokeRefreshTokens(uid) ==
  [EmptyRequest EXCEPT !.attrs = Field("localId", uid) ++ Field("validSince", "now")]

----------------------------------------------------------------------------
(* createUser *)

NewFactorRefusal(f) ==
  FirstRefusal(<<Require(~Given(f, "enrollmentTime"), "INVALID_ARGUMENT"),
                 Require(~Given(f, "uid"), "INVALID_ARGUMENT"), FactorRefusal(f)>>)

CreateRefusal(p) == FirstRefusal(Each(NewFactorRefusal, p.factors.list))

createNewAccount(p) ==
  [EmptyRequest EXCEPT
     !.attrs = Rename(Rename(p.attrs, "photoURL", "photoUrl"), "uid", "localId"),
     !.factors = Each(convertMultiFactorInfoToServerFormat, p.factors.list)]

SignUpRefusal(r) ==
  FirstRefusal(<<Require(~Given(r.attrs, "customAttributes"), "INVALID_ARGUMENT"),
                 Require(~Given(r.attrs, "validSince"), "INVALID_ARGUMENT"),
                 Require(~Given(r.attrs, "tenantId"), "INVALID_ARGUMENT"),
                 validateCreateEditRequest(r, FALSE)>>)

----------------------------------------------------------------------------
(* Lookups: an identifier is a record with a kind and a value.              *)

isUidIdentifier(id) == id.kind = "uid"
isEmailIdentifier(id) == id.kind = "email"
isPhoneIdentifier(id) == id.kind = "phone"
isProviderIdentifier(id) == id.kind = "provider"

IdentifierRefusal(id) ==
  CASE isUidIdentifier(id) -> Require(id.value \in Uid, "INVALID_UID")
    [] isEmailIdentifier(id) -> Require(id.value \in Email, "INVALID_EMAIL")
    [] isPhoneIdentifier(id) -> Require(id.value \in Phone, "INVALID_PHONE_NUMBER")
    [] isProviderIdentifier(id) ->
         FirstRefusal(<<Require(id.providerId \in Text, "INVALID_PROVIDER_ID"),
                        Require(id.value \in Text, "INVALID_PROVIDER_UID")>>)
    [] OTHER -> "INVALID_ARGUMENT"

(* The lists of one lookup request. *)
LookupRequest(ids) ==
  LET Values(kind) == {ids[i].value : i \in {j \in DOMAIN ids : ids[j].kind = kind}}
  IN [localId |-> Values("uid"), email |-> Values("email"), phoneNumber |-> Values("phone"),
      federatedUserId |-> {[providerId |-> ids[i].providerId, rawId |-> ids[i].value] :
                             i \in {j \in DOMAIN ids : isProviderIdentifier(ids[j])}}]

(* Lists over the limit are refused before any member is looked at.         *)
getAccountInfoByIdentifiers(ids) ==
  FirstRefusal(<<Require(Len(ids) <= MaxGet, "MAXIMUM_USER_COUNT_EXCEEDED")>> \o Each(IdentifierRefusal, ids))

DeletionRefusal(uids) ==
  FirstRefusal(<<Require(Len(uids) <= MaxDelete, "MAXIMUM_USER_COUNT_EXCEEDED")>> \o Each(UidRefusal, uids))

(* getUser() and its kin: phone and e-mail are not providers.               *)
SingleLookup(identifier, refusal) == [identifier |-> identifier, refusal |-> refusal]

getAccountInfoByUid(uid) == SingleLookup([kind |-> "uid", value |-> uid], UidRefusal(uid))

getAccountInfoByEmail(email) ==
  SingleLookup([kind |-> "email", value |-> email], Require(email \in Email, "INVALID_EMAIL"))

getAccountInfoByPhoneNumber(phone) ==
  SingleLookup([kind |-> "phone", value |-> phone], Require(phone \in Phone, "INVALID_PHONE_NUMBER"))

getAccountInfoByFederatedUid(providerId, rawId) ==
  SingleLookup([kind |-> "provider", providerId |-> providerId, value |-> rawId],
               Require({providerId, rawId} \subseteq Text, "INVALID_PROVIDER_ID"))

getUserByProviderUid(providerId, uid) ==
  CASE providerId = "phone" -> getAccountInfoByPhoneNumber(uid)
    [] providerId = "email" -> getAccountInfoByEmail(uid)
    [] OTHER -> getAccountInfoByFederatedUid(providerId, uid)

(* Of the providers of a user the first of the id is looked at.             *)
isUserFound(id, users) ==
  \E u \in users :
    CASE isUidIdentifier(id) -> Has(u.attrs, "uid", id.value)
      [] isEmailIdentifier(id) -> Has(u.attrs, "email", id.value)
      [] isPhoneIdentifier(id) -> Has(u.attrs, "phoneNumber", id.value)
      [] OTHER -> LET infos == {p \in u.providerData : Has(p, "providerId", id.providerId)}
                  IN infos # {} /\ Has(CHOOSE p \in infos : TRUE, "uid", id.value)

----------------------------------------------------------------------------
(* Session cookies and e-mail action links *)

MinCookieSecs == 300
MaxCookieSecs == 14 * 24 * 60 * 60

(* createSessionCookie(idToken, {expiresIn}), expiresIn in milliseconds.    *)
SessionCookieRefusal(idToken, expiresIn) ==
  LET validDuration == expiresIn \div 1000
  IN FirstRefusal(<<Require(idToken \in Text, "INVALID_ID_TOKEN"),
                    Require(validDuration \in MinCookieSecs..MaxCookieSecs,
                            "INVALID_SESSION_COOKIE_DURATION")>>)

EmailActionTypes == {"PASSWORD_RESET", "VERIFY_EMAIL", "EMAIL_SIGNIN", "VERIFY_AND_CHANGE_EMAIL"}

OobCodeRefusal(l) ==
  FirstRefusal(<<Verdict(<<Check("email", Email, "INVALID_EMAIL"),
                           Check("newEmail", Email, "INVALID_NEW_EMAIL")>>, Requiring(l.emails, {"email"})),
                 Require(l.type \in EmailActionTypes, "INVALID_ARGUMENT")>>)

SettingsChecks ==
  <<Check("url", Url \cup {"bad"}, "MISSING_CONTINUE_URI"),
    Check("url", Url, "INVALID_CONTINUE_URI"),
    Check("handleCodeInApp", Bool, "INVALID_ARGUMENT"),
    Check("dynamicLinkDomain", Text, "INVALID_DYNAMIC_LINK_DOMAIN"),
    Check("linkDomain", Text, "INVALID_HOSTING_LINK_DOMAIN"),
    Check("iOS.bundleId", Text \cup {"bad"}, "MISSING_IOS_BUNDLE_ID"),
    Check("iOS.bundleId", Text, "INVALID_ARGUMENT"),
    Check("android.packageName", Text \cup {"bad"}, "MISSING_ANDROID_PACKAGE_NAME"),
    Check("android.packageName", Text, "INVALID_ARGUMENT"),
    Check("android.minimumVersion", Text, "INVALID_ARGUMENT"),
    Check("android.installApp", Bool, "INVALID_ARGUMENT")>>

ActionCodeSettingsRefusal(s) ==
  LET needed == {"url"} \cup (IF Given(s, "iOS") THEN {"iOS.bundleId"} ELSE {})
                \cup (IF Given(s, "android") THEN {"android.packageName"} ELSE {})
  IN Verdict(SettingsChecks, Requiring(s, needed))

ActionCodeRequest(s) ==
  LET defaults == Field("handleCodeInApp", "false")
                  ++ (IF Given(s, "android") THEN Field("android.installApp", "false") ELSE EmptyObject)
  IN RenameAll(s ++ defaults,
       [url |-> "continueUrl", handleCodeInApp |-> "canHandleCodeInApp",
        dynamicLinkDomain |-> "dynamicLinkDomain", linkDomain |-> "linkDomain"]
       ++ Field("android.packageName", "androidPackageName")
       ++ Field("android.minimumVersion", "androidMinimumVersion")
       ++ Field("android.installApp", "androidInstallApp")
       ++ Field("iOS.bundleId", "iOSBundleId"))

(* An action link: its type, the e-mails, and the settings, if given.       *)
EmailLinkRefusal(l) ==
  FirstRefusal(<<Require(l.settings # << >> \/ l.type # "EMAIL_SIGNIN", "INVALID_ARGUMENT")>>
    \o Each(ActionCodeSettingsRefusal, l.settings)
    \o <<Require(l.type # "VERIFY_AND_CHANGE_EMAIL" \/ Given(l.emails, "newEmail"), "INVALID_ARGUMENT"),
         OobCodeRefusal(l)>>)

EmailLinkRequest(l) ==
  [requestType |-> l.type, emails |-> l.emails, settings |-> Each(ActionCodeRequest, l.settings)]

----------------------------------------------------------------------------
(* Listing: a page of at most maxResults users, from a page token on.       *)

MaxDownloadPageSize == 1000

DownloadRefusal(page) ==
  FirstRefusal(<<Verdict(<<Check("pageToken", Uid, "INVALID_PAGE_TOKEN")>>, page),
                 Require(page.maxResults \in 1..MaxDownloadPageSize, "INVALID_ARGUMENT")>>)
=============================================================================
