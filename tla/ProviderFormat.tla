--------------------------- MODULE ProviderFormat ---------------------------
(***************************************************************************)
(* auth-config.ts, the identity providers: what SAMLConfig and OIDCConfig  *)
(* refuse, the request they build for the server and the configuration     *)
(* they read back.  A list is a token ("certs1", "empty").  A server       *)
(* object holds scalars, and objects under the names of Nested.            *)
(***************************************************************************)
EXTENDS JsObject

CONSTANTS Saml, Oidc,  \* the ids of the two kinds of providers, told apart by their prefix
          ProviderText, ProviderUrl, Certificates

Nested ==
  {"idpConfig", "spConfig", "responseType", "mfaConfig", "mfa", "testPhoneNumbers", "smsRegionConfig",
   "recaptchaConfig", "passwordPolicyConfig", "emailPrivacyConfig", "mobileLinksConfig"}

(* Faulty variant: objects are not entered, a nested field stands for all.  *)
UpdateMaskOfTopFields(request, terminalPaths) == {<<k>> : k \in DOMAIN request}

(* The paths an update names; an empty object is named itself.              *)
generateUpdateMask(request, terminalPaths) ==
  UNION {IF k \in Nested \ terminalPaths /\ DOMAIN request[k] # {}
         THEN {<<k, sub>> : sub \in DOMAIN request[k]}
         ELSE {<<k>>} : k \in DOMAIN request}

(* The object under key where it is not empty. *)
Under(key, object) == IF DOMAIN object = {} THEN EmptyObject ELSE Field(key, object)

At(o, k) == IF Given(o, k) THEN o[k] ELSE EmptyObject

Flag(o, k) == IF Given(o, k) THEN o[k] ELSE "false"

UnknownKeys(o, keys, code) == Require(DOMAIN o \subseteq keys, code)

----------------------------------------------------------------------------
(* SAML *)

SAMLAuthProviderConfig ==
  {"enabled", "displayName", "providerId", "idpEntityId", "ssoURL", "x509Certificates", "rpEntityId",
   "callbackURL", "enableRequestSigning"}

SAMLChecks ==
  <<Check("idpEntityId", ProviderText, "INVALID_CONFIG"),
    Check("ssoURL", ProviderUrl, "INVALID_CONFIG"),
    Check("rpEntityId", ProviderText \cup {"bad"}, "MISSING_SAML_RELYING_PARTY_CONFIG"),
    Check("rpEntityId", ProviderText, "INVALID_CONFIG"),
    Check("callbackURL", ProviderUrl, "INVALID_CONFIG"),
    Check("x509Certificates", Certificates \cup {"empty"}, "INVALID_CONFIG"),
    Check("enableRequestSigning", Bool, "INVALID_CONFIG"),
    Check("enabled", Bool, "INVALID_CONFIG"),
    Check("displayName", ProviderText \cup {""}, "INVALID_CONFIG")>>

(* Fields may be missing in an update only. *)
SAMLRefusal(o, ignoreMissingFields) ==
  LET needed == {"idpEntityId", "ssoURL", "rpEntityId", "callbackURL", "x509Certificates"}
  IN FirstRefusal(<<UnknownKeys(o, SAMLAuthProviderConfig, "INVALID_CONFIG"),
                    Require(Given(o, "providerId") => o.providerId \in Saml, "INVALID_PROVIDER_ID"),
                    Require(Given(o, "providerId") \/ ignoreMissingFields, "MISSING_PROVIDER_ID"),
                    Verdict(SAMLChecks, IF ignoreMissingFields THEN o ELSE Requiring(o, needed))>>)

(* What the server calls the fields of the identity provider and of the     *)
(* service provider.                                                        *)
SAMLConfigServerRequest ==
  [idpConfig |-> [idpEntityId |-> "idpEntityId", ssoURL |-> "ssoUrl",
                  enableRequestSigning |-> "signRequest", x509Certificates |-> "idpCertificates"],
   spConfig |-> [rpEntityId |-> "spEntityId", callbackURL |-> "callbackUri"]]

(* The signing of requests is part of the IdP configuration, which is made  *)
(* only for one of its other fields.                                        *)
SAMLRequest(o) ==
  LET idpConfig == RenameAll(o, SAMLConfigServerRequest.idpConfig)
      spConfig == RenameAll(o, SAMLConfigServerRequest.spConfig)
  IN Only(o, {"enabled", "displayName"})
     ++ (IF DOMAIN idpConfig \subseteq {"signRequest"} THEN EmptyObject ELSE Field("idpConfig", idpConfig))
     ++ Under("spConfig", spConfig)

SAMLConfig(providerId, response) ==
  [providerId |-> providerId, enabled |-> Flag(response, "enabled"),
   enableRequestSigning |-> Flag(At(response, "idpConfig"), "signRequest")]
  ++ Only(response, {"displayName"})
  ++ RenameBack(At(response, "idpConfig"), SAMLConfigServerRequest.idpConfig)
  ++ RenameBack(At(response, "spConfig"), SAMLConfigServerRequest.spConfig)

----------------------------------------------------------------------------
(* OIDC *)

OIDCAuthProviderConfig ==
  {"enabled", "displayName", "providerId", "clientId", "issuer", "clientSecret", "responseType"}

OAuthResponseType == {"idToken", "code"}

OIDCChecks ==
  <<Check("clientId", ProviderText \cup {"bad"}, "MISSING_OAUTH_CLIENT_ID"),
    Check("clientId", ProviderText, "INVALID_OAUTH_CLIENT_ID"),
    Check("issuer", ProviderUrl \cup {"bad"}, "MISSING_ISSUER"),
    Check("issuer", ProviderUrl, "INVALID_CONFIG"),
    Check("enabled", Bool, "INVALID_CONFIG"),
    Check("displayName", ProviderText \cup {""}, "INVALID_CONFIG"),
    Check("clientSecret", ProviderText, "INVALID_CONFIG")>>

(* Faulty variant: the code flow needs no client secret. *)
ResponseTypeRefusalWithoutSecret(o) ==
  Verdict(<<Check("idToken", Bool, "INVALID_ARGUMENT"), Check("code", Bool, "INVALID_ARGUMENT")>>, At(o, "responseType"))

(* The code flow needs a client secret; of two types one must be enabled.   *)
ResponseTypeRefusal(o) ==
  LET t == At(o, "responseType")
  IN FirstRefusal(<<UnknownKeys(t, OAuthResponseType, "INVALID_CONFIG"),
                    Verdict(<<Check("idToken", Bool, "INVALID_ARGUMENT"), Check("code", Bool, "INVALID_ARGUMENT")>>, t),
                    Require(Flag(t, "code") = "true" => Given(o, "clientSecret"), "MISSING_OAUTH_CLIENT_SECRET"),
                    Require(DOMAIN t = OAuthResponseType => t.idToken # t.code, "INVALID_OAUTH_RESPONSETYPE")>>)

OIDCRefusal(o, ignoreMissingFields) ==
  FirstRefusal(<<UnknownKeys(o, OIDCAuthProviderConfig, "INVALID_CONFIG"),
                 Require(Given(o, "providerId") => o.providerId \in Oidc, "INVALID_PROVIDER_ID"),
                 Require(Given(o, "providerId") \/ ignoreMissingFields, "MISSING_PROVIDER_ID"),
                 Verdict(OIDCChecks, IF ignoreMissingFields THEN o ELSE Requiring(o, {"clientId", "issuer"})),
                 ResponseTypeRefusal(o)>>)

OIDCRequest(o) == Without(o, {"providerId"})

OIDCConfig(providerId, response) ==
  [providerId |-> providerId, enabled |-> Flag(response, "enabled")] ++ Without(response, {"enabled"})
=============================================================================
