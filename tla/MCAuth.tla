------------------------------- MODULE MCAuth -------------------------------
(***************************************************************************)
(* The users and the configurations of Auth, for TLC.  They share no       *)
(* state, so a behaviour calls one of the two (bound).                     *)
(***************************************************************************)
EXTENDS Users, AuthConfigs

(***************************************************************************)
(* The inputs of the calls about users, good ones and refused ones.        *)
(***************************************************************************)

MCAccounts ==
  {[u1 |-> [attrs |-> [localId |-> "u1", email |-> "a@x", displayName |-> "A", photoUrl |-> "url1",
                       phoneNumber |-> "+1", customAttributes |-> "{admin}"],
            providers |-> {[providerId |-> "idp", rawId |-> "A"]},
            mfaInfo |-> <<[mfaEnrollmentId |-> "m", phoneInfo |-> "+1", enrolledAt |-> "iso1"]>>],
    u2 |-> NoAccount]}

MCCreate ==
  {Properties([email |-> "a@x", displayName |-> "A", photoURL |-> "url1", password |-> "secret"]),
   [Properties([uid |-> "u1", disabled |-> "true", phoneNumber |-> "+1"])
      EXCEPT !.factors = [given |-> "list", list |-> <<[factorId |-> "phone", phoneNumber |-> "+1"]>>]],
   [Properties([uid |-> "u2"])
      EXCEPT !.factors = [given |-> "list", list |-> <<[factorId |-> "phone", uid |-> "m", phoneNumber |-> "+1"]>>]],
   Properties([uid |-> "u1", email |-> "bad"])}

MCUpdate ==
  {[Properties([displayName |-> "null", photoURL |-> "null", phoneNumber |-> "null", emailVerified |-> "true"])
      EXCEPT !.unlink = <<"idp">>],
   [Properties([photoURL |-> "url2", disabled |-> "true"])
      EXCEPT !.link = <<[providerId |-> "idp", uid |-> "A", displayName |-> "A", photoURL |-> "url1"]>>],
   [Properties([disabled |-> "false"]) EXCEPT !.link = <<[providerId |-> "phone", uid |-> "+2"]>>,
      !.factors = [given |-> "list",
                   list |-> <<[factorId |-> "phone", uid |-> "m", phoneNumber |-> "+2", enrollmentTime |-> "utc2"]>>]],
   [Properties([displayName |-> "B"]) EXCEPT !.unlink = <<"idp", "phone">>,
      !.factors = [given |-> "null", list |-> << >>]],
   [Properties([email |-> "a@x"]) EXCEPT !.link = <<[providerId |-> "email", uid |-> "b@x"]>>],
   [Properties([phoneNumber |-> "null"]) EXCEPT !.unlink = <<"phone">>]}

MCClaims == {"null", "admin", "reserved"}

User(attrs) == [attrs |-> attrs, providerData |-> << >>, factors |-> << >>]

MCImport ==
  {<<User([uid |-> "bad", email |-> "a@x"]),
     User([uid |-> "u1", email |-> "a@x", passwordHash |-> "hash", customClaims |-> "admin"]),
     [User([uid |-> "u2", phoneNumber |-> "+1", creationTime |-> "utc1"])
        EXCEPT !.providerData = <<[providerId |-> "idp", uid |-> "A"]>>,
               !.factors = <<[factorId |-> "phone", phoneNumber |-> "+1", enrollmentTime |-> "utc1"]>>]>>,
   <<User([uid |-> "u1", displayName |-> "B"]), User([uid |-> "u2", customClaims |-> "large"]),
     User([uid |-> "u1", displayName |-> "A"])>>,
   <<User([uid |-> "u1", tenantId |-> "B"])>>,
   <<User([uid |-> "u1", passwordHash |-> "bad"])>>}

MCOptions ==
  {[given |-> "no"],
   [given |-> "hash", hash |-> [algorithm |-> "SCRYPT", key |-> "buffer", saltSeparator |-> "no",
                                numbers |-> [rounds |-> 8, memoryCost |-> 14]]]}

MCDelete == {<< >>, <<"u1", "u2", "u1", "u2">>, <<"u2", "u1">>, <<"u1", "bad">>}

MCLookups ==
  {<<[kind |-> "uid", value |-> "u1"], [kind |-> "email", value |-> "a@x"],
     [kind |-> "phone", value |-> "+2"], [kind |-> "provider", providerId |-> "idp", value |-> "A"]>>,
   <<[kind |-> "email", value |-> "b@x"], [kind |-> "uid", value |-> "bad"]>>}

MCGets == {getAccountInfoByUid("u1"), getUserByProviderUid("phone", "bad"), getUserByProviderUid("email", "b@x"),
           getUserByProviderUid("idp", "A")}

MCPages == {[maxResults |-> 1, pageToken |-> "u2"], [maxResults |-> 1], [maxResults |-> 1001]}

MCOrder == <<"u1", "u2">>

MCCookies == {[idToken |-> "A", expiresIn |-> 300000], [idToken |-> "A", expiresIn |-> 299999]}

MCLinks ==
  {[type |-> "EMAIL_SIGNIN", emails |-> [email |-> "a@x"],
    settings |-> <<[url |-> "url1", android |-> "given"] @@ ("android.packageName" :> "A")>>],
   [type |-> "EMAIL_SIGNIN", emails |-> [email |-> "a@x"], settings |-> << >>],
   [type |-> "VERIFY_AND_CHANGE_EMAIL", emails |-> [email |-> "a@x", newEmail |-> "bad"], settings |-> << >>]}

(***************************************************************************)
(* The inputs of the calls about configurations, good and refused.         *)
(***************************************************************************)

SamlInput ==
  [providerId |-> "saml.a", idpEntityId |-> "A", ssoURL |-> "url1", x509Certificates |-> "certs1",
   rpEntityId |-> "A", callbackURL |-> "url1", enableRequestSigning |-> "true", enabled |-> "true", displayName |-> "A"]

OidcInput ==
  [providerId |-> "oidc.a", clientId |-> "A", issuer |-> "url1", enabled |-> "true",
   responseType |-> [idToken |-> "true"]]

MCNewProviders ==
  {SamlInput, OidcInput, Without(SamlInput, {"ssoURL"}), [SamlInput EXCEPT !.providerId = "wrong"],
   [OidcInput EXCEPT !.responseType = [code |-> "true"]]}

MCProviderUpdates ==
  {[id |-> i, config |-> o] :
     i \in {"saml.a"}, o \in {[ssoURL |-> "url2", enabled |-> "false"], [enableRequestSigning |-> "false", displayName |-> "B"],
                              [callbackURL |-> "url2", x509Certificates |-> "empty"], [rpEntityId |-> "bad"]}}
  \cup
  {[id |-> i, config |-> o] :
     i \in {"oidc.a"}, o \in {[responseType |-> [code |-> "true"]], [clientSecret |-> "A", responseType |-> [code |-> "true"]],
                              [responseType |-> [idToken |-> "false"], displayName |-> "B"],
                              [responseType |-> EmptyObject], [responseType |-> [code |-> "true", idToken |-> "true"]]}}

MCTenant ==
  [displayName |-> "A", emailSignInConfig |-> [enabled |-> "true", passwordRequired |-> "false"],
   multiFactorConfig |-> [state |-> "ENABLED", factorIds |-> "phone"],
   testPhoneNumbers |-> [p1 |-> "123456"],
   smsRegionConfig |-> [allowByDefault |-> "list1"]]

MCNewTenants == {MCTenant, [displayName |-> "B", testPhoneNumbers |-> [bad |-> "123456"]]}

MCTenantUpdates ==
  {[id |-> "tenant1", nullPhones |-> n, config |-> o] : n \in {FALSE}, o \in
     {[emailSignInConfig |-> [enabled |-> "false"], smsRegionConfig |-> [allowlistOnly |-> "empty"]],
      [multiFactorConfig |-> [state |-> "DISABLED", factorIds |-> "empty"], testPhoneNumbers |-> [p2 |-> "123456"]],
      [multiFactorConfig |-> [state |-> "ENABLED", providerConfigs |->
         <<[state |-> "ENABLED", totpProviderConfig |-> [adjacentIntervals |-> 10]]>>], anonymousSignInEnabled |-> "true"],
      [multiFactorConfig |-> [state |-> "ENABLED", providerConfigs |->
         <<[state |-> "ENABLED", totpProviderConfig |-> [adjacentIntervals |-> 11]]>>]],
      [passwordPolicyConfig |-> [enforcementState |-> "ENFORCE", constraints |-> [minLength |-> 8]],
       emailPrivacyConfig |-> [enableImprovedEmailPrivacy |-> "true"]],
      [passwordPolicyConfig |-> [enforcementState |-> "ENFORCE", constraints |-> [minLength |-> 5]]],
      [passwordPolicyConfig |-> [enforcementState |-> "OFF"], recaptchaConfig |-> [smsTollFraudManagedRules |-> "list1"]]}}
  \cup {[id |-> "tenant1", nullPhones |-> TRUE, config |-> [displayName |-> "B"]],
        [id |-> "", nullPhones |-> TRUE, config |-> EmptyObject]}

MCProjectUpdates ==
  {[recaptchaConfig |-> [phoneEnforcementState |-> "AUDIT", useSmsBotScore |-> "true"],
    mobileLinksConfig |-> [domain |-> "HOSTING_DOMAIN"]],
   [recaptchaConfig |-> EmptyObject, smsRegionConfig |-> [allowByDefault |-> "empty"]],
   [smsRegionConfig |-> [allowlistOnly |-> "list1", allowByDefault |-> "list1"]]}

MCStoredConfigs ==
  {[n \in Name |->
      CASE n = Project -> <<ProjectRequest([recaptchaConfig |-> [emailPasswordEnforcementState |-> "OFF", managedRules |-> "list1"]])>>
        [] n \in Saml -> <<SAMLRequest(SamlInput)>>
        [] n = "tenant1" -> <<TenantRequest(MCTenant, FALSE)>>
        [] OTHER -> << >>]}

MCConfigPages ==
  {[type |-> "saml"], [type |-> "phone", maxResults |-> 3], [type |-> "oidc", maxResults |-> 2, pageToken |-> ""]}

-----------------------------------------------------------------------------

AuthInit == Init /\ ConfigInit

AuthNext ==
  \/ configCalls = 0 /\ Next /\ UNCHANGED configVars
  \/ calls = 0 /\ ConfigNext /\ UNCHANGED vars
=============================================================================
