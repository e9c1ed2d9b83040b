---------------------------- MODULE TenantFormat ----------------------------
(***************************************************************************)
(* tenant.ts, project-config.ts and the configurations of auth-config.ts   *)
(* they share: what is refused, the request built for the server and the   *)
(* tenant or project configuration read back.                              *)
(***************************************************************************)
EXTENDS ProviderFormat

CONSTANTS TenantText, TestPhone, TestCode, Lists,
          MaxTestPhones  \* MAXIMUM_TEST_PHONE_NUMBERS

Inverted(b) == IF b = "true" THEN "false" ELSE "true"

----------------------------------------------------------------------------
(* Sign-in by e-mail *)

EmailSignInRefusal(o) ==
  FirstRefusal(<<UnknownKeys(o, {"enabled", "passwordRequired"}, "INVALID_ARGUMENT"),
                 Verdict(<<Check("enabled", Bool \cup {"undefined"}, "INVALID_ARGUMENT"),
                           Check("passwordRequired", Bool \cup {"undefined"}, "INVALID_ARGUMENT")>>, o)>>)

EmailSignInRequest(o) ==
  RenameAll(Restrict(o, {k \in DOMAIN o : o[k] # "undefined"}), [enabled |-> "allowPasswordSignup"])
  ++ [k \in {"enableEmailLinkSignin" : p \in DOMAIN o \cap {"passwordRequired"}} |-> Inverted(o.passwordRequired)]

(* What the server does not know is disabled. *)
EmailSignInConfig(response) ==
  IF Given(response, "allowPasswordSignup")
  THEN [enabled |-> response.allowPasswordSignup,
        passwordRequired |-> Inverted(Flag(response, "enableEmailLinkSignin"))]
  ELSE [enabled |-> "false", passwordRequired |-> "true"]

----------------------------------------------------------------------------
(* Second factors: factorIds "empty" clears the list, providerConfigs is a  *)
(* sequence.                                                               *)

MultiFactorConfigState == {"ENABLED", "DISABLED"}

ServerFactors == [phone |-> "PHONE_SMS", empty |-> "empty"]
ClientFactors == [PHONE_SMS |-> "phone", empty |-> "empty", UNKNOWN |-> "empty"]

(* The only second factor with a configuration is TOTP, which must be given.*)
ProviderConfigRefusal(p) ==
  LET totp == At(p, "totpProviderConfig")
  IN FirstRefusal(<<UnknownKeys(p, {"state", "totpProviderConfig"}, "INVALID_CONFIG"),
                    Require(Given(p, "state") /\ Flag(p, "state") \in MultiFactorConfigState, "INVALID_CONFIG"),
                    Require(Given(p, "totpProviderConfig"), "INVALID_CONFIG"),
                    UnknownKeys(totp, {"adjacentIntervals"}, "INVALID_CONFIG"),
                    Require(Given(totp, "adjacentIntervals") => totp.adjacentIntervals \in 0..10, "INVALID_ARGUMENT")>>)

MultiFactorRefusal(o) ==
  FirstRefusal(<<UnknownKeys(o, {"state", "factorIds", "providerConfigs"}, "INVALID_CONFIG"),
                 Verdict(<<Check("state", MultiFactorConfigState, "INVALID_CONFIG"),
                           Check("factorIds", DOMAIN ServerFactors, "INVALID_CONFIG")>>, Without(o, {"providerConfigs"}))>>
               \o (IF Given(o, "providerConfigs") THEN Each(ProviderConfigRefusal, o.providerConfigs) ELSE << >>))

MultiFactorRequest(o) ==
  RenameAll([k \in DOMAIN o \cap {"factorIds"} |-> ServerFactors[o[k]]] ++ o,
            [state |-> "state", factorIds |-> "enabledProviders", providerConfigs |-> "providerConfigs"])

MultiFactorConfig(response) ==
  [state |-> response.state,
   factorIds |-> IF Given(response, "enabledProviders") THEN ClientFactors[response.enabledProviders] ELSE "empty",
   providerConfigs |-> IF Given(response, "providerConfigs") THEN response.providerConfigs ELSE << >>]

----------------------------------------------------------------------------
(* The numbers to test with, regions, e-mail privacy and links *)

testPhoneNumbersRefusal(phones) ==
  FirstRefusal(<<Require(Cardinality(DOMAIN phones) <= MaxTestPhones, "MAXIMUM_TEST_PHONE_NUMBER_EXCEEDED"),
                 Require(DOMAIN phones \subseteq TestPhone, "INVALID_TESTING_PHONE_NUMBER"),
                 Require(\A p \in DOMAIN phones : phones[p] \in TestCode, "INVALID_TESTING_PHONE_NUMBER")>>)

SmsRegionConfig == {"allowByDefault", "allowlistOnly"}

SmsRegionsRefusal(o) ==
  FirstRefusal(<<UnknownKeys(o, SmsRegionConfig, "INVALID_CONFIG"),
                 Require(DOMAIN o # SmsRegionConfig, "INVALID_CONFIG"),
                 Require(\A k \in DOMAIN o : o[k] \in Lists, "INVALID_CONFIG")>>)

EmailPrivacyRefusal(o) ==
  FirstRefusal(<<UnknownKeys(o, {"enableImprovedEmailPrivacy"}, "INVALID_CONFIG"),
                 Verdict(<<Check("enableImprovedEmailPrivacy", Bool, "INVALID_CONFIG")>>, o)>>)

MobileLinksRefusal(o) ==
  FirstRefusal(<<UnknownKeys(o, {"domain"}, "INVALID_CONFIG"),
                 Verdict(<<Check("domain", {"HOSTING_DOMAIN", "FIREBASE_DYNAMIC_LINK_DOMAIN"}, "INVALID_CONFIG")>>, o)>>)

----------------------------------------------------------------------------
(* reCAPTCHA *)

RecaptchaConfig ==
  {"emailPasswordEnforcementState", "phoneEnforcementState", "managedRules", "recaptchaKeys",
   "useAccountDefender", "useSmsBotScore", "useSmsTollFraudProtection", "smsTollFraudManagedRules"}

RecaptchaEnforcementState == {"OFF", "AUDIT", "ENFORCE"}

RecaptchaChecks ==
  <<Check("emailPasswordEnforcementState", RecaptchaEnforcementState \cup {"bad"}, "INVALID_ARGUMENT"),
    Check("emailPasswordEnforcementState", RecaptchaEnforcementState, "INVALID_CONFIG"),
    Check("phoneEnforcementState", RecaptchaEnforcementState \cup {"bad"}, "INVALID_ARGUMENT"),
    Check("phoneEnforcementState", RecaptchaEnforcementState, "INVALID_CONFIG"),
    Check("managedRules", Lists, "INVALID_CONFIG"),
    Check("useAccountDefender", Bool, "INVALID_CONFIG"),
    Check("useSmsBotScore", Bool, "INVALID_CONFIG"),
    Check("useSmsTollFraudProtection", Bool, "INVALID_CONFIG"),
    Check("smsTollFraudManagedRules", Lists, "INVALID_CONFIG")>>

RecaptchaRefusal(o) ==
  FirstRefusal(<<UnknownKeys(o, RecaptchaConfig, "INVALID_CONFIG"), Verdict(RecaptchaChecks, o)>>)

RecaptchaRequest(o) == Rename(o, "smsTollFraudManagedRules", "tollFraudManagedRules")

RecaptchaAuthConfig(response) == Rename(response, "tollFraudManagedRules", "smsTollFraudManagedRules")

----------------------------------------------------------------------------
(* The password policy: a request always names all of it. *)

MinPasswordLength == 6
MaxPasswordLength == 4096

DefaultConstraints ==
  [requireUppercase |-> "false", requireLowercase |-> "false", requireNonAlphanumeric |-> "false",
   requireNumeric |-> "false", minLength |-> MinPasswordLength, maxLength |-> MaxPasswordLength]

ConstraintsRefusal(o) ==
  LET c == o ++ DefaultConstraints
      IsFlag(k) == Require(c[k] \in Bool, "INVALID_CONFIG")
  IN FirstRefusal(
       <<UnknownKeys(o, DOMAIN DefaultConstraints, "INVALID_CONFIG")>>
       \o Each(IsFlag, <<"requireUppercase", "requireLowercase", "requireNonAlphanumeric", "requireNumeric">>)
       \o <<Require(c.minLength \in MinPasswordLength..30, "INVALID_CONFIG"),
            Require(c.maxLength \in c.minLength..MaxPasswordLength, "INVALID_CONFIG")>>)

PasswordPolicyRefusal(o) ==
  FirstRefusal(<<UnknownKeys(o, {"enforcementState", "forceUpgradeOnSignin", "constraints"}, "INVALID_CONFIG"),
                 Verdict(<<Check("enforcementState", {"ENFORCE", "OFF"}, "INVALID_CONFIG"),
                           Check("forceUpgradeOnSignin", Bool, "INVALID_CONFIG")>>,
                         Requiring(Only(o, {"enforcementState", "forceUpgradeOnSignin"}), {"enforcementState"})),
                 IF Given(o, "constraints") THEN ConstraintsRefusal(o.constraints)
                 ELSE Require(o.enforcementState # "ENFORCE", "INVALID_CONFIG")>>)

StrengthNames ==
  [requireUppercase |-> "containsUppercaseCharacter", requireLowercase |-> "containsLowercaseCharacter",
   requireNonAlphanumeric |-> "containsNonAlphanumericCharacter", requireNumeric |-> "containsNumericCharacter",
   minLength |-> "minPasswordLength", maxLength |-> "maxPasswordLength"]

PasswordPolicyRequest(o) ==
  [passwordPolicyEnforcementState |-> o.enforcementState,
   forceUpgradeOnSignin |-> Flag(o, "forceUpgradeOnSignin"),
   passwordPolicyVersions |-> RenameAll(At(o, "constraints") ++ DefaultConstraints, StrengthNames)]

PasswordPolicyConfig(response) ==
  [enforcementState |-> response.passwordPolicyEnforcementState,
   forceUpgradeOnSignin |-> Flag(response, "forceUpgradeOnSignin"),
   constraints |-> [k \in DOMAIN StrengthNames |-> response.passwordPolicyVersions[StrengthNames[k]]]]

----------------------------------------------------------------------------
(* Tenants and the project *)

SharedConfigs == {"multiFactorConfig", "smsRegionConfig", "recaptchaConfig", "passwordPolicyConfig", "emailPrivacyConfig"}

UpdateTenantRequest == SharedConfigs \cup {"displayName", "emailSignInConfig", "anonymousSignInEnabled", "testPhoneNumbers"}

UpdateProjectConfigRequest == SharedConfigs \cup {"mobileLinksConfig"}

RefusalOf(o, k) ==
  IF ~Given(o, k) THEN "ok"
  ELSE CASE k = "multiFactorConfig" -> MultiFactorRefusal(o[k])
         [] k = "smsRegionConfig" -> SmsRegionsRefusal(o[k])
         [] k = "recaptchaConfig" -> RecaptchaRefusal(o[k])
         [] k = "passwordPolicyConfig" -> PasswordPolicyRefusal(o[k])
         [] k = "emailPrivacyConfig" -> EmailPrivacyRefusal(o[k])
         [] k = "mobileLinksConfig" -> MobileLinksRefusal(o[k])
         [] k = "emailSignInConfig" -> EmailSignInRefusal(o[k])
         [] k = "testPhoneNumbers" -> testPhoneNumbersRefusal(o[k])
         [] OTHER -> Verdict(<<Check("displayName", TenantText, "INVALID_ARGUMENT")>>, Only(o, {"displayName"}))

(* nullPhones: the test numbers are given as null, which clears them.       *)
TenantRefusal(o, nullPhones, createRequest) ==
  FirstRefusal(<<UnknownKeys(o, UpdateTenantRequest, "INVALID_ARGUMENT"),
                 RefusalOf(o, "displayName"), RefusalOf(o, "emailSignInConfig"),
                 Require(~(nullPhones /\ createRequest), "INVALID_ARGUMENT"),
                 RefusalOf(o, "testPhoneNumbers"), RefusalOf(o, "multiFactorConfig"),
                 RefusalOf(o, "smsRegionConfig"), RefusalOf(o, "recaptchaConfig"),
                 RefusalOf(o, "passwordPolicyConfig"), RefusalOf(o, "emailPrivacyConfig")>>)

ProjectRefusal(o) ==
  FirstRefusal(<<UnknownKeys(o, UpdateProjectConfigRequest, "INVALID_ARGUMENT"),
                 RefusalOf(o, "smsRegionConfig"), RefusalOf(o, "multiFactorConfig"),
                 RefusalOf(o, "recaptchaConfig"), RefusalOf(o, "passwordPolicyConfig"),
                 RefusalOf(o, "emailPrivacyConfig"), RefusalOf(o, "mobileLinksConfig")>>)

(* One configuration of the request, converted, under its name at the server. *)
Converted(o, k, name, Convert(_)) == IF Given(o, k) THEN Field(name, Convert(o[k])) ELSE EmptyObject

TenantRequest(o, nullPhones) ==
  (IF nullPhones THEN Field("testPhoneNumbers", EmptyObject) ELSE EmptyObject)
  ++ EmailSignInRequest(At(o, "emailSignInConfig"))
  ++ RenameAll(o, [displayName |-> "displayName", anonymousSignInEnabled |-> "enableAnonymousUser",
                   testPhoneNumbers |-> "testPhoneNumbers", smsRegionConfig |-> "smsRegionConfig",
                   emailPrivacyConfig |-> "emailPrivacyConfig"])
  ++ Converted(o, "multiFactorConfig", "mfaConfig", MultiFactorRequest)
  ++ Converted(o, "recaptchaConfig", "recaptchaConfig", RecaptchaRequest)
  ++ Converted(o, "passwordPolicyConfig", "passwordPolicyConfig", PasswordPolicyRequest)

ProjectRequest(o) ==
  Only(o, {"smsRegionConfig", "emailPrivacyConfig", "mobileLinksConfig"})
  ++ Converted(o, "multiFactorConfig", "mfa", MultiFactorRequest)
  ++ Converted(o, "recaptchaConfig", "recaptchaConfig", RecaptchaRequest)
  ++ Converted(o, "passwordPolicyConfig", "passwordPolicyConfig", PasswordPolicyRequest)

Tenant(tenantId, response) ==
  [tenantId |-> tenantId, emailSignInConfig |-> EmailSignInConfig(response),
   anonymousSignInEnabled |-> Flag(response, "enableAnonymousUser")]
  ++ Only(response, {"displayName", "testPhoneNumbers", "smsRegionConfig", "emailPrivacyConfig"})
  ++ Converted(response, "mfaConfig", "multiFactorConfig", MultiFactorConfig)
  ++ Converted(response, "recaptchaConfig", "recaptchaConfig", RecaptchaAuthConfig)
  ++ Converted(response, "passwordPolicyConfig", "passwordPolicyConfig", PasswordPolicyConfig)

ProjectConfig(response) ==
  Only(response, {"smsRegionConfig", "emailPrivacyConfig", "mobileLinksConfig"})
  ++ Converted(response, "mfa", "multiFactorConfig", MultiFactorConfig)
  ++ Converted(response, "recaptchaConfig", "recaptchaConfig", RecaptchaAuthConfig)
  ++ Converted(response, "passwordPolicyConfig", "passwordPolicyConfig", PasswordPolicyConfig)
=============================================================================
