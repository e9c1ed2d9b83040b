---------------------------- MODULE ConfigStore -----------------------------
(***************************************************************************)
(* What the configuration calls promise about the configurations as the    *)
(* SDK shows them: a new one holds what was given over the defaults, an    *)
(* update sets the fields it names, of nested objects too, except for test *)
(* numbers, SMS regions and password policies, which are set as a whole.   *)
(* Under its name a configuration is << >> or << what is shown >>.         *)
(***************************************************************************)
EXTENDS JsObject

CONSTANTS Saml, Oidc, Tenants, Project,
          NewProviders, NewTenants, ProviderUpdates, TenantChanges, ProjectUpdates

VARIABLE shown

Name == Saml \cup Oidc \cup Tenants \cup {Project}

Part(o, k) == IF Given(o, k) THEN o[k] ELSE EmptyObject

Init == DOMAIN shown = Name

(* An empty object clears the part it stands for.                           *)
Merged(old, new) == IF DOMAIN new = {} THEN new ELSE new ++ old

(* Request signing goes with the other data of the identity provider only.  *)
Effective(id, o) ==
  IF id \in Saml /\ DOMAIN o \cap {"idpEntityId", "ssoURL", "x509Certificates"} = {}
  THEN Without(o, {"enableRequestSigning"}) ELSE o

ProviderDefaults(id) ==
  [enabled |-> "false"] ++ (IF id \in Saml THEN [enableRequestSigning |-> "false"] ELSE EmptyObject)

ChangedProvider(id, old, o) ==
  LET e == Without(Effective(id, o), {"providerId"})
  IN [k \in DOMAIN e \cap {"responseType"} |-> Merged(Part(old, k), e[k])] ++ e ++ old

PolicyDefaults ==
  [forceUpgradeOnSignin |-> "false",
   constraints |-> [requireUppercase |-> "false", requireLowercase |-> "false", requireNonAlphanumeric |-> "false",
                    requireNumeric |-> "false", minLength |-> 6, maxLength |-> 4096]]

Policy(p) ==
  [k \in DOMAIN p \cap {"constraints"} |-> p[k] ++ PolicyDefaults.constraints] ++ p ++ PolicyDefaults

FactorDefaults == [factorIds |-> "empty", providerConfigs |-> << >>]

(* What is shown of part k after it was given as value.                     *)
ChangedPart(old, k, value) ==
  CASE k = "passwordPolicyConfig" -> Policy(value)
    [] k = "multiFactorConfig" -> value ++ Part(old, k) ++ FactorDefaults
    [] k = "emailSignInConfig" ->
         [i \in DOMAIN value |-> IF value[i] = "undefined" THEN "false" ELSE value[i]] ++ Part(old, k)
    [] k \in {"recaptchaConfig", "emailPrivacyConfig", "mobileLinksConfig"} -> Merged(Part(old, k), value)
    [] OTHER -> value

ChangedShared(old, o) == [k \in DOMAIN o |-> ChangedPart(old, k, o[k])] ++ old

ChangedTenant(old, o, nullPhones) ==
  ChangedShared(old, o) ++ (IF nullPhones THEN Field("testPhoneNumbers", EmptyObject) ELSE EmptyObject)

NewTenant(id) ==
  [tenantId |-> id, anonymousSignInEnabled |-> "false",
   emailSignInConfig |-> [enabled |-> "false", passwordRequired |-> "true"]]

CreateProvider(n) ==
  /\ n \in Saml \cup Oidc /\ shown[n] = << >>
  /\ \E o \in NewProviders :
       o.providerId = n
       /\ shown' = [shown EXCEPT ![n] = <<Field("providerId", n) ++ ChangedProvider(n, ProviderDefaults(n), o)>>]

UpdateProvider(n) ==
  /\ n \in Saml \cup Oidc /\ shown[n] # << >>
  /\ \E u \in ProviderUpdates : u.id = n /\ shown' = [shown EXCEPT ![n] = <<ChangedProvider(n, @[1], u.config)>>]

CreateTenant(n) ==
  /\ n \in Tenants /\ shown[n] = << >>
  /\ \E o \in NewTenants : shown' = [shown EXCEPT ![n] = <<ChangedShared(NewTenant(n), o)>>]

UpdateTenant(n) ==
  /\ n \in Tenants /\ shown[n] # << >>
  /\ \E u \in TenantChanges : shown' = [shown EXCEPT ![n] =
       <<ChangedTenant(IF u.nullPhones THEN Without(@[1], {"testPhoneNumbers"}) ELSE @[1], u.config, u.nullPhones)>>]

UpdateProject ==
  /\ shown[Project] # << >>
  /\ \E o \in ProjectUpdates : shown' = [shown EXCEPT ![Project] = <<ChangedShared(@[1], o)>>]

Delete(n) == n # Project /\ shown' = [shown EXCEPT ![n] = << >>]

Next ==
  /\ shown' # shown
  /\ \/ \E n \in Name : CreateProvider(n) \/ UpdateProvider(n) \/ CreateTenant(n) \/ UpdateTenant(n) \/ Delete(n)
     \/ UpdateProject

Spec == Init /\ [][Next]_shown
=============================================================================
