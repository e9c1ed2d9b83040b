---------------------------- MODULE AuthConfigs -----------------------------
(***************************************************************************)
(* The configuration calls of Auth by several clients: identity providers  *)
(* (BaseAuth), tenants (TenantManager) and the project (                   *)
(* ProjectConfigManager), against the configurations the server keeps.     *)
(* An update is sent with a mask naming the fields the server is to set.   *)
(* The answer may be lost: the HTTP client repeats the request, or fails.  *)
(***************************************************************************)
EXTENDS TenantFormat

CONSTANTS
  Caller,
  Tenants,              \* the names of the tenants
  Project,              \* the name of the project's configuration
  WrongName,            \* what names no configuration
  StoredConfigs,        \* what may be stored to begin with: under each name << >> or <<config>>
  NewProviders, NewTenants,                  \* what is asked to be created
  ProviderUpdates, TenantUpdates, ProjectUpdates,
  ConfigPages,
  MaxPage,        \* the two limits of a page (100 and 1000), scaled down
  MaxConfigCalls, \* bound: calls over all clients
  MaxRepeats      \* bound: repeats of one request

Name == Saml \cup Oidc \cup Tenants \cup {Project}

VARIABLES
  configs,   \* the server's configurations: << >> or <<config>>
  asked,     \* the call of each client
  answer,    \* the outcome of each client's last call
  configCalls

configVars == <<configs, asked, answer, configCalls>>

Idle == [op |-> "none"]
NoAnswer == [op |-> "none", code |-> "ok"]

(* A provider that asks for the code flow has a client secret.              *)
CodeHasSecret(config) == Flag(At(config, "responseType"), "code") = "true" => Given(config, "clientSecret")

(* The server shows whether a link may do for a password only where it      *)
(* knows whether passwords are allowed.                                     *)
LinkSignInIsKnown(config) == Given(config, "enableEmailLinkSignin") => Given(config, "allowPasswordSignup")

(* Providers, tenants and the project are named apart, and what is stored   *)
(* to begin with could have been created.                                   *)
ASSUME ConfigsAssumption ==
  /\ Oidc \cap (Saml \cup Tenants \cup {Project, ""}) = {}
  /\ Saml \cap (Tenants \cup {Project}) = {} /\ Project \notin Tenants
  /\ \A u \in TenantUpdates : u.id \in Tenants \cup {""}
  /\ \A stored \in StoredConfigs :
       /\ DOMAIN stored = Name
       /\ \A n \in Oidc : stored[n] # << >> => CodeHasSecret(stored[n][1])
       /\ \A n \in Tenants : stored[n] # << >> => LinkSignInIsKnown(stored[n][1])

ConfigInit ==
  /\ configs \in StoredConfigs
  /\ asked = [c \in Caller |-> Idle]
  /\ answer = [c \in Caller |-> NoAnswer]
  /\ configCalls = 0

----------------------------------------------------------------------------
(* Requests *)

(* What a handler of AuthRequestHandler makes of its arguments: a refusal,  *)
(* or "ok" and the request to send, with the mask of an update.             *)
Asking(refusal, request, mask) == [refusal |-> refusal, request |-> request, mask |-> mask]

Updating(refusal, request) == Asking(refusal, request, generateUpdateMask(request, {}))

Plain(refusal) == Asking(refusal, EmptyObject, {})

OnlyFor(ids, id) == Require(id \in ids, "INVALID_PROVIDER_ID")

createInboundSamlConfig(o) == Asking(SAMLRefusal(o, FALSE), SAMLRequest(o), {})
createOAuthIdpConfig(o) == Asking(OIDCRefusal(o, FALSE), OIDCRequest(o), {})

updateInboundSamlConfig(id, o) == Updating(FirstRefusal(<<OnlyFor(Saml, id), SAMLRefusal(o, TRUE)>>), SAMLRequest(o))
updateOAuthIdpConfig(id, o) == Updating(FirstRefusal(<<OnlyFor(Oidc, id), OIDCRefusal(o, TRUE)>>), OIDCRequest(o))

getInboundSamlConfig(id) == Plain(OnlyFor(Saml, id))
getOAuthIdpConfig(id) == Plain(OnlyFor(Oidc, id))

deleteInboundSamlConfig(id) == Plain(OnlyFor(Saml, id))
deleteOAuthIdpConfig(id) == Plain(OnlyFor(Oidc, id))

(* A page is as large as allowed unless said otherwise.                     *)
AuthProviderConfigFilter == {"type", "maxResults", "pageToken"}

(* What the types of the code require of the input: objects where it reads  *)
(* their fields, lists, test numbers that are either given or null.         *)
ASSUME ConfigsAreTyped ==
  /\ \A f \in ConfigPages : DOMAIN f \subseteq AuthProviderConfigFilter
  /\ \A o \in NewTenants \cup {u.config : u \in TenantUpdates} \cup ProjectUpdates :
       /\ Given(o, "emailSignInConfig") => Given(o.emailSignInConfig, "enabled") /\ o.emailSignInConfig.enabled # "undefined"
       /\ Given(o, "multiFactorConfig") =>
            LET factors == o.multiFactorConfig
            IN /\ Given(factors, "state")
               /\ Given(factors, "providerConfigs") => factors.providerConfigs \in Seq(Range(factors.providerConfigs))
       /\ \A k \in {"smsRegionConfig", "recaptchaConfig", "emailPrivacyConfig", "mobileLinksConfig"} : IsObject(At(o, k))
  /\ \A o \in NewProviders \cup {u.config : u \in ProviderUpdates} : IsObject(At(o, "responseType"))
  /\ \A u \in TenantUpdates : u.nullPhones \in BOOLEAN /\ (u.nullPhones => ~Given(u.config, "testPhoneNumbers"))

PageRequest(type, filter) ==
  [type |-> type] ++ RenameAll(filter, [maxResults |-> "pageSize", pageToken |-> "pageToken"]) ++ [pageSize |-> MaxPage]

PageRefusal(page) ==
  FirstRefusal(<<Require(Given(page, "pageToken") => page.pageToken # "", "INVALID_PAGE_TOKEN"),
                 Require(page.pageSize \in 1..MaxPage, "INVALID_ARGUMENT")>>)

Listing(page) == Asking(PageRefusal(page), page, {})

listInboundSamlConfigs(filter) == Listing(PageRequest("saml", filter))
listOAuthIdpConfigs(filter) == Listing(PageRequest("oidc", filter))

createTenantRequest(o) == Asking(TenantRefusal(o, FALSE, TRUE), TenantRequest(o, FALSE), {})

(* Test numbers are replaced as a whole.                                    *)
updateTenantRequest(u) ==
  LET request == TenantRequest(u.config, u.nullPhones)
  IN Asking(FirstRefusal(<<Require(u.id # "", "INVALID_TENANT_ID"), TenantRefusal(u.config, u.nullPhones, FALSE)>>),
            request, generateUpdateMask(request, {"testPhoneNumbers"}))

listTenantsRequest(filter) == Listing(PageRequest("tenant", filter))

updateProjectConfigRequest(o) == Updating(ProjectRefusal(o), ProjectRequest(o))

----------------------------------------------------------------------------
(* Calls *)

(* A refused request is never sent.                                         *)
AskConfig(c, op, name, a) ==
  /\ asked[c] = Idle /\ configCalls < MaxConfigCalls
  /\ configCalls' = configCalls + 1
  /\ IF a.refusal # "ok"
     THEN /\ answer' = [answer EXCEPT ![c] = [op |-> op, code |-> a.refusal]]
          /\ UNCHANGED asked
     ELSE /\ asked' = [asked EXCEPT ![c] = [op |-> op, name |-> name, request |-> a.request, mask |-> a.mask,
                                            phase |-> "sent", tries |-> 0, response |-> NoAnswer]]
          /\ answer' = [answer EXCEPT ![c] = NoAnswer]
  /\ UNCHANGED configs

(* The prefix of a provider's id tells which kind it is.                    *)
ByProvider(id, oidc, saml) ==
  IF id \in Oidc THEN oidc ELSE IF id \in Saml THEN saml ELSE Plain("INVALID_PROVIDER_ID")

createProviderConfig(c) ==
  \E o \in NewProviders :
    AskConfig(c, "create", o.providerId, ByProvider(o.providerId, createOAuthIdpConfig(o), createInboundSamlConfig(o)))

updateProviderConfig(c) ==
  \E u \in ProviderUpdates :
    AskConfig(c, "update", u.id,
              ByProvider(u.id, updateOAuthIdpConfig(u.id, u.config), updateInboundSamlConfig(u.id, u.config)))

getProviderConfig(c) ==
  \E id \in Saml \cup Oidc \cup {WrongName} :
    AskConfig(c, "get", id, ByProvider(id, getOAuthIdpConfig(id), getInboundSamlConfig(id)))

deleteProviderConfig(c) ==
  \E id \in Saml \cup Oidc \cup {WrongName} :
    AskConfig(c, "delete", id, ByProvider(id, deleteOAuthIdpConfig(id), deleteInboundSamlConfig(id)))

listProviderConfigs(c) ==
  \E filter \in ConfigPages :
    AskConfig(c, "list", Project,
              CASE filter.type = "oidc" -> listOAuthIdpConfigs(filter)
                [] filter.type = "saml" -> listInboundSamlConfigs(filter)
                [] OTHER -> Plain("INVALID_ARGUMENT"))

(* The server names the tenant.                                             *)
createTenant(c) == \E o \in NewTenants : AskConfig(c, "create", Project, createTenantRequest(o))

updateTenant(c) == \E u \in TenantUpdates : AskConfig(c, "update", u.id, updateTenantRequest(u))

getTenant(c) ==
  \E id \in Tenants \cup {""} : AskConfig(c, "get", id, Plain(Require(id # "", "INVALID_TENANT_ID")))

deleteTenant(c) ==
  \E id \in Tenants \cup {""} : AskConfig(c, "delete", id, Plain(Require(id # "", "INVALID_TENANT_ID")))

listTenants(c) == \E filter \in ConfigPages : AskConfig(c, "list", Project, listTenantsRequest(filter))

getProjectConfig(c) == AskConfig(c, "get", Project, Plain("ok"))

updateProjectConfig(c) ==
  \E o \in ProjectUpdates : AskConfig(c, "update", Project, updateProjectConfigRequest(o))

----------------------------------------------------------------------------
(* The server (external): the fields of the mask are set, the others stay.  *)
(* Of the SMS regions one alternative holds.                                *)

Patched(o, request, mask) ==
  LET whole == {p[1] : p \in {q \in mask : Len(q) = 1}}
      parts == {p[1] : p \in {q \in mask : Len(q) = 2}}
      Named(k) == {p[2] : p \in {q \in mask : Len(q) = 2 /\ q[1] = k}}
      Kept(k) == IF k = "smsRegionConfig" THEN EmptyObject ELSE At(o, k)
      Part(k) == [sub \in Named(k) \cup DOMAIN Kept(k) |->
                    IF sub \in Named(k) THEN request[k][sub] ELSE Kept(k)[sub]]
  IN [k \in whole \cup parts \cup DOMAIN o |->
        IF k \in parts THEN Part(k) ELSE IF k \in whole THEN request[k] ELSE o[k]]

ConfigAnswered(c, response) ==
  asked' = [asked EXCEPT ![c].response = response, ![c].phase = "answered"]

(* A new tenant gets a free name.                                           *)
ServeNew(c) ==
  LET names == IF asked[c].name = Project THEN {t \in Tenants : configs[t] = << >>} ELSE {asked[c].name}
  IN IF \E n \in names : configs[n] = << >>
     THEN \E n \in names :
            /\ configs' = [configs EXCEPT ![n] = <<asked[c].request>>]
            /\ ConfigAnswered(c, [code |-> "ok", shown |-> {n}])
     ELSE ConfigAnswered(c, [code |-> "ALREADY_EXISTS", shown |-> {}]) /\ UNCHANGED configs

ServeExisting(c) ==
  LET n == asked[c].name
  IN /\ IF configs[n] = << >>
        THEN ConfigAnswered(c, [code |-> "NOT_FOUND", shown |-> {}])
        ELSE ConfigAnswered(c, [code |-> "ok", shown |-> IF asked[c].op = "delete" THEN {} ELSE {n}])
     /\ configs' = [configs EXCEPT ![n] =
          IF @ = << >> \/ asked[c].op = "get" THEN @
          ELSE IF asked[c].op = "delete" THEN << >>
          ELSE <<Patched(@[1], asked[c].request, asked[c].mask)>>]

ServePage(c) ==
  LET type == asked[c].request.type
      all == {n \in (CASE type = "saml" -> Saml [] type = "oidc" -> Oidc [] OTHER -> Tenants) : configs[n] # << >>}
  IN /\ \E S \in SUBSET all :
          /\ Cardinality(S) <= asked[c].request.pageSize
          /\ ConfigAnswered(c, [code |-> "ok", shown |-> S])
     /\ UNCHANGED configs

ServeConfig(c) ==
  /\ asked[c] # Idle /\ asked[c].phase = "sent"
  /\ CASE asked[c].op = "create" -> ServeNew(c)
       [] asked[c].op = "list" -> ServePage(c)
       [] OTHER -> ServeExisting(c)
  /\ UNCHANGED <<answer, configCalls>>

----------------------------------------------------------------------------
(* Answers *)

(* A configuration as the SDK shows it.                                     *)
Shown(n) ==
  IF configs[n] = << >> THEN << >>
  ELSE <<CASE n \in Saml -> SAMLConfig(n, configs[n][1])
           [] n \in Oidc -> OIDCConfig(n, configs[n][1])
           [] n \in Tenants -> Tenant(n, configs[n][1])
           [] n = Project -> ProjectConfig(configs[n][1])>>

FinishConfig(c, outcome) ==
  /\ asked' = [asked EXCEPT ![c] = Idle]
  /\ answer' = [answer EXCEPT ![c] = [op |-> asked[c].op] ++ outcome]
  /\ UNCHANGED <<configs, configCalls>>

(* The configurations are converted as they were when the server answered:  *)
(* which ones is all the model keeps of them.                               *)
ReturnConfig(c) ==
  /\ asked[c] # Idle /\ asked[c].phase = "answered"
  /\ FinishConfig(c, asked[c].response)

LoseConfigAnswer(c) ==
  /\ asked[c] # Idle /\ asked[c].phase = "answered"
  /\ IF asked[c].tries < MaxRepeats
     THEN /\ asked' = [asked EXCEPT ![c].phase = "sent", ![c].tries = @ + 1]
          /\ UNCHANGED <<configs, answer, configCalls>>
     ELSE FinishConfig(c, [code |-> "network-error", shown |-> {}])

ConfigNext ==
  \E c \in Caller :
    \/ createProviderConfig(c) \/ updateProviderConfig(c) \/ getProviderConfig(c) \/ deleteProviderConfig(c)
    \/ listProviderConfigs(c)
    \/ createTenant(c) \/ updateTenant(c) \/ getTenant(c) \/ deleteTenant(c) \/ listTenants(c)
    \/ getProjectConfig(c) \/ updateProjectConfig(c)
    \/ ServeConfig(c) \/ ReturnConfig(c) \/ LoseConfigAnswer(c)

ConfigSpec == ConfigInit /\ [][ConfigNext]_configVars

----------------------------------------------------------------------------
(* Properties *)

(* Every change of a configuration, as the SDK shows it, is what some call  *)
(* named, and nothing else: updates of different fields by two clients both *)
(* survive, an update mask built from the converted request names neither   *)
(* too much nor too little (utils/index.ts:214, auth-api-request.ts:2218).  *)
Configs == INSTANCE ConfigStore WITH
  shown <- [n \in Name |-> Shown(n)],
  TenantChanges <- {[config |-> u.config, nullPhones |-> u.nullPhones] : u \in TenantUpdates}

ImplementsConfigStore == Configs!Spec

(* However configurations are created and updated, a provider that asks for *)
(* the code flow has its client secret (auth-config.ts:1405).               *)
CodeFlowHasSecret == \A n \in Oidc : configs[n] # << >> => CodeHasSecret(configs[n][1])
=============================================================================
