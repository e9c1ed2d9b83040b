INIT AuthInit
NEXT AuthNext
CONSTANTS
  Client = {c1, c2}
  NoTenant = NoTenant
  OwnTenant = NoTenant
  Uid = {"u1", "u2"}
  Email = {"a@x", "b@x"}
  Phone = {"+1", "+2"}
  Text = {"A", "B", "idp", "m"}
  Url = {"url1", "url2"}
  Accounts <- MCAccounts
  CreateInputs <- MCCreate
  UpdateInputs <- MCUpdate
  ClaimInputs <- MCClaims
  ImportLists <- MCImport
  ImportOptions <- MCOptions
  DeleteLists <- MCDelete
  Lookups <- MCLookups
  Gets <- MCGets
  MaxGet = 4
  MaxDelete = 3
  MaxUpload = 3
  Pages <- MCPages
  Cookies <- MCCookies
  Links <- MCLinks
  Order <- MCOrder
  MaxCalls = 2
  MaxRetries = 1
  Caller = {c1, c2}
  Saml = {"saml.a"}
  Oidc = {"oidc.a"}
  Tenants = {"tenant1", "tenant2"}
  Project = "project"
  WrongName = "wrong"
  StoredConfigs <- MCStoredConfigs
  NewProviders <- MCNewProviders
  NewTenants <- MCNewTenants
  ProviderUpdates <- MCProviderUpdates
  TenantUpdates <- MCTenantUpdates
  ProjectUpdates <- MCProjectUpdates
  ConfigPages <- MCConfigPages
  MaxPage = 2
  MaxConfigCalls = 2
  MaxRepeats = 1
  ProviderText = {"A", "B"}
  ProviderUrl = {"url1", "url2"}
  Certificates = {"certs1"}
  TenantText = {"A", "B"}
  TestPhone = {"p1", "p2"}
  TestCode = {"123456"}
  Lists = {"list1", "empty"}
  MaxTestPhones = 10
INVARIANT BatchResultsFindTheirItems
INVARIANT CodeFlowHasSecret
PROPERTY ImplementsUserStore
PROPERTY ImplementsConfigStore
CHECK_DEADLOCK FALSE
