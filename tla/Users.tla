------------------------------- MODULE Users --------------------------------
(***************************************************************************)
(* The user management calls of BaseAuth by several clients, against the   *)
(* accounts the Identity Toolkit keeps.  A call is validated and sent, the *)
(* server applies it and answers, the client converts the answer;          *)
(* createUser and updateUser then read the user back with a second         *)
(* request.  The answer to a request may be lost: the HTTP client sends    *)
(* the same request again (see HttpSend), or the call fails.               *)
(***************************************************************************)
EXTENDS UserRequests, UserImport

CONSTANTS
  Client,
  Accounts,    \* what may be stored to begin with
  OwnTenant, NoTenant,  \* the tenant the clients manage, or none
  CreateInputs, UpdateInputs, ClaimInputs, ImportLists, ImportOptions, DeleteLists,
  Lookups,     \* lists of identifiers
  Gets,        \* lookups of one user
  Pages, Cookies, Links,
  Order,       \* the server's order of the users
  MaxCalls,    \* bound: calls over all clients
  MaxRetries   \* bound: retries of one request

VARIABLES
  accounts,  \* what the server stores of each user
  call,      \* the call of each client: what it asks, and how far it is
  result,    \* the outcome of each client's last call
  stored,    \* history: the positions of each client's batch the server handled, and of
             \* an import what it stored for them
  calls      \* number of calls made

(* What the calls are given has the shape the types of the code ask for.    *)
ASSUME InputsAreTyped ==
  /\ \A p \in CreateInputs : IsRequest(p, CreateRequest)
  /\ \A p \in UpdateInputs : IsRequest(p, UpdateRequest)
  /\ \A list \in ImportLists :
       list \in Seq(Range(list)) /\ \A i \in DOMAIN list : IsUserImportRecord(list[i])
  /\ ClaimInputs \subseteq DOMAIN JsonOf \cup {"bad"}
  /\ \A list \in DeleteLists : list \in Seq(Range(list))
  /\ \A list \in Lookups : list \in Seq(Range(list))
  /\ \A options \in ImportOptions : IsUserImportOptions(options)

NoAccount == [none |-> TRUE]

(* A user has one provider of an id, an id, and a password nobody sees.     *)
OnePerId(providers) == \A p, q \in providers : p.providerId = q.providerId => p = q

IsAccountOf(u, account) ==
  /\ Has(account.attrs, "localId", u)
  /\ Given(account.attrs, "passwordHash") => account.attrs.passwordHash = "REDACTED"
  /\ \A p \in account.providers : Given(p, "providerId")

ASSUME AccountsAreSound ==
  \A stock \in Accounts :
    /\ DOMAIN stock = Uid
    /\ \A u \in Uid : stock[u] # NoAccount => OnePerId(stock[u].providers) /\ IsAccountOf(u, stock[u])

vars == <<accounts, call, result, stored, calls>>

NoCall == [op |-> "none"]
NoResponse == [code |-> "none"]
NoResult == [op |-> "none", code |-> "ok"]

Init ==
  /\ accounts \in Accounts
  /\ call = [c \in Client |-> NoCall]
  /\ result = [c \in Client |-> NoResult]
  /\ stored = [c \in Client |-> {}]
  /\ calls = 0

----------------------------------------------------------------------------
(* Calls *)

(* What a call asks for: its input, the first refusal by the SDK, or "ok",  *)
(* and the request it sends.                                                *)
Asked(op, input, refusal, request) ==
  [op |-> op, input |-> input, refusal |-> refusal, request |-> request]

(* invokeRequestHandler(): a refused request is never sent.                 *)
Ask(c, a) ==
  /\ call[c] = NoCall /\ calls < MaxCalls
  /\ calls' = calls + 1
  /\ IF a.refusal # "ok"
     THEN /\ result' = [result EXCEPT ![c] = [op |-> a.op, code |-> a.refusal]]
          /\ UNCHANGED call
     ELSE /\ call' = [call EXCEPT ![c] = [op |-> a.op, input |-> a.input, request |-> a.request,
                                          phase |-> "sent", tries |-> 0, response |-> NoResponse]]
          /\ result' = [result EXCEPT ![c] = NoResult]
  /\ stored' = [stored EXCEPT ![c] = {}]
  /\ UNCHANGED accounts

AskedCreate(p) ==
  LET r == createNewAccount(p)
  IN Asked("create", p, FirstRefusal(<<CreateRefusal(p), SignUpRefusal(r)>>), KnownPart(r))

CreateCalls == {AskedCreate(p) : p \in CreateInputs}

createUser(c) == \E a \in CreateCalls : Ask(c, a)

AskedUpdate(u, p) ==
  LET q == RedirectLink(p)
      early == FirstRefusal(<<Require(~UpdateConflict(p), "INVALID_ARGUMENT"), PropertiesRefusal(u, q)>>)
      r == updateExistingAccount(u, q)
  IN Asked("update", p, IF early # "ok" THEN early ELSE SetAccountInfoRefusal(r), KnownPart(r))

UpdateCalls == {AskedUpdate(u, p) : u \in Uid, p \in UpdateInputs}

updateUser(c) == \E a \in UpdateCalls : Ask(c, a)

AskedClaims(u, claims) ==
  LET early == ClaimsRefusal(u, claims)
      r == setCustomUserClaims(u, IF early = "ok" THEN claims ELSE "null")
  IN Asked("claims", claims, FirstRefusal(<<early, SetAccountInfoRefusal(r)>>), r)

SetClaims(c) == \E u \in Uid, claims \in ClaimInputs : Ask(c, AskedClaims(u, claims))

Revoke(c) == \E u \in Uid : Ask(c, Asked("revoke", u, UidRefusal(u), revokeRefreshTokens(u)))

deleteUser(c) == \E u \in Uid : Ask(c, Asked("delete", u, UidRefusal(u), [localId |-> u]))

(* Empty lists are answered without a request, as if the server had.        *)
AskOrAnswer(c, a, list, response) ==
  IF list = << >>
  THEN /\ call[c] = NoCall /\ calls < MaxCalls
       /\ calls' = calls + 1
       /\ call' = [call EXCEPT ![c] = [op |-> a.op, input |-> a.input, request |-> a.request,
                                      phase |-> "answered", tries |-> MaxRetries, response |-> response]]
       /\ result' = [result EXCEPT ![c] = NoResult]
       /\ stored' = [stored EXCEPT ![c] = {}]
       /\ UNCHANGED accounts
  ELSE Ask(c, a)

deleteUsers(c) ==
  \E uids \in DeleteLists :
    AskOrAnswer(c, Asked("deleteBatch", uids, DeletionRefusal(uids), [localIds |-> uids]),
                uids, [code |-> "ok", errors |-> {}])

getUser(c) ==
  \E l \in Gets : Ask(c, Asked("get", l.identifier, l.refusal, LookupRequest(<<l.identifier>>)))

getUsers(c) ==
  \E ids \in Lookups :
    AskOrAnswer(c, Asked("lookup", ids, getAccountInfoByIdentifiers(ids), LookupRequest(ids)),
                ids, [code |-> "ok", users |-> {}])

(* Pages are asked for by the user id they start at.                        *)
listUsers(c) ==
  \E page \in Pages : Ask(c, Asked("list", page, DownloadRefusal(page), page))

createSessionCookie(c) ==
  \E k \in Cookies :
    Ask(c, Asked("cookie", k, SessionCookieRefusal(k.idToken, k.expiresIn),
                 [idToken |-> k.idToken, validDuration |-> k.expiresIn \div 1000]))

generateEmailLink(c) ==
  \E l \in Links : Ask(c, Asked("link", l, EmailLinkRefusal(l), EmailLinkRequest(l)))

AskedImport(users, options) ==
  Asked("import", users,
        FirstRefusal(<<Require(OwnTenant = NoTenant \/ ~TenantMismatch(users, OwnTenant), "MISMATCHING_TENANT_ID"),
                       populateOptions(options, requiresHashOptions(users)),
                       Require(Len(users) <= MaxUpload, "MAXIMUM_USER_COUNT_EXCEEDED")>>),
        populateUsers(users))

ImportCalls == {AskedImport(users, options) : users \in ImportLists, options \in ImportOptions}

(* Without any accepted user nothing is sent and the result is made at once.*)
importUsers(c) ==
  \E a \in ImportCalls :
    IF a.refusal = "ok" /\ a.request = << >>
    THEN /\ call[c] = NoCall /\ calls < MaxCalls
         /\ calls' = calls + 1
         /\ result' = [result EXCEPT ![c] = [op |-> "import", code |-> "ok", input |-> a.input,
                                             value |-> buildResponse(a.input, {})]]
         /\ stored' = [stored EXCEPT ![c] = {}]
         /\ UNCHANGED <<accounts, call>>
    ELSE Ask(c, a)

----------------------------------------------------------------------------
(* The server (external) *)

ServerName == [DISPLAY_NAME |-> "displayName", PHOTO_URL |-> "photoUrl"]

Assigned(f) == f ++ [mfaEnrollmentId |-> "mfa1", enrolledAt |-> "iso1"]

(* Passwords are shown as redacted.                                         *)
StoredAttrs(attrs) ==
  LET hashes == {"password", "passwordHash"} \cap DOMAIN attrs
  IN (IF hashes = {} THEN EmptyObject ELSE Field("passwordHash", "REDACTED"))
     ++ Rename(Without(attrs, {"password", "salt"}), "disableUser", "disabled")

NewAccount(uid, r) ==
  [attrs |-> StoredAttrs(Field("localId", uid) ++ r.attrs),
   providers |-> ToSet(r.providers), mfaInfo |-> Each(Assigned, r.factors)]

SetAccount(account, r) ==
  LET gone == {ServerName[d] : d \in r.deleteAttribute}
              \cup (IF "phone" \in r.deleteProvider THEN {"phoneNumber"} ELSE {})
      replaced == r.deleteProvider \cup {l.providerId : l \in ToSet(r.link)}
  IN [attrs |-> Without(StoredAttrs(r.attrs) ++ account.attrs, gone),
      providers |-> {p \in account.providers : p.providerId \notin replaced} \cup ToSet(r.link),
      mfaInfo |-> IF r.mfa = "keep" THEN account.mfaInfo ELSE Each(Assigned, r.factors)]

Answered(c, response) == call' = [call EXCEPT ![c].response = response, ![c].phase = "answered"]

Fault(c, code) == Answered(c, [code |-> code])

ServeCreate(c) ==
  LET r == call[c].request
      free == {u \in Uid : accounts[u] = NoAccount}
  IN IF Given(r.attrs, "localId") /\ r.attrs.localId \notin free
     THEN Fault(c, "DUPLICATE_LOCAL_ID") /\ UNCHANGED <<accounts, stored>>
     ELSE /\ \E u \in IF Given(r.attrs, "localId") THEN {r.attrs.localId} ELSE free :
               /\ accounts' = [accounts EXCEPT ![u] = NewAccount(u, r)]
               /\ Answered(c, [code |-> "ok", localId |-> u])
          /\ UNCHANGED stored

ServeUpdate(c) ==
  LET r == call[c].request
      u == r.attrs.localId
  IN /\ IF accounts[u] = NoAccount
        THEN Fault(c, "USER_NOT_FOUND") /\ UNCHANGED accounts
        ELSE /\ accounts' = [accounts EXCEPT ![u] = SetAccount(@, r)]
             /\ Answered(c, [code |-> "ok", localId |-> u])
     /\ UNCHANGED stored

ServeDelete(c) ==
  LET u == call[c].request.localId
  IN /\ IF accounts[u] = NoAccount
        THEN Fault(c, "USER_NOT_FOUND") /\ UNCHANGED accounts
        ELSE accounts' = [accounts EXCEPT ![u] = NoAccount] /\ Answered(c, [code |-> "ok"])
     /\ UNCHANGED stored

(* Some positions of the batch may fail.                                    *)
ServeDeleteBatch(c) ==
  LET uids == call[c].request.localIds
  IN \E failed \in SUBSET DOMAIN uids :
       LET gone == {uids[i] : i \in DOMAIN uids \ failed}
       IN /\ accounts' = [u \in Uid |-> IF u \in gone THEN NoAccount ELSE accounts[u]]
          /\ stored' = [stored EXCEPT ![c] = DOMAIN uids \ failed]
          /\ Answered(c, [code |-> "ok", errors |-> failed])

ServeImport(c) ==
  LET wire == call[c].request
  IN \E failed \in SUBSET DOMAIN wire :
       LET kept == DOMAIN wire \ failed
       IN /\ \A i, j \in kept : wire[i].attrs.localId = wire[j].attrs.localId => i = j
          /\ \A i \in kept : OnePerId(ToSet(wire[i].providers))
          /\ accounts' = [u \in Uid |->
               IF \E i \in kept : wire[i].attrs.localId = u
               THEN LET w == wire[CHOOSE i \in kept : wire[i].attrs.localId = u]
                    IN NewAccount(u, w)
               ELSE accounts[u]]
          /\ stored' = [stored EXCEPT ![c] = {<<i, wire[i]>> : i \in kept}]
          /\ Answered(c, [code |-> "ok", errors |-> failed])

(* The accounts a lookup asks for.                                          *)
Matches(account, r) ==
  LET Holds(k, K) == Given(account.attrs, k) /\ account.attrs[k] \in K
  IN \/ Holds("localId", r.localId) \/ Holds("email", r.email) \/ Holds("phoneNumber", r.phoneNumber)
     \/ \E p \in account.providers, f \in r.federatedUserId :
          Has(p, "providerId", f.providerId) /\ Has(p, "rawId", f.rawId)

ServeLookup(c) ==
  /\ Answered(c, [code |-> "ok",
                  users |-> {a \in {accounts[u] : u \in Uid} \ {NoAccount} : Matches(a, call[c].request)}])
  /\ stored' = [stored EXCEPT ![c] =
       IF call[c].op = "lookup"
       THEN {i \in DOMAIN call[c].input : \E a \in {accounts[u] : u \in Uid} \ {NoAccount} :
               Matches(a, LookupRequest(<<call[c].input[i]>>))}
       ELSE @]
  /\ UNCHANGED accounts

ServeList(c) ==
  LET page == call[c].request
      from == IF Given(page, "pageToken") THEN SelectInSeq(Order, LAMBDA u : u = page.pageToken) ELSE 1
      there == SelectSeq(SubSeq(Order, from, Len(Order)), LAMBDA u : accounts[u] # NoAccount)
      shown == SubSeq(there, 1, IF page.maxResults < Len(there) THEN page.maxResults ELSE Len(there))
      next == IF Len(shown) < Len(there) THEN {there[Len(shown) + 1]} ELSE {}
  IN /\ Answered(c, [code |-> "ok", page |-> [i \in DOMAIN shown |-> accounts[shown[i]]], next |-> next])
     /\ UNCHANGED <<accounts, stored>>

ServePlain(c) == Answered(c, [code |-> "ok"]) /\ UNCHANGED <<accounts, stored>>

Serve(c) ==
  /\ call[c] # NoCall /\ call[c].phase = "sent"
  /\ CASE call[c].op = "create" -> ServeCreate(c)
       [] call[c].op \in {"update", "claims", "revoke"} -> ServeUpdate(c)
       [] call[c].op = "delete" -> ServeDelete(c)
       [] call[c].op = "deleteBatch" -> ServeDeleteBatch(c)
       [] call[c].op = "import" -> ServeImport(c)
       [] call[c].op = "list" -> ServeList(c)
       [] call[c].op \in {"cookie", "link"} -> ServePlain(c)
       [] OTHER -> ServeLookup(c)
  /\ UNCHANGED <<result, calls>>

----------------------------------------------------------------------------
(* Answers *)

Return(c, outcome) ==
  /\ call' = [call EXCEPT ![c] = NoCall]
  /\ result' = [result EXCEPT ![c] = outcome]
  /\ UNCHANGED <<accounts, stored, calls>>

(* An empty list, for which nothing was sent.                               *)
Unsent(c) == call[c].op \in {"lookup", "deleteBatch"} /\ call[c].input = << >>

HasAnswer(c) == call[c] # NoCall /\ call[c].phase = "answered"

(* The connection fails after the server did its work.                      *)
LoseAnswer(c) ==
  /\ HasAnswer(c) /\ ~Unsent(c)
  /\ IF call[c].tries < MaxRetries
     THEN /\ call' = [call EXCEPT ![c].phase = "sent", ![c].tries = @ + 1]
          /\ UNCHANGED <<accounts, result, stored, calls>>
     ELSE Return(c, [op |-> call[c].op, code |-> "network-error"])

ReturnFault(c) ==
  /\ HasAnswer(c) /\ call[c].response.code # "ok"
  /\ Return(c, [op |-> call[c].op, code |-> call[c].response.code])

(* createUser and updateUser read the user back.                            *)
ReadBack(c) ==
  /\ HasAnswer(c) /\ call[c].response.code = "ok" /\ call[c].op \in {"create", "update"}
  /\ call' = [call EXCEPT ![c] =
       [op |-> IF @.op = "create" THEN "created" ELSE "updated", input |-> @.input,
        request |-> LookupRequest(<<[kind |-> "uid", value |-> @.response.localId]>>),
        phase |-> "sent", tries |-> 0, response |-> NoResponse]]
  /\ UNCHANGED <<accounts, result, stored, calls>>

(* A user that is gone by then fails the call.                              *)
ReturnUser(c) ==
  /\ HasAnswer(c) /\ call[c].op \in {"get", "created", "updated"}
  /\ Return(c, IF call[c].response.users # {}
               THEN [op |-> call[c].op, code |-> "ok", value |-> {UserRecord(a) : a \in call[c].response.users}]
               ELSE [op |-> call[c].op, code |-> IF call[c].op = "created" THEN "INTERNAL_ERROR" ELSE "USER_NOT_FOUND"])

ReturnLookup(c) ==
  /\ HasAnswer(c) /\ call[c].op = "lookup"
  /\ LET ids == call[c].input
         users == {UserRecord(a) : a \in call[c].response.users}
     IN Return(c, [op |-> "lookup", code |-> "ok", input |-> ids, value |-> users,
                   notFound |-> {i \in DOMAIN ids : ~isUserFound(ids[i], users)}])

ReturnDeleted(c) ==
  /\ HasAnswer(c) /\ call[c].op = "deleteBatch"
  /\ LET failed == call[c].response.errors
     IN Return(c, [op |-> "deleteBatch", code |-> "ok", input |-> call[c].input,
                   value |-> [failureCount |-> Cardinality(failed),
                              successCount |-> Len(call[c].input) - Cardinality(failed),
                              failed |-> failed]])

ReturnImported(c) ==
  /\ HasAnswer(c) /\ call[c].op = "import"
  /\ Return(c, [op |-> "import", code |-> "ok", input |-> call[c].input,
                value |-> buildResponse(call[c].input, call[c].response.errors)])

ReturnPage(c) ==
  /\ HasAnswer(c) /\ call[c].op = "list"
  /\ Return(c, [op |-> "list", code |-> "ok", input |-> call[c].input, value |-> Each(UserRecord, call[c].response.page),
                pageToken |-> call[c].response.next])

ReturnNothing(c) ==
  /\ HasAnswer(c) /\ call[c].response.code = "ok" /\ call[c].op \in {"claims", "revoke", "delete", "cookie", "link"}
  /\ Return(c, [op |-> call[c].op, code |-> "ok"])

Next ==
  \E c \in Client :
    \/ createUser(c) \/ updateUser(c) \/ SetClaims(c) \/ Revoke(c)
    \/ deleteUser(c) \/ deleteUsers(c) \/ getUser(c) \/ getUsers(c) \/ importUsers(c)
    \/ listUsers(c) \/ createSessionCookie(c) \/ generateEmailLink(c)
    \/ Serve(c) \/ LoseAnswer(c) \/ ReturnFault(c) \/ ReadBack(c)
    \/ ReturnUser(c) \/ ReturnPage(c) \/ ReturnLookup(c) \/ ReturnDeleted(c) \/ ReturnImported(c) \/ ReturnNothing(c)

Spec == Init /\ [][Next]_vars

----------------------------------------------------------------------------
(* Properties *)

(* What the accounts show is what the calls promise: every change of an     *)
(* account is one of UserStore, with the properties some call was given.    *)
Store == INSTANCE UserStore WITH
  NoUser <- NoAccount,
  users <- [u \in Uid |-> IF accounts[u] = NoAccount THEN NoAccount ELSE UserRecord(accounts[u])]

(* Renamed fields, nulls, linked providers and second factors: the request  *)
(* built and the record read back agree with what the caller asked for, and *)
(* fields not named stay (auth-api-request.ts:1371, user-record.ts:591).    *)
ImplementsUserStore == Store!Spec

(* Each position of a batch has an error exactly if its item was not        *)
(* handled, though the request of an import skips refused users and the     *)
(* server counts positions of the request; the counts add up.  getUsers()   *)
(* names as not found exactly the identifiers the server found nobody for   *)
(* (user-import-builder.ts:515, base-auth.ts:337 and :450).                 *)
ImportErrorsFindTheirUsers(r, handled) ==
  LET list == r.input
      accepted == Accepted(list)
      Place(i) == Cardinality({j \in accepted : j <= i})
  IN /\ {r.value.errors[k].index : k \in DOMAIN r.value.errors} =
          {i \in DOMAIN list : i \notin accepted \/ <<Place(i), populateUploadAccountUser(list[i])>> \notin handled}
     /\ r.value.failureCount = Len(r.value.errors)
     /\ r.value.successCount + r.value.failureCount = Len(list)

DeletionsAreCounted(r, handled) ==
  handled = DOMAIN r.input \ r.value.failed /\ r.value.successCount = Cardinality(handled)

NotFoundAreUnknown(r, handled) == handled = DOMAIN r.input \ r.notFound

BatchResultsFindTheirItems ==
  \A c \in Client : result[c].code = "ok" =>
    /\ result[c].op = "import" => ImportErrorsFindTheirUsers(result[c], stored[c])
    /\ result[c].op = "deleteBatch" => DeletionsAreCounted(result[c], stored[c])
    /\ result[c].op = "lookup" => NotFoundAreUnknown(result[c], stored[c])
=============================================================================
