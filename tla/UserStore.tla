----------------------------- MODULE UserStore ------------------------------
(***************************************************************************)
(* What the calls about users promise: each user is the record UserRecord  *)
(* shows, a call changes one user at a time in the way its properties say  *)
(* (base-auth.ts, UpdateRequest and CreateRequest of auth-config.ts), and  *)
(* what it does not name stays.                                            *)
(***************************************************************************)
EXTENDS JsObject

CONSTANTS Uid, NoUser,
          CreateInputs, UpdateInputs, ClaimInputs, ImportLists

VARIABLE users

Visible == {"email", "emailVerified", "displayName", "photoURL", "phoneNumber", "disabled"}

Enabled == [k \in {"emailVerified", "disabled"} |-> "false"]

(* What is kept of a provider to link: not its photo and its phone number.  *)
LinkedFields == {"providerId", "uid", "displayName", "email"}

(* Second factors the caller does not name or date get an id and a date.    *)
Enrolled(f) == f ++ [uid |-> "mfa1", enrollmentTime |-> "utc1"]

NewUser(uid, p) ==
  [attrs |-> Field("uid", uid) ++ Only(p.attrs, Visible) ++ Enabled,
   providerData |-> {}, multiFactor |-> Each(Enrolled, p.factors.list)]

(* The fields a provider to link stands for, or none.                       *)
LinkedAttrs(p) ==
  LET l == p.link[1]
  IN IF p.link = << >> \/ l.providerId \notin {"email", "phone"} THEN EmptyObject
     ELSE Field(IF l.providerId = "email" THEN "email" ELSE "phoneNumber", l.uid)

LinkedProviders(p) ==
  {Only(p.link[i], LinkedFields) : i \in {j \in DOMAIN p.link : p.link[j].providerId \notin {"email", "phone"}}}

Changed(user, p) ==
  LET given == LinkedAttrs(p) ++ Only(p.attrs, Visible)
      nulls == {k \in DOMAIN given : given[k] = "null"}
      unlinked == ToSet(p.unlink) \cup (IF "phoneNumber" \in nulls THEN {"phone"} ELSE {})
      gone == nulls \cup (IF "phone" \in unlinked THEN {"phoneNumber"} ELSE {})
      linkedIds == {q.providerId : q \in LinkedProviders(p)}
  IN [attrs |-> Without(given ++ user.attrs, gone),
      providerData |-> {q \in user.providerData :
                          q.providerId \notin unlinked \cup linkedIds} \cup LinkedProviders(p),
      multiFactor |-> IF p.factors.given = "no" THEN user.multiFactor
                      ELSE Each(Enrolled, p.factors.list)]

(* Some users may exist already.                                           *)
Init == DOMAIN users = Uid

Create(u) ==
  /\ users[u] = NoUser
  /\ \E p \in CreateInputs :
       /\ Given(p.attrs, "uid") => p.attrs.uid = u
       /\ users' = [users EXCEPT ![u] = NewUser(u, p)]

Update(u) ==
  /\ users[u] # NoUser
  /\ \E p \in UpdateInputs : users' = [users EXCEPT ![u] = Changed(@, p)]

SetClaims(u) ==
  /\ users[u] # NoUser
  /\ \E c \in ClaimInputs :
       users' = [users EXCEPT ![u].attrs = Field("customClaims", IF c = "null" THEN "none" ELSE c) ++ @]

Revoke(u) ==
  /\ users[u] # NoUser
  /\ users' = [users EXCEPT ![u].attrs = Field("tokensValidAfterTime", "now") ++ @]

Delete(u) == users' = [users EXCEPT ![u] = NoUser]

DeleteSome == \E S \in SUBSET Uid : users' = [u \in Uid |-> IF u \in S THEN NoUser ELSE users[u]]

(* The phone number of a provider is not imported.                          *)
Imported(p) ==
  [attrs |-> Without(p.attrs, {"passwordHash", "passwordSalt"}) ++ Enabled,
   providerData |-> {Without(q, {"phoneNumber"}) : q \in ToSet(p.providerData)}, multiFactor |-> Each(Enrolled, p.factors)]

(* Some users of one list are stored as given.                              *)
Import ==
  \E list \in ImportLists : \E S \in SUBSET DOMAIN list :
    /\ \A i, j \in S : list[i].attrs.uid = list[j].attrs.uid => i = j
    /\ users' = [u \in Uid |->
         IF \E i \in S : list[i].attrs.uid = u
         THEN Imported(list[CHOOSE i \in S : list[i].attrs.uid = u]) ELSE users[u]]

Next ==
  /\ users' # users
  /\ \/ \E u \in Uid : Create(u) \/ Update(u) \/ SetClaims(u) \/ Revoke(u) \/ Delete(u)
     \/ DeleteSome \/ Import

Spec == Init /\ [][Next]_users
=============================================================================
