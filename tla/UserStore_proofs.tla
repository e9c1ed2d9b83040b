-------------------------- MODULE UserStore_proofs --------------------------
(***************************************************************************)
(* Proofs about Users: the result of a batch tells of each position of the *)
(* list what became of it, and the calls, against accounts kept as the     *)
(* server keeps them, implement UserStore, where each user is the record   *)
(* the caller sees: the request the SDK makes of what a call is given,     *)
(* applied by the server and read back, shows what was given.              *)
(***************************************************************************)
EXTENDS Auth_proofs

-----------------------------------------------------------------------------
(* The numbers of a set in their order. *)
Rank(S, i) == Cardinality({j \in S : j <= i})

LEMMA RankGrows ==
  ASSUME NEW S \in SUBSET Nat, IsFiniteSet(S), NEW i \in S, NEW j \in S, i < j
  PROVE  Rank(S, i) < Rank(S, j)
<1> DEFINE Below(k) == {l \in S : l <= k}
<1>1. Below(j) \in SUBSET S /\ Below(i) \in SUBSET Below(j) /\ j \in Below(j) \ Below(i)
  <2>1. \A l \in S : l \in Nat /\ (l <= i => l <= j)
    OBVIOUS
  <2>2. j <= j /\ ~(j <= i)
    OBVIOUS
  <2> QED
    BY <2>1, <2>2, Zenon
<1>2. IsFiniteSet(Below(j))
  BY <1>1, FS_Subset
<1>3. Cardinality(Below(i)) <= Cardinality(Below(j)) /\ Cardinality(Below(i)) # Cardinality(Below(j))
  <2> HIDE DEF Below
  <2> QED
    BY <1>1, <1>2, FS_Subset
<1>4. Cardinality(Below(i)) \in Nat /\ Cardinality(Below(j)) \in Nat
  <2>1. IsFiniteSet(Below(i))
    BY <1>1, <1>2, FS_Subset
  <2> HIDE DEF Below
  <2> QED
    BY <1>2, <2>1, FS_CardinalityType
<1> QED
  BY <1>3, <1>4 DEF Rank

LEMMA RankInRange ==
  ASSUME NEW S \in SUBSET Nat, IsFiniteSet(S), NEW i \in S
  PROVE  Rank(S, i) \in 1..Cardinality(S)
<1> DEFINE B == {j \in S : j <= i}
<1>1. B \in SUBSET S /\ i \in B
  OBVIOUS
<1>2. IsFiniteSet(B) /\ Cardinality(B) <= Cardinality(S)
  <2> HIDE DEF B
  <2> QED
    BY <1>1, FS_Subset
<1>3. Cardinality(B) \in Nat /\ Cardinality(B) # 0 /\ Cardinality(S) \in Nat
  <2> HIDE DEF B
  <2> QED
    BY <1>1, <1>2, FS_CardinalityType, FS_EmptySet
<1> QED
  BY <1>2, <1>3 DEF Rank

\* The numbers of a finite set stand in Sorted each at its rank, and no other.
LEMMA SortedByRank ==
  ASSUME NEW S \in SUBSET Nat, IsFiniteSet(S)
  PROVE  /\ Cardinality(S) \in Nat
         /\ DOMAIN Sorted(S) = 1..Cardinality(S)
         /\ \A k \in 1..Cardinality(S) : Sorted(S)[k] \in S /\ Rank(S, Sorted(S)[k]) = k
         /\ \A i \in S : Rank(S, i) \in 1..Cardinality(S) /\ Sorted(S)[Rank(S, i)] = i
<1> DEFINE n == Cardinality(S)
           rank == [i \in S |-> Rank(S, i)]
<1>1. n \in Nat
  BY FS_CardinalityType
<1>2. rank \in [S -> 1..n]
  BY RankInRange
<1>3. ASSUME NEW i \in S, NEW j \in S, Rank(S, i) = Rank(S, j)
      PROVE  i = j
  <2>1. Rank(S, i) \in Nat /\ Rank(S, j) \in Nat
    BY RankInRange, <1>1
  <2> QED
    BY <1>3, <2>1, RankGrows
<1>4. rank \in Injection(S, 1..n)
  <2> HIDE DEF n
  <2> QED
    BY <1>2, <1>3 DEF Injection, IsInjective
<1>5. IsFiniteSet(1..n) /\ Cardinality(1..n) = n
  BY <1>1, FS_Interval
<1>6. rank \in Surjection(S, 1..n)
  <2> HIDE DEF rank
  <2> QED
    BY <1>4, <1>5, FS_Injection
<1>7. \A k \in 1..n : \E i \in S : Rank(S, i) = k
  BY <1>6 DEF Surjection
<1>8. Sorted(S) = [k \in 1..n |-> CHOOSE i \in S : Rank(S, i) = k]
  BY DEF Sorted, Rank
<1> HIDE DEF n
<1>9. \A k \in 1..n : Sorted(S)[k] \in S /\ Rank(S, Sorted(S)[k]) = k
  BY <1>7, <1>8
<1>10. \A i \in S : Rank(S, i) \in 1..n /\ Sorted(S)[Rank(S, i)] = i
  BY <1>3, <1>9, <1>2, RankInRange DEF n
<1> QED
  BY <1>1, <1>8, <1>9, <1>10 DEF n

\* An injective function has as many values as arguments.
LEMMA AsManyValues ==
  ASSUME NEW S, IsFiniteSet(S), NEW g, DOMAIN g = S, g = [x \in S |-> g[x]],
         \A x, y \in S : g[x] = g[y] => x = y
  PROVE  LET T == {g[x] : x \in S} IN IsFiniteSet(T) /\ Cardinality(T) = Cardinality(S)
<1> DEFINE T == {g[x] : x \in S}
<1>1. g \in [S -> T]
  OBVIOUS
<1>2. g \in Injection(S, T) /\ g \in Surjection(S, T)
  <2>1. \A t \in T : \E x \in S : g[x] = t
    OBVIOUS
  <2> HIDE DEF T
  <2> QED
    BY <1>1, <2>1 DEF Injection, Surjection, IsInjective
<1> HIDE DEF T
<1>3. IsFiniteSet(T) /\ Cardinality(T) = Cardinality(S)
  BY <1>2, FS_Surjection
<1> QED
  BY <1>3 DEF T

LEMMA ListDomain ==
  ASSUME NEW s, s \in Seq(Range(s))
  PROVE  /\ Len(s) \in Nat /\ DOMAIN s = 1..Len(s)
         /\ IsFiniteSet(DOMAIN s) /\ Cardinality(DOMAIN s) = Len(s)
<1>1. Len(s) \in Nat /\ DOMAIN s = 1..Len(s)
  OBVIOUS
<1>2. IsFiniteSet(1..Len(s)) /\ Cardinality(1..Len(s)) = Len(s)
  BY <1>1, FS_Interval
<1> QED
  BY <1>1, <1>2

\* The result of an import whose answer names the failed positions of the
\* request: its errors are at the caller's positions of the users refused or
\* failed, and the counts add up.
LEMMA ImportResult ==
  ASSUME NEW list, list \in Seq(Range(list)), NEW failed \in SUBSET DOMAIN populateUsers(list),
         NEW r, r.input = list, r.value = buildResponse(list, failed),
         NEW handled, handled = {<<i, populateUsers(list)[i]>> : i \in DOMAIN populateUsers(list) \ failed}
  PROVE  ImportErrorsFindTheirUsers(r, handled)
<1> DEFINE wire == populateUsers(list)
           response == buildResponse(list, failed)
           A == Accepted(list)
           R == DOMAIN list \ A
           Map == indexMap(list)
           F == {Map[f] : f \in failed}
           refused == userImportResultErrors(list)
           rejected == {[index |-> Map[f], code |-> "INVALID_USER_IMPORT"] : f \in failed}
           errors == refused \cup rejected
           order == Sorted({e.index : e \in errors})
<1>1. /\ Len(list) \in Nat /\ DOMAIN list = 1..Len(list)
      /\ IsFiniteSet(DOMAIN list) /\ Cardinality(DOMAIN list) = Len(list)
  BY ListDomain
<1>2. A \in SUBSET DOMAIN list /\ R \in SUBSET DOMAIN list
  BY DEF Accepted
<1>3. IsFiniteSet(A) /\ IsFiniteSet(R) /\ A \in SUBSET Nat /\ R \in SUBSET Nat
  <2> HIDE DEF A, R
  <2> QED
    BY <1>1, <1>2, FS_Subset
<1>4. /\ Cardinality(A) \in Nat
      /\ DOMAIN Map = 1..Cardinality(A)
      /\ \A k \in 1..Cardinality(A) : Map[k] \in A /\ Rank(A, Map[k]) = k
      /\ \A i \in A : Rank(A, i) \in 1..Cardinality(A) /\ Map[Rank(A, i)] = i
  <2>1. Map = Sorted(A)
    BY DEF indexMap
  <2> HIDE DEF A, Map
  <2> QED
    BY <1>3, <2>1, SortedByRank
<1>5. wire = [k \in 1..Cardinality(A) |-> populateUploadAccountUser(list[Map[k]])]
  BY <1>4 DEF populateUsers
<1>6. failed \in SUBSET (1..Cardinality(A)) /\ IsFiniteSet(failed)
  <2>1. IsFiniteSet(1..Cardinality(A))
    BY <1>4, FS_Interval
  <2>2. failed \in SUBSET (1..Cardinality(A))
    BY <1>5
  <2> HIDE DEF A
  <2> QED
    BY <2>1, <2>2, FS_Subset
<1>7. IsFiniteSet(F) /\ Cardinality(F) = Cardinality(failed) /\ F \in SUBSET A
  <2> DEFINE g == [f \in failed |-> Map[f]]
  <2>1. \A x, y \in failed : g[x] = g[y] => x = y
    BY <1>4, <1>6
  <2>2. F = {g[x] : x \in failed} /\ DOMAIN g = failed /\ g = [x \in failed |-> g[x]]
    OBVIOUS
  <2>3. F \in SUBSET A
    BY <1>4, <1>6
  <2> HIDE DEF F, g
  <2> QED
    BY <1>6, <2>1, <2>2, <2>3, AsManyValues
<1>8. Cardinality(refused) = Cardinality(R)
  <2> DEFINE g == [i \in R |-> [index |-> i, code |-> UserRefusal(list[i])]]
  <2>1. \A x, y \in R : g[x] = g[y] => x = y
    OBVIOUS
  <2>2. refused = {g[x] : x \in R} /\ DOMAIN g = R /\ g = [x \in R |-> g[x]]
    BY DEF userImportResultErrors
  <2> HIDE DEF refused, g, R
  <2> QED
    BY <1>3, <2>1, <2>2, AsManyValues
<1>9. {e.index : e \in errors} = R \cup F
  <2>1. {e.index : e \in refused} = R
    <3>1. refused = {[index |-> i, code |-> UserRefusal(list[i])] : i \in R}
      BY DEF userImportResultErrors
    <3>2. \A i \in R : [index |-> i, code |-> UserRefusal(list[i])].index = i
      OBVIOUS
    <3> HIDE DEF refused, R
    <3> QED
      BY <3>1, <3>2
  <2>2. {e.index : e \in rejected} = F
    <3>1. \A f \in failed : [index |-> Map[f], code |-> "INVALID_USER_IMPORT"].index = Map[f]
      OBVIOUS
    <3> HIDE DEF Map
    <3> QED
      BY <3>1
  <2> HIDE DEF refused, rejected, R, F
  <2> QED
    BY <2>1, <2>2
<1>10. /\ IsFiniteSet(R \cup F) /\ R \cup F \in SUBSET Nat
       /\ Cardinality(R \cup F) = Cardinality(R) + Cardinality(failed)
  <2>1. R \cap F = {} /\ F \in SUBSET Nat
    BY <1>3, <1>7
  <2>2. Cardinality({}) = 0
    BY FS_EmptySet
  <2>3. Cardinality(R) \in Nat /\ Cardinality(F) \in Nat
    <3> HIDE DEF R, F
    <3> QED
      BY <1>3, <1>7, FS_CardinalityType
  <2> HIDE DEF R, F
  <2>4. IsFiniteSet(R \cup F) /\ Cardinality(R \cup F) = Cardinality(R) + Cardinality(F) - Cardinality(R \cap F)
    BY <1>3, <1>7, FS_Union
  <2>5. Cardinality(R \cap F) = 0
    BY <2>1, <2>2, Zenon
  <2> QED
    BY <1>3, <1>7, <2>1, <2>3, <2>4, <2>5
<1>11. /\ DOMAIN order = 1..Cardinality(R \cup F)
       /\ {order[k] : k \in DOMAIN order} = R \cup F
  <2> DEFINE E == R \cup F
  <2>1. order = Sorted(E)
    BY <1>9
  <2>2. /\ DOMAIN Sorted(E) = 1..Cardinality(E)
        /\ \A k \in 1..Cardinality(E) : Sorted(E)[k] \in E
        /\ \A i \in E : Rank(E, i) \in 1..Cardinality(E) /\ Sorted(E)[Rank(E, i)] = i
    <3> HIDE DEF E
    <3> QED
      BY <1>10, SortedByRank DEF E
  <2> HIDE DEF E, order
  <2>3. {order[k] : k \in DOMAIN order} = E
    BY <2>1, <2>2
  <2> QED
    BY <2>1, <2>2, <2>3 DEF E
<1>12. response = [successCount |-> Cardinality(A) - Cardinality(failed),
                   failureCount |-> Cardinality(refused) + Cardinality(failed),
                   errors |-> [k \in DOMAIN order |-> CHOOSE e \in errors : e.index = order[k]]]
  BY DEF buildResponse
<1>13. \A k \in DOMAIN order : response.errors[k].index = order[k]
  <2>1. \A k \in DOMAIN order : \E e \in errors : e.index = order[k]
    <3> HIDE DEF errors, order
    <3> QED
      BY <1>9, <1>11
  <2> HIDE DEF errors, order, response, refused
  <2> QED
    BY <1>12, <2>1
<1>14. DOMAIN response.errors = DOMAIN order /\ Len(response.errors) = Cardinality(R \cup F)
  <2>1. Cardinality(R \cup F) \in Nat
    <3> HIDE DEF R, F
    <3> QED
      BY <1>10, FS_CardinalityType
  <2> HIDE DEF errors, order, response, R, F
  <2> QED
    BY <1>11, <1>12, <2>1
<1>15. {response.errors[k].index : k \in DOMAIN response.errors} = R \cup F
  <2> HIDE DEF order, response, R, F
  <2> QED
    BY <1>11, <1>13, <1>14
<1>16. R \cup F = {i \in DOMAIN list : i \notin A \/ <<Rank(A, i), populateUploadAccountUser(list[i])>> \notin handled}
  <2>1. ASSUME NEW i \in A
        PROVE  i \in F <=> <<Rank(A, i), populateUploadAccountUser(list[i])>> \notin handled
    <3> DEFINE k == Rank(A, i)
    <3>1. k \in 1..Cardinality(A) /\ Map[k] = i
      BY <1>4
    <3>2. wire[k] = populateUploadAccountUser(list[i]) /\ DOMAIN wire = 1..Cardinality(A)
      <4> HIDE DEF wire, k
      <4> QED
        BY <1>5, <3>1
    <3>3. <<k, wire[k]>> \in handled <=> k \notin failed
      <4>1. handled = {<<j, wire[j]>> : j \in DOMAIN wire \ failed}
        OBVIOUS
      <4> HIDE DEF wire, k
      <4> QED
        BY <3>1, <3>2, <4>1
    <3>4. i \in F <=> k \in failed
      <4>1. \A f \in failed : Rank(A, Map[f]) = f
        BY <1>4, <1>6
      <4>2. i \in F => k \in failed
        BY <4>1
      <4> HIDE DEF Map
      <4> QED
        BY <3>1, <4>2
    <3> HIDE DEF wire, k
    <3> QED
      BY <3>2, <3>3, <3>4 DEF k
  <2> HIDE DEF A, F
  <2> QED
    BY <1>2, <1>7, <2>1
<1>17. /\ response.failureCount = Len(response.errors)
       /\ response.successCount + response.failureCount = Len(list)
  <2>1. Cardinality(R) \in Nat /\ Cardinality(failed) \in Nat
    <3> HIDE DEF R
    <3> QED
      BY <1>3, <1>6, FS_CardinalityType
  <2>2. Cardinality(R) = Len(list) - Cardinality(A)
    <3>1. DOMAIN list \cap A = A
      BY <1>2
    <3>2. Cardinality(DOMAIN list \ A) = Cardinality(DOMAIN list) - Cardinality(DOMAIN list \cap A)
      <4> HIDE DEF A
      <4> QED
        BY <1>1, FS_Difference
    <3> QED
      BY <1>1, <3>1, <3>2
  <2>3. response.successCount = Cardinality(A) - Cardinality(failed) /\ response.failureCount = Cardinality(R) + Cardinality(failed)
    <3> HIDE DEF response, A, R, errors, order, refused
    <3> QED
      BY <1>8, <1>12
  <2> HIDE DEF response, A, R
  <2> QED
    BY <1>1, <1>4, <1>10, <1>14, <2>1, <2>2, <2>3
<1>18. r.input = list /\ r.value = response
  OBVIOUS
<1>19. {response.errors[k].index : k \in DOMAIN response.errors} =
          {i \in DOMAIN list : i \notin A
             \/ <<Cardinality({j \in A : j <= i}), populateUploadAccountUser(list[i])>> \notin handled}
  <2> HIDE DEF response, A, R, F
  <2> QED
    BY <1>15, <1>16, Zenon DEF Rank
<1>20. A = Accepted(list)
  OBVIOUS
<1> HIDE DEF response, A, R, F
<1> QED
  BY <1>17, <1>18, <1>19, <1>20, Zenon DEF ImportErrorsFindTheirUsers
-----------------------------------------------------------------------------
\* A renamed object holds under each name what the object held.
LEMMA RenamedField ==
  ASSUME NEW o, NEW names, NEW n \in DOMAIN names, NEW v
  PROVE  Has(RenameBack(o, names), n, v) <=> Has(o, names[n], v)
BY DEF Has, Given, RenameBack

\* A record shows the fields by which users are looked up, and those of their
\* providers, as the server holds them.
LEMMA RecordShowsIds ==
  ASSUME NEW account, NEW v
  PROVE  /\ Has(UserRecord(account).attrs, "uid", v) <=> Has(account.attrs, "localId", v)
         /\ Has(UserRecord(account).attrs, "email", v) <=> Has(account.attrs, "email", v)
         /\ Has(UserRecord(account).attrs, "phoneNumber", v) <=> Has(account.attrs, "phoneNumber", v)
         /\ UserRecord(account).providerData = {UserInfo(p) : p \in account.providers}
<1> DEFINE a == account.attrs
           shown == [n \in {m \in DOMAIN ServerNames : Shows(a, ServerNames[m])} |-> RecordField(a, ServerNames[n])]
<1>1. /\ UserRecord(account).attrs = shown
      /\ UserRecord(account).providerData = {UserInfo(p) : p \in account.providers}
  BY DEF UserRecord
<1>2. /\ {"uid", "email", "phoneNumber"} \subseteq DOMAIN ServerNames
      /\ ServerNames["uid"] = "localId" /\ ServerNames["email"] = "email"
      /\ ServerNames["phoneNumber"] = "phoneNumber"
  BY DEF ServerNames
<1>3. \A k \in {"localId", "email", "phoneNumber"} :
        (Shows(a, k) <=> Given(a, k)) /\ (Given(a, k) => RecordField(a, k) = a[k])
  BY DEF Shows, Given, RecordField, UserMetadata
<1>4. \A n \in {"uid", "email", "phoneNumber"} : Has(shown, n, v) <=> Has(a, ServerNames[n], v)
  BY <1>2, <1>3 DEF Has, Given
<1> HIDE DEF shown, a
<1> QED
  BY <1>1, <1>2, <1>4 DEF a

LEMMA InfoShowsIds ==
  ASSUME NEW p, NEW v
  PROVE  /\ Has(UserInfo(p), "providerId", v) <=> Has(p, "providerId", v)
         /\ Has(UserInfo(p), "uid", v) <=> Has(p, "rawId", v)
<1> DEFINE names == [uid |-> "rawId", displayName |-> "displayName", email |-> "email",
                     photoURL |-> "photoUrl", providerId |-> "providerId", phoneNumber |-> "phoneNumber"]
<1>1. {"providerId", "uid"} \subseteq DOMAIN names /\ names["providerId"] = "providerId" /\ names["uid"] = "rawId"
  OBVIOUS
<1>2. UserInfo(p) = RenameBack(p, names)
  BY DEF UserInfo
<1> HIDE DEF names
<1> QED
  BY <1>1, <1>2, RenamedField

IdentifierKinds == {"uid", "email", "phone", "provider"}

\* What a request for one identifier asks for.
LEMMA SingleRequest ==
  ASSUME NEW id
  PROVE  /\ LookupRequest(<<id>>).localId = IF id.kind = "uid" THEN {id.value} ELSE {}
         /\ LookupRequest(<<id>>).email = IF id.kind = "email" THEN {id.value} ELSE {}
         /\ LookupRequest(<<id>>).phoneNumber = IF id.kind = "phone" THEN {id.value} ELSE {}
         /\ LookupRequest(<<id>>).federatedUserId =
              IF id.kind = "provider" THEN {[providerId |-> id.providerId, rawId |-> id.value]} ELSE {}
<1> DEFINE one == <<id>>
           Values(kind) == {one[i].value : i \in {j \in DOMAIN one : one[j].kind = kind}}
           providers == {[providerId |-> one[i].providerId, rawId |-> one[i].value] :
                           i \in {j \in DOMAIN one : one[j].kind = "provider"}}
<1>1. DOMAIN one = {1} /\ one[1] = id
  OBVIOUS
<1> HIDE DEF one
<1>2. \A kind : Values(kind) = IF id.kind = kind THEN {id.value} ELSE {}
  BY <1>1
<1>3. providers = IF id.kind = "provider" THEN {[providerId |-> id.providerId, rawId |-> id.value]} ELSE {}
  BY <1>1
<1>4. LookupRequest(one) = [localId |-> Values("uid"), email |-> Values("email"), phoneNumber |-> Values("phone"),
                            federatedUserId |-> providers]
  BY Zenon DEF LookupRequest, isProviderIdentifier
<1> HIDE DEF Values, providers
<1>5. /\ LookupRequest(one).localId = IF id.kind = "uid" THEN {id.value} ELSE {}
      /\ LookupRequest(one).email = IF id.kind = "email" THEN {id.value} ELSE {}
      /\ LookupRequest(one).phoneNumber = IF id.kind = "phone" THEN {id.value} ELSE {}
      /\ LookupRequest(one).federatedUserId =
           IF id.kind = "provider" THEN {[providerId |-> id.providerId, rawId |-> id.value]} ELSE {}
  BY <1>2, <1>3, <1>4
<1> QED
  BY <1>5 DEF one

\* A user is found in the answer exactly when the server matched it.
LEMMA FoundWhenMatched ==
  ASSUME NEW id, id.kind \in IdentifierKinds, NEW account, OnePerId(account.providers)
  PROVE  isUserFound(id, {UserRecord(account)}) <=> Matches(account, LookupRequest(<<id>>))
<1> DEFINE u == UserRecord(account)
           r == LookupRequest(<<id>>)
           infos == {q \in u.providerData : Has(q, "providerId", id.providerId)}
           Federated == \E p \in account.providers, f \in r.federatedUserId :
                          Has(p, "providerId", f.providerId) /\ Has(p, "rawId", f.rawId)
<1> HIDE DEF u, r
<1>1. /\ r.localId = IF id.kind = "uid" THEN {id.value} ELSE {}
      /\ r.email = IF id.kind = "email" THEN {id.value} ELSE {}
      /\ r.phoneNumber = IF id.kind = "phone" THEN {id.value} ELSE {}
      /\ r.federatedUserId = IF id.kind = "provider" THEN {[providerId |-> id.providerId, rawId |-> id.value]} ELSE {}
  BY SingleRequest DEF r
<1>2. /\ Has(u.attrs, "uid", id.value) <=> Has(account.attrs, "localId", id.value)
      /\ Has(u.attrs, "email", id.value) <=> Has(account.attrs, "email", id.value)
      /\ Has(u.attrs, "phoneNumber", id.value) <=> Has(account.attrs, "phoneNumber", id.value)
      /\ u.providerData = {UserInfo(p) : p \in account.providers}
  BY RecordShowsIds DEF u
<1>3. Matches(account, r) <=> \/ Given(account.attrs, "localId") /\ account.attrs["localId"] \in r.localId
                              \/ Given(account.attrs, "email") /\ account.attrs["email"] \in r.email
                              \/ Given(account.attrs, "phoneNumber") /\ account.attrs["phoneNumber"] \in r.phoneNumber
                              \/ Federated
  BY Zenon DEF Matches
<1>4. ASSUME id.kind = "provider"
      PROVE  (infos # {} /\ Has(CHOOSE q \in infos : TRUE, "uid", id.value)) <=> Federated
  <2>1. Federated <=> \E p \in account.providers : Has(p, "providerId", id.providerId) /\ Has(p, "rawId", id.value)
    BY <1>1, <1>4
  <2>2. infos = {UserInfo(p) : p \in {p \in account.providers : Has(p, "providerId", id.providerId)}}
    BY <1>2, InfoShowsIds
  <2>3. \A p, q \in account.providers :
          Has(p, "providerId", id.providerId) /\ Has(q, "providerId", id.providerId) => p = q
    BY DEF OnePerId, Has
  <2>4. \A p \in account.providers : Has(UserInfo(p), "uid", id.value) <=> Has(p, "rawId", id.value)
    BY InfoShowsIds
  <2> HIDE DEF infos, Federated
  <2>5. CASE infos = {}
    BY <2>1, <2>2, <2>5
  <2>6. CASE infos # {}
    <3>1. PICK p \in account.providers :
            Has(p, "providerId", id.providerId) /\ (CHOOSE q \in infos : TRUE) = UserInfo(p)
      BY <2>2, <2>6
    <3>2. Federated <=> Has(p, "rawId", id.value)
      BY <2>1, <2>3, <3>1
    <3> QED
      BY <2>4, <2>6, <3>1, <3>2
  <2> QED
    BY <2>5, <2>6
<1>5. isUserFound(id, {u}) <=>
        CASE isUidIdentifier(id) -> Has(u.attrs, "uid", id.value)
          [] isEmailIdentifier(id) -> Has(u.attrs, "email", id.value)
          [] isPhoneIdentifier(id) -> Has(u.attrs, "phoneNumber", id.value)
          [] OTHER -> infos # {} /\ Has(CHOOSE p \in infos : TRUE, "uid", id.value)
  BY DEF isUserFound
<1>6. isUserFound(id, {u}) <=>
        CASE id.kind = "uid" -> Has(account.attrs, "localId", id.value)
          [] id.kind = "email" -> Has(account.attrs, "email", id.value)
          [] id.kind = "phone" -> Has(account.attrs, "phoneNumber", id.value)
          [] OTHER -> Federated
  <2> HIDE DEF infos, Federated
  <2> QED
    BY <1>2, <1>4, <1>5 DEF IdentifierKinds, isUidIdentifier, isEmailIdentifier, isPhoneIdentifier
<1>7. ~(id.kind = "provider") => ~Federated
  BY <1>1
<1> HIDE DEF Federated, infos
<1>8. CASE id.kind = "uid"
  BY <1>1, <1>3, <1>6, <1>7, <1>8 DEF Has, Given, r, u
<1>9. CASE id.kind = "email"
  BY <1>1, <1>3, <1>6, <1>7, <1>9 DEF Has, Given, r, u
<1>10. CASE id.kind = "phone"
  BY <1>1, <1>3, <1>6, <1>7, <1>10 DEF Has, Given, r, u
<1>11. CASE id.kind = "provider"
  BY <1>1, <1>3, <1>6, <1>11 DEF Has, Given, r, u
<1> QED
  BY <1>8, <1>9, <1>10, <1>11 DEF IdentifierKinds
-----------------------------------------------------------------------------
\* An answer with users of a list holds each identifier exactly when the server
\* has somebody for it.
LEMMA LookupAnswer ==
  ASSUME NEW ids, NEW i \in DOMAIN ids, ids[i].kind \in IdentifierKinds,
         NEW stock, \A a \in stock : OnePerId(a.providers)
  PROVE  isUserFound(ids[i], {UserRecord(a) : a \in {b \in stock : Matches(b, LookupRequest(ids))}})
           <=> \E a \in stock : Matches(a, LookupRequest(<<ids[i]>>))
<1> DEFINE id == ids[i]
           matched == {b \in stock : Matches(b, LookupRequest(ids))}
<1>1. ASSUME NEW a \in stock, Matches(a, LookupRequest(<<id>>))
      PROVE  Matches(a, LookupRequest(ids))
  <2> DEFINE r == LookupRequest(ids)
             s == LookupRequest(<<id>>)
             Values(kind) == {ids[k].value : k \in {j \in DOMAIN ids : ids[j].kind = kind}}
             providers == {[providerId |-> ids[k].providerId, rawId |-> ids[k].value] :
                             k \in {j \in DOMAIN ids : ids[j].kind = "provider"}}
  <2>1. r = [localId |-> Values("uid"), email |-> Values("email"), phoneNumber |-> Values("phone"),
             federatedUserId |-> providers]
    BY Zenon DEF LookupRequest, isProviderIdentifier
  <2>2. /\ s.localId = IF id.kind = "uid" THEN {id.value} ELSE {}
        /\ s.email = IF id.kind = "email" THEN {id.value} ELSE {}
        /\ s.phoneNumber = IF id.kind = "phone" THEN {id.value} ELSE {}
        /\ s.federatedUserId = IF id.kind = "provider" THEN {[providerId |-> id.providerId, rawId |-> id.value]} ELSE {}
    BY SingleRequest
  <2>3. /\ \A kind : id.kind = kind => id.value \in Values(kind)
        /\ id.kind = "provider" => [providerId |-> id.providerId, rawId |-> id.value] \in providers
    OBVIOUS
  <2> HIDE DEF r, s, Values, providers, id
  <2>4. /\ s.localId \subseteq r.localId /\ s.email \subseteq r.email
        /\ s.phoneNumber \subseteq r.phoneNumber /\ s.federatedUserId \subseteq r.federatedUserId
    BY <2>1, <2>2, <2>3
  <2>5. Matches(a, s) => Matches(a, r)
    BY <2>4 DEF Matches
  <2> QED
    BY <1>1, <2>5 DEF r, s
<1>2. \A a \in stock : isUserFound(id, {UserRecord(a)}) <=> Matches(a, LookupRequest(<<id>>))
  BY FoundWhenMatched
<1>3. isUserFound(id, {UserRecord(a) : a \in matched}) <=> \E a \in matched : isUserFound(id, {UserRecord(a)})
  <2>1. \A S : isUserFound(id, S) <=> \E u \in S : isUserFound(id, {u})
    BY Zenon DEF isUserFound
  <2> QED
    BY <2>1, Zenon
<1> QED
  BY <1>1, <1>2, <1>3

\* A list is accepted only with identifiers of the four kinds.
LEMMA AcceptedKinds ==
  ASSUME NEW ids, ids \in Seq(Range(ids)), getAccountInfoByIdentifiers(ids) = "ok"
  PROVE  \A i \in DOMAIN ids : ids[i].kind \in IdentifierKinds
<1> DEFINE early == Require(Len(ids) <= MaxGet, "MAXIMUM_USER_COUNT_EXCEEDED")
           each == [i \in DOMAIN ids |-> IdentifierRefusal(ids[i])]
           V == {early} \cup {each[i] : i \in DOMAIN ids}
<1>1. Len(ids) \in Nat /\ DOMAIN ids = 1..Len(ids)
  OBVIOUS
<1>2. <<early>> \in Seq(V) /\ each \in Seq(V) /\ Len(each) = Len(ids) /\ Len(<<early>>) = 1
  <2>1. each \in [1..Len(ids) -> V] /\ early \in V
    BY <1>1
  <2> HIDE DEF each, early, V
  <2> QED
    BY <1>1, <2>1
<1>3. getAccountInfoByIdentifiers(ids) = FirstRefusal(<<early>> \o each)
  BY Zenon DEF getAccountInfoByIdentifiers, Each
<1>4. ASSUME NEW i \in DOMAIN ids
      PROVE  IdentifierRefusal(ids[i]) = "ok"
  <2> DEFINE verdicts == <<early>> \o each
  <2>1. Len(verdicts) = Len(ids) + 1 /\ verdicts[i + 1] = each[i]
    <3> HIDE DEF early, each, V
    <3> QED
      BY <1>1, <1>2
  <2>2. verdicts[i + 1] = "ok"
    <3>1. FirstRefusal(verdicts) = "ok"
      BY <1>3
    <3>2. Len(verdicts) \in Nat /\ i + 1 \in 1..Len(verdicts)
      <4> HIDE DEF verdicts
      <4> QED
        BY <1>1, <2>1
    <3> HIDE DEF verdicts
    <3> QED
      BY <3>1, <3>2, NoRefusal
  <2> QED
    BY <2>1, <2>2
<1>5. \A i \in DOMAIN ids : IdentifierRefusal(ids[i]) # "INVALID_ARGUMENT"
  BY <1>4
<1> QED
  BY <1>5 DEF IdentifierRefusal, IdentifierKinds, isUidIdentifier, isEmailIdentifier, isPhoneIdentifier,
              isProviderIdentifier
-----------------------------------------------------------------------------

UserCallFields == {"op", "input", "request", "phase", "tries", "response"}

\* What a call may ask of the server.
RequestOk(op, input, request) ==
  /\ op = "create" => request.providers = << >>
  /\ op \in {"update", "claims", "revoke"} => OnePerId(ToSet(request.link))
  /\ op = "import" => input \in Seq(Range(input)) /\ request = populateUsers(input)
  /\ op = "deleteBatch" => input \in Seq(Range(input)) /\ request.localIds = input
  /\ op = "lookup" => /\ \A i \in DOMAIN input : input[i].kind \in IdentifierKinds
                      /\ request = LookupRequest(input)

\* What the answer to a batch says of the items the server handled.
AnswerOk(op, input, request, response, handled) ==
  /\ op = "import" =>
       /\ response.errors \in SUBSET DOMAIN request
       /\ handled = {<<i, request[i]>> : i \in DOMAIN request \ response.errors}
  /\ op = "deleteBatch" =>
       /\ response.errors \in SUBSET DOMAIN input
       /\ handled = DOMAIN input \ response.errors
  /\ op = "lookup" =>
       handled = {i \in DOMAIN input : isUserFound(input[i], {UserRecord(a) : a \in response.users})}

CallOk(k, handled) ==
  /\ DOMAIN k = UserCallFields
  /\ RequestOk(k.op, k.input, k.request)
  /\ k.phase = "answered" => AnswerOk(k.op, k.input, k.request, k.response, handled)

ResultOk(r, handled) ==
  r.code = "ok" => /\ r.op = "import" => ImportErrorsFindTheirUsers(r, handled)
                   /\ r.op = "deleteBatch" => DeletionsAreCounted(r, handled)
                   /\ r.op = "lookup" => NotFoundAreUnknown(r, handled)

AccountsOk(stock) ==
  DOMAIN stock = Uid /\ \A u \in Uid : stock[u] # NoAccount => OnePerId(stock[u].providers)

UsersInv ==
  /\ AccountsOk(accounts)
  /\ DOMAIN call = Client /\ DOMAIN result = Client /\ DOMAIN stored = Client
  /\ \A c \in Client : ResultOk(result[c], stored[c])
  /\ \A c \in Client : call[c] # NoCall => result[c] = NoResult /\ CallOk(call[c], stored[c])

LEMMA AskStep ==
  ASSUME UsersInv, NEW c \in Client, NEW a, Ask(c, a),
         a.refusal = "ok" => RequestOk(a.op, a.input, a.request)
  PROVE  UsersInv'
<1> DEFINE k == [op |-> a.op, input |-> a.input, request |-> a.request,
                 phase |-> "sent", tries |-> 0, response |-> NoResponse]
<1>1. accounts' = accounts /\ stored' = [stored EXCEPT ![c] = {}]
  BY DEF Ask
<1>2. CASE a.refusal # "ok"
  <2>1. call' = call /\ result' = [result EXCEPT ![c] = [op |-> a.op, code |-> a.refusal]] /\ call[c] = NoCall
    BY <1>2 DEF Ask
  <2>2. ResultOk([op |-> a.op, code |-> a.refusal], {})
    BY <1>2 DEF ResultOk
  <2> HIDE DEF NoCall
  <2> QED
    BY <1>1, <2>1, <2>2 DEF UsersInv
<1>3. CASE a.refusal = "ok"
  <2>1. call' = [call EXCEPT ![c] = k] /\ result' = [result EXCEPT ![c] = NoResult]
    BY <1>3 DEF Ask
  <2>2. ResultOk(NoResult, {})
    BY DEF ResultOk, NoResult
  <2>3. CallOk(k, {})
    BY <1>3 DEF CallOk, UserCallFields
  <2> HIDE DEF k
  <2> QED
    BY <1>1, <2>1, <2>2, <2>3 DEF UsersInv
<1> QED
  BY <1>2, <1>3

LEMMA AskOrAnswerStep ==
  ASSUME UsersInv, NEW c \in Client, NEW a, NEW list, NEW response, AskOrAnswer(c, a, list, response),
         a.refusal = "ok" => RequestOk(a.op, a.input, a.request),
         list = << >> => RequestOk(a.op, a.input, a.request) /\ AnswerOk(a.op, a.input, a.request, response, {})
  PROVE  UsersInv'
<1>1. CASE list # << >>
  BY <1>1, AskStep DEF AskOrAnswer
<1>2. CASE list = << >>
  <2> DEFINE k == [op |-> a.op, input |-> a.input, request |-> a.request,
                   phase |-> "answered", tries |-> MaxRetries, response |-> response]
  <2>1. /\ accounts' = accounts /\ stored' = [stored EXCEPT ![c] = {}]
        /\ call' = [call EXCEPT ![c] = k] /\ result' = [result EXCEPT ![c] = NoResult]
    BY <1>2 DEF AskOrAnswer
  <2>2. ResultOk(NoResult, {})
    BY DEF ResultOk, NoResult
  <2>3. CallOk(k, {})
    BY <1>2 DEF CallOk, UserCallFields
  <2> HIDE DEF k
  <2> QED
    BY <2>1, <2>2, <2>3 DEF UsersInv
<1> QED
  BY <1>1, <1>2

LEMMA AskedRequests ==
  ASSUME NEW c \in Client, NEW a
  PROVE  /\ a \in CreateCalls => RequestOk(a.op, a.input, a.request)
         /\ a \in UpdateCalls => RequestOk(a.op, a.input, a.request)
         /\ \A u, claims : a = AskedClaims(u, claims) => RequestOk(a.op, a.input, a.request)
         /\ \A u, refusal : a = Asked("revoke", u, refusal, revokeRefreshTokens(u)) =>
                           RequestOk(a.op, a.input, a.request)
<1>1. ASSUME a \in CreateCalls
      PROVE  RequestOk(a.op, a.input, a.request)
  <2>1. PICK p \in CreateInputs : a = AskedCreate(p)
    BY <1>1 DEF CreateCalls
  <2>2. createNewAccount(p).providers = << >>
    BY DEF createNewAccount, EmptyRequest
  <2>3. KnownPart(createNewAccount(p)).providers = << >>
    BY <2>2 DEF KnownPart, createNewAccount, EmptyRequest
  <2>4. a.op = "create" /\ a.request = KnownPart(createNewAccount(p))
    BY <2>1 DEF AskedCreate, Asked
  <2> QED
    BY <2>3, <2>4 DEF RequestOk
<1>2. ASSUME a \in UpdateCalls
      PROVE  RequestOk(a.op, a.input, a.request)
  <2>1. PICK u \in Uid, p \in UpdateInputs : a = AskedUpdate(u, p)
    BY <1>2 DEF UpdateCalls
  <2> DEFINE q == RedirectLink(p)
             r == updateExistingAccount(u, q)
  <2>2. DOMAIN p.link \subseteq {1}
    BY InputsAreTyped DEF InputsAreTyped, IsRequest
  <2>3. DOMAIN q.link \subseteq {1}
    BY <2>2 DEF RedirectLink
  <2> HIDE DEF q
  <2>4. r.link = [i \in DOMAIN q.link |-> Rename(q.link[i], "uid", "rawId")]
    BY DEF updateExistingAccount, EmptyRequest, Each
  <2>5. KnownPart(r).link = [i \in DOMAIN r.link |-> KnownProvider(r.link[i])]
    BY DEF KnownPart, updateExistingAccount, EmptyRequest, Each
  <2>6. a.op = "update" /\ a.request = KnownPart(r)
    BY <2>1 DEF AskedUpdate, Asked, q
  <2> HIDE DEF r
  <2>7. DOMAIN a.request.link \subseteq {1}
    BY <2>3, <2>4, <2>5, <2>6
  <2>8. OnePerId(ToSet(a.request.link))
    BY <2>7 DEF OnePerId, ToSet
  <2> QED
    BY <2>6, <2>8 DEF RequestOk
<1>3. ASSUME NEW u, NEW claims, a = AskedClaims(u, claims)
      PROVE  RequestOk(a.op, a.input, a.request)
  <2> DEFINE given == IF ClaimsRefusal(u, claims) = "ok" THEN claims ELSE "null"
             r == setCustomUserClaims(u, given)
  <2>1. a.op = "claims" /\ a.request = r
    BY <1>3 DEF AskedClaims, Asked
  <2>2. r.link = << >>
    BY DEF setCustomUserClaims, EmptyRequest
  <2> HIDE DEF r
  <2> QED
    BY <2>1, <2>2 DEF RequestOk, OnePerId, ToSet
<1>4. ASSUME NEW u, NEW refusal, a = Asked("revoke", u, refusal, revokeRefreshTokens(u))
      PROVE  RequestOk(a.op, a.input, a.request)
  <2>1. a.op = "revoke" /\ a.request = revokeRefreshTokens(u)
    BY <1>4 DEF Asked
  <2>2. revokeRefreshTokens(u).link = << >>
    BY DEF revokeRefreshTokens, EmptyRequest
  <2> QED
    BY <2>1, <2>2 DEF RequestOk, OnePerId, ToSet
<1> QED
  BY <1>1, <1>2, <1>3, <1>4

\* The calls about single users, and those that change nothing.
LEMMA SingleStep ==
  ASSUME UsersInv, NEW c \in Client,
         \/ createUser(c) \/ updateUser(c) \/ SetClaims(c) \/ Revoke(c) \/ deleteUser(c)
         \/ getUser(c) \/ listUsers(c) \/ createSessionCookie(c) \/ generateEmailLink(c)
  PROVE  UsersInv'
<1>1. CASE createUser(c) \/ updateUser(c)
  <2>1. \A a : (a \in CreateCalls \/ a \in UpdateCalls) /\ Ask(c, a) => UsersInv'
    BY AskStep, AskedRequests
  <2> QED
    BY <1>1, <2>1 DEF createUser, updateUser
<1>2. CASE SetClaims(c)
  <2>1. \A u, claims : Ask(c, AskedClaims(u, claims)) => UsersInv'
    BY AskStep, AskedRequests
  <2> QED
    BY <1>2, <2>1 DEF SetClaims
<1>3. CASE Revoke(c)
  <2>1. \A u : Ask(c, Asked("revoke", u, UidRefusal(u), revokeRefreshTokens(u))) => UsersInv'
    BY AskStep, AskedRequests
  <2> QED
    BY <1>3, <2>1 DEF Revoke
<1>4. CASE deleteUser(c) \/ getUser(c) \/ listUsers(c) \/ createSessionCookie(c) \/ generateEmailLink(c)
  <2>1. \A op \in {"delete", "get", "list", "cookie", "link"} : \A input, refusal, request :
          RequestOk(op, input, request) /\ Asked(op, input, refusal, request).op = op
            /\ Asked(op, input, refusal, request).input = input /\ Asked(op, input, refusal, request).request = request
    BY DEF RequestOk, Asked
  <2>2. \A op \in {"delete", "get", "list", "cookie", "link"} : \A input, refusal, request :
          Ask(c, Asked(op, input, refusal, request)) => UsersInv'
    BY <2>1, AskStep
  <2> HIDE DEF UsersInv
  <2>3. deleteUser(c) \/ getUser(c) => UsersInv'
    BY <2>2 DEF deleteUser, getUser
  <2>4. listUsers(c) \/ createSessionCookie(c) \/ generateEmailLink(c) => UsersInv'
    <3>1. \A input, refusal, request :
            (\/ Ask(c, Asked("list", input, refusal, request)) \/ Ask(c, Asked("cookie", input, refusal, request))
             \/ Ask(c, Asked("link", input, refusal, request))) => UsersInv'
      BY <2>2
    <3>2. listUsers(c) => UsersInv'
      BY <3>1, Zenon DEF listUsers
    <3>3. ASSUME createSessionCookie(c)
          PROVE  UsersInv'
      <4> DEFINE Request(k) == [idToken |-> k.idToken, validDuration |-> k.expiresIn \div 1000]
      <4>1. PICK k \in Cookies : Ask(c, Asked("cookie", k, SessionCookieRefusal(k.idToken, k.expiresIn), Request(k)))
        BY <3>3 DEF createSessionCookie
      <4> HIDE DEF Request
      <4> QED
        BY <3>1, <4>1
    <3>4. generateEmailLink(c) => UsersInv'
      BY <3>1, Zenon DEF generateEmailLink
    <3> QED
      BY <3>2, <3>3, <3>4
  <2> QED
    BY <1>4, <2>3, <2>4
<1> QED
  BY <1>1, <1>2, <1>3, <1>4

\* The calls about lists.
LEMMA BatchStep ==
  ASSUME UsersInv, NEW c \in Client, deleteUsers(c) \/ getUsers(c) \/ importUsers(c)
  PROVE  UsersInv'
<1>1. CASE deleteUsers(c)
  <2>1. PICK uids \in DeleteLists :
          AskOrAnswer(c, Asked("deleteBatch", uids, DeletionRefusal(uids), [localIds |-> uids]),
                      uids, [code |-> "ok", errors |-> {}])
    BY <1>1 DEF deleteUsers
  <2> DEFINE a == Asked("deleteBatch", uids, DeletionRefusal(uids), [localIds |-> uids])
  <2>2. a.op = "deleteBatch" /\ a.input = uids /\ a.request = [localIds |-> uids]
    BY DEF Asked
  <2>3. RequestOk(a.op, a.input, a.request)
    BY <2>2, InputsAreTyped DEF RequestOk, InputsAreTyped
  <2>4. uids = << >> => AnswerOk(a.op, a.input, a.request, [code |-> "ok", errors |-> {}], {})
    BY <2>2 DEF AnswerOk
  <2> HIDE DEF a
  <2> QED
    BY <2>1, <2>3, <2>4, AskOrAnswerStep DEF a
<1>2. CASE getUsers(c)
  <2>1. PICK ids \in Lookups :
          AskOrAnswer(c, Asked("lookup", ids, getAccountInfoByIdentifiers(ids), LookupRequest(ids)),
                      ids, [code |-> "ok", users |-> {}])
    BY <1>2 DEF getUsers
  <2> DEFINE a == Asked("lookup", ids, getAccountInfoByIdentifiers(ids), LookupRequest(ids))
  <2>2. /\ a.op = "lookup" /\ a.input = ids /\ a.request = LookupRequest(ids)
        /\ a.refusal = getAccountInfoByIdentifiers(ids)
    BY DEF Asked
  <2>3. ids \in Seq(Range(ids))
    BY InputsAreTyped DEF InputsAreTyped
  <2>4. a.refusal = "ok" => RequestOk(a.op, a.input, a.request)
    BY <2>2, <2>3, AcceptedKinds DEF RequestOk
  <2>5. ids = << >> => RequestOk(a.op, a.input, a.request)
    BY <2>2 DEF RequestOk
  <2>6. ids = << >> => AnswerOk(a.op, a.input, a.request, [code |-> "ok", users |-> {}], {})
    BY <2>2 DEF AnswerOk
  <2> HIDE DEF a
  <2> QED
    BY <2>1, <2>4, <2>5, <2>6, AskOrAnswerStep DEF a
<1>3. CASE importUsers(c)
  <2>1. PICK list \in ImportLists, options \in ImportOptions :
          LET a == AskedImport(list, options)
          IN IF a.refusal = "ok" /\ a.request = << >>
             THEN /\ call[c] = NoCall /\ calls < MaxCalls
                  /\ calls' = calls + 1
                  /\ result' = [result EXCEPT ![c] = [op |-> "import", code |-> "ok", input |-> a.input,
                                                      value |-> buildResponse(a.input, {})]]
                  /\ stored' = [stored EXCEPT ![c] = {}]
                  /\ UNCHANGED <<accounts, call>>
             ELSE Ask(c, a)
    BY <1>3 DEF importUsers, ImportCalls
  <2> DEFINE a == AskedImport(list, options)
             r == [op |-> "import", code |-> "ok", input |-> list, value |-> buildResponse(list, {})]
  <2>2. a.op = "import" /\ a.input = list /\ a.request = populateUsers(list)
    BY DEF AskedImport, Asked
  <2>3. list \in Seq(Range(list))
    BY InputsAreTyped DEF InputsAreTyped
  <2>4. RequestOk(a.op, a.input, a.request)
    BY <2>2, <2>3 DEF RequestOk
  <2>5. CASE a.refusal = "ok" /\ a.request = << >>
    <3>1. /\ accounts' = accounts /\ call' = call /\ stored' = [stored EXCEPT ![c] = {}] /\ call[c] = NoCall
          /\ result' = [result EXCEPT ![c] = r]
      <4> HIDE DEF a
      <4> QED
        BY <2>1, <2>2, <2>5 DEF a
    <3>2. populateUsers(list) = << >>
      BY <2>2, <2>5
    <3>3. {} = {<<i, populateUsers(list)[i]>> : i \in DOMAIN populateUsers(list) \ {}} /\ {} \in SUBSET DOMAIN populateUsers(list)
      BY <3>2
    <3>4. r.input = list /\ r.value = buildResponse(list, {}) /\ r.op = "import"
      OBVIOUS
    <3> HIDE DEF r
    <3>5. ImportErrorsFindTheirUsers(r, {})
      BY <2>3, <3>3, <3>4, ImportResult
    <3>6. ResultOk(r, {})
      BY <3>4, <3>5 DEF ResultOk
    <3> HIDE DEF NoCall
    <3> QED
      BY <3>1, <3>6 DEF UsersInv
  <2>6. CASE ~(a.refusal = "ok" /\ a.request = << >>)
    BY <2>1, <2>4, <2>6, AskStep
  <2> QED
    BY <2>5, <2>6
<1> QED
  BY <1>1, <1>2, <1>3

\* A step of the server: the accounts stay sound, and the answer to a batch says
\* what was handled.
LEMMA AnswerStep ==
  ASSUME UsersInv, NEW c \in Client, call[c] # NoCall, NEW response,
         Answered(c, response), AccountsOk(accounts'), UNCHANGED result,
         DOMAIN stored' = Client, \A d \in Client \ {c} : stored'[d] = stored[d],
         AnswerOk(call[c].op, call[c].input, call[c].request, response, stored'[c])
  PROVE  UsersInv'
<1> DEFINE k == call[c]
           answered == [k EXCEPT !.response = response, !.phase = "answered"]
<1>1. DOMAIN k = UserCallFields /\ RequestOk(k.op, k.input, k.request) /\ result[c] = NoResult
  BY DEF UsersInv, CallOk
<1>2. call' = [call EXCEPT ![c] = answered]
  BY DEF Answered, UsersInv
<1>3. /\ DOMAIN answered = UserCallFields /\ answered.op = k.op /\ answered.input = k.input
      /\ answered.request = k.request /\ answered.response = response
  BY <1>1 DEF UserCallFields
<1>4. CallOk(answered, stored'[c])
  <2> HIDE DEF answered
  <2> QED
    BY <1>1, <1>3 DEF CallOk
<1>5. ResultOk(NoResult, stored'[c])
  BY DEF ResultOk, NoResult
<1> HIDE DEF answered, NoCall, NoResult
<1> QED
  BY <1>1, <1>2, <1>4, <1>5 DEF UsersInv

\* Whatever the server does, a user has one provider of an id.
LEMMA SoundStock ==
  ASSUME UsersInv, NEW c \in Client, Serve(c)
  PROVE  AccountsOk(accounts')
<1> DEFINE r == call[c].request
<1>1. AccountsOk(accounts) /\ call[c] # NoCall /\ RequestOk(call[c].op, call[c].input, r)
  BY DEF Serve, UsersInv, CallOk
<1>2. CASE call[c].op = "create"
  <2>1. ServeCreate(c)
    BY <1>2 DEF Serve
  <2>2. r.providers = << >>
    BY <1>1, <1>2 DEF RequestOk
  <2>3. \A u : OnePerId(NewAccount(u, r).providers)
    BY <2>2 DEF NewAccount, OnePerId, ToSet
  <2> HIDE DEF r
  <2>4. accounts' = accounts \/ \E u : accounts' = [accounts EXCEPT ![u] = NewAccount(u, r)]
    BY <2>1 DEF ServeCreate, r
  <2> QED
    BY <1>1, <2>3, <2>4 DEF AccountsOk
<1>3. CASE call[c].op \in {"update", "claims", "revoke"}
  <2>1. ServeUpdate(c)
    BY <1>3 DEF Serve
  <2>2. OnePerId(ToSet(r.link))
    BY <1>1, <1>3 DEF RequestOk
  <2>3. \A account : OnePerId(account.providers) => OnePerId(SetAccount(account, r).providers)
    <3> TAKE account
    <3> DEFINE replaced == r.deleteProvider \cup {l.providerId : l \in ToSet(r.link)}
    <3>1. SetAccount(account, r).providers = {p \in account.providers : p.providerId \notin replaced} \cup ToSet(r.link)
      BY DEF SetAccount
    <3>2. \A l \in ToSet(r.link) : l.providerId \in replaced
      OBVIOUS
    <3> HIDE DEF replaced, r
    <3> QED
      BY <2>2, <3>1, <3>2 DEF OnePerId
  <2> DEFINE u == r.attrs.localId
  <2>4. \/ accounts' = accounts
        \/ accounts[u] # NoAccount /\ accounts' = [accounts EXCEPT ![u] = SetAccount(accounts[u], r)]
    BY <2>1 DEF ServeUpdate
  <2> HIDE DEF r, u
  <2> QED
    BY <1>1, <2>3, <2>4 DEF AccountsOk
<1>4. CASE call[c].op \in {"delete", "deleteBatch"}
  <2>1. ServeDelete(c) \/ ServeDeleteBatch(c)
    BY <1>4 DEF Serve
  <2>2. DOMAIN accounts' = Uid /\ \A u \in Uid : accounts'[u] \in {accounts[u], NoAccount}
    BY <1>1, <2>1 DEF ServeDelete, ServeDeleteBatch, AccountsOk
  <2> QED
    BY <1>1, <2>2 DEF AccountsOk
<1>5. CASE call[c].op = "import"
  <2>1. ServeImport(c)
    BY <1>5 DEF Serve
  <2> HIDE DEF r
  <2>2. PICK failed \in SUBSET DOMAIN r :
          LET kept == DOMAIN r \ failed
          IN /\ \A i \in kept : OnePerId(ToSet(r[i].providers))
             /\ accounts' = [u \in Uid |->
                  IF \E i \in kept : r[i].attrs.localId = u
                  THEN LET w == r[CHOOSE i \in kept : r[i].attrs.localId = u] IN NewAccount(u, w)
                  ELSE accounts[u]]
    BY <2>1 DEF ServeImport, r
  <2>3. \A u, i : NewAccount(u, r[i]).providers = ToSet(r[i].providers)
    BY DEF NewAccount
  <2>4. ASSUME NEW u \in Uid
        PROVE  \/ accounts'[u] = accounts[u]
               \/ \E i \in DOMAIN r \ failed : accounts'[u] = NewAccount(u, r[i])
    BY <2>2
  <2>5. DOMAIN accounts' = Uid /\ \A i \in DOMAIN r \ failed : OnePerId(ToSet(r[i].providers))
    BY <2>2
  <2>6. \A u \in Uid, i \in DOMAIN r \ failed : OnePerId(NewAccount(u, r[i]).providers)
    BY <2>3, <2>5, Zenon
  <2> QED
    BY <1>1, <2>4, <2>5, <2>6 DEF AccountsOk
<1>6. CASE call[c].op \notin {"create", "update", "claims", "revoke", "delete", "deleteBatch", "import"}
  <2>1. accounts' = accounts
    BY <1>6 DEF Serve, ServeList, ServePlain, ServeLookup
  <2> QED
    BY <1>1, <2>1
<1> QED
  BY <1>2, <1>3, <1>4, <1>5, <1>6

\* The answers to calls that are no batches.
LEMMA PlainAnswer ==
  ASSUME NEW op, op \notin {"import", "deleteBatch", "lookup"}
  PROVE  \A input, request, response, handled : AnswerOk(op, input, request, response, handled)
BY DEF AnswerOk

LEMMA ServeStep ==
  ASSUME UsersInv, NEW c \in Client, Serve(c)
  PROVE  UsersInv'
<1> DEFINE k == call[c]
<1>1. /\ call[c] # NoCall /\ AccountsOk(accounts') /\ UNCHANGED result
      /\ DOMAIN stored = Client /\ CallOk(k, stored[c]) /\ RequestOk(k.op, k.input, k.request)
  BY SoundStock DEF Serve, UsersInv, CallOk
<1>2. CASE k.op = "import"
  <2>1. ServeImport(c)
    BY <1>2 DEF Serve
  <2>2. PICK failed \in SUBSET DOMAIN k.request :
          /\ stored' = [stored EXCEPT ![c] = {<<i, k.request[i]>> : i \in DOMAIN k.request \ failed}]
          /\ Answered(c, [code |-> "ok", errors |-> failed])
    BY <2>1 DEF ServeImport
  <2>3. AnswerOk(k.op, k.input, k.request, [code |-> "ok", errors |-> failed], stored'[c])
    BY <1>1, <1>2, <2>2 DEF AnswerOk
  <2> HIDE DEF UsersInv, NoCall
  <2> QED
    BY <1>1, <2>2, <2>3, AnswerStep
<1>3. CASE k.op = "deleteBatch"
  <2>1. ServeDeleteBatch(c) /\ k.request.localIds = k.input
    BY <1>1, <1>3 DEF Serve, RequestOk
  <2>2. PICK failed \in SUBSET DOMAIN k.input :
          /\ stored' = [stored EXCEPT ![c] = DOMAIN k.input \ failed]
          /\ Answered(c, [code |-> "ok", errors |-> failed])
    BY <2>1 DEF ServeDeleteBatch
  <2>3. AnswerOk(k.op, k.input, k.request, [code |-> "ok", errors |-> failed], stored'[c])
    BY <1>1, <1>3, <2>2 DEF AnswerOk
  <2> HIDE DEF UsersInv, NoCall
  <2> QED
    BY <1>1, <2>2, <2>3, AnswerStep
<1>4. CASE k.op = "lookup"
  <2> DEFINE stock == {accounts[u] : u \in Uid} \ {NoAccount}
             users == {a \in stock : Matches(a, k.request)}
  <2>1. ServeLookup(c)
    BY <1>4 DEF Serve
  <2>2. /\ Answered(c, [code |-> "ok", users |-> users])
        /\ stored' = [stored EXCEPT ![c] =
             {i \in DOMAIN k.input : \E a \in stock : Matches(a, LookupRequest(<<k.input[i]>>))}]
    BY <1>4, <2>1 DEF ServeLookup
  <2>3. \A a \in stock : OnePerId(a.providers)
    BY DEF UsersInv, AccountsOk
  <2>4. k.request = LookupRequest(k.input) /\ \A i \in DOMAIN k.input : k.input[i].kind \in IdentifierKinds
    BY <1>1, <1>4 DEF RequestOk
  <2> HIDE DEF stock
  <2>5. \A i \in DOMAIN k.input :
          isUserFound(k.input[i], {UserRecord(a) : a \in users}) <=>
            \E a \in stock : Matches(a, LookupRequest(<<k.input[i]>>))
    BY <2>3, <2>4, LookupAnswer
  <2> HIDE DEF users
  <2>6. AnswerOk(k.op, k.input, k.request, [code |-> "ok", users |-> users], stored'[c])
    BY <1>1, <1>4, <2>2, <2>5 DEF AnswerOk
  <2> HIDE DEF UsersInv, NoCall, k
  <2>7. DOMAIN stored' = Client /\ \A d \in Client \ {c} : stored'[d] = stored[d]
    BY <1>1, <2>2
  <2> QED
    BY <1>1, <2>2, <2>6, <2>7, AnswerStep DEF k
<1>5. CASE k.op \notin {"import", "deleteBatch", "lookup"}
  <2>1. \A input, request, response, handled : AnswerOk(k.op, input, request, response, handled)
    BY <1>5, PlainAnswer
  <2>2. /\ \E response : Answered(c, response)
        /\ DOMAIN stored' = Client /\ \A d \in Client \ {c} : stored'[d] = stored[d]
    <3>1. \/ ServeCreate(c) \/ ServeUpdate(c) \/ ServeDelete(c) \/ ServeList(c) \/ ServePlain(c) \/ ServeLookup(c)
      BY <1>5 DEF Serve
    <3>2. \E response : Answered(c, response)
      <4>1. CASE ServeCreate(c)
        BY <4>1 DEF ServeCreate, Fault
      <4>2. CASE ServeUpdate(c)
        BY <4>2 DEF ServeUpdate, Fault
      <4>3. CASE ServeDelete(c)
        BY <4>3 DEF ServeDelete, Fault
      <4>4. CASE ServeList(c)
        BY <4>4, Zenon DEF ServeList
      <4>5. CASE ServePlain(c) \/ ServeLookup(c)
        BY <4>5, Zenon DEF ServePlain, ServeLookup
      <4> QED
        BY <3>1, <4>1, <4>2, <4>3, <4>4, <4>5
    <3>3. stored' = stored \/ ServeLookup(c)
      BY <3>1 DEF ServeCreate, ServeUpdate, ServeDelete, ServeList, ServePlain
    <3>4. ServeLookup(c) => \E handled : stored' = [stored EXCEPT ![c] = handled]
      BY Zenon DEF ServeLookup
    <3> QED
      BY <1>1, <3>2, <3>3, <3>4
  <2> HIDE DEF UsersInv, NoCall
  <2> QED
    BY <1>1, <2>1, <2>2, AnswerStep
<1> QED
  BY <1>2, <1>3, <1>4, <1>5
-----------------------------------------------------------------------------
\* A call that is over leaves a result that its history bears out.
LEMMA ReturnStep ==
  ASSUME UsersInv, NEW c \in Client, NEW outcome, Return(c, outcome), ResultOk(outcome, stored[c])
  PROVE  UsersInv'
<1> HIDE DEF NoCall
<1> QED
  BY DEF Return, UsersInv

LEMMA PlainResult ==
  ASSUME NEW r, r.code # "ok" \/ r.op \notin {"import", "deleteBatch", "lookup"}
  PROVE  \A handled : ResultOk(r, handled)
BY DEF ResultOk

LEMMA ReturnPlainStep ==
  ASSUME UsersInv, NEW c \in Client,
         ReturnFault(c) \/ ReturnUser(c) \/ ReturnPage(c) \/ ReturnNothing(c)
  PROVE  UsersInv'
<1>1. \A r : (r.code # "ok" \/ r.op \notin {"import", "deleteBatch", "lookup"}) /\ Return(c, r) => UsersInv'
  BY PlainResult, ReturnStep
<1>2. CASE ReturnFault(c)
  BY <1>1, <1>2 DEF ReturnFault
<1>3. CASE ReturnUser(c)
  BY <1>1, <1>3 DEF ReturnUser
<1>4. CASE ReturnPage(c)
  BY <1>1, <1>4 DEF ReturnPage
<1>5. CASE ReturnNothing(c)
  BY <1>1, <1>5 DEF ReturnNothing
<1> QED
  BY <1>2, <1>3, <1>4, <1>5

\* The request that is repeated is the one that was sent.
LEMMA LoseStep ==
  ASSUME UsersInv, NEW c \in Client, LoseAnswer(c)
  PROVE  UsersInv'
<1> DEFINE k == call[c]
           again == [k EXCEPT !.phase = "sent", !.tries = @ + 1]
<1>1. call[c] # NoCall /\ CallOk(k, stored[c]) /\ result[c] = NoResult
  BY DEF LoseAnswer, HasAnswer, UsersInv
<1>2. CASE k.tries < MaxRetries
  <2>1. call' = [call EXCEPT ![c] = again] /\ UNCHANGED <<accounts, result, stored>>
    BY <1>2 DEF LoseAnswer, UsersInv
  <2>2. /\ DOMAIN again = UserCallFields /\ again.op = k.op /\ again.input = k.input
        /\ again.request = k.request /\ again.phase = "sent"
    BY <1>1 DEF CallOk, UserCallFields
  <2>3. CallOk(again, stored[c])
    <3> HIDE DEF again
    <3> QED
      BY <1>1, <2>2 DEF CallOk
  <2> HIDE DEF again, NoCall, NoResult
  <2> QED
    BY <1>1, <2>1, <2>3 DEF UsersInv
<1>3. CASE ~(k.tries < MaxRetries)
  <2>1. Return(c, [op |-> k.op, code |-> "network-error"])
    BY <1>3 DEF LoseAnswer
  <2>2. ResultOk([op |-> k.op, code |-> "network-error"], stored[c])
    BY DEF ResultOk
  <2> QED
    BY <2>1, <2>2, ReturnStep
<1> QED
  BY <1>2, <1>3

LEMMA ReadBackStep ==
  ASSUME UsersInv, NEW c \in Client, ReadBack(c)
  PROVE  UsersInv'
<1> DEFINE k == [op |-> IF call[c].op = "create" THEN "created" ELSE "updated", input |-> call[c].input,
                 request |-> LookupRequest(<<[kind |-> "uid", value |-> call[c].response.localId]>>),
                 phase |-> "sent", tries |-> 0, response |-> NoResponse]
<1>1. call' = [call EXCEPT ![c] = k] /\ UNCHANGED <<accounts, result, stored>>
  BY DEF ReadBack
<1>2. DOMAIN k = UserCallFields /\ k.op \in {"created", "updated"} /\ k.phase = "sent"
  BY DEF UserCallFields
<1>3. CallOk(k, stored[c]) /\ result[c] = NoResult
  <2>1. result[c] = NoResult
    BY DEF ReadBack, HasAnswer, UsersInv
  <2> HIDE DEF k
  <2> QED
    BY <1>2, <2>1 DEF CallOk, RequestOk
<1> HIDE DEF k, NoCall, NoResult
<1> QED
  BY <1>1, <1>3 DEF UsersInv

LEMMA ReturnBatchStep ==
  ASSUME UsersInv, NEW c \in Client, ReturnImported(c) \/ ReturnDeleted(c) \/ ReturnLookup(c)
  PROVE  UsersInv'
<1> DEFINE k == call[c]
           list == k.input
<1>1. /\ RequestOk(k.op, list, k.request)
      /\ AnswerOk(k.op, list, k.request, k.response, stored[c])
  BY DEF ReturnImported, ReturnDeleted, ReturnLookup, HasAnswer, UsersInv, CallOk
<1>2. CASE ReturnImported(c)
  <2> DEFINE failed == k.response.errors
             r == [op |-> "import", code |-> "ok", input |-> list, value |-> buildResponse(list, failed)]
  <2>1. Return(c, r) /\ k.op = "import"
    BY <1>2 DEF ReturnImported
  <2>2. /\ list \in Seq(Range(list)) /\ failed \in SUBSET DOMAIN populateUsers(list)
        /\ stored[c] = {<<i, populateUsers(list)[i]>> : i \in DOMAIN populateUsers(list) \ failed}
    BY <1>1, <2>1 DEF RequestOk, AnswerOk
  <2>3. r.input = list /\ r.value = buildResponse(list, failed) /\ r.op = "import"
    OBVIOUS
  <2> HIDE DEF r, k, failed
  <2>4. ResultOk(r, stored[c])
    BY <2>2, <2>3, ImportResult DEF ResultOk
  <2> QED
    BY <2>1, <2>4, ReturnStep
<1>3. CASE ReturnDeleted(c)
  <2> DEFINE failed == k.response.errors
             r == [op |-> "deleteBatch", code |-> "ok", input |-> list,
                   value |-> [failureCount |-> Cardinality(failed), successCount |-> Len(list) - Cardinality(failed),
                              failed |-> failed]]
  <2>1. Return(c, r) /\ k.op = "deleteBatch"
    BY <1>3 DEF ReturnDeleted
  <2>2. list \in Seq(Range(list)) /\ failed \in SUBSET DOMAIN list /\ stored[c] = DOMAIN list \ failed
    BY <1>1, <2>1 DEF RequestOk, AnswerOk
  <2>3. /\ r.op = "deleteBatch" /\ r.input = list /\ r.value.failed = failed
        /\ r.value.successCount = Len(list) - Cardinality(failed)
    OBVIOUS
  <2> HIDE DEF r, k, failed, list
  <2>4. Len(list) - Cardinality(failed) = Cardinality(DOMAIN list \ failed)
    <3>1. IsFiniteSet(DOMAIN list) /\ Cardinality(DOMAIN list) = Len(list)
      BY <2>2, ListDomain
    <3>2. Cardinality(DOMAIN list \ failed) = Cardinality(DOMAIN list) - Cardinality(DOMAIN list \cap failed)
      BY <3>1, FS_Difference
    <3>3. DOMAIN list \cap failed = failed
      BY <2>2
    <3> QED
      BY <3>1, <3>2, <3>3
  <2>5. ResultOk(r, stored[c])
    BY <2>2, <2>3, <2>4 DEF ResultOk, DeletionsAreCounted
  <2> QED
    BY <2>1, <2>5, ReturnStep
<1>4. CASE ReturnLookup(c)
  <2> DEFINE users == {UserRecord(a) : a \in k.response.users}
             r == [op |-> "lookup", code |-> "ok", input |-> list, value |-> users,
                   notFound |-> {i \in DOMAIN list : ~isUserFound(list[i], users)}]
  <2>1. Return(c, r) /\ k.op = "lookup"
    BY <1>4 DEF ReturnLookup
  <2>2. stored[c] = {i \in DOMAIN list : isUserFound(list[i], users)}
    BY <1>1, <2>1 DEF AnswerOk
  <2>3. r.op = "lookup" /\ r.input = list /\ r.notFound = {i \in DOMAIN list : ~isUserFound(list[i], users)}
    OBVIOUS
  <2> HIDE DEF r, k, users, list
  <2>4. ResultOk(r, stored[c])
    BY <2>2, <2>3 DEF ResultOk, NotFoundAreUnknown
  <2> QED
    BY <2>1, <2>4, ReturnStep
<1> QED
  BY <1>2, <1>3, <1>4

LEMMA UsersNextInv ==
  ASSUME UsersInv, [Next]_vars
  PROVE  UsersInv'
<1>1. CASE UNCHANGED vars
  BY <1>1 DEF vars, UsersInv
<1>2. CASE Next
  <2>1. PICK c \in Client :
          \/ createUser(c) \/ updateUser(c) \/ SetClaims(c) \/ Revoke(c)
          \/ deleteUser(c) \/ deleteUsers(c) \/ getUser(c) \/ getUsers(c) \/ importUsers(c)
          \/ listUsers(c) \/ createSessionCookie(c) \/ generateEmailLink(c)
          \/ Serve(c) \/ LoseAnswer(c) \/ ReturnFault(c) \/ ReadBack(c)
          \/ ReturnUser(c) \/ ReturnPage(c) \/ ReturnLookup(c) \/ ReturnDeleted(c) \/ ReturnImported(c)
          \/ ReturnNothing(c)
    BY <1>2 DEF Next
  <2> QED
    BY <2>1, SingleStep, BatchStep, ServeStep, LoseStep, ReadBackStep, ReturnPlainStep, ReturnBatchStep
<1> QED
  BY <1>1, <1>2

\* Whatever list is imported, deleted or looked up, by several clients at once,
\* with answers lost and requests repeated: the result tells of each position
\* of the caller's list what became of it.
THEOREM BatchResultsAreTrue == Spec => []BatchResultsFindTheirItems
<1>1. Init => UsersInv
  <2>1. ResultOk(NoResult, {})
    BY DEF ResultOk, NoResult
  <2> HIDE DEF NoResult, NoCall
  <2> QED
    BY <2>1, AccountsAreSound DEF Init, UsersInv, AccountsOk, AccountsAreSound
<1>2. UsersInv /\ [Next]_vars => UsersInv'
  BY UsersNextInv
<1>3. UsersInv => BatchResultsFindTheirItems
  BY Zenon DEF UsersInv, ResultOk, BatchResultsFindTheirItems
<1> QED
  BY <1>1, <1>2, <1>3, PTL DEF Spec
-----------------------------------------------------------------------------
(* What a record shows of the fields of an account. *)
PlainNames ==
  {"uid", "email", "displayName", "photoURL", "phoneNumber", "passwordSalt", "tokensValidAfterTime", "tenantId"}

DisplayedClaims(held) == IF held = << >> THEN << >> ELSE <<ClaimsOf[held[1]]>>
DisplayedTime(held) == IF held = << >> THEN << >> ELSE <<UtcOf[held[1]]>>

Displayed(a, n) ==
  IF n \in PlainNames THEN Held(a, ServerNames[n])
  ELSE IF n \in {"emailVerified", "disabled"} THEN IF Held(a, n) = << >> THEN <<"false">> ELSE Held(a, n)
  ELSE IF n = "passwordHash" THEN IF Held(a, n) = <<"REDACTED">> THEN << >> ELSE Held(a, n)
  ELSE IF n = "customClaims" THEN DisplayedClaims(Held(a, "customAttributes"))
  ELSE IF n \in {"creationTime", "lastSignInTime"} THEN DisplayedTime(Held(a, ServerNames[n]))
  ELSE << >>

\* The attributes of a record are those displayed of its account.
LEMMA HeldByRecord ==
  ASSUME NEW account
  PROVE  /\ IsObject(UserRecord(account).attrs)
         /\ \A n : Held(UserRecord(account).attrs, n) = Displayed(account.attrs, n)
<1> DEFINE a == account.attrs
           f == [n \in {m \in DOMAIN ServerNames : Shows(a, ServerNames[m])} |-> RecordField(a, ServerNames[n])]
<1>1. UserRecord(account).attrs = f
  BY DEF UserRecord
<1>2. IsObject(f)
  BY DEF IsObject
<1>3. \A n : Held(f, n) = IF n \in DOMAIN ServerNames /\ Shows(a, ServerNames[n])
                          THEN <<RecordField(a, ServerNames[n])>> ELSE << >>
  BY DEF Held, Given
<1> HIDE DEF f, a
<1>4. ASSUME NEW n, n \in PlainNames
      PROVE  Held(f, n) = Held(a, ServerNames[n])
  <2>1. /\ n \in DOMAIN ServerNames
        /\ ServerNames[n] \notin {"emailVerified", "disabled", "passwordHash", "customAttributes"} \cup UserMetadata
    BY <1>4 DEF PlainNames, ServerNames, UserMetadata
  <2> HIDE DEF ServerNames
  <2>2. Shows(a, ServerNames[n]) <=> Given(a, ServerNames[n])
    BY <2>1 DEF Shows
  <2>3. Given(a, ServerNames[n]) => RecordField(a, ServerNames[n]) = a[ServerNames[n]]
    BY <2>1 DEF RecordField
  <2> QED
    BY <1>3, <2>1, <2>2, <2>3 DEF Held
<1>5. ASSUME NEW n, n \in {"emailVerified", "disabled"}
      PROVE  Held(f, n) = IF Held(a, n) = << >> THEN <<"false">> ELSE Held(a, n)
  <2>1. n \in DOMAIN ServerNames /\ ServerNames[n] = n /\ Shows(a, n)
    BY <1>5 DEF ServerNames, Shows
  <2>2. RecordField(a, n) = IF Given(a, n) THEN a[n] ELSE "false"
    BY <1>5 DEF RecordField, UserMetadata
  <2> QED
    BY <1>3, <2>1, <2>2 DEF Held
<1>6. Held(f, "passwordHash") = IF Held(a, "passwordHash") = <<"REDACTED">> THEN << >> ELSE Held(a, "passwordHash")
  <2>1. "passwordHash" \in DOMAIN ServerNames /\ ServerNames["passwordHash"] = "passwordHash"
    BY DEF ServerNames
  <2>2. Shows(a, "passwordHash") <=> Given(a, "passwordHash") /\ a["passwordHash"] # "REDACTED"
    BY DEF Shows
  <2>3. Given(a, "passwordHash") => RecordField(a, "passwordHash") = a["passwordHash"]
    BY DEF RecordField, UserMetadata
  <2> QED
    BY <1>3, <2>1, <2>2, <2>3 DEF Held
<1>7. Held(f, "customClaims") = DisplayedClaims(Held(a, "customAttributes"))
  <2>1. "customClaims" \in DOMAIN ServerNames /\ ServerNames["customClaims"] = "customAttributes"
    BY DEF ServerNames
  <2>2. Shows(a, "customAttributes") <=> Given(a, "customAttributes")
    BY DEF Shows
  <2>3. Given(a, "customAttributes") => RecordField(a, "customAttributes") = ClaimsOf[a["customAttributes"]]
    BY DEF RecordField
  <2> HIDE DEF ClaimsOf
  <2> QED
    BY <1>3, <2>1, <2>2, <2>3 DEF Held, DisplayedClaims
<1>8. ASSUME NEW n, n \in {"creationTime", "lastSignInTime"}
      PROVE  Held(f, n) = DisplayedTime(Held(a, ServerNames[n]))
  <2>1. n \in DOMAIN ServerNames /\ ServerNames[n] \in {"createdAt", "lastLoginAt"}
    BY <1>8 DEF ServerNames
  <2> HIDE DEF ServerNames
  <2>2. Shows(a, ServerNames[n]) <=> Given(a, ServerNames[n])
    BY <2>1 DEF Shows
  <2>3. Given(a, ServerNames[n]) => RecordField(a, ServerNames[n]) = UtcOf[a[ServerNames[n]]]
    BY <2>1 DEF RecordField, UserMetadata, parseDate
  <2> HIDE DEF UtcOf
  <2> QED
    BY <1>3, <2>1, <2>2, <2>3 DEF Held, DisplayedTime
<1>9. DOMAIN ServerNames = PlainNames \cup {"emailVerified", "disabled", "passwordHash", "customClaims",
                                            "creationTime", "lastSignInTime"}
  BY DEF ServerNames, PlainNames
<1>10. ASSUME NEW n, n \notin DOMAIN ServerNames
       PROVE  Held(f, n) = << >>
  BY <1>3, <1>10
<1>11. ASSUME NEW n
       PROVE  Held(f, n) = Displayed(a, n)
  <2> HIDE DEF ServerNames, PlainNames
  <2> QED
    BY <1>4, <1>5, <1>6, <1>7, <1>8, <1>9, <1>10, Zenon DEF Displayed
<1> QED
  BY <1>1, <1>2, <1>11 DEF a

\* What the server keeps of the fields of a request.
LEMMA HeldByServer ==
  ASSUME NEW b
  PROVE  \A k : Held(StoredAttrs(b), k) =
           IF k = "passwordHash"
           THEN IF Held(b, "password") = << >> /\ Held(b, "passwordHash") = << >> THEN << >> ELSE <<"REDACTED">>
           ELSE IF k \in {"password", "salt", "disableUser"} THEN << >>
           ELSE IF k = "disabled" /\ Held(b, "disableUser") # << >> THEN Held(b, "disableUser")
           ELSE Held(b, k)
<1> DEFINE hashes == {"password", "passwordHash"} \cap DOMAIN b
           f == IF hashes = {} THEN EmptyObject ELSE Field("passwordHash", "REDACTED")
           w == Without(b, {"password", "salt"})
           g == Rename(w, "disableUser", "disabled")
<1>1. StoredAttrs(b) = f ++ g
  BY Zenon DEF StoredAttrs
<1>2. hashes = {} <=> Held(b, "password") = << >> /\ Held(b, "passwordHash") = << >>
  BY DEF Held, Given
<1> HIDE DEF hashes
<1>3. \A k : Held(f, k) = IF k = "passwordHash" /\ hashes # {} THEN <<"REDACTED">> ELSE << >>
  BY HeldField, HeldEmpty
<1>4. \A k : Held(w, k) = IF k \in {"password", "salt"} THEN << >> ELSE Held(b, k)
  BY HeldParts
<1> HIDE DEF f, w
<1>5. \A k : Held(g, k) =
         IF k = "disabled" THEN (IF Held(w, "disableUser") = << >> THEN Held(w, "disabled") ELSE Held(w, "disableUser"))
                          ELSE IF k = "disableUser" THEN << >> ELSE Held(w, k)
  BY HeldRenamed
<1> HIDE DEF g
<1>6. \A k : Held(f ++ g, k) = IF Held(f, k) = << >> THEN Held(g, k) ELSE Held(f, k)
  BY HeldOver
<1> QED
  BY <1>1, <1>2, <1>3, <1>4, <1>5, <1>6
-----------------------------------------------------------------------------
\* The operators on objects that the instance Store has of its own.
LEMMA StoreObjects ==
  ASSUME NEW o, NEW p
  PROVE  /\ Store!++(o, p) = o ++ p /\ Store!Field(o, p) = Field(o, p)
         /\ Store!Only(o, p) = Only(o, p) /\ Store!Without(o, p) = Without(o, p)
         /\ Store!Given(o, p) <=> Given(o, p)
<1>1. Store!++(o, p) = o ++ p
  <2> DEFINE both(a, b) == [k \in DOMAIN a \cup DOMAIN b |-> IF k \in DOMAIN a THEN a[k] ELSE b[k]]
  <2>1. Store!++(o, p) = CHOOSE f \in {both(a, b) : a \in {o}, b \in {p}} : TRUE
    BY DEF Store!++
  <2>2. o ++ p = CHOOSE f \in {both(a, b) : a \in {o}, b \in {p}} : TRUE
    BY DEF ++
  <2> HIDE DEF both
  <2> QED
    BY <2>1, <2>2
<1>2. Store!Field(o, p) = Field(o, p)
  BY DEF Store!Field, Field
<1>3. Store!Only(o, p) = Only(o, p) /\ Store!Without(o, p) = Without(o, p)
  BY DEF Store!Only, Only, Store!Without, Without, Store!Restrict, Restrict
<1>4. Store!Given(o, p) <=> Given(o, p)
  BY DEF Store!Given, Given
<1> QED
  BY <1>1, <1>2, <1>3, <1>4
-----------------------------------------------------------------------------
(* The fields a call changes. *)

\* A record shows of a user created what the caller named.
LEMMA CreatedAttrs ==
  ASSUME NEW p, DOMAIN p.attrs \subseteq CreateRequest, NEW u, Given(p.attrs, "uid") => p.attrs.uid = u
  PROVE  UserRecord(NewAccount(u, KnownPart(createNewAccount(p)))).attrs = Store!NewUser(u, p).attrs
<1> DEFINE x == p.attrs
           y == Rename(x, "photoURL", "photoUrl")
           z == Rename(y, "uid", "localId")
           r == KnownPart(createNewAccount(p))
           b == Field("localId", u) ++ r.attrs
           a == NewAccount(u, r)
           F == UserRecord(a).attrs
           G == Store!NewUser(u, p).attrs
           o == Only(x, Store!Visible)
<1>1. r.attrs = Only(z, ValidKeys) /\ a.attrs = StoredAttrs(b)
  BY DEF KnownPart, createNewAccount, EmptyRequest, NewAccount
<1>2. G = (Field("uid", u) ++ o) ++ Store!Enabled
  <2>1. G = Store!++(Store!++(Store!Field("uid", u), Store!Only(x, Store!Visible)), Store!Enabled)
    BY DEF Store!NewUser
  <2> QED
    BY <2>1, StoreObjects
<1>3. /\ \A k : k \notin CreateRequest => Held(x, k) = << >>
      /\ Held(x, "uid") \in {<< >>, <<u>>}
  BY DEF Held, Given
<1>4. \A k : Held(y, k) =
         IF k = "photoUrl" THEN (IF Held(x, "photoURL") = << >> THEN Held(x, "photoUrl") ELSE Held(x, "photoURL"))
                          ELSE IF k = "photoURL" THEN << >> ELSE Held(x, k)
  <2> HIDE DEF x
  <2> QED
    BY HeldRenamed
<1> HIDE DEF x, y
<1>5. \A k : Held(z, k) = IF k = "localId" THEN (IF Held(y, "uid") = << >> THEN Held(y, "localId") ELSE Held(y, "uid"))
                          ELSE IF k = "uid" THEN << >> ELSE Held(y, k)
  BY HeldRenamed
<1> HIDE DEF z
<1>6. \A k : Held(r.attrs, k) = IF k \in ValidKeys THEN Held(z, k) ELSE << >>
  BY <1>1, HeldParts
<1>7. \A k : Held(b, k) = IF k = "localId" THEN <<u>> ELSE Held(r.attrs, k)
  <2>1. \A k : Held(Field("localId", u), k) = IF k = "localId" THEN <<u>> ELSE << >>
    BY HeldField
  <2> HIDE DEF r
  <2> QED
    BY <2>1, HeldOver
<1> HIDE DEF b, r
<1>8. /\ Held(b, "localId") = <<u>>
      /\ \A k \in {"email", "emailVerified", "displayName", "phoneNumber", "disabled", "password"} : Held(b, k) = Held(x, k)
      /\ Held(b, "photoUrl") = Held(x, "photoURL")
      /\ \A k \in {"passwordHash", "salt", "disableUser", "customAttributes", "validSince", "tenantId",
                   "createdAt", "lastLoginAt"} : Held(b, k) = << >>
  BY <1>3, <1>4, <1>5, <1>6, <1>7 DEF CreateRequest, UpdateRequest, ValidKeys
<1>9. /\ Held(a.attrs, "localId") = <<u>>
      /\ \A k \in {"email", "emailVerified", "displayName", "phoneNumber", "disabled"} : Held(a.attrs, k) = Held(x, k)
      /\ Held(a.attrs, "photoUrl") = Held(x, "photoURL")
      /\ Held(a.attrs, "passwordHash") \in {<< >>, <<"REDACTED">>}
      /\ \A k \in {"salt", "customAttributes", "validSince", "tenantId", "createdAt", "lastLoginAt"} : Held(a.attrs, k) = << >>
  BY <1>1, <1>8, HeldByServer
<1>10. \A n : Held(F, n) = Displayed(a.attrs, n)
  BY HeldByRecord
<1>11. \A n : Held(G, n) = IF n = "uid" THEN <<u>>
                           ELSE IF n \in Store!Visible /\ Held(x, n) # << >> THEN Held(x, n)
                           ELSE IF n \in {"emailVerified", "disabled"} THEN <<"false">> ELSE << >>
  <2>1. \A n : Held(Field("uid", u), n) = IF n = "uid" THEN <<u>> ELSE << >>
    BY HeldField
  <2>2. \A n : Held(o, n) = IF n \in Store!Visible THEN Held(x, n) ELSE << >>
    BY HeldParts
  <2>3. \A n : Held(Store!Enabled, n) = IF n \in {"emailVerified", "disabled"} THEN <<"false">> ELSE << >>
    BY DEF Held, Given, Store!Enabled
  <2> HIDE DEF o
  <2>4. \A n : Held(Field("uid", u) ++ o, n) = IF Held(Field("uid", u), n) = << >> THEN Held(o, n) ELSE Held(Field("uid", u), n)
    BY HeldOver
  <2>5. \A n : Held(G, n) = IF Held(Field("uid", u) ++ o, n) = << >> THEN Held(Store!Enabled, n)
                            ELSE Held(Field("uid", u) ++ o, n)
    <3> HIDE DEF G
    <3> QED
      BY <1>2, HeldOver
  <2> HIDE DEF G
  <2> QED
    BY <2>1, <2>2, <2>3, <2>4, <2>5
<1>12. IsObject(F) /\ IsObject(G)
  BY <1>2, HeldByRecord, HeldOver
<1> HIDE DEF F, G, a, o
<1>13. ASSUME NEW n
       PROVE  Held(F, n) = Held(G, n)
  <2>1. CASE n \in PlainNames
    BY <1>9, <1>10, <1>11, <2>1 DEF Displayed, PlainNames, ServerNames, Store!Visible
  <2>2. CASE n \in {"emailVerified", "disabled"}
    BY <1>9, <1>10, <1>11, <2>2 DEF Displayed, PlainNames, Store!Visible
  <2>3. CASE n \notin PlainNames \cup {"emailVerified", "disabled"}
    BY <1>9, <1>10, <1>11, <2>3 DEF Displayed, DisplayedClaims, DisplayedTime, PlainNames, ServerNames, Store!Visible
  <2> QED
    BY <2>1, <2>2, <2>3
<1> QED
  BY <1>12, <1>13, SameObject DEF F, G, a, r

\* A table applied to some of the values of an object.
LEMMA HeldConverted ==
  ASSUME NEW o, NEW K, NEW table
  PROVE  \A k : Held([n \in DOMAIN o \cap K |-> table[o[n]]], k) =
                  IF k \in K /\ Given(o, k) THEN <<table[o[k]]>> ELSE << >>
BY DEF Held, Given

\* The dates and claims given are those read back.
LEMMA ConvertedAndBack ==
  /\ \A t \in Utc : IsoOf[t] \in Iso /\ UtcOf[IsoOf[t]] = t
  /\ \A c \in DOMAIN JsonOf : JsonOf[c] \in {"{}", "{admin}"} =>
       (c = "null" /\ JsonOf[c] = "{}") \/ (c = "admin" /\ JsonOf[c] = "{admin}")
  /\ ClaimsOf["{}"] = "none" /\ ClaimsOf["{admin}"] = "admin"
<1>1. \A t \in Utc : IsoOf[t] \in Iso /\ UtcOf[IsoOf[t]] = t
  BY DEF Utc, Iso, IsoOf, UtcOf
<1>2. ASSUME NEW c \in DOMAIN JsonOf, JsonOf[c] \in {"{}", "{admin}"}
      PROVE  (c = "null" /\ JsonOf[c] = "{}") \/ (c = "admin" /\ JsonOf[c] = "{admin}")
  <2>1. /\ DOMAIN JsonOf = {"null", "admin", "reserved", "large"}
        /\ JsonOf["null"] = "{}" /\ JsonOf["admin"] = "{admin}"
        /\ JsonOf["reserved"] = "{reserved}" /\ JsonOf["large"] = "{large}"
    BY DEF JsonOf
  <2> HIDE DEF JsonOf
  <2> QED
    BY <1>2, <2>1
<1>3. ClaimsOf["{}"] = "none" /\ ClaimsOf["{admin}"] = "admin"
  BY DEF ClaimsOf
<1> QED
  BY <1>1, <1>2, <1>3

ClaimsAccepted(attrs) == Given(attrs, "customClaims") => JsonOf[attrs["customClaims"]] \in {"{}", "{admin}"}

\* The claims and dates of a user to import, converted.
Times == {"creationTime", "lastSignInTime"}

ConvertedFields(x) ==
  [k \in DOMAIN x \cap {"customClaims"} |-> JsonOf[x[k]]] ++ [k \in DOMAIN x \cap Times |-> IsoOf[x[k]]] ++ x

\* The fields converted are the claims and the dates, where given; the others stay.
LEMMA FieldsConverted ==
  ASSUME NEW x
  PROVE  /\ \A k : k \notin Times \cup {"customClaims"} => Held(ConvertedFields(x), k) = Held(x, k)
         /\ \A k : ~Given(x, k) => Held(ConvertedFields(x), k) = << >>
         /\ Given(x, "customClaims") => Held(ConvertedFields(x), "customClaims") = <<JsonOf[x["customClaims"]]>>
         /\ \A k \in Times : Given(x, k) => Held(ConvertedFields(x), k) = <<IsoOf[x[k]]>>
<1> DEFINE claims == [k \in DOMAIN x \cap {"customClaims"} |-> JsonOf[x[k]]]
           times == [k \in DOMAIN x \cap Times |-> IsoOf[x[k]]]
           y == (claims ++ times) ++ x
<1>0. ConvertedFields(x) = y
  BY DEF ConvertedFields
<1>1. \A k : Held(claims, k) = IF k \in {"customClaims"} /\ Given(x, k) THEN <<JsonOf[x[k]]>> ELSE << >>
  <2> HIDE DEF JsonOf
  <2> QED
    BY HeldConverted
<1>2. \A k : Held(times, k) = IF k \in Times /\ Given(x, k) THEN <<IsoOf[x[k]]>> ELSE << >>
  <2> HIDE DEF Times, IsoOf
  <2> QED
    BY HeldConverted
<1> HIDE DEF claims, times
<1>3. \A k : Held(claims ++ times, k) = IF Held(claims, k) = << >> THEN Held(times, k) ELSE Held(claims, k)
  BY HeldOver
<1> DEFINE both == claims ++ times
<1> HIDE DEF both
<1>4. \A k : Held(both ++ x, k) = IF Held(both, k) = << >> THEN Held(x, k) ELSE Held(both, k)
  BY HeldOver
<1>5. y = both ++ x
  BY DEF both
<1>6. \A k : Held(both, k) = IF Held(claims, k) = << >> THEN Held(times, k) ELSE Held(claims, k)
  BY <1>3 DEF both
<1>7. \A k : ~Given(x, k) => Held(x, k) = << >>
  BY HeldNothing
<1> HIDE DEF y, Times, JsonOf, IsoOf
<1>8. /\ \A k : k \notin Times \cup {"customClaims"} => Held(both, k) = << >>
      /\ \A k : ~Given(x, k) => Held(both, k) = << >>
      /\ Given(x, "customClaims") => Held(both, "customClaims") = <<JsonOf[x["customClaims"]]>>
  BY <1>1, <1>2, <1>6
<1>9. \A k \in Times : Given(x, k) => Held(both, k) = <<IsoOf[x[k]]>>
  <2>1. \A k \in Times : k # "customClaims"
    BY DEF Times
  <2> QED
    BY <1>1, <1>2, <1>6, <2>1
<1> QED
  BY <1>0, <1>4, <1>5, <1>7, <1>8, <1>9

\* And of a user imported, with claims and dates as they were given.
LEMMA ImportedAttrs ==
  ASSUME NEW p, IsUserImportRecord(p), ClaimsAccepted(p.attrs),
         NEW u, Has(p.attrs, "uid", u)
  PROVE  UserRecord(NewAccount(u, populateUploadAccountUser(p))).attrs = Store!Imported(p).attrs
<1> DEFINE x == p.attrs
           y == ConvertedFields(x)
           r == populateUploadAccountUser(p)
           b == Field("localId", u) ++ r.attrs
           a == NewAccount(u, r)
           F == UserRecord(a).attrs
           G == Store!Imported(p).attrs
           o == Without(x, {"passwordHash", "passwordSalt"})
<1>1. r.attrs = RenameBack(y, WireNames) /\ a.attrs = StoredAttrs(b)
  BY Zenon DEF populateUploadAccountUser, NewAccount, ConvertedFields, Times
<1>2. G = o ++ Store!Enabled
  <2>1. G = Store!++(Store!Without(x, {"passwordHash", "passwordSalt"}), Store!Enabled)
    BY DEF Store!Imported
  <2> QED
    BY <2>1, StoreObjects
<1>3. /\ Held(x, "uid") = <<u>>
      /\ Held(x, "tokensValidAfterTime") = << >>
      /\ \A n : n \notin PlainNames \cup {"emailVerified", "disabled", "passwordHash", "customClaims",
                                          "creationTime", "lastSignInTime"} => Held(x, n) = << >>
  BY DEF Held, Given, Has, IsUserImportRecord, UserMetadataRequest, PlainNames
<1>4. Given(x, "customClaims") => x["customClaims"] = "admin"
  <2>1. Given(x, "customClaims") => x["customClaims"] \in DOMAIN JsonOf /\ x["customClaims"] # "null"
    BY Zenon DEF IsUserImportRecord
  <2>2. Given(x, "customClaims") => JsonOf[x["customClaims"]] \in {"{}", "{admin}"}
    BY Zenon DEF ClaimsAccepted
  <2> HIDE DEF x
  <2> QED
    BY <2>1, <2>2, ConvertedAndBack
<1>5. \A n \in Times : Given(x, n) => x[n] \in Utc
  BY DEF Given, IsUserImportRecord, UserMetadataRequest, Times
<1>6. /\ \A k : k \notin Times \cup {"customClaims"} => Held(y, k) = Held(x, k)
      /\ \A k : ~Given(x, k) => Held(y, k) = << >>
      /\ Given(x, "customClaims") => Held(y, "customClaims") = <<JsonOf[x["customClaims"]]>>
      /\ \A k \in Times : Given(x, k) => Held(y, k) = <<IsoOf[x[k]]>>
  BY FieldsConverted
<1> HIDE DEF x, y
<1> USE DEF Times
<1>7. \A k : Held(r.attrs, k) = IF k \in DOMAIN WireNames THEN Held(y, WireNames[k]) ELSE << >>
  <2>1. \A k : Held(RenameBack(y, WireNames), k) = IF k \in DOMAIN WireNames THEN Held(y, WireNames[k]) ELSE << >>
    BY HeldRenamedBack, Zenon
  <2> HIDE DEF r, a, b
  <2> QED
    BY <1>1, <2>1
<1>8. \A k : Held(b, k) = IF k = "localId" THEN <<u>> ELSE Held(r.attrs, k)
  <2>1. \A k : Held(Field("localId", u), k) = IF k = "localId" THEN <<u>> ELSE << >>
    BY HeldField
  <2> HIDE DEF r
  <2> QED
    BY <2>1, HeldOver
<1> HIDE DEF b, r, a
<1>9. /\ Held(b, "localId") = <<u>>
      /\ \A k \in {"email", "emailVerified", "displayName", "phoneNumber", "disabled", "tenantId"} :
           Held(b, k) = Held(x, k)
      /\ Held(b, "photoUrl") = Held(x, "photoURL")
      /\ Held(b, "customAttributes") = Held(y, "customClaims")
      /\ Held(b, "createdAt") = Held(y, "creationTime")
      /\ Held(b, "lastLoginAt") = Held(y, "lastSignInTime")
      /\ \A k \in {"password", "disableUser", "validSince"} : Held(b, k) = << >>
  <2>1. /\ \A k \in {"email", "emailVerified", "displayName", "phoneNumber", "disabled", "tenantId"} :
             k \in DOMAIN WireNames /\ WireNames[k] = k
        /\ {"photoUrl", "customAttributes", "createdAt", "lastLoginAt"} \subseteq DOMAIN WireNames
        /\ WireNames["photoUrl"] = "photoURL" /\ WireNames["customAttributes"] = "customClaims"
        /\ WireNames["createdAt"] = "creationTime" /\ WireNames["lastLoginAt"] = "lastSignInTime"
        /\ \A k \in {"password", "disableUser", "validSince"} : k \notin DOMAIN WireNames
    BY DEF WireNames
  <2> HIDE DEF WireNames
  <2>2. \A k \in {"email", "emailVerified", "displayName", "phoneNumber", "disabled", "tenantId", "photoURL"} :
          Held(y, k) = Held(x, k)
    BY <1>6
  <2> QED
    BY <1>7, <1>8, <2>1, <2>2
<1>10. /\ Held(a.attrs, "localId") = <<u>>
       /\ \A k \in {"email", "emailVerified", "displayName", "phoneNumber", "disabled", "tenantId"} :
            Held(a.attrs, k) = Held(x, k)
       /\ Held(a.attrs, "photoUrl") = Held(x, "photoURL")
       /\ Held(a.attrs, "customAttributes") = Held(y, "customClaims")
       /\ Held(a.attrs, "createdAt") = Held(y, "creationTime")
       /\ Held(a.attrs, "lastLoginAt") = Held(y, "lastSignInTime")
       /\ Held(a.attrs, "passwordHash") \in {<< >>, <<"REDACTED">>}
       /\ \A k \in {"validSince", "salt"} : Held(a.attrs, k) = << >>
  <2>1. \A k : Held(StoredAttrs(b), k) =
           IF k = "passwordHash"
           THEN IF Held(b, "password") = << >> /\ Held(b, "passwordHash") = << >> THEN << >> ELSE <<"REDACTED">>
           ELSE IF k \in {"password", "salt", "disableUser"} THEN << >>
           ELSE IF k = "disabled" /\ Held(b, "disableUser") # << >> THEN Held(b, "disableUser")
           ELSE Held(b, k)
    BY HeldByServer, Zenon
  <2> QED
    BY <1>1, <1>9, <2>1
<1>11. \A n : Held(F, n) = Displayed(a.attrs, n)
  BY HeldByRecord
<1>12. \A n : Held(G, n) = IF n \in {"passwordHash", "passwordSalt"} THEN << >>
                           ELSE IF Held(x, n) # << >> THEN Held(x, n)
                           ELSE IF n \in {"emailVerified", "disabled"} THEN <<"false">> ELSE << >>
  <2>1. \A n : Held(o, n) = IF n \in {"passwordHash", "passwordSalt"} THEN << >> ELSE Held(x, n)
    BY HeldParts
  <2>2. \A n : Held(Store!Enabled, n) = IF n \in {"emailVerified", "disabled"} THEN <<"false">> ELSE << >>
    BY DEF Held, Given, Store!Enabled
  <2> HIDE DEF o, G
  <2>3. \A n : Held(G, n) = IF Held(o, n) = << >> THEN Held(Store!Enabled, n) ELSE Held(o, n)
    BY <1>2, HeldOver
  <2> QED
    BY <2>1, <2>2, <2>3
<1>13. IsObject(F) /\ IsObject(G)
  <2>1. IsObject(F)
    BY HeldByRecord
  <2> HIDE DEF o, G
  <2>2. IsObject(G)
    BY <1>2, HeldOver
  <2> QED
    BY <2>1, <2>2
<1> HIDE DEF F, G, o
<1>14. Held(F, "customClaims") = Held(G, "customClaims")
  <2>1. Held(F, "customClaims") = DisplayedClaims(Held(y, "customClaims"))
    BY <1>10, <1>11 DEF Displayed, PlainNames
  <2>2. Held(G, "customClaims") = Held(x, "customClaims")
    BY <1>12
  <2>3. CASE ~Given(x, "customClaims")
    BY <1>6, <2>1, <2>2, <2>3, HeldNothing DEF DisplayedClaims
  <2>4. CASE Given(x, "customClaims")
    <3>1. Held(y, "customClaims") = <<JsonOf["admin"]>> /\ Held(x, "customClaims") = <<"admin">>
      BY <1>4, <1>6, <2>4, HeldNothing
    <3>2. ClaimsOf[JsonOf["admin"]] = "admin"
      BY DEF ClaimsOf, JsonOf
    <3> HIDE DEF ClaimsOf, JsonOf
    <3>3. DisplayedClaims(<<JsonOf["admin"]>>) = <<ClaimsOf[JsonOf["admin"]]>>
      BY DEF DisplayedClaims
    <3> QED
      BY <2>1, <2>2, <3>1, <3>2, <3>3
  <2> QED
    BY <2>3, <2>4
<1>15. ASSUME NEW n \in Times
       PROVE  Held(F, n) = Held(G, n)
  <2>1. Held(F, n) = DisplayedTime(Held(y, n))
    BY <1>10, <1>11 DEF Displayed, PlainNames, ServerNames, Times
  <2>2. Held(G, n) = Held(x, n)
    BY <1>12
  <2> HIDE DEF Times
  <2>3. CASE ~Given(x, n)
    BY <1>6, <2>1, <2>2, <2>3, HeldNothing DEF DisplayedTime
  <2>4. CASE Given(x, n)
    <3>1. Held(y, n) = <<IsoOf[x[n]]>> /\ Held(x, n) = <<x[n]>>
      BY <1>6, <2>4, HeldNothing
    <3>2. UtcOf[IsoOf[x[n]]] = x[n]
      BY <1>5, <2>4, ConvertedAndBack
    <3> HIDE DEF UtcOf, IsoOf
    <3>3. DisplayedTime(<<IsoOf[x[n]]>>) = <<UtcOf[IsoOf[x[n]]]>>
      BY DEF DisplayedTime
    <3> QED
      BY <2>1, <2>2, <3>1, <3>2, <3>3
  <2> QED
    BY <2>3, <2>4
<1>16. ASSUME NEW n
       PROVE  Held(F, n) = Held(G, n)
  <2>1. CASE n \in PlainNames
    BY <1>3, <1>10, <1>11, <1>12, <2>1 DEF Displayed, PlainNames, ServerNames
  <2>2. CASE n \in {"emailVerified", "disabled"}
    BY <1>10, <1>11, <1>12, <2>2 DEF Displayed, PlainNames
  <2>3. CASE n = "passwordHash"
    BY <1>10, <1>11, <1>12, <2>3 DEF Displayed, PlainNames
  <2>4. CASE n \notin PlainNames \cup {"emailVerified", "disabled", "passwordHash", "customClaims",
                                       "creationTime", "lastSignInTime"}
    BY <1>3, <1>11, <1>12, <2>4 DEF Displayed, PlainNames
  <2> QED
    BY <1>14, <1>15, <2>1, <2>2, <2>3, <2>4
<1> QED
  BY <1>13, <1>16, SameObject DEF F, G, a, r

\* The fields an update names, with those its link stands for.
LEMMA RedirectedFields ==
  ASSUME NEW p, DOMAIN p.attrs \subseteq UpdateRequest
  PROVE  LET x == RedirectLink(p).attrs
             given == Store!LinkedAttrs(p) ++ Only(p.attrs, Store!Visible)
         IN /\ \A k : Held(given, k) = IF k \in Store!Visible THEN Held(x, k) ELSE << >>
            /\ \A k : k \notin UpdateRequest => Held(x, k) = << >>
<1> DEFINE x == RedirectLink(p).attrs
           l == p.link[1]
           o == Only(p.attrs, Store!Visible)
           linked == Store!LinkedAttrs(p)
           given == linked ++ o
           att == p.attrs
<1>1. \A k : k \notin UpdateRequest => Held(att, k) = << >>
  BY DEF Held, Given
<1>2. \A k : Held(o, k) = IF k \in Store!Visible THEN Held(att, k) ELSE << >>
  BY HeldParts
<1> HIDE DEF o, linked, att
<1>3. \A k : Held(given, k) = IF Held(linked, k) = << >> THEN Held(o, k) ELSE Held(linked, k)
  BY HeldOver
<1> HIDE DEF given
<1>4. CASE p.link = << >> \/ l.providerId \notin {"email", "phone"}
  <2>1. x = att
    BY <1>4 DEF RedirectLink, LinkedField, att
  <2>2. linked = EmptyObject
    BY <1>4 DEF Store!LinkedAttrs, Store!EmptyObject, EmptyObject, linked
  <2> HIDE DEF x
  <2> QED
    BY <1>1, <1>2, <1>3, <2>1, <2>2, HeldEmpty DEF x, given, linked, o, att
<1>5. CASE p.link # << >> /\ l.providerId \in {"email", "phone"}
  <2> DEFINE n == IF l.providerId = "email" THEN "email" ELSE "phoneNumber"
             f == Field(n, l.uid)
  <2>1. x = f ++ att
    <3>1. LinkedField[l.providerId] = n /\ l.providerId \in DOMAIN LinkedField
      BY <1>5 DEF LinkedField
    <3>2. RedirectLink(p).attrs = Field(LinkedField[l.providerId], l.uid) ++ p.attrs
      <4> HIDE DEF LinkedField
      <4> QED
        BY <1>5, <3>1 DEF RedirectLink
    <3> HIDE DEF n
    <3> QED
      BY <3>1, <3>2 DEF att
  <2>2. linked = f
    <3>1. Store!LinkedAttrs(p) = Store!Field(n, l.uid)
      BY <1>5 DEF Store!LinkedAttrs
    <3> HIDE DEF n
    <3> QED
      BY <3>1, StoreObjects DEF linked
  <2>3. n \in {"email", "phoneNumber"}
    OBVIOUS
  <2>4. \A k : Held(f, k) = IF k = n THEN <<l.uid>> ELSE << >>
    <3> HIDE DEF n
    <3> QED
      BY HeldField
  <2> HIDE DEF n, f, x
  <2>5. \A k : Held(x, k) = IF Held(f, k) = << >> THEN Held(att, k) ELSE Held(f, k)
    BY <2>1, HeldOver
  <2>6. \A k : Held(given, k) = IF k \in Store!Visible THEN Held(x, k) ELSE << >>
    BY <1>2, <1>3, <2>2, <2>3, <2>4, <2>5 DEF Store!Visible
  <2>7. \A k : k \notin UpdateRequest => Held(x, k) = << >>
    BY <1>1, <2>3, <2>4, <2>5 DEF UpdateRequest
  <2> QED
    BY <2>6, <2>7 DEF x, given, linked, o, att
<1> QED
  BY <1>4, <1>5

\* What an update sends of a field: nothing of one it removes.
KeptField(x, k) ==
  IF k \in {"displayName", "photoURL", "phoneNumber"} /\ Held(x, k) = <<"null">> THEN << >> ELSE Held(x, k)

\* A field is null exactly if it holds "null".
LEMMA NullHeld ==
  ASSUME NEW x, NEW k
  PROVE  IsNull(x, k) <=> Held(x, k) = <<"null">>
BY DEF IsNull, Held, Given

\* The fields of the request of an update.
LEMMA UpdateSends ==
  ASSUME NEW q, \A k : k \notin UpdateRequest => Held(q.attrs, k) = << >>, NEW u
  PROVE  LET sent == StoredAttrs(KnownPart(updateExistingAccount(u, q)).attrs)
         IN /\ Held(sent, "localId") = <<u>>
            /\ \A k \in {"email", "emailVerified", "displayName", "phoneNumber", "disabled"} :
                 Held(sent, k) = KeptField(q.attrs, k)
            /\ Held(sent, "photoUrl") = KeptField(q.attrs, "photoURL")
            /\ Held(sent, "passwordHash") \in {<< >>, <<"REDACTED">>}
            /\ \A k \in {"salt", "customAttributes", "validSince", "tenantId", "createdAt", "lastLoginAt"} :
                 Held(sent, k) = << >>
<1> DEFINE x == q.attrs
           removed == {k \in DOMAIN DeletableParams : IsNull(x, k)}
           dropped == removed \cup {k \in {"phoneNumber"} : IsNull(x, k)}
           kept == Without(x, dropped)
           y == Rename(kept, "photoURL", "photoUrl")
           z == Rename(y, "disabled", "disableUser")
           w == Field("localId", u) ++ z
           b == Only(w, ValidKeys)
           r == KnownPart(updateExistingAccount(u, q))
<1>1. r.attrs = b
  BY DEF KnownPart, updateExistingAccount, EmptyRequest
<1>2. \A k : k \in dropped <=> k \in {"displayName", "photoURL", "phoneNumber"} /\ Held(x, k) = <<"null">>
  BY NullHeld DEF DeletableParams
<1> HIDE DEF dropped, x
<1>3. \A k : Held(kept, k) = KeptField(x, k)
  BY <1>2, HeldParts DEF KeptField
<1> HIDE DEF kept
<1>4. \A k : Held(y, k) =
         IF k = "photoUrl" THEN (IF Held(kept, "photoURL") = << >> THEN Held(kept, "photoUrl") ELSE Held(kept, "photoURL"))
                          ELSE IF k = "photoURL" THEN << >> ELSE Held(kept, k)
  BY HeldRenamed
<1> HIDE DEF y
<1>5. \A k : Held(z, k) =
         IF k = "disableUser" THEN (IF Held(y, "disabled") = << >> THEN Held(y, "disableUser") ELSE Held(y, "disabled"))
                          ELSE IF k = "disabled" THEN << >> ELSE Held(y, k)
  BY HeldRenamed
<1> HIDE DEF z
<1>6. \A k : Held(w, k) = IF k = "localId" THEN <<u>> ELSE Held(z, k)
  <2>1. \A k : Held(Field("localId", u), k) = IF k = "localId" THEN <<u>> ELSE << >>
    BY HeldField
  <2> QED
    BY <2>1, HeldOver
<1> HIDE DEF w
<1>7. \A k : Held(b, k) = IF k \in ValidKeys THEN Held(w, k) ELSE << >>
  BY HeldParts
<1> HIDE DEF b
<1>8. \A k : k \notin UpdateRequest => KeptField(x, k) = << >>
  BY DEF KeptField, x
<1>9. /\ Held(b, "localId") = <<u>>
      /\ \A k \in {"email", "emailVerified", "displayName", "phoneNumber"} : Held(b, k) = KeptField(x, k)
      /\ Held(b, "disableUser") = KeptField(x, "disabled") /\ Held(b, "disabled") = << >>
      /\ Held(b, "photoUrl") = KeptField(x, "photoURL")
      /\ \A k \in {"passwordHash", "salt", "customAttributes", "validSince", "tenantId", "createdAt", "lastLoginAt"} :
           Held(b, k) = << >>
  BY <1>3, <1>4, <1>5, <1>6, <1>7, <1>8 DEF UpdateRequest, ValidKeys
<1>10. \A k : Held(StoredAttrs(b), k) =
           IF k = "passwordHash"
           THEN IF Held(b, "password") = << >> /\ Held(b, "passwordHash") = << >> THEN << >> ELSE <<"REDACTED">>
           ELSE IF k \in {"password", "salt", "disableUser"} THEN << >>
           ELSE IF k = "disabled" /\ Held(b, "disableUser") # << >> THEN Held(b, "disableUser")
           ELSE Held(b, k)
  BY HeldByServer, Zenon
<1> DEFINE sent == StoredAttrs(b)
<1> HIDE DEF sent
<1>11. /\ Held(sent, "localId") = <<u>>
       /\ \A k \in {"email", "emailVerified", "displayName", "phoneNumber", "disabled"} : Held(sent, k) = KeptField(x, k)
       /\ Held(sent, "photoUrl") = KeptField(x, "photoURL")
       /\ Held(sent, "passwordHash") \in {<< >>, <<"REDACTED">>}
       /\ \A k \in {"salt", "customAttributes", "validSince", "tenantId", "createdAt", "lastLoginAt"} :
            Held(sent, k) = << >>
  BY <1>9, <1>10 DEF sent
<1> QED
  BY <1>1, <1>11 DEF sent, x

\* The fields that are gone, on both sides.
LEMMA GoneFields ==
  ASSUME NEW p, NEW q, q.unlink = p.unlink, NEW u, NEW k
  PROVE  LET r == KnownPart(updateExistingAccount(u, q))
             gone == {ServerName[d] : d \in r.deleteAttribute}
                     \cup (IF "phone" \in r.deleteProvider THEN {"phoneNumber"} ELSE {})
         IN k \in gone <=> \/ k = "displayName" /\ Held(q.attrs, "displayName") = <<"null">>
                           \/ k = "photoUrl" /\ Held(q.attrs, "photoURL") = <<"null">>
                           \/ k = "phoneNumber" /\ (Held(q.attrs, "phoneNumber") = <<"null">> \/ "phone" \in ToSet(p.unlink))
<1> DEFINE r == KnownPart(updateExistingAccount(u, q))
           x == q.attrs
           removed == {n \in DOMAIN DeletableParams : IsNull(x, n)}
<1>1. r.deleteAttribute = {DeletableParams[n] : n \in removed} /\ r.deleteProvider = UnlinkedProviders(q)
  BY DEF KnownPart, updateExistingAccount, EmptyRequest
<1>2. "phone" \in UnlinkedProviders(q) <=> Held(x, "phoneNumber") = <<"null">> \/ "phone" \in ToSet(p.unlink)
  <2>1. IsNull(x, "phoneNumber") <=> Held(x, "phoneNumber") = <<"null">>
    BY NullHeld
  <2> QED
    BY <2>1 DEF UnlinkedProviders, DroppedPhone
<1>3. \A n : n \in removed <=> n \in {"displayName", "photoURL"} /\ Held(x, n) = <<"null">>
  BY NullHeld DEF DeletableParams
<1> HIDE DEF removed, x
<1>4. {ServerName[d] : d \in {DeletableParams[n] : n \in removed}} = {ServerName[DeletableParams[n]] : n \in removed}
  OBVIOUS
<1>5. ServerName[DeletableParams["displayName"]] = "displayName" /\ ServerName[DeletableParams["photoURL"]] = "photoUrl"
  BY DEF ServerName, DeletableParams
<1>6. \A m : m \in {ServerName[DeletableParams[n]] : n \in removed} <=>
               \/ m = "displayName" /\ "displayName" \in removed
               \/ m = "photoUrl" /\ "photoURL" \in removed
  <2>1. removed \subseteq {"displayName", "photoURL"}
    BY <1>3
  <2> QED
    BY <1>5, <2>1
<1> HIDE DEF r
<1> QED
  BY <1>1, <1>2, <1>3, <1>4, <1>6 DEF r, x

\* Of the fields an update names only three may be null.
NullsAllowed(x) == \A k \in {"email", "emailVerified", "disabled"} : Held(x, k) # <<"null">>

\* Fields not named stay, those named are as asked, and null removes them.
LEMMA UpdatedAttrs ==
  ASSUME NEW p, DOMAIN p.attrs \subseteq UpdateRequest, NEW u, NEW account, IsAccountOf(u, account),
         NullsAllowed(RedirectLink(p).attrs)
  PROVE  UserRecord(SetAccount(account, KnownPart(updateExistingAccount(u, RedirectLink(p))))).attrs
           = Store!Changed(UserRecord(account), p).attrs
<1> DEFINE q == RedirectLink(p)
           x == q.attrs
           r == KnownPart(updateExistingAccount(u, q))
           old == account.attrs
           sent == StoredAttrs(r.attrs)
           gone == {ServerName[d] : d \in r.deleteAttribute}
                   \cup (IF "phone" \in r.deleteProvider THEN {"phoneNumber"} ELSE {})
           both == sent ++ old
           a == SetAccount(account, r)
           F == UserRecord(a).attrs
           oldShown == UserRecord(account).attrs
           given == Store!LinkedAttrs(p) ++ Only(p.attrs, Store!Visible)
           nulls == {k \in DOMAIN given : given[k] = "null"}
           lost == nulls \cup (IF "phone" \in ToSet(p.unlink) \cup (IF "phoneNumber" \in nulls THEN {"phone"} ELSE {})
                               THEN {"phoneNumber"} ELSE {})
           after == given ++ oldShown
           G == Store!Changed(UserRecord(account), p).attrs
<1>1. /\ \A k : Held(given, k) = IF k \in Store!Visible THEN Held(x, k) ELSE << >>
      /\ \A k : k \notin UpdateRequest => Held(x, k) = << >>
  BY RedirectedFields
<1>2. q.unlink = p.unlink
  BY DEF RedirectLink
<1>3. a.attrs = Without(both, gone)
  BY Zenon DEF SetAccount
<1>4. G = Without(after, lost)
  <2> DEFINE sg == Store!++(Store!LinkedAttrs(p), Store!Only(p.attrs, Store!Visible))
             sn == {k \in DOMAIN sg : sg[k] = "null"}
             sl == sn \cup (IF "phone" \in Store!ToSet(p.unlink) \cup (IF "phoneNumber" \in sn THEN {"phone"} ELSE {})
                            THEN {"phoneNumber"} ELSE {})
  <2>1. G = Store!Without(Store!++(sg, oldShown), sl)
    BY Zenon DEF Store!Changed
  <2>2. sg = given
    BY StoreObjects
  <2>3. sl = lost
    <3>1. Store!ToSet(p.unlink) = ToSet(p.unlink)
      BY DEF Store!ToSet, ToSet
    <3> HIDE DEF sg, given
    <3> QED
      BY <2>2, <3>1
  <2> HIDE DEF sl, lost, sg, given, oldShown, G
  <2> QED
    BY <2>1, <2>2, <2>3, StoreObjects
<1>5. /\ Held(sent, "localId") = <<u>>
      /\ \A k \in {"email", "emailVerified", "displayName", "phoneNumber", "disabled"} :
           Held(sent, k) = KeptField(x, k)
      /\ Held(sent, "photoUrl") = KeptField(x, "photoURL")
      /\ Held(sent, "passwordHash") \in {<< >>, <<"REDACTED">>}
      /\ \A k \in {"salt", "customAttributes", "validSince", "tenantId", "createdAt", "lastLoginAt"} :
           Held(sent, k) = << >>
  <2> HIDE DEF q
  <2> QED
    BY <1>1, UpdateSends
<1>6. \A k : k \in gone <=> \/ k = "displayName" /\ Held(x, "displayName") = <<"null">>
                            \/ k = "photoUrl" /\ Held(x, "photoURL") = <<"null">>
                            \/ k = "phoneNumber" /\ (Held(x, "phoneNumber") = <<"null">> \/ "phone" \in ToSet(p.unlink))
  <2> HIDE DEF q
  <2> QED
    BY <1>2, GoneFields
<1>7. \A k : k \in lost <=> \/ k \in Store!Visible /\ Held(x, k) = <<"null">>
                            \/ k = "phoneNumber" /\ "phone" \in ToSet(p.unlink)
  <2>1. \A k : k \in nulls <=> Held(given, k) = <<"null">>
    <3> HIDE DEF given
    <3> QED
      BY DEF Held, Given
  <2> HIDE DEF nulls, given, q
  <2>2. \A k : k \in nulls <=> k \in Store!Visible /\ Held(x, k) = <<"null">>
    BY <1>1, <2>1
  <2> QED
    BY <2>2 DEF Store!Visible
<1>8. NullsAllowed(x)
  OBVIOUS
<1>9. /\ Held(old, "localId") = <<u>> /\ Held(old, "passwordHash") \in {<< >>, <<"REDACTED">>}
  BY DEF IsAccountOf, Has, Held, Given
<1> HIDE DEF x, given, sent, old, gone, lost, q
<1>10. \A k : Held(both, k) = IF Held(sent, k) = << >> THEN Held(old, k) ELSE Held(sent, k)
  BY HeldOver
<1> HIDE DEF both, a, r
<1>11. \A k : Held(a.attrs, k) = IF k \in gone THEN << >> ELSE Held(both, k)
  BY <1>3, HeldParts
<1>12. \A n : Held(F, n) = Displayed(a.attrs, n)
  BY HeldByRecord
<1>13. \A n : Held(oldShown, n) = Displayed(old, n)
  BY HeldByRecord DEF old
<1> HIDE DEF oldShown
<1>14. \A n : Held(after, n) = IF Held(given, n) = << >> THEN Held(oldShown, n) ELSE Held(given, n)
  BY HeldOver
<1> HIDE DEF after, G
<1>15. \A n : Held(G, n) = IF n \in lost THEN << >> ELSE Held(after, n)
  BY <1>4, HeldParts
<1>16. IsObject(F) /\ IsObject(G)
  BY <1>4, HeldByRecord, HeldParts
<1> HIDE DEF F
<1>17. \A n : n \in Store!Visible <=> n \in {"email", "emailVerified", "displayName", "photoURL", "phoneNumber", "disabled"}
  BY DEF Store!Visible
<1>18. Held(F, "uid") = Held(G, "uid")
  <2>1. Held(F, "uid") = Held(a.attrs, "localId") /\ Held(oldShown, "uid") = Held(old, "localId")
    BY <1>12, <1>13 DEF Displayed, PlainNames, ServerNames
  <2>2. Held(a.attrs, "localId") = <<u>>
    BY <1>5, <1>6, <1>10, <1>11
  <2>3. Held(G, "uid") = <<u>>
    BY <1>1, <1>7, <1>9, <1>14, <1>15, <1>17, <2>1
  <2> QED
    BY <2>1, <2>2, <2>3
<1>19. ASSUME NEW n \in {"email", "displayName", "photoURL", "phoneNumber"}
       PROVE  Held(F, n) = Held(G, n)
  <2> DEFINE k == ServerNames[n]
  <2>1. Held(F, n) = Held(a.attrs, k) /\ Held(oldShown, n) = Held(old, k)
    <3>1. n \in PlainNames
      BY DEF PlainNames
    <3> HIDE DEF PlainNames
    <3> QED
      BY <1>12, <1>13, <3>1 DEF Displayed
  <2>2. Held(given, n) = Held(x, n)
    BY <1>1, <1>17
  <2>3. /\ n = "photoURL" => k = "photoUrl"
        /\ n # "photoURL" => k = n
    BY DEF ServerNames
  <2> HIDE DEF k
  <2>4. Held(sent, k) = KeptField(x, n)
    BY <1>5, <2>3
  <2>5. k \in gone <=> n \in lost
    BY <1>6, <1>7, <1>8, <1>17, <2>3 DEF NullsAllowed
  <2>6. Held(x, n) = <<"null">> => n \in lost
    BY <1>7, <1>17
  <2> QED
    BY <1>10, <1>11, <1>14, <1>15, <2>1, <2>2, <2>4, <2>5, <2>6 DEF KeptField
<1>20. ASSUME NEW n \in {"emailVerified", "disabled"}
       PROVE  Held(F, n) = Held(G, n)
  <2>1. /\ Held(F, n) = IF Held(a.attrs, n) = << >> THEN <<"false">> ELSE Held(a.attrs, n)
        /\ Held(oldShown, n) = IF Held(old, n) = << >> THEN <<"false">> ELSE Held(old, n)
    BY <1>12, <1>13 DEF Displayed, PlainNames
  <2>2. Held(given, n) = Held(x, n) /\ n \notin gone /\ n \notin lost
    BY <1>1, <1>6, <1>7, <1>8, <1>17 DEF NullsAllowed
  <2>3. Held(sent, n) = Held(x, n)
    BY <1>5 DEF KeptField
  <2> QED
    BY <1>10, <1>11, <1>14, <1>15, <2>1, <2>2, <2>3
<1>21. ASSUME NEW n, n \notin {"uid", "email", "displayName", "photoURL", "phoneNumber", "emailVerified", "disabled"}
       PROVE  Held(F, n) = Held(G, n)
  <2>1. Held(G, n) = Displayed(old, n)
    BY <1>1, <1>7, <1>13, <1>14, <1>15, <1>17, <1>21
  <2>2. \A k \in {"salt", "customAttributes", "validSince", "tenantId", "createdAt", "lastLoginAt"} :
          Held(a.attrs, k) = Held(old, k)
    BY <1>5, <1>6, <1>10, <1>11
  <2>3. Held(a.attrs, "passwordHash") \in {<< >>, <<"REDACTED">>}
    BY <1>5, <1>6, <1>9, <1>10, <1>11
  <2>4. Displayed(a.attrs, n) = Displayed(old, n)
    <3>1. CASE n \in {"passwordSalt", "tokensValidAfterTime", "tenantId"}
      BY <2>2, <3>1 DEF Displayed, PlainNames, ServerNames
    <3>2. CASE n = "passwordHash"
      BY <1>9, <2>3, <3>2 DEF Displayed, PlainNames
    <3>3. CASE n = "customClaims"
      BY <2>2, <3>3 DEF Displayed, PlainNames
    <3>4. CASE n \in {"creationTime", "lastSignInTime"}
      BY <2>2, <3>4 DEF Displayed, PlainNames, ServerNames
    <3>5. CASE n \notin {"passwordSalt", "tokensValidAfterTime", "tenantId", "passwordHash", "customClaims",
                         "creationTime", "lastSignInTime"}
      BY <1>21, <3>5 DEF Displayed, PlainNames
    <3> QED
      BY <3>1, <3>2, <3>3, <3>4, <3>5
  <2> QED
    BY <1>12, <2>1, <2>4
<1>22. \A n : Held(F, n) = Held(G, n)
  BY <1>18, <1>19, <1>20, <1>21
<1> QED
  BY <1>16, <1>22, SameObject DEF F, G, a, r, q

\* The fields that make an account that of its user.
LEMMA AccountIsOf ==
  ASSUME NEW u, NEW a, Held(a.attrs, "localId") = <<u>>, Held(a.attrs, "passwordHash") \in {<< >>, <<"REDACTED">>},
         \A p \in a.providers : Given(p, "providerId")
  PROVE  IsAccountOf(u, a)
BY DEF IsAccountOf, Has, Held, Given

\* The same, of what the account holds.
LEMMA AccountIsOfHeld ==
  ASSUME NEW u, NEW account, IsAccountOf(u, account)
  PROVE  /\ Held(account.attrs, "localId") = <<u>>
         /\ Held(account.attrs, "passwordHash") \in {<< >>, <<"REDACTED">>}
         /\ \A p \in account.providers : Given(p, "providerId")
BY DEF IsAccountOf, Has, Held, Given

\* A request that names nothing but the user and one field of it.
OneField(u, k, v) == [EmptyRequest EXCEPT !.attrs = Field("localId", u) ++ Field(k, v)]

IsOneFieldSet(a, account, u, k, v) ==
  /\ a.providers = account.providers /\ a.mfaInfo = account.mfaInfo
  /\ \A m : Held(a.attrs, m) = IF m = k THEN <<v>> ELSE Held(account.attrs, m)
  /\ IsAccountOf(u, a)

\* The account the server makes of such a request.
LEMMA OneFieldSet ==
  ASSUME NEW u, NEW k \in {"customAttributes", "validSince"}, NEW v, NEW account, IsAccountOf(u, account)
  PROVE  IsOneFieldSet(SetAccount(account, OneField(u, k, v)), account, u, k, v)
<1> DEFINE r == OneField(u, k, v)
           old == account.attrs
           f == Field("localId", u)
           g == Field(k, v)
           b == f ++ g
           sent == StoredAttrs(b)
           both == sent ++ old
           a == SetAccount(account, r)
<1>1. /\ r.attrs = b /\ r.deleteAttribute = {} /\ r.deleteProvider = {} /\ r.link = << >> /\ r.mfa = "keep"
  BY DEF OneField, EmptyRequest
<1> HIDE DEF r
<1>2. /\ a.attrs = Without(both, {ServerName[d] : d \in r.deleteAttribute}
                                 \cup (IF "phone" \in r.deleteProvider THEN {"phoneNumber"} ELSE {}))
      /\ a.providers =
               {p \in account.providers : p.providerId \notin r.deleteProvider \cup {l.providerId : l \in ToSet(r.link)}}
                       \cup ToSet(r.link)
      /\ a.mfaInfo = IF r.mfa = "keep" THEN account.mfaInfo ELSE Each(Assigned, r.factors)
  <2> HIDE DEF b
  <2> QED
    BY <1>1 DEF SetAccount
<1> HIDE DEF a
<1>3. a.providers = account.providers /\ a.mfaInfo = account.mfaInfo
  BY <1>1, <1>2 DEF ToSet
<1>4. a.attrs = Without(both, {})
  <2> HIDE DEF both
  <2> QED
    BY <1>1, <1>2
<1>5. \A m : Held(f, m) = IF m = "localId" THEN <<u>> ELSE << >>
  BY HeldField
<1>6. \A m : Held(g, m) = IF m = k THEN <<v>> ELSE << >>
  BY HeldField
<1> HIDE DEF f, g
<1>7. \A m : Held(b, m) = IF Held(f, m) = << >> THEN Held(g, m) ELSE Held(f, m)
  BY HeldOver
<1> HIDE DEF b
<1>8. \A m : Held(b, m) = IF m = "localId" THEN <<u>> ELSE IF m = k THEN <<v>> ELSE << >>
  BY <1>5, <1>6, <1>7
<1>9. \A m : Held(sent, m) = IF m = "localId" THEN <<u>> ELSE IF m = k THEN <<v>> ELSE << >>
  <2>1. \A m : Held(sent, m) =
           IF m = "passwordHash"
           THEN IF Held(b, "password") = << >> /\ Held(b, "passwordHash") = << >> THEN << >> ELSE <<"REDACTED">>
           ELSE IF m \in {"password", "salt", "disableUser"} THEN << >>
           ELSE IF m = "disabled" /\ Held(b, "disableUser") # << >> THEN Held(b, "disableUser")
           ELSE Held(b, m)
    BY HeldByServer, Zenon
  <2> HIDE DEF sent
  <2> QED
    BY <1>8, <2>1
<1> HIDE DEF sent, old
<1>10. \A m : Held(both, m) = IF Held(sent, m) = << >> THEN Held(old, m) ELSE Held(sent, m)
  BY HeldOver
<1> HIDE DEF both
<1>11. \A m : Held(a.attrs, m) = Held(both, m)
  BY <1>4, HeldParts
<1>12. Held(old, "localId") = <<u>>
  BY DEF IsAccountOf, Has, Held, Given, old
<1>13. \A m : Held(a.attrs, m) = IF m = k THEN <<v>> ELSE Held(old, m)
  BY <1>9, <1>10, <1>11, <1>12
<1>14. /\ Held(a.attrs, "localId") = <<u>> /\ Held(a.attrs, "passwordHash") \in {<< >>, <<"REDACTED">>}
       /\ \A p \in a.providers : Given(p, "providerId")
  BY <1>3, <1>13, AccountIsOfHeld DEF old
<1>15. IsAccountOf(u, a)
  BY <1>14, AccountIsOf
<1> QED
  BY <1>3, <1>13, <1>15 DEF IsOneFieldSet, a, old, r

\* The records before and after a change of one field.
LEMMA OneFieldShown ==
  ASSUME NEW account, NEW a, a.providers = account.providers, a.mfaInfo = account.mfaInfo,
         NEW n, NEW v, \A m : Displayed(a.attrs, m) = IF m = n THEN <<v>> ELSE Displayed(account.attrs, m)
  PROVE  UserRecord(a) = [UserRecord(account) EXCEPT !.attrs = Store!++(Store!Field(n, v), @)]
<1> DEFINE F == UserRecord(a).attrs
           old == UserRecord(account).attrs
           f == Field(n, v)
           G == f ++ old
<1>1. Store!++(Store!Field(n, v), old) = G
  BY StoreObjects
<1>2. (\A m : Held(F, m) = Displayed(a.attrs, m)) /\ IsObject(F)
  BY HeldByRecord
<1>3. \A m : Held(old, m) = Displayed(account.attrs, m)
  BY HeldByRecord
<1>4. \A m : Held(f, m) = IF m = n THEN <<v>> ELSE << >>
  BY HeldField
<1> HIDE DEF f, old
<1>5. (\A m : Held(G, m) = IF Held(f, m) = << >> THEN Held(old, m) ELSE Held(f, m)) /\ IsObject(G)
  BY HeldOver
<1> HIDE DEF F, G
<1>6. F = G
  <2>1. \A m : Held(F, m) = Held(G, m)
    BY <1>2, <1>3, <1>4, <1>5, SMTT(30)
  <2> QED
    BY <1>2, <1>5, <2>1, SameObject
<1>7. /\ UserRecord(a) = [attrs |-> F, providerData |-> {UserInfo(p) : p \in a.providers},
                          multiFactor |-> MultiFactorSettings(a.mfaInfo)]
      /\ UserRecord(account) = [attrs |-> old, providerData |-> {UserInfo(p) : p \in account.providers},
                                multiFactor |-> MultiFactorSettings(account.mfaInfo)]
  BY Zenon DEF UserRecord, F, old
<1>8. UserRecord(a) = [UserRecord(account) EXCEPT !.attrs = G]
  BY <1>6, <1>7
<1> QED
  BY <1>1, <1>8 DEF old

\* Claims set are shown, and nothing else changes.
LEMMA ClaimsShown ==
  ASSUME NEW u, NEW account, IsAccountOf(u, account), NEW c \in {"null", "admin"}
  PROVE  /\ UserRecord(SetAccount(account, setCustomUserClaims(u, c)))
              = [UserRecord(account) EXCEPT
                  !.attrs = Store!++(Store!Field("customClaims", IF c = "null" THEN "none" ELSE c), @)]
         /\ IsAccountOf(u, SetAccount(account, setCustomUserClaims(u, c)))
<1> DEFINE v == IF c = "null" THEN "none" ELSE c
           json == JsonOf[c]
           a == SetAccount(account, OneField(u, "customAttributes", json))
<1>1. ClaimsOf[json] = v
  <2>1. JsonOf["null"] = "{}" /\ JsonOf["admin"] = "{admin}"
    BY DEF JsonOf
  <2> HIDE DEF JsonOf, ClaimsOf
  <2>2. json = IF c = "null" THEN "{}" ELSE "{admin}"
    BY <2>1
  <2> HIDE DEF json
  <2> QED
    BY <2>2, ConvertedAndBack
<1>2. setCustomUserClaims(u, c) = OneField(u, "customAttributes", json)
  BY DEF setCustomUserClaims, OneField
<1> HIDE DEF json
<1>3. /\ a.providers = account.providers /\ a.mfaInfo = account.mfaInfo
      /\ \A m : Held(a.attrs, m) = IF m = "customAttributes" THEN <<json>> ELSE Held(account.attrs, m)
      /\ IsAccountOf(u, a)
  <2>1. IsOneFieldSet(a, account, u, "customAttributes", json)
    BY OneFieldSet
  <2> HIDE DEF a
  <2> QED
    BY <2>1 DEF IsOneFieldSet
<1> HIDE DEF a, v
<1>4. ASSUME NEW m
      PROVE  Displayed(a.attrs, m) = IF m = "customClaims" THEN <<v>> ELSE Displayed(account.attrs, m)
  <2>1. CASE m = "customClaims"
    <3>1. Displayed(a.attrs, m) = DisplayedClaims(<<json>>)
      BY <1>3, <2>1 DEF Displayed, PlainNames
    <3> QED
      BY <1>1, <2>1, <3>1 DEF DisplayedClaims
  <2>2. CASE m # "customClaims"
    <3>1. \A k : k # "customAttributes" => Held(a.attrs, k) = Held(account.attrs, k)
      BY <1>3
    <3> QED
      BY <2>2, <3>1 DEF Displayed, PlainNames, ServerNames
  <2> QED
    BY <2>1, <2>2
<1>5. UserRecord(a) = [UserRecord(account) EXCEPT !.attrs = Store!++(Store!Field("customClaims", v), @)]
  BY <1>3, <1>4, OneFieldShown
<1> QED
  BY <1>2, <1>3, <1>5 DEF a, v

\* So is the time of a revocation.
LEMMA RevocationShown ==
  ASSUME NEW u, NEW account, IsAccountOf(u, account)
  PROVE  /\ UserRecord(SetAccount(account, revokeRefreshTokens(u)))
              = [UserRecord(account) EXCEPT !.attrs = Store!++(Store!Field("tokensValidAfterTime", "now"), @)]
         /\ IsAccountOf(u, SetAccount(account, revokeRefreshTokens(u)))
<1> DEFINE a == SetAccount(account, OneField(u, "validSince", "now"))
<1>2. /\ a.providers = account.providers /\ a.mfaInfo = account.mfaInfo
      /\ \A m : Held(a.attrs, m) = IF m = "validSince" THEN <<"now">> ELSE Held(account.attrs, m)
      /\ IsAccountOf(u, a)
  <2>1. IsOneFieldSet(a, account, u, "validSince", "now")
    BY OneFieldSet
  <2> HIDE DEF a
  <2> QED
    BY <2>1 DEF IsOneFieldSet
<1>1. revokeRefreshTokens(u) = OneField(u, "validSince", "now")
  BY DEF revokeRefreshTokens, OneField
<1> HIDE DEF a
<1>3. ASSUME NEW m
      PROVE  Displayed(a.attrs, m) = IF m = "tokensValidAfterTime" THEN <<"now">> ELSE Displayed(account.attrs, m)
  <2>1. CASE m = "tokensValidAfterTime"
    BY <1>2, <2>1 DEF Displayed, PlainNames, ServerNames
  <2>2. CASE m # "tokensValidAfterTime"
    <3>1. \A k : k # "validSince" => Held(a.attrs, k) = Held(account.attrs, k)
      BY <1>2
    <3> QED
      BY <2>2, <3>1 DEF Displayed, PlainNames, ServerNames
  <2> QED
    BY <2>1, <2>2
<1> QED
  BY <1>1, <1>2, <1>3, OneFieldShown DEF a

-----------------------------------------------------------------------------
(* What passed the validations. *)

\* The checks of an edit that are cited below.
LEMMA EditChecksAre ==
  /\ Len(EditChecks) = 18 /\ \A i \in 1..18 : EditChecks[i].code # "ok"
  /\ EditChecks[3].key = "localId" /\ EditChecks[3].accepts = Uid
  /\ EditChecks[4].key = "email" /\ EditChecks[4].accepts = Email
  /\ EditChecks[8].key = "emailVerified" /\ EditChecks[8].accepts = Bool
  /\ EditChecks[14].key = "disableUser" /\ EditChecks[14].accepts = Bool
  /\ EditChecks[16].key = "customAttributes" /\ EditChecks[16].accepts = {"{}", "{admin}"}
<1>1. Len(EditChecks) = 18
  BY DEF EditChecks
<1>2. \A i \in 1..18 : EditChecks[i].code # "ok"
  <2> DEFINE Refuses(i) == EditChecks[i].code # "ok"
  <2>1. Refuses(1) /\ Refuses(2) /\ Refuses(3) /\ Refuses(4) /\ Refuses(5) /\ Refuses(6)
    BY DEF EditChecks, Check
  <2>2. Refuses(7) /\ Refuses(8) /\ Refuses(9) /\ Refuses(10) /\ Refuses(11) /\ Refuses(12)
    BY DEF EditChecks, Check
  <2>3. Refuses(13) /\ Refuses(14) /\ Refuses(15) /\ Refuses(16) /\ Refuses(17) /\ Refuses(18)
    BY DEF EditChecks, Check
  <2> HIDE DEF Refuses
  <2>4. \A i \in 1..18 : Refuses(i)
    BY <2>1, <2>2, <2>3
  <2> QED
    BY <2>4 DEF Refuses
<1>3. EditChecks[3].key = "localId" /\ EditChecks[3].accepts = Uid
  BY DEF EditChecks, Check
<1>4. EditChecks[4].key = "email" /\ EditChecks[4].accepts = Email
  BY DEF EditChecks, Check
<1>5. EditChecks[8].key = "emailVerified" /\ EditChecks[8].accepts = Bool
  BY DEF EditChecks, Check
<1>6. EditChecks[14].key = "disableUser" /\ EditChecks[14].accepts = Bool
  BY DEF EditChecks, Check
<1>7. EditChecks[16].key = "customAttributes" /\ EditChecks[16].accepts = {"{}", "{admin}"}
  BY DEF EditChecks, Check
<1> QED
  BY <1>1, <1>2, <1>3, <1>4, <1>5, <1>6, <1>7

\* What an edit accepted may hold.
LEMMA EditAccepted ==
  ASSUME NEW o, Verdict(EditChecks, o) = "ok"
  PROVE  /\ Given(o, "localId") => o["localId"] \in Uid
         /\ Given(o, "email") => o["email"] \in Email
         /\ Given(o, "emailVerified") => o["emailVerified"] \in Bool
         /\ Given(o, "disableUser") => o["disableUser"] \in Bool
         /\ Given(o, "customAttributes") => o["customAttributes"] \in {"{}", "{admin}"}
<1> DEFINE checks == EditChecks
<1>1. /\ Len(checks) = 18 /\ \A i \in 1..18 : checks[i].code # "ok"
      /\ checks[3].key = "localId" /\ checks[3].accepts = Uid
      /\ checks[4].key = "email" /\ checks[4].accepts = Email
      /\ checks[8].key = "emailVerified" /\ checks[8].accepts = Bool
      /\ checks[14].key = "disableUser" /\ checks[14].accepts = Bool
      /\ checks[16].key = "customAttributes" /\ checks[16].accepts = {"{}", "{admin}"}
      /\ Verdict(checks, o) = "ok"
  BY EditChecksAre
<1> HIDE DEF checks
<1>2. \A i \in 1..18 : Given(o, checks[i].key) => o[checks[i].key] \in checks[i].accepts
  <2> TAKE i \in 1..18
  <2>1. Len(checks) = 18 /\ \A j \in 1..18 : checks[j].code # "ok"
    BY <1>1
  <2>2. i \in 1..Len(checks) /\ Len(checks) \in Nat /\ \A j \in 1..Len(checks) : checks[j].code # "ok"
    BY <2>1
  <2> QED
    BY <1>1, <2>2, ChecksHold
<1>3. {3, 4, 8, 14, 16} \subseteq 1..18
  OBVIOUS
<1>4. \A i \in {3, 4, 8, 14, 16} : Given(o, checks[i].key) => o[checks[i].key] \in checks[i].accepts
  BY <1>2, <1>3
<1> QED
  BY <1>1, <1>4

\* A required key is given, since no accepted value stands for a missing one.
LEMMA RequiredGiven ==
  ASSUME NEW o, NEW K, NEW k \in K, NEW S, "undefined" \notin S
  PROVE  /\ Given(Requiring(o, K), k)
         /\ Requiring(o, K)[k] \in S => Given(o, k) /\ o[k] \in S
<1> DEFINE p == [n \in K |-> "undefined"]
<1>1. o ++ p = [n \in DOMAIN o \cup DOMAIN p |-> IF n \in DOMAIN o THEN o[n] ELSE p[n]]
  BY OverIs
<1>2. Requiring(o, K) = [n \in DOMAIN o \cup K |-> IF n \in DOMAIN o THEN o[n] ELSE "undefined"]
  BY <1>1 DEF Requiring
<1> QED
  BY <1>2 DEF Given

\* A key that is given keeps its value where required keys are filled in.
LEMMA GivenStays ==
  ASSUME NEW o, NEW K, NEW k, Given(o, k)
  PROVE  Given(Requiring(o, K), k) /\ Requiring(o, K)[k] = o[k]
<1> DEFINE p == [n \in K |-> "undefined"]
<1>1. o ++ p = [n \in DOMAIN o \cup DOMAIN p |-> IF n \in DOMAIN o THEN o[n] ELSE p[n]]
  BY OverIs
<1>2. Requiring(o, K) = [n \in DOMAIN o \cup K |-> IF n \in DOMAIN o THEN o[n] ELSE "undefined"]
  BY <1>1 DEF Requiring
<1> QED
  BY <1>2 DEF Given

\* A provider accepted has an id.
LEMMA ProviderAccepted ==
  ASSUME NEW p, validateProviderUserInfo(p) = "ok"
  PROVE  Given(p, "providerId")
<1> DEFINE o == Requiring(p, {"providerId", "rawId"})
           checks == ProviderChecks
<1>1. /\ Len(checks) = 5 /\ \A i \in 1..5 : checks[i].code # "ok"
      /\ checks[1].key = "providerId" /\ checks[1].accepts = Text
  <2>1. Len(checks) = 5 /\ checks[1].code # "ok" /\ checks[2].code # "ok" /\ checks[3].code # "ok"
    BY DEF ProviderChecks, Check
  <2>2. checks[4].code # "ok" /\ checks[5].code # "ok" /\ checks[1].key = "providerId" /\ checks[1].accepts = Text
    BY DEF ProviderChecks, Check
  <2> HIDE DEF checks
  <2> QED
    BY <2>1, <2>2
<1>2. Verdict(checks, o) = "ok"
  BY DEF validateProviderUserInfo
<1>3. "undefined" \notin Text
  BY ValuesAreGiven DEF ValuesAreGiven
<1> HIDE DEF checks
<1>4. Given(o, checks[1].key) => o[checks[1].key] \in checks[1].accepts
  <2> HIDE DEF o
  <2> QED
    BY <1>1, <1>2, ChecksHold
<1>5. Given(o, "providerId") => o["providerId"] \in Text
  BY <1>1, <1>4
<1> QED
  BY <1>3, <1>5, RequiredGiven

\* A second factor that was accepted names a phone number.
LEMMA FactorInfoAccepted ==
  ASSUME NEW f, validateAuthFactorInfo(f) = "ok"
  PROVE  Given(f, "phoneInfo")
<1> DEFINE o == Requiring(f, {"phoneInfo"})
           checks == FactorChecks
<1>1. /\ Len(checks) = 5 /\ \A i \in 1..5 : checks[i].code # "ok"
      /\ checks[5].key = "phoneInfo" /\ checks[5].accepts = Phone
  <2>1. Len(checks) = 5 /\ checks[1].code # "ok" /\ checks[2].code # "ok" /\ checks[3].code # "ok"
    BY DEF FactorChecks, Check
  <2>2. checks[4].code # "ok" /\ checks[5].code # "ok" /\ checks[5].key = "phoneInfo" /\ checks[5].accepts = Phone
    BY DEF FactorChecks, Check
  <2> HIDE DEF checks
  <2> QED
    BY <2>1, <2>2
<1>2. Verdict(checks, o) = "ok"
  BY DEF validateAuthFactorInfo
<1>3. "undefined" \notin Phone
  BY ValuesAreGiven DEF ValuesAreGiven
<1> HIDE DEF checks
<1>4. Given(o, checks[5].key) => o[checks[5].key] \in checks[5].accepts
  <2> HIDE DEF o
  <2>1. 5 \in 1..Len(checks) /\ Len(checks) \in Nat /\ \A j \in 1..Len(checks) : checks[j].code # "ok"
    BY <1>1
  <2> QED
    BY <1>2, <2>1, ChecksHold
<1>5. Given(o, "phoneInfo") => o["phoneInfo"] \in Phone
  BY <1>1, <1>4
<1> QED
  BY <1>3, <1>5, RequiredGiven

\* It is one of a phone, and its date one that can be read.
LEMMA FactorAccepted ==
  ASSUME NEW f, FactorRefusal(f) = "ok"
  PROVE  Has(f, "factorId", "phone") /\ (Given(f, "enrollmentTime") => f["enrollmentTime"] \in Utc)
<1> DEFINE times == <<Check("enrollmentTime", Utc, "INVALID_ENROLLMENT_TIME")>>
           ids == <<Check("factorId", {"phone"}, "UNSUPPORTED_SECOND_FACTOR")>>
           o == Requiring(f, {"factorId"})
<1>1. /\ Len(times) = 1 /\ times[1].code # "ok" /\ times[1].key = "enrollmentTime" /\ times[1].accepts = Utc
      /\ Len(ids) = 1 /\ ids[1].code # "ok" /\ ids[1].key = "factorId" /\ ids[1].accepts = {"phone"}
  BY DEF Check
<1> HIDE DEF times, ids
<1>2. Verdict(times, f) = "ok" /\ Verdict(ids, o) = "ok"
  BY NeitherRefusal DEF FactorRefusal, times, ids
<1>3. Given(f, "enrollmentTime") => f["enrollmentTime"] \in Utc
  BY <1>1, <1>2, ChecksHold
<1>4. Given(o, "factorId") => o["factorId"] \in {"phone"}
  <2> HIDE DEF o
  <2>1. 1 \in 1..Len(ids) /\ Len(ids) \in Nat /\ \A j \in 1..Len(ids) : ids[j].code # "ok"
    BY <1>1
  <2>2. Given(o, ids[1].key) => o[ids[1].key] \in ids[1].accepts
    BY <1>2, <2>1, ChecksHold
  <2> QED
    BY <1>1, <2>2
<1>5. Given(f, "factorId") /\ f["factorId"] \in {"phone"}
  <2>1. "undefined" \notin {"phone"}
    OBVIOUS
  <2> QED
    BY <1>4, <2>1, RequiredGiven
<1> QED
  BY <1>3, <1>5 DEF Has

\* The first verdict and those of three lists.
LEMMA ListsAccepted ==
  ASSUME NEW v, NEW S1, NEW S2, NEW S3, NEW s1 \in Seq(S1), NEW s2 \in Seq(S2), NEW s3 \in Seq(S3),
         FirstRefusal(<<v>> \o s1 \o s2 \o s3) = "ok"
  PROVE  v = "ok" /\ AllOk(s1) /\ AllOk(s2) /\ AllOk(s3)
<1> DEFINE a == <<v>>
           b == a \o s1
           c == b \o s2
           d == c \o s3
<1>1. a \in Seq({v}) /\ Len(a) = 1 /\ a[1] = v
  OBVIOUS
<1> HIDE DEF a
<1>2. b \in Seq({v} \cup S1) /\ (AllOk(b) => AllOk(a) /\ AllOk(s1))
  BY <1>1, BothOk
<1> HIDE DEF b
<1>3. c \in Seq(({v} \cup S1) \cup S2) /\ (AllOk(c) => AllOk(b) /\ AllOk(s2))
  BY <1>2, BothOk
<1> HIDE DEF c
<1>4. d \in Seq((({v} \cup S1) \cup S2) \cup S3) /\ (AllOk(d) => AllOk(c) /\ AllOk(s3))
  BY <1>3, BothOk
<1>5. FirstRefusal(d) = "ok"
  BY DEF d, c, b, a
<1> HIDE DEF d
<1>6. Len(d) \in Nat
  BY <1>4
<1>7. AllOk(d)
  BY <1>5, <1>6, NoRefusal DEF AllOk
<1>8. AllOk(a) => v = "ok"
  BY <1>1 DEF AllOk
<1> QED
  BY <1>2, <1>3, <1>4, <1>7, <1>8

\* A request accepted passed each of its checks.
LEMMA RequestAccepted ==
  ASSUME NEW r, IsList(r.providers), IsList(r.link), IsList(r.factors), NEW upload \in BOOLEAN,
         validateCreateEditRequest(r, upload) = "ok"
  PROVE  /\ Verdict(EditChecks, IF upload THEN Requiring(r.attrs, {"localId"}) ELSE r.attrs) = "ok"
         /\ \A i \in DOMAIN r.providers : validateProviderUserInfo(r.providers[i]) = "ok"
         /\ \A i \in DOMAIN r.link : validateProviderUserInfo(r.link[i]) = "ok"
         /\ \A i \in DOMAIN r.factors : validateAuthFactorInfo(r.factors[i]) = "ok"
<1> DEFINE v == Verdict(EditChecks, IF upload THEN Requiring(r.attrs, {"localId"}) ELSE r.attrs)
           s1 == [i \in DOMAIN r.providers |-> validateProviderUserInfo(r.providers[i])]
           s2 == [i \in DOMAIN r.link |-> validateProviderUserInfo(r.link[i])]
           s3 == [i \in DOMAIN r.factors |-> validateAuthFactorInfo(r.factors[i])]
<1>1. FirstRefusal(<<v>> \o s1 \o s2 \o s3) = "ok"
  BY Zenon DEF validateCreateEditRequest, Each
<1>2. /\ s1 = [i \in DOMAIN r.providers |-> s1[i]] /\ s2 = [i \in DOMAIN r.link |-> s2[i]]
      /\ s3 = [i \in DOMAIN r.factors |-> s3[i]]
  OBVIOUS
<1>3. /\ \A i \in DOMAIN r.providers : s1[i] = validateProviderUserInfo(r.providers[i])
      /\ \A i \in DOMAIN r.link : s2[i] = validateProviderUserInfo(r.link[i])
      /\ \A i \in DOMAIN r.factors : s3[i] = validateAuthFactorInfo(r.factors[i])
  OBVIOUS
<1> HIDE DEF v, s1, s2, s3
<1>4. /\ (\E S : s1 \in Seq(S)) /\ 1..Len(s1) = DOMAIN r.providers
      /\ (\E S : s2 \in Seq(S)) /\ 1..Len(s2) = DOMAIN r.link
      /\ (\E S : s3 \in Seq(S)) /\ 1..Len(s3) = DOMAIN r.factors
  BY <1>2, SomeSequence
<1>5. PICK S1, S2, S3 : s1 \in Seq(S1) /\ s2 \in Seq(S2) /\ s3 \in Seq(S3)
  BY <1>4
<1>6. v = "ok" /\ AllOk(s1) /\ AllOk(s2) /\ AllOk(s3)
  BY <1>1, <1>5, ListsAccepted
<1> QED
  BY <1>3, <1>4, <1>6 DEF AllOk, v

\* A list of verdicts alone.
LEMMA ListAccepted ==
  ASSUME NEW s, IsList(s), NEW f, f = [i \in DOMAIN s |-> f[i]], FirstRefusal(f) = "ok"
  PROVE  \A i \in DOMAIN s : f[i] = "ok"
<1>1. Len(f) = Len(s) /\ Len(s) \in Nat /\ DOMAIN s = 1..Len(s)
  BY EachIsSequence DEF IsList
<1>2. \A i \in 1..Len(f) : f[i] = "ok"
  BY <1>1, NoRefusal
<1> QED
  BY <1>1, <1>2

\* A second factor that was accepted.
FactorOk(f) ==
  /\ DOMAIN f \subseteq UpdateMultiFactorInfoRequest
  /\ Has(f, "factorId", "phone") /\ Given(f, "phoneNumber")
  /\ Given(f, "enrollmentTime") => f["enrollmentTime"] \in Utc

\* A table applied to one value of an object.
WithConverted(o, n, table) == [m \in DOMAIN o \cap {n} |-> table[o[m]]] ++ o

\* The object holds the value converted, the rest as before.
LEMMA HeldConvertedOne ==
  ASSUME NEW o, NEW n, NEW table
  PROVE  \A k : Held(WithConverted(o, n, table), k) =
                  IF k = n /\ Given(o, k) THEN <<table[o[k]]>> ELSE Held(o, k)
<1> DEFINE K == {n}
           c == [m \in DOMAIN o \cap K |-> table[o[m]]]
<1>1. \A k : Held(c, k) = IF k \in K /\ Given(o, k) THEN <<table[o[k]]>> ELSE << >>
  <2> HIDE DEF K
  <2> QED
    BY HeldConverted
<1>2. \A k : k \in K <=> k = n
  OBVIOUS
<1> HIDE DEF c, K
<1>3. \A k : Held(c ++ o, k) = IF Held(c, k) = << >> THEN Held(o, k) ELSE Held(c, k)
  BY HeldOver
<1>4. \A k : Held(c ++ o, k) = IF k = n /\ Given(o, k) THEN <<table[o[k]]>> ELSE Held(o, k)
  BY <1>1, <1>2, <1>3
<1> QED
  BY <1>4 DEF c, K, WithConverted

\* The factor the server stores for one that was accepted.
LEMMA FactorSent ==
  ASSUME NEW f, FactorOk(f)
  PROVE  LET s == Assigned(convertMultiFactorInfoToServerFormat(f))
         IN /\ Held(s, "mfaEnrollmentId") = IF Held(f, "uid") = << >> THEN <<"mfa1">> ELSE Held(f, "uid")
            /\ Held(s, "displayName") = Held(f, "displayName")
            /\ Held(s, "phoneInfo") = Held(f, "phoneNumber")
            /\ Held(s, "enrolledAt") = IF Given(f, "enrollmentTime") THEN <<IsoOf[f["enrollmentTime"]]>> ELSE <<"iso1">>
<1> DEFINE y == WithConverted(f, "enrollmentTime", IsoOf)
           names == [mfaEnrollmentId |-> "uid", displayName |-> "displayName",
                     phoneInfo |-> "phoneNumber", enrolledAt |-> "enrollmentTime"]
           w == RenameBack(y, names)
           ids == [mfaEnrollmentId |-> "mfa1", enrolledAt |-> "iso1"]
           s == w ++ ids
<1>1. Assigned(convertMultiFactorInfoToServerFormat(f)) = s
  BY Zenon DEF Assigned, convertMultiFactorInfoToServerFormat, WithConverted
<1>2. \A k : Held(y, k) = IF k = "enrollmentTime" /\ Given(f, k) THEN <<IsoOf[f[k]]>> ELSE Held(f, k)
  BY HeldConvertedOne
<1> HIDE DEF y
<1>3. /\ DOMAIN names = {"mfaEnrollmentId", "displayName", "phoneInfo", "enrolledAt"}
      /\ names["mfaEnrollmentId"] = "uid" /\ names["displayName"] = "displayName"
      /\ names["phoneInfo"] = "phoneNumber" /\ names["enrolledAt"] = "enrollmentTime"
  OBVIOUS
<1>4. \A k : Held(ids, k) = IF k = "mfaEnrollmentId" THEN <<"mfa1">> ELSE IF k = "enrolledAt" THEN <<"iso1">> ELSE << >>
  BY DEF Held, Given
<1> HIDE DEF names, ids
<1>5. \A k : Held(w, k) = IF k \in DOMAIN names THEN Held(y, names[k]) ELSE << >>
  BY HeldRenamedBack
<1> HIDE DEF w
<1>6. \A k : Held(s, k) = IF Held(w, k) = << >> THEN Held(ids, k) ELSE Held(w, k)
  BY HeldOver
<1> HIDE DEF s
<1>7. \A k : ~Given(f, k) => Held(f, k) = << >>
  BY HeldNothing
<1>8. Held(f, "phoneNumber") # << >>
  BY DEF FactorOk, Held
<1>9. /\ Held(w, "mfaEnrollmentId") = Held(f, "uid") /\ Held(w, "displayName") = Held(f, "displayName")
      /\ Held(w, "phoneInfo") = Held(f, "phoneNumber")
  BY <1>2, <1>3, <1>5
<1> HIDE DEF IsoOf
<1>10. Held(w, "enrolledAt") = IF Given(f, "enrollmentTime") THEN <<IsoOf[f["enrollmentTime"]]>> ELSE << >>
  BY <1>2, <1>3, <1>5, <1>7
<1>11. /\ Held(s, "mfaEnrollmentId") = IF Held(f, "uid") = << >> THEN <<"mfa1">> ELSE Held(f, "uid")
       /\ Held(s, "displayName") = Held(f, "displayName")
       /\ Held(s, "phoneInfo") = Held(f, "phoneNumber")
       /\ Held(s, "enrolledAt") = IF Given(f, "enrollmentTime") THEN <<IsoOf[f["enrollmentTime"]]>> ELSE <<"iso1">>
  BY <1>4, <1>6, <1>8, <1>9, <1>10
<1> QED
  BY <1>1, <1>11

\* And what is read back of it.
LEMMA FactorShown ==
  ASSUME NEW f, FactorOk(f)
  PROVE  LET s == Assigned(convertMultiFactorInfoToServerFormat(f))
         IN IsKnownFactor(s) /\ initMultiFactorInfo(s) = Store!Enrolled(f)
<1> DEFINE s == Assigned(convertMultiFactorInfoToServerFormat(f))
           y == WithConverted(s, "enrolledAt", UtcOf)
           names == [uid |-> "mfaEnrollmentId", displayName |-> "displayName", enrollmentTime |-> "enrolledAt"]
           w == RenameBack(y, names)
           phone == [k \in DOMAIN s \cap {"phoneInfo"} |-> s[k]]
           kind == Field("factorId", "phone")
           info == phone ++ kind
           named == Rename(info, "phoneInfo", "phoneNumber")
           F == w ++ named
           ids == [uid |-> "mfa1", enrollmentTime |-> "utc1"]
           G == f ++ ids
<1>1. /\ Held(s, "mfaEnrollmentId") = IF Held(f, "uid") = << >> THEN <<"mfa1">> ELSE Held(f, "uid")
      /\ Held(s, "displayName") = Held(f, "displayName")
      /\ Held(s, "phoneInfo") = Held(f, "phoneNumber")
      /\ Held(s, "enrolledAt") = IF Given(f, "enrollmentTime") THEN <<IsoOf[f["enrollmentTime"]]>> ELSE <<"iso1">>
  BY FactorSent
<1>2. Held(f, "factorId") = <<"phone">> /\ Held(f, "phoneNumber") # << >>
  BY DEF FactorOk, Has, Held, Given
<1>3. \A k : k \notin {"uid", "enrollmentTime", "displayName", "factorId", "phoneNumber"} => Held(f, k) = << >>
  BY DEF FactorOk, Held, Given, UpdateMultiFactorInfoRequest, CreateMultiFactorInfoRequest
<1> HIDE DEF s, IsoOf, UtcOf
<1>4. Given(s, "mfaEnrollmentId") /\ Given(s, "phoneInfo") /\ Given(s, "enrolledAt")
  <2>1. \A k : ~Given(s, k) => Held(s, k) = << >>
    BY HeldNothing
  <2>2. <<"mfa1">> # << >> /\ <<"iso1">> # << >> /\ <<IsoOf[f["enrollmentTime"]]>> # << >>
    OBVIOUS
  <2> QED
    BY <1>1, <1>2, <2>1, <2>2
<1>5. IsKnownFactor(s) /\ initMultiFactorInfo(s) = F
  <2>1. PhoneMultiFactorInfo(s) = info
    BY Zenon DEF PhoneMultiFactorInfo
  <2>2. initFromServerResponse(s) = w
    BY Zenon DEF initFromServerResponse, WithConverted
  <2> HIDE DEF info, w
  <2> QED
    BY <1>4, <2>1, <2>2, Zenon DEF initMultiFactorInfo, IsKnownFactor
<1>6. Store!Enrolled(f) = G
  <2>1. Store!Enrolled(f) = Store!++(f, ids)
    BY DEF Store!Enrolled
  <2> HIDE DEF ids
  <2> QED
    BY <2>1, StoreObjects
<1>7. \A k : Held(y, k) = IF k = "enrolledAt" /\ Given(s, k) THEN <<UtcOf[s[k]]>> ELSE Held(s, k)
  BY HeldConvertedOne
<1> HIDE DEF y
<1>8. /\ DOMAIN names = {"uid", "displayName", "enrollmentTime"}
      /\ names["uid"] = "mfaEnrollmentId" /\ names["displayName"] = "displayName"
      /\ names["enrollmentTime"] = "enrolledAt"
  OBVIOUS
<1>9. \A k : Held(ids, k) = IF k = "uid" THEN <<"mfa1">> ELSE IF k = "enrollmentTime" THEN <<"utc1">> ELSE << >>
  BY DEF Held, Given
<1>10. \A k : Held(phone, k) = IF k = "phoneInfo" THEN Held(s, k) ELSE << >>
  BY DEF Held, Given
<1>11. \A k : Held(kind, k) = IF k = "factorId" THEN <<"phone">> ELSE << >>
  BY HeldField
<1> HIDE DEF names, ids, phone, kind
<1>12. \A k : Held(info, k) = IF Held(phone, k) = << >> THEN Held(kind, k) ELSE Held(phone, k)
  BY HeldOver
<1> HIDE DEF info
<1>13. \A k : Held(named, k) =
         IF k = "phoneNumber" THEN (IF Held(info, "phoneInfo") = << >> THEN Held(info, "phoneNumber") ELSE Held(info, "phoneInfo"))
                              ELSE IF k = "phoneInfo" THEN << >> ELSE Held(info, k)
  BY HeldRenamed
<1>14. \A k : Held(w, k) = IF k \in DOMAIN names THEN Held(y, names[k]) ELSE << >>
  BY HeldRenamedBack
<1> HIDE DEF w, named
<1>15. (\A k : Held(F, k) = IF Held(w, k) = << >> THEN Held(named, k) ELSE Held(w, k)) /\ IsObject(F)
  BY HeldOver
<1>16. (\A k : Held(G, k) = IF Held(f, k) = << >> THEN Held(ids, k) ELSE Held(f, k)) /\ IsObject(G)
  BY HeldOver
<1> HIDE DEF F, G
<1>17. Held(y, "enrolledAt") = IF Given(f, "enrollmentTime") THEN Held(f, "enrollmentTime") ELSE <<"utc1">>
  <2>1. Held(y, "enrolledAt") = <<UtcOf[s["enrolledAt"]]>> /\ Held(s, "enrolledAt") = <<s["enrolledAt"]>>
    BY <1>4, <1>7, HeldNothing
  <2>2. CASE Given(f, "enrollmentTime")
    <3>1. s["enrolledAt"] = IsoOf[f["enrollmentTime"]]
      BY <1>1, <2>1, <2>2
    <3>2. UtcOf[IsoOf[f["enrollmentTime"]]] = f["enrollmentTime"]
      BY <2>2, ConvertedAndBack DEF FactorOk
    <3>3. Held(f, "enrollmentTime") = <<f["enrollmentTime"]>>
      BY <2>2, HeldNothing
    <3> QED
      BY <2>1, <2>2, <3>1, <3>2, <3>3
  <2>3. CASE ~Given(f, "enrollmentTime")
    <3>1. s["enrolledAt"] = "iso1"
      BY <1>1, <2>1, <2>3
    <3>2. UtcOf["iso1"] = "utc1"
      BY DEF UtcOf
    <3> QED
      BY <2>1, <2>3, <3>1, <3>2
  <2> QED
    BY <2>2, <2>3
<1>18. /\ Held(w, "uid") = IF Held(f, "uid") = << >> THEN <<"mfa1">> ELSE Held(f, "uid")
       /\ Held(w, "displayName") = Held(f, "displayName")
       /\ Held(w, "enrollmentTime") = IF Given(f, "enrollmentTime") THEN Held(f, "enrollmentTime") ELSE <<"utc1">>
       /\ \A k : k \notin {"uid", "displayName", "enrollmentTime"} => Held(w, k) = << >>
  BY <1>1, <1>7, <1>8, <1>14, <1>17
<1>19. /\ Held(named, "phoneNumber") = Held(f, "phoneNumber") /\ Held(named, "factorId") = <<"phone">>
       /\ \A k : k \notin {"phoneNumber", "factorId"} => Held(named, k) = << >>
  BY <1>1, <1>2, <1>10, <1>11, <1>12, <1>13
<1>20. Given(f, "enrollmentTime") <=> Held(f, "enrollmentTime") # << >>
  BY HeldNothing
<1>21. ASSUME NEW k
       PROVE  Held(F, k) = Held(G, k)
  <2>1. CASE k \in {"uid", "displayName", "enrollmentTime"}
    BY <1>9, <1>15, <1>16, <1>18, <1>19, <1>20, <2>1
  <2>2. CASE k \in {"phoneNumber", "factorId"}
    BY <1>2, <1>9, <1>15, <1>16, <1>18, <1>19, <2>2
  <2>3. CASE k \notin {"uid", "displayName", "enrollmentTime", "phoneNumber", "factorId"}
    BY <1>3, <1>9, <1>15, <1>16, <1>18, <1>19, <2>3
  <2> QED
    BY <2>1, <2>2, <2>3
<1>22. F = G
  BY <1>15, <1>16, <1>21, SameObject
<1> QED
  BY <1>5, <1>6, <1>22 DEF s

-----------------------------------------------------------------------------
(* Second factors and providers. *)

\* All the numbers up to n stand in their own places.
LEMMA SortedRange ==
  ASSUME NEW n \in Nat
  PROVE  DOMAIN Sorted(1..n) = 1..n /\ \A i \in 1..n : Sorted(1..n)[i] = i
<1> DEFINE S == 1..n
<1>1. S \in SUBSET Nat /\ IsFiniteSet(S) /\ Cardinality(S) = n
  BY FS_Interval
<1>2. ASSUME NEW i \in S
      PROVE  Rank(S, i) = i
  <2>1. {j \in S : j <= i} = 1..i
    OBVIOUS
  <2>2. Cardinality(1..i) = i
    BY FS_Interval
  <2> QED
    BY <2>1, <2>2 DEF Rank
<1> HIDE DEF S
<1>3. /\ DOMAIN Sorted(S) = 1..n
      /\ \A i \in S : Sorted(S)[Rank(S, i)] = i
  BY <1>1, SortedByRank
<1>4. \A i \in S : Sorted(S)[i] = i
  BY <1>2, <1>3
<1> QED
  BY <1>3, <1>4 DEF S

\* Second factors are read back as they were asked for, in their order.
LEMMA FactorsShown ==
  ASSUME NEW list, IsList(list), \A i \in DOMAIN list : FactorOk(list[i])
  PROVE  MultiFactorSettings(Each(Assigned, Each(convertMultiFactorInfoToServerFormat, list)))
           = Store!Each(Store!Enrolled, list)
<1> DEFINE Kept(f) == Assigned(convertMultiFactorInfoToServerFormat(f))
           n == Len(list)
           m == [i \in DOMAIN list |-> Kept(list[i])]
           known == Sorted({i \in DOMAIN m : IsKnownFactor(m[i])})
<1>1. n \in Nat /\ DOMAIN list = 1..n
  BY DEF IsList
<1>2. Each(Assigned, Each(convertMultiFactorInfoToServerFormat, list)) = m
  BY DEF Each
<1>3. \A i \in DOMAIN list : IsKnownFactor(Kept(list[i])) /\ initMultiFactorInfo(Kept(list[i])) = Store!Enrolled(list[i])
  BY FactorShown
<1> HIDE DEF Kept, n
<1>4. {i \in DOMAIN m : IsKnownFactor(m[i])} = 1..n
  BY <1>1, <1>3
<1>5. DOMAIN known = 1..n /\ \A i \in 1..n : known[i] = i
  BY <1>1, <1>4, SortedRange
<1>6. MultiFactorSettings(m) = [k \in DOMAIN known |-> initMultiFactorInfo(m[known[k]])]
  BY ZenonT(60) DEF MultiFactorSettings
<1> HIDE DEF known
<1>7. MultiFactorSettings(m) = [k \in 1..n |-> Store!Enrolled(list[k])]
  BY <1>1, <1>3, <1>5, <1>6
<1>8. Store!Each(Store!Enrolled, list) = [k \in DOMAIN list |-> Store!Enrolled(list[k])]
  BY DEF Store!Each
<1> QED
  BY <1>1, <1>2, <1>7, <1>8

InfoNames ==
  [uid |-> "rawId", displayName |-> "displayName", email |-> "email",
   photoURL |-> "photoUrl", providerId |-> "providerId", phoneNumber |-> "phoneNumber"]

\* What UserInfo shows of a provider.
LEMMA HeldByInfo ==
  ASSUME NEW p
  PROVE  /\ IsObject(UserInfo(p))
         /\ Held(UserInfo(p), "uid") = Held(p, "rawId") /\ Held(UserInfo(p), "photoURL") = Held(p, "photoUrl")
         /\ \A n \in {"displayName", "email", "providerId", "phoneNumber"} : Held(UserInfo(p), n) = Held(p, n)
         /\ \A n : n \notin {"uid", "displayName", "email", "photoURL", "providerId", "phoneNumber"} =>
                     Held(UserInfo(p), n) = << >>
<1>1. UserInfo(p) = RenameBack(p, InfoNames)
  BY Zenon DEF UserInfo, InfoNames
<1>2. /\ DOMAIN InfoNames = {"uid", "displayName", "email", "photoURL", "providerId", "phoneNumber"}
      /\ InfoNames["uid"] = "rawId" /\ InfoNames["photoURL"] = "photoUrl"
      /\ \A n \in {"displayName", "email", "providerId", "phoneNumber"} : InfoNames[n] = n
  BY DEF InfoNames
<1> DEFINE names == InfoNames
<1> HIDE DEF names
<1>3. /\ IsObject(RenameBack(p, names))
      /\ \A n : Held(RenameBack(p, names), n) = IF n \in DOMAIN names THEN Held(p, names[n]) ELSE << >>
  BY HeldRenamedBack
<1>4. \A n : Held(UserInfo(p), n) = IF n \in DOMAIN InfoNames THEN Held(p, InfoNames[n]) ELSE << >>
  BY <1>1, <1>3 DEF names
<1> QED
  BY <1>1, <1>2, <1>3, <1>4 DEF names

\* A provider keeps its id.
LEMMA InfoKeepsId ==
  ASSUME NEW p, Given(p, "providerId")
  PROVE  UserInfo(p).providerId = p.providerId /\ Given(UserInfo(p), "providerId")
<1>1. Held(UserInfo(p), "providerId") = Held(p, "providerId")
  BY HeldByInfo
<1> QED
  BY <1>1 DEF Held

\* A provider linked is read back, but for its photo and its phone number.
SentLink(l) == KnownProvider(Rename(l, "uid", "rawId"))

\* A provider linked, sent and read back.
LEMMA LinkShown ==
  ASSUME NEW l, DOMAIN l \subseteq UserProvider
  PROVE  /\ UserInfo(SentLink(l)) = Only(l, Store!LinkedFields)
         /\ Held(SentLink(l), "providerId") = Held(l, "providerId")
<1> DEFINE s == SentLink(l)
           y == Rename(l, "uid", "rawId")
           F == UserInfo(s)
           G == Only(l, Store!LinkedFields)
<1>1. s = Only(y, ProviderKeys)
  BY DEF SentLink, KnownProvider
<1>2. \A k : Held(y, k) = IF k = "rawId" THEN (IF Held(l, "uid") = << >> THEN Held(l, "rawId") ELSE Held(l, "uid"))
                          ELSE IF k = "uid" THEN << >> ELSE Held(l, k)
  BY HeldRenamed
<1>3. \A k : k \notin UserProvider => Held(l, k) = << >>
  BY DEF Held, Given
<1> HIDE DEF y
<1>4. \A k : Held(Only(y, ProviderKeys), k) = IF k \in ProviderKeys THEN Held(y, k) ELSE << >>
  BY HeldParts
<1> HIDE DEF s
<1>5. /\ Held(s, "rawId") = Held(l, "uid") /\ Held(s, "photoUrl") = << >> /\ Held(s, "phoneNumber") = << >>
      /\ \A k \in {"displayName", "email", "providerId"} : Held(s, k) = Held(l, k)
  BY <1>1, <1>2, <1>3, <1>4 DEF ProviderKeys, UserProvider
<1>6. /\ IsObject(F)
      /\ Held(F, "uid") = Held(s, "rawId") /\ Held(F, "photoURL") = Held(s, "photoUrl")
      /\ \A n \in {"displayName", "email", "providerId", "phoneNumber"} : Held(F, n) = Held(s, n)
      /\ \A n : n \notin {"uid", "displayName", "email", "photoURL", "providerId", "phoneNumber"} =>
                  Held(F, n) = << >>
  BY HeldByInfo
<1>7. (\A n : Held(G, n) = IF n \in Store!LinkedFields THEN Held(l, n) ELSE << >>) /\ IsObject(G)
  BY HeldParts
<1> HIDE DEF F, G
<1>8. \A n : Held(F, n) = Held(G, n)
  BY <1>5, <1>6, <1>7 DEF Store!LinkedFields
<1>9. F = G
  BY <1>6, <1>7, <1>8, SameObject
<1> QED
  BY <1>5, <1>9 DEF F, G, s

\* So is a provider imported, but for its phone number.
ImportedProvider(p) ==
  RenameBack(p, [rawId |-> "uid", providerId |-> "providerId", email |-> "email",
                 displayName |-> "displayName", photoUrl |-> "photoURL"])

\* A provider imported, sent and read back.
LEMMA ImportedProviderShown ==
  ASSUME NEW p, DOMAIN p \subseteq UserProviderRequest
  PROVE  UserInfo(ImportedProvider(p)) = Without(p, {"phoneNumber"})
<1> DEFINE names == [rawId |-> "uid", providerId |-> "providerId", email |-> "email",
                     displayName |-> "displayName", photoUrl |-> "photoURL"]
           s == ImportedProvider(p)
           F == UserInfo(s)
           G == Without(p, {"phoneNumber"})
<1>1. s = RenameBack(p, names)
  BY DEF ImportedProvider
<1>2. /\ DOMAIN names = {"rawId", "providerId", "email", "displayName", "photoUrl"}
      /\ names["rawId"] = "uid" /\ names["providerId"] = "providerId" /\ names["email"] = "email"
      /\ names["displayName"] = "displayName" /\ names["photoUrl"] = "photoURL"
  OBVIOUS
<1>3. \A k : k \notin UserProviderRequest => Held(p, k) = << >>
  BY DEF Held, Given
<1> HIDE DEF names, s
<1>4. \A k : Held(RenameBack(p, names), k) = IF k \in DOMAIN names THEN Held(p, names[k]) ELSE << >>
  BY HeldRenamedBack
<1>5. /\ Held(s, "rawId") = Held(p, "uid") /\ Held(s, "photoUrl") = Held(p, "photoURL") /\ Held(s, "phoneNumber") = << >>
      /\ \A k \in {"displayName", "email", "providerId"} : Held(s, k) = Held(p, k)
  BY <1>1, <1>2, <1>4
<1>6. /\ IsObject(F)
      /\ Held(F, "uid") = Held(s, "rawId") /\ Held(F, "photoURL") = Held(s, "photoUrl")
      /\ \A n \in {"displayName", "email", "providerId", "phoneNumber"} : Held(F, n) = Held(s, n)
      /\ \A n : n \notin {"uid", "displayName", "email", "photoURL", "providerId", "phoneNumber"} =>
                  Held(F, n) = << >>
  BY HeldByInfo
<1>7. (\A n : Held(G, n) = IF n = "phoneNumber" THEN << >> ELSE Held(p, n)) /\ IsObject(G)
  BY HeldParts
<1> HIDE DEF F, G
<1>8. \A n : Held(F, n) = Held(G, n)
  BY <1>3, <1>5, <1>6, <1>7 DEF UserProviderRequest
<1>9. F = G
  BY <1>6, <1>7, <1>8, SameObject
<1> QED
  BY <1>9 DEF F, G, s

\* A list converted member by member is a list.
LEMMA EachIsList ==
  ASSUME NEW s, IsList(s), NEW f, f = [i \in DOMAIN s |-> f[i]]
  PROVE  IsList(f) /\ DOMAIN f = DOMAIN s
<1>1. f \in Seq({f[i] : i \in DOMAIN s}) /\ DOMAIN f = DOMAIN s
  BY EachIsSequence DEF IsList
<1>2. Range(f) = {f[i] : i \in DOMAIN s}
  BY <1>1 DEF Range
<1> QED
  BY <1>1, <1>2 DEF IsList

\* So is the empty list.
LEMMA EmptyList == IsList(<< >>)
BY DEF IsList

\* Of four verdicts without a refusal each is "ok".
LEMMA NoneRefuses ==
  ASSUME NEW a, NEW b, NEW c
  PROVE  /\ FirstRefusal(<<a, b, c>>) = "ok" => a = "ok" /\ b = "ok" /\ c = "ok"
         /\ \A d : FirstRefusal(<<a, b, c, d>>) = "ok" => a = "ok" /\ b = "ok" /\ c = "ok" /\ d = "ok"
<1>1. ASSUME FirstRefusal(<<a, b, c>>) = "ok"
      PROVE  a = "ok" /\ b = "ok" /\ c = "ok"
  <2> DEFINE v == <<a, b, c>>
  <2>1. Len(v) = 3 /\ v[1] = a /\ v[2] = b /\ v[3] = c
    OBVIOUS
  <2>2. FirstRefusal(v) = "ok"
    BY <1>1
  <2> HIDE DEF v
  <2>3. \A i \in 1..3 : v[i] = "ok"
    BY <2>1, <2>2, NoRefusal
  <2> QED
    BY <2>1, <2>3
<1>2. ASSUME NEW d, FirstRefusal(<<a, b, c, d>>) = "ok"
      PROVE  a = "ok" /\ b = "ok" /\ c = "ok" /\ d = "ok"
  <2> DEFINE v == <<a, b, c, d>>
  <2>1. Len(v) = 4 /\ v[1] = a /\ v[2] = b /\ v[3] = c /\ v[4] = d
    OBVIOUS
  <2>2. FirstRefusal(v) = "ok"
    BY <1>2
  <2> HIDE DEF v
  <2>3. \A i \in 1..4 : v[i] = "ok"
    BY <2>1, <2>2, NoRefusal
  <2> QED
    BY <2>1, <2>3
<1> QED
  BY <1>1, <1>2

\* A second factor that passes both validations.
LEMMA AcceptedFactor ==
  ASSUME NEW f, DOMAIN f \subseteq UpdateMultiFactorInfoRequest, FactorRefusal(f) = "ok",
         validateAuthFactorInfo(convertMultiFactorInfoToServerFormat(f)) = "ok"
  PROVE  FactorOk(f)
<1> DEFINE y == WithConverted(f, "enrollmentTime", IsoOf)
           names == [mfaEnrollmentId |-> "uid", displayName |-> "displayName",
                     phoneInfo |-> "phoneNumber", enrolledAt |-> "enrollmentTime"]
<1>1. Given(convertMultiFactorInfoToServerFormat(f), "phoneInfo")
  BY FactorInfoAccepted
<1>2. convertMultiFactorInfoToServerFormat(f) = RenameBack(y, names)
  BY Zenon DEF convertMultiFactorInfoToServerFormat, WithConverted
<1>3. \A k : Held(y, k) = IF k = "enrollmentTime" /\ Given(f, k) THEN <<IsoOf[f[k]]>> ELSE Held(f, k)
  BY HeldConvertedOne
<1>4. "phoneInfo" \in DOMAIN names /\ names["phoneInfo"] = "phoneNumber"
  OBVIOUS
<1> HIDE DEF y, names
<1>5. \A k : Held(RenameBack(y, names), k) = IF k \in DOMAIN names THEN Held(y, names[k]) ELSE << >>
  BY HeldRenamedBack
<1>6. Held(RenameBack(y, names), "phoneInfo") = Held(f, "phoneNumber")
  BY <1>3, <1>4, <1>5
<1>7. Held(RenameBack(y, names), "phoneInfo") # << >>
  BY <1>1, <1>2, HeldNothing
<1>8. Given(f, "phoneNumber")
  BY <1>6, <1>7, HeldNothing
<1> QED
  BY <1>8, FactorAccepted DEF FactorOk

\* All of a list of them.
LEMMA AcceptedFactors ==
  ASSUME NEW list, AreFactors(list), \A i \in DOMAIN list : FactorRefusal(list[i]) = "ok",
         NEW sent, sent = Each(convertMultiFactorInfoToServerFormat, list),
         \A i \in DOMAIN sent : validateAuthFactorInfo(sent[i]) = "ok"
  PROVE  \A i \in DOMAIN list : FactorOk(list[i])
<1>1. sent = [i \in DOMAIN list |-> convertMultiFactorInfoToServerFormat(list[i])]
  BY DEF Each
<1>2. \A i \in DOMAIN list : validateAuthFactorInfo(convertMultiFactorInfoToServerFormat(list[i])) = "ok"
  BY <1>1
<1> QED
  BY <1>2, AcceptedFactor DEF AreFactors

\* The fields of a record, for the comparison of two.
LEMMA RecordIs ==
  ASSUME NEW a
  PROVE  UserRecord(a) = [attrs |-> UserRecord(a).attrs, providerData |-> {UserInfo(p) : p \in a.providers},
                          multiFactor |-> MultiFactorSettings(a.mfaInfo)]
<1> DEFINE fields == UserRecord(a).attrs
<1>1. \E x : UserRecord(a) = [attrs |-> x, providerData |-> {UserInfo(p) : p \in a.providers},
                              multiFactor |-> MultiFactorSettings(a.mfaInfo)]
  BY Zenon DEF UserRecord
<1> QED
  BY <1>1

-----------------------------------------------------------------------------
(* Users created and changed. *)

\* A new account is that of its user.
LEMMA NewAccountIs ==
  ASSUME NEW u, NEW r
  PROVE  /\ Held(NewAccount(u, r).attrs, "localId") = <<u>>
         /\ Held(NewAccount(u, r).attrs, "passwordHash") \in {<< >>, <<"REDACTED">>}
         /\ NewAccount(u, r).providers = ToSet(r.providers)
         /\ NewAccount(u, r).mfaInfo = Each(Assigned, r.factors)
<1> DEFINE f == Field("localId", u)
           b == f ++ r.attrs
           a == NewAccount(u, r)
<1>1. a.attrs = StoredAttrs(b) /\ a.providers = ToSet(r.providers) /\ a.mfaInfo = Each(Assigned, r.factors)
  BY Zenon DEF NewAccount
<1>2. \A k : Held(f, k) = IF k = "localId" THEN <<u>> ELSE << >>
  BY HeldField
<1> HIDE DEF f, a
<1>3. \A k : Held(b, k) = IF Held(f, k) = << >> THEN Held(r.attrs, k) ELSE Held(f, k)
  BY HeldOver
<1> HIDE DEF b
<1>4. \A k : Held(StoredAttrs(b), k) =
           IF k = "passwordHash"
           THEN IF Held(b, "password") = << >> /\ Held(b, "passwordHash") = << >> THEN << >> ELSE <<"REDACTED">>
           ELSE IF k \in {"password", "salt", "disableUser"} THEN << >>
           ELSE IF k = "disabled" /\ Held(b, "disableUser") # << >> THEN Held(b, "disableUser")
           ELSE Held(b, k)
  BY HeldByServer, Zenon
<1>5. Held(b, "localId") = <<u>>
  BY <1>2, <1>3
<1>6. Held(StoredAttrs(b), "localId") = <<u>>
  BY <1>4, <1>5
<1>7. Held(StoredAttrs(b), "passwordHash") \in {<< >>, <<"REDACTED">>}
  BY <1>4
<1>8. Held(a.attrs, "localId") = <<u>> /\ Held(a.attrs, "passwordHash") \in {<< >>, <<"REDACTED">>}
  BY <1>1, <1>6, <1>7
<1> QED
  BY <1>1, <1>8 DEF a

\* A user created is the one asked for.
LEMMA CreatedShown ==
  ASSUME NEW p \in CreateInputs, AskedCreate(p).refusal = "ok", NEW u, Given(p.attrs, "uid") => p.attrs.uid = u
  PROVE  /\ UserRecord(NewAccount(u, AskedCreate(p).request)) = Store!NewUser(u, p)
         /\ IsAccountOf(u, NewAccount(u, AskedCreate(p).request))
<1> DEFINE q == createNewAccount(p)
           r == KnownPart(q)
           list == p.factors.list
           a == NewAccount(u, r)
<1>1. AskedCreate(p).request = r /\ AskedCreate(p).refusal = FirstRefusal(<<CreateRefusal(p), SignUpRefusal(q)>>)
  BY Zenon DEF AskedCreate, Asked
<1>2. DOMAIN p.attrs \subseteq CreateRequest /\ AreFactors(list) /\ IsList(list)
  BY InputsAreTyped DEF InputsAreTyped, IsRequest, AreFactors, IsList
<1>3. CreateRefusal(p) = "ok" /\ validateCreateEditRequest(q, FALSE) = "ok"
  <2>0. FirstRefusal(<<CreateRefusal(p), SignUpRefusal(q)>>) = "ok"
    BY <1>1
  <2> HIDE DEF q
  <2>1. CreateRefusal(p) = "ok" /\ SignUpRefusal(q) = "ok"
    BY <2>0, NeitherRefusal
  <2>2. ASSUME NEW x, SignUpRefusal(x) = "ok"
        PROVE  validateCreateEditRequest(x, FALSE) = "ok"
    <3> DEFINE v == Require(~Given(x.attrs, "customAttributes"), "INVALID_ARGUMENT")
               w == Require(~Given(x.attrs, "validSince"), "INVALID_ARGUMENT")
               y == Require(~Given(x.attrs, "tenantId"), "INVALID_ARGUMENT")
               z == validateCreateEditRequest(x, FALSE)
    <3>1. FirstRefusal(<<v, w, y, z>>) = "ok"
      BY <2>2 DEF SignUpRefusal
    <3> HIDE DEF v, w, y, z
    <3>2. z = "ok"
      BY <3>1, NoneRefuses
    <3> QED
      BY <3>2 DEF z
  <2> QED
    BY <2>1, <2>2
<1>4. \A i \in DOMAIN list : FactorRefusal(list[i]) = "ok"
  <2> DEFINE f == [i \in DOMAIN list |-> NewFactorRefusal(list[i])]
  <2>1. FirstRefusal(f) = "ok"
    BY <1>3 DEF CreateRefusal, Each
  <2>2. f = [i \in DOMAIN list |-> f[i]]
    OBVIOUS
  <2> HIDE DEF f
  <2>3. \A i \in DOMAIN list : f[i] = "ok"
    BY <1>2, <2>1, <2>2, ListAccepted
  <2>4. \A i \in DOMAIN list : NewFactorRefusal(list[i]) = "ok"
    BY <2>3 DEF f
  <2>5. ASSUME NEW x, NewFactorRefusal(x) = "ok"
        PROVE  FactorRefusal(x) = "ok"
    <3> DEFINE v == Require(~Given(x, "enrollmentTime"), "INVALID_ARGUMENT")
               w == Require(~Given(x, "uid"), "INVALID_ARGUMENT")
               z == FactorRefusal(x)
    <3>1. FirstRefusal(<<v, w, z>>) = "ok"
      BY <2>5 DEF NewFactorRefusal
    <3> HIDE DEF v, w, z
    <3>2. z = "ok"
      BY <3>1, NoneRefuses
    <3> QED
      BY <3>2 DEF z
  <2> QED
    BY <2>4, <2>5
<1>5. /\ q.factors = Each(convertMultiFactorInfoToServerFormat, list) /\ q.providers = << >> /\ q.link = << >>
      /\ r.factors = Each(convertMultiFactorInfoToServerFormat, list) /\ r.providers = << >>
  BY Zenon DEF createNewAccount, KnownPart, EmptyRequest
<1> HIDE DEF q, r, list
<1>6. IsList(q.factors) /\ IsList(q.providers) /\ IsList(q.link)
  <2>1. \A s : s = [i \in DOMAIN list |-> s[i]] => IsList(s)
    BY <1>2, EachIsList
  <2>2. q.factors = [i \in DOMAIN list |-> convertMultiFactorInfoToServerFormat(list[i])]
    BY <1>5 DEF Each
  <2> QED
    BY <1>5, <2>1, <2>2, EmptyList
<1>7. \A i \in DOMAIN q.factors : validateAuthFactorInfo(q.factors[i]) = "ok"
  BY <1>3, <1>6, RequestAccepted
<1>8. \A i \in DOMAIN list : FactorOk(list[i])
  BY <1>2, <1>4, <1>5, <1>7, AcceptedFactors
<1>9. /\ Held(a.attrs, "localId") = <<u>> /\ Held(a.attrs, "passwordHash") \in {<< >>, <<"REDACTED">>}
      /\ a.providers = ToSet(r.providers) /\ a.mfaInfo = Each(Assigned, r.factors)
  BY NewAccountIs
<1>10. UserRecord(a).attrs = Store!NewUser(u, p).attrs
  BY <1>2, CreatedAttrs DEF r, q
<1> HIDE DEF a
<1>11. a.providers = {}
  BY <1>5, <1>9 DEF ToSet
<1>12. MultiFactorSettings(a.mfaInfo) = Store!Each(Store!Enrolled, list)
  BY <1>2, <1>5, <1>8, <1>9, FactorsShown
<1>13. UserRecord(a) = [attrs |-> UserRecord(a).attrs, providerData |-> {UserInfo(x) : x \in a.providers},
                        multiFactor |-> MultiFactorSettings(a.mfaInfo)]
  BY RecordIs
<1>14. Store!NewUser(u, p) = [attrs |-> Store!NewUser(u, p).attrs, providerData |-> {},
                              multiFactor |-> Store!Each(Store!Enrolled, list)]
  <2>1. \E x : Store!NewUser(u, p) = [attrs |-> x, providerData |-> {}, multiFactor |-> Store!Each(Store!Enrolled, list)]
    BY Zenon DEF Store!NewUser, list
  <2> QED
    BY <2>1
<1>15. UserRecord(a) = Store!NewUser(u, p)
  <2>1. {UserInfo(x) : x \in a.providers} = {}
    BY <1>11
  <2> QED
    BY <1>10, <1>12, <1>13, <1>14, <2>1
<1>16. IsAccountOf(u, a)
  BY <1>9, <1>11, AccountIsOf
<1> QED
  BY <1>1, <1>15, <1>16 DEF a

\* Unlinking and linking, as stored and as shown.
Infos(P) == {UserInfo(y) : y \in P}

SentLinks(L) == {SentLink(l) : l \in L}

LinkedFrom(L) == {Only(l, Store!LinkedFields) : l \in L}

Linking(P, gone, new) == {y \in P : y.providerId \notin gone \cup {l.providerId : l \in new}} \cup new

CanLink(l) == DOMAIN l \subseteq UserProvider /\ Given(l, "providerId")

\* The providers shown are those stored, without those unlinked and with those linked.
LEMMA ProvidersShown ==
  ASSUME NEW P, \A y \in P : Given(y, "providerId"), NEW gone, NEW L, \A l \in L : CanLink(l)
  PROVE  /\ Infos(Linking(P, gone, SentLinks(L))) = Linking(Infos(P), gone, LinkedFrom(L))
         /\ \A y \in Linking(P, gone, SentLinks(L)) : Given(y, "providerId")
<1> DEFINE ids == {l.providerId : l \in L}
           sent == {SentLink(l) : l \in L}
           linked == {Only(l, Store!LinkedFields) : l \in L}
<1> USE DEF CanLink
<1>1. \A l \in L : /\ UserInfo(SentLink(l)) = Only(l, Store!LinkedFields)
                   /\ Held(SentLink(l), "providerId") = Held(l, "providerId")
  BY LinkShown
<1>2. \A l \in L : Given(SentLink(l), "providerId") /\ SentLink(l).providerId = l.providerId
  <2>1. \A l \in L : Held(SentLink(l), "providerId") = <<l["providerId"]>>
    BY <1>1 DEF Held
  <2>2. \A l \in L : Given(SentLink(l), "providerId")
    BY <2>1, HeldNothing
  <2> QED
    BY <2>1, <2>2 DEF Held
<1>3. \A l \in L : Only(l, Store!LinkedFields).providerId = l.providerId
  <2>1. \A l \in L : UserInfo(SentLink(l)).providerId = SentLink(l).providerId
    BY <1>2, InfoKeepsId
  <2> QED
    BY <1>1, <1>2, <2>1
<1>4. {l.providerId : l \in sent} = ids
  BY <1>2
<1>5. {l.providerId : l \in linked} = ids
  BY <1>3
<1>6. {UserInfo(y) : y \in sent} = linked
  BY <1>1
<1>7. \A y \in P : UserInfo(y).providerId = y.providerId
  BY InfoKeepsId
<1>8. \A y \in sent : Given(y, "providerId")
  BY <1>2
<1> DEFINE left == {y \in P : y.providerId \notin gone \cup ids}
<1>9. {UserInfo(y) : y \in left} = {z \in {UserInfo(y) : y \in P} : z.providerId \notin gone \cup ids}
  BY <1>7
<1> HIDE DEF sent, linked
<1>10. {UserInfo(y) : y \in left \cup sent} = {UserInfo(y) : y \in left} \cup {UserInfo(y) : y \in sent}
  OBVIOUS
<1>11. {UserInfo(y) : y \in left \cup sent}
         = {z \in {UserInfo(y) : y \in P} : z.providerId \notin gone \cup ids} \cup linked
  BY <1>6, <1>9, <1>10
<1>12. \A y \in left \cup sent : Given(y, "providerId")
  BY <1>8
<1> QED
  BY <1>4, <1>5, <1>11, <1>12 DEF Infos, SentLinks, LinkedFrom, Linking, sent, linked, left

\* The provider to link, when it is not the e-mail address or the phone number.
LEMMA LinkedAre ==
  ASSUME NEW p, IsRequest(p, UpdateRequest)
  PROVE  LET q == RedirectLink(p)
         IN /\ Store!LinkedProviders(p) = {Only(l, Store!LinkedFields) : l \in {q.link[i] : i \in DOMAIN q.link}}
            /\ IsList(q.link) /\ \A i \in DOMAIN q.link : DOMAIN q.link[i] \subseteq UserProvider
            /\ q.factors = p.factors /\ q.unlink = p.unlink
<1> DEFINE q == RedirectLink(p)
           redirected == p.link # << >> /\ p.link[1].providerId \in DOMAIN LinkedField
           other == {j \in DOMAIN p.link : p.link[j].providerId \notin {"email", "phone"}}
<1>1. /\ p.link \in Seq(Range(p.link)) /\ DOMAIN p.link \subseteq {1}
      /\ \A i \in DOMAIN p.link : DOMAIN p.link[i] \subseteq UserProvider
  BY DEF IsRequest
<1>2. q.factors = p.factors /\ q.unlink = p.unlink
  BY DEF RedirectLink
<1>3. DOMAIN LinkedField = {"email", "phone"}
  BY DEF LinkedField
<1>4. q.link = IF redirected THEN << >> ELSE p.link
  BY DEF RedirectLink
<1>5. DOMAIN p.link = {} <=> p.link = << >>
  BY <1>1
<1>6. Store!LinkedProviders(p) = {Only(p.link[i], Store!LinkedFields) : i \in other}
  <2>1. Store!LinkedProviders(p) = {Store!Only(p.link[i], Store!LinkedFields) : i \in other}
    BY Zenon DEF Store!LinkedProviders
  <2> QED
    BY <2>1, StoreObjects
<1>7. CASE redirected
  <2>1. other = {}
    BY <1>1, <1>3, <1>7
  <2>2. q.link = << >> /\ DOMAIN q.link = {}
    BY <1>4, <1>7
  <2> HIDE DEF q
  <2> QED
    BY <1>2, <1>6, <2>1, <2>2, EmptyList DEF q
<1>8. CASE ~redirected
  <2>1. q.link = p.link
    BY <1>4, <1>8
  <2>2. other = DOMAIN p.link
    BY <1>1, <1>3, <1>5, <1>8
  <2> HIDE DEF q, other
  <2> QED
    BY <1>1, <1>2, <1>6, <2>1, <2>2 DEF IsList, q
<1> QED
  BY <1>7, <1>8

\* The providers to link, as sent.
LEMMA LinksSent ==
  ASSUME NEW q, NEW u
  PROVE  LET s == KnownPart(updateExistingAccount(u, q))
             r == updateExistingAccount(u, q)
         IN /\ ToSet(s.link) = {SentLink(l) : l \in {q.link[i] : i \in DOMAIN q.link}}
            /\ s.deleteProvider = UnlinkedProviders(q)
            /\ r.link = [i \in DOMAIN q.link |-> Rename(q.link[i], "uid", "rawId")]
            /\ r.providers = << >>
            /\ r.factors =
                     IF q.factors.given = "list" THEN Each(convertMultiFactorInfoToServerFormat, q.factors.list) ELSE << >>
            /\ s.factors = r.factors /\ s.mfa = IF q.factors.given = "no" THEN "keep" ELSE "replace"
<1> DEFINE s == KnownPart(updateExistingAccount(u, q))
           r == updateExistingAccount(u, q)
<1>1. /\ r.link = Each(LAMBDA l : Rename(l, "uid", "rawId"), q.link) /\ r.deleteProvider = UnlinkedProviders(q)
      /\ r.providers = << >>
      /\ r.factors = IF q.factors.given = "list" THEN Each(convertMultiFactorInfoToServerFormat, q.factors.list) ELSE << >>
      /\ r.mfa = IF q.factors.given = "no" THEN "keep" ELSE "replace"
  BY Zenon DEF updateExistingAccount, EmptyRequest
<1>2. /\ s.link = Each(KnownProvider, r.link) /\ s.deleteProvider = r.deleteProvider
      /\ s.factors = r.factors /\ s.mfa = r.mfa
  BY ZenonT(60) DEF updateExistingAccount, KnownPart, EmptyRequest
<1>3. r.link = [i \in DOMAIN q.link |-> Rename(q.link[i], "uid", "rawId")]
  BY <1>1 DEF Each
<1> HIDE DEF r, s
<1>4. s.link = [i \in DOMAIN q.link |-> SentLink(q.link[i])]
  BY <1>2, <1>3 DEF Each, SentLink
<1>5. ToSet(s.link) = {SentLink(l) : l \in {q.link[i] : i \in DOMAIN q.link}}
  BY <1>4 DEF ToSet
<1> QED
  BY <1>1, <1>2, <1>3, <1>5 DEF r, s

\* The fields of an update that are checked are those the caller gave.
LEMMA UpdateAsks ==
  ASSUME NEW q, NEW u
  PROVE  LET r == updateExistingAccount(u, q)
             x == q.attrs
         IN /\ Held(r.attrs, "email") = Held(x, "email") /\ Held(r.attrs, "emailVerified") = Held(x, "emailVerified")
            /\ Held(x, "disabled") # << >> => Held(r.attrs, "disableUser") = Held(x, "disabled")
<1> DEFINE x == q.attrs
           removed == {k \in DOMAIN DeletableParams : IsNull(x, k)}
           dropped == removed \cup {k \in {"phoneNumber"} : IsNull(x, k)}
           kept == Without(x, dropped)
           y == Rename(kept, "photoURL", "photoUrl")
           z == Rename(y, "disabled", "disableUser")
           w == Field("localId", u) ++ z
           r == updateExistingAccount(u, q)
<1>1. r.attrs = w
  BY Zenon DEF updateExistingAccount, EmptyRequest
<1>2. \A k : k \in dropped => k \in {"displayName", "photoURL", "phoneNumber"}
  BY DEF DeletableParams
<1> HIDE DEF dropped, x, r
<1>3. \A k : k \notin {"displayName", "photoURL", "phoneNumber"} => Held(kept, k) = Held(x, k)
  BY <1>2, HeldParts
<1> HIDE DEF kept
<1>4. \A k : Held(y, k) =
         IF k = "photoUrl" THEN (IF Held(kept, "photoURL") = << >> THEN Held(kept, "photoUrl") ELSE Held(kept, "photoURL"))
                          ELSE IF k = "photoURL" THEN << >> ELSE Held(kept, k)
  BY HeldRenamed
<1> HIDE DEF y
<1>5. \A k : Held(z, k) =
         IF k = "disableUser" THEN (IF Held(y, "disabled") = << >> THEN Held(y, "disableUser") ELSE Held(y, "disabled"))
                          ELSE IF k = "disabled" THEN << >> ELSE Held(y, k)
  BY HeldRenamed
<1> HIDE DEF z
<1>6. \A k : Held(w, k) = IF k = "localId" THEN <<u>> ELSE Held(z, k)
  <2>1. \A k : Held(Field("localId", u), k) = IF k = "localId" THEN <<u>> ELSE << >>
    BY HeldField
  <2> QED
    BY <2>1, HeldOver
<1> HIDE DEF w
<1>7. Held(w, "email") = Held(x, "email") /\ Held(w, "emailVerified") = Held(x, "emailVerified")
  BY <1>3, <1>4, <1>5, <1>6
<1>8. Held(x, "disabled") # << >> => Held(w, "disableUser") = Held(x, "disabled")
  BY <1>3, <1>4, <1>5, <1>6
<1> QED
  BY <1>1, <1>7, <1>8 DEF x, r

\* An update the checks accept has no null where none may be.
LEMMA NoForbiddenNull ==
  ASSUME NEW q, NEW u, Verdict(EditChecks, updateExistingAccount(u, q).attrs) = "ok"
  PROVE  NullsAllowed(q.attrs)
<1> DEFINE o == updateExistingAccount(u, q).attrs
           x == q.attrs
<1>1. /\ Held(o, "email") = Held(x, "email") /\ Held(o, "emailVerified") = Held(x, "emailVerified")
      /\ Held(x, "disabled") # << >> => Held(o, "disableUser") = Held(x, "disabled")
  BY UpdateAsks
<1>2. /\ Given(o, "email") => o["email"] \in Email
      /\ Given(o, "emailVerified") => o["emailVerified"] \in Bool
      /\ Given(o, "disableUser") => o["disableUser"] \in Bool
  BY EditAccepted
<1>3. "null" \notin Email /\ "null" \notin Bool
  BY ValuesAreGiven DEF Bool
<1> HIDE DEF o, x
<1>4. Held(o, "email") # <<"null">> /\ Held(o, "emailVerified") # <<"null">> /\ Held(o, "disableUser") # <<"null">>
  BY <1>2, <1>3 DEF Held
<1>5. Held(x, "email") # <<"null">> /\ Held(x, "emailVerified") # <<"null">> /\ Held(x, "disabled") # <<"null">>
  <2>1. Held(x, "disabled") = << >> => Held(x, "disabled") # <<"null">>
    OBVIOUS
  <2> QED
    BY <1>1, <1>4, <2>1
<1> QED
  BY <1>5 DEF NullsAllowed, x

\* A verdict and two lists of them without a refusal.
LEMMA TwoListsAccepted ==
  ASSUME NEW v, NEW S1, NEW S2, NEW s1 \in Seq(S1), NEW s2 \in Seq(S2), FirstRefusal(<<v>> \o s1 \o s2) = "ok"
  PROVE  v = "ok" /\ AllOk(s1) /\ AllOk(s2)
<1> DEFINE a == <<v>>
           b == a \o s1
           c == b \o s2
<1>1. a \in Seq({v}) /\ Len(a) = 1 /\ a[1] = v
  OBVIOUS
<1> HIDE DEF a
<1>2. b \in Seq({v} \cup S1) /\ (AllOk(b) => AllOk(a) /\ AllOk(s1))
  BY <1>1, BothOk
<1> HIDE DEF b
<1>3. c \in Seq(({v} \cup S1) \cup S2) /\ (AllOk(c) => AllOk(b) /\ AllOk(s2))
  BY <1>2, BothOk
<1>4. FirstRefusal(c) = "ok"
  BY DEF c, b, a
<1> HIDE DEF c
<1>5. Len(c) \in Nat
  BY <1>3
<1>6. AllOk(c)
  BY <1>4, <1>5, NoRefusal DEF AllOk
<1>7. AllOk(a) => v = "ok"
  BY <1>1 DEF AllOk
<1> QED
  BY <1>2, <1>3, <1>6, <1>7

\* What the SDK refuses of the second factors of an update.
LEMMA UpdatedFactors ==
  ASSUME NEW u, NEW q, PropertiesRefusal(u, q) = "ok", IsList(q.unlink), AreFactors(q.factors.list),
         q.factors.given = "list"
  PROVE  \A i \in DOMAIN q.factors.list : FactorRefusal(q.factors.list[i]) = "ok"
<1> DEFINE V(id) == Require(id \in Text \cup {"phone"}, "INVALID_ARGUMENT")
           unlinkAll == Each(V, q.unlink)
           linkChecks == <<Check("providerId", Text, "INVALID_ARGUMENT"), Check("uid", Text, "INVALID_ARGUMENT")>>
           linked == <<Verdict(linkChecks, Requiring(q.link[1], {"providerId", "uid"}))>>
           list == q.factors.list
           v == Require(u \in Uid, "INVALID_UID")
           s1 == IF q.link # << >> THEN linked ELSE unlinkAll
           s2 == Each(FactorRefusal, list)
<1>1. FirstRefusal(<<v>> \o s1 \o s2) = "ok"
  BY Zenon DEF PropertiesRefusal
<1>2. \E S : linked \in Seq(S)
  <2>1. \A x : <<x>> \in Seq({x})
    OBVIOUS
  <2> QED
    BY <2>1
<1>3. \E S : unlinkAll \in Seq(S)
  <2>1. unlinkAll = [i \in DOMAIN q.unlink |-> unlinkAll[i]]
    BY DEF Each
  <2> HIDE DEF unlinkAll
  <2> QED
    BY <2>1, SomeSequence
<1>4. \E S : s1 \in Seq(S)
  <2> HIDE DEF linked, unlinkAll
  <2> QED
    BY <1>2, <1>3
<1>5. IsList(list)
  BY DEF AreFactors, IsList
<1>6. s2 = [i \in DOMAIN list |-> FactorRefusal(list[i])]
  BY DEF Each
<1>7. s2 = [i \in DOMAIN list |-> s2[i]]
  BY <1>6
<1> HIDE DEF s1, s2, v, list
<1>8. (\E S : s2 \in Seq(S)) /\ 1..Len(s2) = DOMAIN list
  BY <1>5, <1>7, SomeSequence
<1>9. AllOk(s2)
  BY <1>1, <1>4, <1>8, TwoListsAccepted
<1>10. \A i \in DOMAIN list : s2[i] = "ok"
  BY <1>8, <1>9 DEF AllOk
<1> QED
  BY <1>6, <1>10 DEF list

\* What the SDK accepts of an update.
LEMMA AcceptedUpdate ==
  ASSUME NEW p, NEW u, AskedUpdate(u, p).refusal = "ok"
  PROVE  LET q == RedirectLink(p)
         IN /\ AskedUpdate(u, p).request = KnownPart(updateExistingAccount(u, q))
            /\ PropertiesRefusal(u, q) = "ok"
            /\ validateCreateEditRequest(updateExistingAccount(u, q), FALSE) = "ok"
<1> DEFINE q == RedirectLink(p)
           v == Require(~UpdateConflict(p), "INVALID_ARGUMENT")
           w == PropertiesRefusal(u, q)
           r == updateExistingAccount(u, q)
           early == FirstRefusal(<<v, w>>)
<1>1. /\ AskedUpdate(u, p).request = KnownPart(r)
      /\ AskedUpdate(u, p).refusal = IF early # "ok" THEN early ELSE SetAccountInfoRefusal(r)
  BY Zenon DEF AskedUpdate, Asked
<1>2. early = "ok" /\ SetAccountInfoRefusal(r) = "ok"
  <2> HIDE DEF early, r
  <2> QED
    BY <1>1
<1>3. w = "ok"
  <2> HIDE DEF v, w
  <2> QED
    BY <1>2, NeitherRefusal
<1>4. ASSUME NEW x, SetAccountInfoRefusal(x) = "ok"
      PROVE  validateCreateEditRequest(x, FALSE) = "ok"
  <2> DEFINE a == Require(Given(x.attrs, "localId"), "INTERNAL_ERROR")
             b == Require(~Given(x.attrs, "tenantId"), "INVALID_ARGUMENT")
             c == validateCreateEditRequest(x, FALSE)
  <2>1. FirstRefusal(<<a, b, c>>) = "ok"
    BY <1>4 DEF SetAccountInfoRefusal
  <2> HIDE DEF a, b, c
  <2>2. c = "ok"
    BY <2>1, NoneRefuses
  <2> QED
    BY <2>2 DEF c
<1> HIDE DEF r
<1>5. validateCreateEditRequest(r, FALSE) = "ok"
  BY <1>2, <1>4
<1> QED
  BY <1>1, <1>3, <1>5 DEF r

\* A change of the second factors is shown, and they stay where it names none.
LEMMA ChangedFactors ==
  ASSUME NEW list, IsList(list), \A i \in DOMAIN list : FactorOk(list[i]), NEW given \in {"no", "null", "list"},
         given # "list" => list = << >>, NEW r, NEW old,
         r.factors = IF given = "list" THEN Each(convertMultiFactorInfoToServerFormat, list) ELSE << >>,
         r.mfa = IF given = "no" THEN "keep" ELSE "replace"
  PROVE  MultiFactorSettings(IF r.mfa = "keep" THEN old ELSE Each(Assigned, r.factors))
           = IF given = "no" THEN MultiFactorSettings(old) ELSE Store!Each(Store!Enrolled, list)
<1>1. CASE given = "no"
  BY <1>1
<1>2. CASE given # "no"
  <2>1. r.factors = Each(convertMultiFactorInfoToServerFormat, list)
    <3>1. CASE list = << >>
      <4>1. \A f : f = [i \in DOMAIN << >> |-> f[i]] => f = << >>
        OBVIOUS
      <4>2. Each(convertMultiFactorInfoToServerFormat, << >>) = << >>
        BY <4>1 DEF Each
      <4> QED
        BY <3>1, <4>2
    <3>2. CASE list # << >>
      BY <1>2, <3>2
    <3> QED
      BY <3>1, <3>2
  <2>2. r.mfa # "keep"
    BY <1>2
  <2>3. MultiFactorSettings(Each(Assigned, Each(convertMultiFactorInfoToServerFormat, list))) = Store!Each(Store!Enrolled, list)
    BY FactorsShown
  <2> QED
    BY <1>2, <2>1, <2>2, <2>3
<1> QED
  BY <1>1, <1>2

\* The providers an update unlinks.
LEMMA UnlinkedAre ==
  ASSUME NEW p, DOMAIN p.attrs \subseteq UpdateRequest
  PROVE  LET q == RedirectLink(p)
             given == Store!++(Store!LinkedAttrs(p), Store!Only(p.attrs, Store!Visible))
             nulls == {k \in DOMAIN given : given[k] = "null"}
         IN UnlinkedProviders(q) = Store!ToSet(p.unlink) \cup (IF "phoneNumber" \in nulls THEN {"phone"} ELSE {})
<1> DEFINE q == RedirectLink(p)
           x == q.attrs
           sg == Store!++(Store!LinkedAttrs(p), Store!Only(p.attrs, Store!Visible))
           given == Store!LinkedAttrs(p) ++ Only(p.attrs, Store!Visible)
           nulls == {k \in DOMAIN sg : sg[k] = "null"}
<1>1. \A k : Held(given, k) = IF k \in Store!Visible THEN Held(x, k) ELSE << >>
  BY RedirectedFields
<1>2. sg = given
  BY StoreObjects
<1>3. q.unlink = p.unlink
  BY DEF RedirectLink
<1>4. Store!ToSet(p.unlink) = ToSet(p.unlink)
  BY DEF Store!ToSet, ToSet
<1>5. DroppedPhone(q) = IF Held(x, "phoneNumber") = <<"null">> THEN {"phone"} ELSE {}
  BY NullHeld DEF DroppedPhone
<1> HIDE DEF sg, given, x
<1>6. "phoneNumber" \in nulls <=> Held(given, "phoneNumber") = <<"null">>
  BY <1>2 DEF Held, Given
<1>7. Held(given, "phoneNumber") = Held(x, "phoneNumber")
  BY <1>1 DEF Store!Visible
<1> HIDE DEF nulls, q
<1>8. UnlinkedProviders(q) = Store!ToSet(p.unlink) \cup (IF "phoneNumber" \in nulls THEN {"phone"} ELSE {})
  BY <1>3, <1>4, <1>5, <1>6, <1>7 DEF UnlinkedProviders
<1> QED
  BY <1>8 DEF nulls, sg, q

\* The fields an account holds after an update keep it that of its user.
LEMMA SetAccountIs ==
  ASSUME NEW q, \A k : k \notin UpdateRequest => Held(q.attrs, k) = << >>, NEW u, NEW account, IsAccountOf(u, account)
  PROVE  LET s == KnownPart(updateExistingAccount(u, q))
             a == SetAccount(account, s)
         IN /\ Held(a.attrs, "localId") = <<u>> /\ Held(a.attrs, "passwordHash") \in {<< >>, <<"REDACTED">>}
            /\ a.providers = {y \in account.providers :
                                y.providerId \notin s.deleteProvider \cup {l.providerId : l \in ToSet(s.link)}}
                             \cup ToSet(s.link)
            /\ a.mfaInfo = IF s.mfa = "keep" THEN account.mfaInfo ELSE Each(Assigned, s.factors)
<1> DEFINE s == KnownPart(updateExistingAccount(u, q))
           a == SetAccount(account, s)
           sent == StoredAttrs(s.attrs)
           old == account.attrs
           both == sent ++ old
           gone == {ServerName[d] : d \in s.deleteAttribute}
                   \cup (IF "phone" \in s.deleteProvider THEN {"phoneNumber"} ELSE {})
<1>1. /\ a.attrs = Without(both, gone)
      /\ a.providers = {y \in account.providers :
                          y.providerId \notin s.deleteProvider \cup {l.providerId : l \in ToSet(s.link)}}
                       \cup ToSet(s.link)
      /\ a.mfaInfo = IF s.mfa = "keep" THEN account.mfaInfo ELSE Each(Assigned, s.factors)
  BY Zenon DEF SetAccount
<1>2. Held(sent, "localId") = <<u>> /\ Held(sent, "passwordHash") \in {<< >>, <<"REDACTED">>}
  BY UpdateSends
<1>3. \A k : k \in gone => k \in {"displayName", "photoUrl", "phoneNumber"}
  BY GoneFields
<1>4. Held(old, "passwordHash") \in {<< >>, <<"REDACTED">>}
  BY DEF IsAccountOf, Held
<1> HIDE DEF sent, gone, old, a, s
<1>5. \A k : Held(both, k) = IF Held(sent, k) = << >> THEN Held(old, k) ELSE Held(sent, k)
  BY HeldOver
<1> HIDE DEF both
<1>6. \A k : k \notin gone => Held(Without(both, gone), k) = Held(both, k)
  BY HeldParts
<1>7. Held(a.attrs, "localId") = <<u>>
  <2>1. Held(both, "localId") = <<u>>
    BY <1>2, <1>5
  <2> QED
    BY <1>1, <1>3, <1>6, <2>1
<1>8. Held(a.attrs, "passwordHash") \in {<< >>, <<"REDACTED">>}
  <2>1. Held(both, "passwordHash") \in {<< >>, <<"REDACTED">>}
    BY <1>2, <1>4, <1>5
  <2> QED
    BY <1>1, <1>3, <1>6, <2>1
<1> QED
  BY <1>1, <1>7, <1>8 DEF a, s

\* A user changed is the one asked for.
LEMMA ChangedShown ==
  ASSUME NEW p \in UpdateInputs, NEW u, AskedUpdate(u, p).refusal = "ok", NEW account, IsAccountOf(u, account)
  PROVE  /\ UserRecord(SetAccount(account, AskedUpdate(u, p).request)) = Store!Changed(UserRecord(account), p)
         /\ IsAccountOf(u, SetAccount(account, AskedUpdate(u, p).request))
<1> DEFINE q == RedirectLink(p)
           x == q.attrs
           r == updateExistingAccount(u, q)
           s == KnownPart(r)
           list == p.factors.list
           a == SetAccount(account, s)
           L == {q.link[i] : i \in DOMAIN q.link}
           sent == {SentLink(l) : l \in L}
           linked == {Only(l, Store!LinkedFields) : l \in L}
           P == account.providers
           gone == UnlinkedProviders(q)
           shown == {UserInfo(y) : y \in P}
           old == UserRecord(account)
           new == Store!Changed(old, p)
<1>1. IsRequest(p, UpdateRequest)
  BY InputsAreTyped DEF InputsAreTyped
<1>2. /\ DOMAIN p.attrs \subseteq UpdateRequest /\ AreFactors(list) /\ IsList(list) /\ IsList(p.unlink)
      /\ p.factors.given \in {"no", "null", "list"} /\ (p.factors.given # "list" => list = << >>)
  BY <1>1 DEF IsRequest, AreFactors, IsList
<1>3. /\ AskedUpdate(u, p).request = s /\ PropertiesRefusal(u, q) = "ok"
      /\ validateCreateEditRequest(r, FALSE) = "ok"
  BY AcceptedUpdate
<1>4. /\ Store!LinkedProviders(p) = linked
      /\ IsList(q.link) /\ \A i \in DOMAIN q.link : DOMAIN q.link[i] \subseteq UserProvider
      /\ q.factors = p.factors /\ q.unlink = p.unlink
  BY <1>1, LinkedAre
<1>5. /\ ToSet(s.link) = sent /\ s.deleteProvider = gone
      /\ r.link = [i \in DOMAIN q.link |-> Rename(q.link[i], "uid", "rawId")]
      /\ r.providers = << >>
      /\ r.factors = IF q.factors.given = "list" THEN Each(convertMultiFactorInfoToServerFormat, q.factors.list) ELSE << >>
      /\ s.factors = r.factors /\ s.mfa = IF q.factors.given = "no" THEN "keep" ELSE "replace"
  BY LinksSent
<1>6. \A k : k \notin UpdateRequest => Held(x, k) = << >>
  BY <1>2, RedirectedFields
<1>7. /\ Held(a.attrs, "localId") = <<u>> /\ Held(a.attrs, "passwordHash") \in {<< >>, <<"REDACTED">>}
      /\ a.providers = {y \in P : y.providerId \notin s.deleteProvider \cup {l.providerId : l \in ToSet(s.link)}}
                       \cup ToSet(s.link)
      /\ a.mfaInfo = IF s.mfa = "keep" THEN account.mfaInfo ELSE Each(Assigned, s.factors)
  BY <1>6, SetAccountIs
<1>8. gone = Store!ToSet(p.unlink)
             \cup (IF "phoneNumber" \in {k \in DOMAIN Store!++(Store!LinkedAttrs(p), Store!Only(p.attrs, Store!Visible)) :
                                          Store!++(Store!LinkedAttrs(p), Store!Only(p.attrs, Store!Visible))[k] = "null"}
                   THEN {"phone"} ELSE {})
  BY <1>2, UnlinkedAre
<1>9. Verdict(EditChecks, r.attrs) = "ok" => NullsAllowed(x)
  BY NoForbiddenNull
<1>10. NullsAllowed(x) => UserRecord(a).attrs = new.attrs
  BY <1>2, UpdatedAttrs
<1>11. /\ new.providerData = {z \in shown : z.providerId \notin gone \cup {l.providerId : l \in Store!LinkedProviders(p)}}
                             \cup Store!LinkedProviders(p)
       /\ new.multiFactor = IF p.factors.given = "no" THEN MultiFactorSettings(account.mfaInfo)
                            ELSE Store!Each(Store!Enrolled, list)
  <2>1. old.providerData = shown /\ old.multiFactor = MultiFactorSettings(account.mfaInfo)
    BY Zenon DEF UserRecord
  <2> HIDE DEF old, gone, shown
  <2>2. /\ new.providerData =
           {z \in old.providerData : z.providerId \notin gone \cup {l.providerId : l \in Store!LinkedProviders(p)}}
                             \cup Store!LinkedProviders(p)
        /\ new.multiFactor = IF p.factors.given = "no" THEN old.multiFactor ELSE Store!Each(Store!Enrolled, list)
    BY <1>8, Zenon DEF Store!Changed
  <2> QED
    BY <2>1, <2>2
<1>12. new = [attrs |-> new.attrs, providerData |-> new.providerData, multiFactor |-> new.multiFactor]
  <2>1. \E y1, y2, y3 : new = [attrs |-> y1, providerData |-> y2, multiFactor |-> y3]
    BY Zenon DEF Store!Changed
  <2> HIDE DEF new
  <2> QED
    BY <2>1
<1>13. UserRecord(a) = [attrs |-> UserRecord(a).attrs, providerData |-> {UserInfo(y) : y \in a.providers},
                        multiFactor |-> MultiFactorSettings(a.mfaInfo)]
  BY RecordIs
<1> HIDE DEF q, x, r, s, list, a, L, P, gone, shown, old, new
<1>14. IsList(r.link) /\ IsList(r.providers) /\ IsList(r.factors)
  <2>1. \A f : f = [i \in DOMAIN q.link |-> f[i]] => IsList(f)
    BY <1>4, EachIsList
  <2>2. \A f : f = [i \in DOMAIN list |-> f[i]] => IsList(f)
    BY <1>2, EachIsList
  <2>3. r.link = [i \in DOMAIN q.link |-> r.link[i]]
    BY <1>5
  <2>4. r.factors = [i \in DOMAIN list |-> convertMultiFactorInfoToServerFormat(list[i])] \/ r.factors = << >>
    BY <1>4, <1>5 DEF Each, list
  <2> QED
    BY <1>5, <2>1, <2>2, <2>3, <2>4, EmptyList
<1>15. /\ Verdict(EditChecks, r.attrs) = "ok"
       /\ \A i \in DOMAIN r.link : validateProviderUserInfo(r.link[i]) = "ok"
       /\ \A i \in DOMAIN r.factors : validateAuthFactorInfo(r.factors[i]) = "ok"
  BY <1>3, <1>14, RequestAccepted
<1>16. UserRecord(a).attrs = new.attrs
  BY <1>9, <1>10, <1>15
<1>17. \A i \in DOMAIN list : FactorOk(list[i])
  <2>1. CASE p.factors.given = "list"
    <3>1. r.factors = Each(convertMultiFactorInfoToServerFormat, list)
      BY <1>4, <1>5, <2>1 DEF list
    <3>2. \A i \in DOMAIN list : FactorRefusal(list[i]) = "ok"
      BY <1>2, <1>3, <1>4, <2>1, UpdatedFactors DEF list
    <3> QED
      BY <1>2, <1>15, <3>1, <3>2, AcceptedFactors
  <2>2. CASE p.factors.given # "list"
    BY <1>2, <2>2
  <2> QED
    BY <2>1, <2>2
<1>18. \A l \in L : DOMAIN l \subseteq UserProvider /\ Given(l, "providerId")
  <2>1. \A i \in DOMAIN q.link : Given(Rename(q.link[i], "uid", "rawId"), "providerId")
    <3>1. \A i \in DOMAIN q.link : validateProviderUserInfo(Rename(q.link[i], "uid", "rawId")) = "ok"
      BY <1>5, <1>15
    <3> QED
      BY <3>1, ProviderAccepted
  <2>2. ASSUME NEW l, Given(Rename(l, "uid", "rawId"), "providerId")
        PROVE  Given(l, "providerId")
    <3>1. Held(Rename(l, "uid", "rawId"), "providerId") = Held(l, "providerId")
      BY HeldRenamed
    <3> QED
      BY <2>2, <3>1, HeldNothing
  <2> QED
    BY <1>4, <2>1, <2>2 DEF L
<1>19. \A y \in P : Given(y, "providerId")
  BY DEF IsAccountOf, P
<1>20. /\ {UserInfo(y) : y \in a.providers} = new.providerData
       /\ \A y \in a.providers : Given(y, "providerId")
  <2>1. a.providers = Linking(P, gone, SentLinks(L))
    BY <1>5, <1>7 DEF Linking, SentLinks
  <2>2. new.providerData = Linking(Infos(P), gone, LinkedFrom(L))
    BY <1>4, <1>11 DEF Linking, Infos, LinkedFrom, shown
  <2>3. \A l \in L : CanLink(l)
    BY <1>18 DEF CanLink
  <2>4. /\ Infos(Linking(P, gone, SentLinks(L))) = Linking(Infos(P), gone, LinkedFrom(L))
        /\ \A y \in Linking(P, gone, SentLinks(L)) : Given(y, "providerId")
    BY <1>19, <2>3, ProvidersShown
  <2> QED
    BY <2>1, <2>2, <2>4 DEF Infos
<1>21. MultiFactorSettings(a.mfaInfo) = new.multiFactor
  BY <1>2, <1>4, <1>5, <1>7, <1>11, <1>17, ChangedFactors, SMTT(30) DEF list
<1>22. UserRecord(a) = new
  BY <1>12, <1>13, <1>16, <1>20, <1>21
<1>23. IsAccountOf(u, a)
  BY <1>7, <1>20, AccountIsOf
<1> QED
  BY <1>3, <1>22, <1>23 DEF a, new, old

\* The claims the SDK accepts.
LEMMA AcceptedClaims ==
  ASSUME NEW u, NEW c \in ClaimInputs, AskedClaims(u, c).refusal = "ok"
  PROVE  c \in {"null", "admin"} /\ AskedClaims(u, c).request = setCustomUserClaims(u, c)
<1> DEFINE early == ClaimsRefusal(u, c)
           r == setCustomUserClaims(u, IF early = "ok" THEN c ELSE "null")
           w == SetAccountInfoRefusal(r)
           n == Require(u \in Uid, "INVALID_UID")
           m == Require(c # "bad", "INVALID_ARGUMENT")
<1>1. AskedClaims(u, c).request = r /\ AskedClaims(u, c).refusal = FirstRefusal(<<early, w>>)
  BY Zenon DEF AskedClaims, Asked
<1>2. early = FirstRefusal(<<n, m>>)
  BY DEF ClaimsRefusal
<1>3. early = "ok" /\ w = "ok"
  <2>1. FirstRefusal(<<early, w>>) = "ok"
    BY <1>1
  <2> HIDE DEF early, w
  <2> QED
    BY <2>1, NeitherRefusal
<1>4. c # "bad"
  <2>1. m = "ok"
    <3> HIDE DEF n, m, early
    <3> QED
      BY <1>2, <1>3, NeitherRefusal
  <2> QED
    BY <2>1 DEF Require
<1>5. r = setCustomUserClaims(u, c)
  <2> HIDE DEF early
  <2> QED
    BY <1>3
<1> DEFINE x == Field("localId", u) ++ Field("customAttributes", JsonOf[c])
<1>6. r.attrs = x
  BY <1>5, Zenon DEF setCustomUserClaims, EmptyRequest
<1>7. r.providers = << >> /\ r.link = << >> /\ r.factors = << >>
  BY <1>5, Zenon DEF setCustomUserClaims, EmptyRequest
<1> HIDE DEF r
<1>8. validateCreateEditRequest(r, FALSE) = "ok"
  <2>1. ASSUME NEW y, SetAccountInfoRefusal(y) = "ok"
        PROVE  validateCreateEditRequest(y, FALSE) = "ok"
    <3> DEFINE e == Require(Given(y.attrs, "localId"), "INTERNAL_ERROR")
               f == Require(~Given(y.attrs, "tenantId"), "INVALID_ARGUMENT")
               g == validateCreateEditRequest(y, FALSE)
    <3>1. FirstRefusal(<<e, f, g>>) = "ok"
      BY <2>1 DEF SetAccountInfoRefusal
    <3> HIDE DEF e, f, g
    <3>2. g = "ok"
      BY <3>1, NoneRefuses
    <3> QED
      BY <3>2 DEF g
  <2> QED
    BY <1>3, <2>1
<1>9. Verdict(EditChecks, r.attrs) = "ok"
  BY <1>7, <1>8, EmptyList, RequestAccepted
<1>10. Held(x, "customAttributes") = <<JsonOf[c]>>
  <2> DEFINE f == Field("localId", u)
             g == Field("customAttributes", JsonOf[c])
  <2>1. Held(f, "customAttributes") = << >>
    BY HeldField
  <2>2. Held(g, "customAttributes") = <<JsonOf[c]>>
    BY HeldField
  <2> HIDE DEF f, g
  <2>3. Held(f ++ g, "customAttributes") = <<JsonOf[c]>>
    BY <2>1, <2>2, HeldOver
  <2> QED
    BY <2>3 DEF f, g
<1> HIDE DEF x
<1>11. Given(x, "customAttributes") /\ x["customAttributes"] = JsonOf[c]
  BY <1>10 DEF Held
<1>12. JsonOf[c] \in {"{}", "{admin}"}
  BY <1>6, <1>9, <1>11, EditAccepted
<1>13. c \in DOMAIN JsonOf
  BY <1>4, InputsAreTyped DEF InputsAreTyped
<1>14. c \in {"null", "admin"}
  BY <1>12, <1>13, ConvertedAndBack
<1> QED
  BY <1>1, <1>5, <1>14

\* A verdict and a list of them without a refusal.
LEMMA OneListAccepted ==
  ASSUME NEW v, NEW S, NEW s \in Seq(S), FirstRefusal(<<v>> \o s) = "ok"
  PROVE  v = "ok" /\ AllOk(s)
<1> DEFINE a == <<v>>
           b == a \o s
<1>1. a \in Seq({v}) /\ Len(a) = 1 /\ a[1] = v
  OBVIOUS
<1> HIDE DEF a
<1>2. b \in Seq({v} \cup S) /\ (AllOk(b) => AllOk(a) /\ AllOk(s))
  BY <1>1, BothOk
<1>3. FirstRefusal(b) = "ok"
  BY DEF b, a
<1> HIDE DEF b
<1>4. Len(b) \in Nat
  BY <1>2
<1>5. AllOk(b)
  BY <1>3, <1>4, NoRefusal DEF AllOk
<1>6. AllOk(a) => v = "ok"
  BY <1>1 DEF AllOk
<1> QED
  BY <1>2, <1>5, <1>6

-----------------------------------------------------------------------------
(* Users imported. *)

\* What the request holds of a user to import.
LEMMA ImportSends ==
  ASSUME NEW w
  PROVE  LET r == populateUploadAccountUser(w)
         IN /\ Held(r.attrs, "localId") = Held(w.attrs, "uid")
            /\ Given(w.attrs, "customClaims") =>
                 Held(r.attrs, "customAttributes") = <<JsonOf[w.attrs["customClaims"]]>>
            /\ r.providers = [i \in DOMAIN w.providerData |-> ImportedProvider(w.providerData[i])]
            /\ r.link = << >> /\ r.factors = Each(convertMultiFactorInfoToServerFormat, w.factors)
<1> DEFINE x == w.attrs
           y == ConvertedFields(x)
           r == populateUploadAccountUser(w)
           f == RenameBack(y, WireNames)
<1>1. /\ r.attrs = f /\ r.link = << >> /\ r.factors = Each(convertMultiFactorInfoToServerFormat, w.factors)
  BY Zenon DEF populateUploadAccountUser, ConvertedFields, Times
<1>2. r.providers = [i \in DOMAIN w.providerData |-> ImportedProvider(w.providerData[i])]
  BY DEF populateUploadAccountUser, Each, ImportedProvider
<1>3. /\ \A k : k \notin Times \cup {"customClaims"} => Held(y, k) = Held(x, k)
      /\ \A k : ~Given(x, k) => Held(y, k) = << >>
      /\ Given(x, "customClaims") => Held(y, "customClaims") = <<JsonOf[x["customClaims"]]>>
      /\ \A k \in Times : Given(x, k) => Held(y, k) = <<IsoOf[x[k]]>>
  BY FieldsConverted
<1> HIDE DEF y, x
<1>4. \A k : Held(f, k) = IF k \in DOMAIN WireNames THEN Held(y, WireNames[k]) ELSE << >>
  BY HeldRenamedBack, Zenon
<1>5. /\ {"localId", "customAttributes"} \subseteq DOMAIN WireNames
      /\ WireNames["localId"] = "uid" /\ WireNames["customAttributes"] = "customClaims"
  BY DEF WireNames
<1> HIDE DEF f, r
<1>6. Held(f, "localId") = Held(y, "uid") /\ Held(f, "customAttributes") = Held(y, "customClaims")
  BY <1>4, <1>5
<1>7. Held(y, "uid") = Held(x, "uid")
  BY <1>3 DEF Times
<1>8. Given(x, "customClaims") => Held(y, "customClaims") = <<JsonOf[x["customClaims"]]>>
  BY <1>3
<1>9. Held(r.attrs, "localId") = Held(x, "uid") /\ Held(r.attrs, "customAttributes") = Held(y, "customClaims")
  BY <1>1, <1>6, <1>7
<1> QED
  BY <1>1, <1>2, <1>8, <1>9 DEF r, x

\* What the SDK accepts of a user to import.
LEMMA AcceptedImport ==
  ASSUME NEW w, IsUserImportRecord(w), UserRefusal(w) = "ok"
  PROVE  LET r == populateUploadAccountUser(w)
         IN /\ validateCreateEditRequest(r, TRUE) = "ok"
            /\ \A i \in DOMAIN w.factors : FactorRefusal(w.factors[i]) = "ok"
<1> DEFINE v == PasswordRefusal(w)
           s == Each(FactorRefusal, w.factors)
           early == FirstRefusal(<<v>> \o s)
           z == validateCreateEditRequest(populateUploadAccountUser(w), TRUE)
<1>1. UserRefusal(w) = IF early # "ok" THEN early ELSE z
  BY Zenon DEF UserRefusal
<1>2. early = "ok" /\ z = "ok"
  <2> HIDE DEF early, z
  <2> QED
    BY <1>1
<1>3. IsList(w.factors)
  BY DEF IsUserImportRecord, AreFactors, IsList
<1>4. s = [i \in DOMAIN w.factors |-> FactorRefusal(w.factors[i])]
  BY DEF Each
<1>5. s = [i \in DOMAIN w.factors |-> s[i]]
  BY <1>4
<1> HIDE DEF s, v, z
<1>6. (\E S : s \in Seq(S)) /\ 1..Len(s) = DOMAIN w.factors
  BY <1>3, <1>5, SomeSequence
<1>7. AllOk(s)
  BY <1>2, <1>6, OneListAccepted
<1>8. \A i \in DOMAIN w.factors : s[i] = "ok"
  BY <1>6, <1>7 DEF AllOk
<1> QED
  BY <1>2, <1>4, <1>8 DEF z

\* A user to import that is accepted has an id, and what is sent of it names the id.
LEMMA ImportIsComplete ==
  ASSUME NEW w, IsUserImportRecord(w), UserRefusal(w) = "ok"
  PROVE  LET r == populateUploadAccountUser(w)
         IN /\ Given(w.attrs, "uid") /\ w.attrs["uid"] \in Uid
            /\ Given(r.attrs, "localId") /\ r.attrs["localId"] = w.attrs["uid"]
            /\ ClaimsAccepted(w.attrs)
            /\ \A i \in DOMAIN w.providerData : Given(ImportedProvider(w.providerData[i]), "providerId")
            /\ \A i \in DOMAIN w.factors : FactorOk(w.factors[i])
<1> DEFINE x == w.attrs
           r == populateUploadAccountUser(w)
           o == Requiring(r.attrs, {"localId"})
<1>1. /\ validateCreateEditRequest(r, TRUE) = "ok"
      /\ \A i \in DOMAIN w.factors : FactorRefusal(w.factors[i]) = "ok"
  BY AcceptedImport
<1>2. /\ Held(r.attrs, "localId") = Held(x, "uid")
      /\ Given(x, "customClaims") => Held(r.attrs, "customAttributes") = <<JsonOf[x["customClaims"]]>>
      /\ r.providers = [i \in DOMAIN w.providerData |-> ImportedProvider(w.providerData[i])]
      /\ r.link = << >> /\ r.factors = Each(convertMultiFactorInfoToServerFormat, w.factors)
  BY ImportSends
<1>3. AreFactors(w.factors) /\ IsList(w.factors) /\ IsList(w.providerData)
  BY DEF IsUserImportRecord, AreFactors, IsList
<1> HIDE DEF r, x
<1>4. IsList(r.providers) /\ IsList(r.link) /\ IsList(r.factors)
  <2>1. \A f : f = [i \in DOMAIN w.providerData |-> f[i]] => IsList(f)
    BY <1>3, EachIsList
  <2>2. \A f : f = [i \in DOMAIN w.factors |-> f[i]] => IsList(f)
    BY <1>3, EachIsList
  <2>3. r.providers = [i \in DOMAIN w.providerData |-> r.providers[i]]
    BY <1>2
  <2>4. r.factors = [i \in DOMAIN w.factors |-> convertMultiFactorInfoToServerFormat(w.factors[i])]
    BY <1>2 DEF Each
  <2> QED
    BY <1>2, <2>1, <2>2, <2>3, <2>4, EmptyList
<1>5. /\ Verdict(EditChecks, o) = "ok"
      /\ \A i \in DOMAIN r.providers : validateProviderUserInfo(r.providers[i]) = "ok"
      /\ \A i \in DOMAIN r.factors : validateAuthFactorInfo(r.factors[i]) = "ok"
  BY <1>1, <1>4, RequestAccepted
<1>6. /\ Given(o, "localId") => o["localId"] \in Uid
      /\ Given(o, "customAttributes") => o["customAttributes"] \in {"{}", "{admin}"}
  BY <1>5, EditAccepted
<1>7. Given(r.attrs, "localId") /\ r.attrs["localId"] \in Uid
  <2>1. "undefined" \notin Uid
    BY ValuesAreGiven
  <2>2. /\ Given(o, "localId")
        /\ o["localId"] \in Uid => Given(r.attrs, "localId") /\ r.attrs["localId"] \in Uid
    BY <2>1, RequiredGiven
  <2> HIDE DEF o
  <2> QED
    BY <1>6, <2>2
<1>8. Given(x, "uid") /\ x["uid"] \in Uid /\ r.attrs["localId"] = x["uid"]
  <2>1. Held(x, "uid") = <<r.attrs["localId"]>>
    BY <1>2, <1>7, HeldNothing
  <2>2. Given(x, "uid")
    BY <2>1, HeldNothing
  <2>3. Held(x, "uid") = <<x["uid"]>>
    BY <2>2, HeldNothing
  <2> QED
    BY <1>7, <2>1, <2>2, <2>3
<1>9. ClaimsAccepted(x)
  <2> DEFINE json == JsonOf[x["customClaims"]]
  <2>1. Given(x, "customClaims") => Held(r.attrs, "customAttributes") = <<json>>
    BY <1>2
  <2> HIDE DEF json
  <2>2. Given(x, "customClaims") => Given(r.attrs, "customAttributes") /\ r.attrs["customAttributes"] = json
    BY <2>1, HeldNothing
  <2>3. Given(x, "customClaims") => Given(o, "customAttributes") /\ o["customAttributes"] = json
    BY <2>2, GivenStays
  <2> HIDE DEF o
  <2>4. Given(x, "customClaims") => json \in {"{}", "{admin}"}
    BY <1>6, <2>3
  <2> QED
    BY <2>4 DEF ClaimsAccepted, json
<1>10. \A i \in DOMAIN w.providerData : Given(ImportedProvider(w.providerData[i]), "providerId")
  BY <1>2, <1>5, ProviderAccepted
<1>11. \A i \in DOMAIN w.factors : FactorOk(w.factors[i])
  BY <1>1, <1>2, <1>3, <1>5, AcceptedFactors
<1> QED
  BY <1>7, <1>8, <1>9, <1>10, <1>11 DEF r, x

\* A user imported is the one given.
LEMMA ImportedShown ==
  ASSUME NEW w, IsUserImportRecord(w), UserRefusal(w) = "ok", NEW u, u = w.attrs["uid"]
  PROVE  LET a == NewAccount(u, populateUploadAccountUser(w))
         IN UserRecord(a) = Store!Imported(w) /\ IsAccountOf(u, a)
<1> DEFINE r == populateUploadAccountUser(w)
           a == NewAccount(u, r)
           new == Store!Imported(w)
           list == w.factors
           shown == {Store!Without(q, {"phoneNumber"}) : q \in Store!ToSet(w.providerData)}
<1>1. /\ Given(w.attrs, "uid") /\ w.attrs["uid"] \in Uid
      /\ Given(r.attrs, "localId") /\ r.attrs["localId"] = w.attrs["uid"]
      /\ ClaimsAccepted(w.attrs)
      /\ \A i \in DOMAIN w.providerData : Given(ImportedProvider(w.providerData[i]), "providerId")
      /\ \A i \in DOMAIN list : FactorOk(list[i])
  BY ImportIsComplete
<1>2. Has(w.attrs, "uid", u)
  BY <1>1 DEF Has
<1>3. UserRecord(a).attrs = new.attrs
  BY <1>1, <1>2, ImportedAttrs
<1>4. /\ r.providers = [i \in DOMAIN w.providerData |-> ImportedProvider(w.providerData[i])]
      /\ r.factors = Each(convertMultiFactorInfoToServerFormat, list)
  BY ImportSends
<1>5. /\ Held(a.attrs, "localId") = <<u>> /\ Held(a.attrs, "passwordHash") \in {<< >>, <<"REDACTED">>}
      /\ a.providers = ToSet(r.providers) /\ a.mfaInfo = Each(Assigned, r.factors)
  BY NewAccountIs
<1>6. new = [attrs |-> new.attrs, providerData |-> shown, multiFactor |-> Store!Each(Store!Enrolled, list)]
  <2>1. \E x : new = [attrs |-> x, providerData |-> shown, multiFactor |-> Store!Each(Store!Enrolled, list)]
    BY Zenon DEF Store!Imported
  <2> HIDE DEF new
  <2> QED
    BY <2>1
<1>7. UserRecord(a) = [attrs |-> UserRecord(a).attrs, providerData |-> {UserInfo(y) : y \in a.providers},
                       multiFactor |-> MultiFactorSettings(a.mfaInfo)]
  BY RecordIs
<1>8. IsList(list) /\ \A i \in DOMAIN w.providerData : DOMAIN w.providerData[i] \subseteq UserProviderRequest
  BY DEF IsUserImportRecord, AreFactors, IsList
<1> HIDE DEF r, a, new
<1>9. MultiFactorSettings(a.mfaInfo) = Store!Each(Store!Enrolled, list)
  BY <1>1, <1>4, <1>5, <1>8, FactorsShown
<1>10. \A i \in DOMAIN w.providerData :
         UserInfo(ImportedProvider(w.providerData[i])) = Store!Without(w.providerData[i], {"phoneNumber"})
  <2>1. \A i \in DOMAIN w.providerData :
          UserInfo(ImportedProvider(w.providerData[i])) = Without(w.providerData[i], {"phoneNumber"})
    BY <1>8, ImportedProviderShown
  <2>2. \A q : Store!Without(q, {"phoneNumber"}) = Without(q, {"phoneNumber"})
    BY StoreObjects
  <2> QED
    BY <2>1, <2>2
<1>11. a.providers = {ImportedProvider(w.providerData[i]) : i \in DOMAIN w.providerData}
  BY <1>4, <1>5 DEF ToSet
<1>12. {UserInfo(y) : y \in a.providers} = shown
  <2>1. Store!ToSet(w.providerData) = {w.providerData[i] : i \in DOMAIN w.providerData}
    BY DEF Store!ToSet
  <2>2. {UserInfo(y) : y \in a.providers} = {UserInfo(ImportedProvider(w.providerData[i])) : i \in DOMAIN w.providerData}
    BY <1>11
  <2>3. shown = {Store!Without(w.providerData[i], {"phoneNumber"}) : i \in DOMAIN w.providerData}
    BY <2>1
  <2> QED
    BY <1>10, <2>2, <2>3
<1>13. UserRecord(a) = new
  BY <1>3, <1>6, <1>7, <1>9, <1>12
<1>14. \A y \in a.providers : Given(y, "providerId")
  BY <1>1, <1>11
<1>15. IsAccountOf(u, a)
  BY <1>5, <1>14, AccountIsOf
<1> QED
  BY <1>13, <1>15 DEF a, r, new

\* A record is not the mark of a user there is none of.
LEMMA RecordIsSome ==
  ASSUME NEW a
  PROVE  UserRecord(a) # NoAccount
<1>1. "attrs" \in DOMAIN UserRecord(a)
  <2>1. \E x, y, z : UserRecord(a) = [attrs |-> x, providerData |-> y, multiFactor |-> z]
    BY Zenon DEF UserRecord
  <2> QED
    BY <2>1
<1>2. "attrs" \notin DOMAIN NoAccount
  BY DEF NoAccount
<1> QED
  BY <1>1, <1>2

-----------------------------------------------------------------------------
(* Calls under way. *)

\* A request under way is one the SDK made of what some call was given.
SentAsAsked(op, request) ==
  /\ op = "create" => \E p \in CreateInputs : AskedCreate(p).refusal = "ok" /\ request = AskedCreate(p).request
  /\ op = "update" => \E u \in Uid, p \in UpdateInputs :
                        AskedUpdate(u, p).refusal = "ok" /\ request = AskedUpdate(u, p).request
  /\ op = "claims" => \E u \in Uid, c \in ClaimInputs :
                        AskedClaims(u, c).refusal = "ok" /\ request = AskedClaims(u, c).request
  /\ op = "revoke" => \E u \in Uid : request = revokeRefreshTokens(u)
  /\ op = "delete" => \E u \in Uid : request = [localId |-> u]
  /\ op = "import" => \E list \in ImportLists : request = populateUsers(list)

CallsAsAsked == \A c \in Client : call[c] # NoCall => SentAsAsked(call[c].op, call[c].request)

\* A call replaced by one that is as asked.
LEMMA CallReplaced ==
  ASSUME CallsAsAsked, NEW c \in Client, NEW k, call' = [call EXCEPT ![c] = k], DOMAIN call = Client,
         k # NoCall => SentAsAsked(k.op, k.request)
  PROVE  CallsAsAsked'
<1> HIDE DEF NoCall
<1> QED
  BY DEF CallsAsAsked

\* A call asked for is sent as asked.
LEMMA AskedAsGiven ==
  ASSUME CallsAsAsked, DOMAIN call = Client, NEW c \in Client, NEW a, Ask(c, a),
         a.refusal = "ok" => SentAsAsked(a.op, a.request)
  PROVE  CallsAsAsked'
<1> DEFINE k == [op |-> a.op, input |-> a.input, request |-> a.request,
                 phase |-> "sent", tries |-> 0, response |-> NoResponse]
<1>1. CASE a.refusal # "ok"
  <2>1. call' = call
    BY <1>1 DEF Ask
  <2> QED
    BY <2>1 DEF CallsAsAsked
<1>2. CASE a.refusal = "ok"
  <2>1. call' = [call EXCEPT ![c] = k]
    BY <1>2 DEF Ask
  <2>2. k.op = a.op /\ k.request = a.request
    OBVIOUS
  <2> HIDE DEF k
  <2> QED
    BY <1>2, <2>1, <2>2, CallReplaced
<1> QED
  BY <1>1, <1>2

\* The calls that change nothing, and those the server answers alone.
LEMMA OtherAsked ==
  ASSUME NEW op, op \notin {"create", "update", "claims", "revoke", "delete", "import"}
  PROVE  \A request : SentAsAsked(op, request)
BY DEF SentAsAsked

\* Whatever the clients ask, the calls under way are as asked.
LEMMA AskKeepsCalls ==
  ASSUME CallsAsAsked, DOMAIN call = Client, NEW c \in Client,
         \/ createUser(c) \/ updateUser(c) \/ SetClaims(c) \/ Revoke(c) \/ deleteUser(c)
         \/ getUser(c) \/ listUsers(c) \/ createSessionCookie(c) \/ generateEmailLink(c)
         \/ deleteUsers(c) \/ getUsers(c) \/ importUsers(c)
  PROVE  CallsAsAsked'
<1>1. CASE createUser(c)
  <2>1. PICK p \in CreateInputs : Ask(c, AskedCreate(p))
    BY <1>1 DEF createUser, CreateCalls
  <2>2. AskedCreate(p).op = "create"
    BY Zenon DEF AskedCreate, Asked
  <2>3. AskedCreate(p).refusal = "ok" => SentAsAsked("create", AskedCreate(p).request)
    BY DEF SentAsAsked
  <2> QED
    BY <2>1, <2>2, <2>3, AskedAsGiven
<1>2. CASE updateUser(c)
  <2>1. PICK u \in Uid, p \in UpdateInputs : Ask(c, AskedUpdate(u, p))
    BY <1>2 DEF updateUser, UpdateCalls
  <2>2. AskedUpdate(u, p).op = "update"
    BY Zenon DEF AskedUpdate, Asked
  <2>3. AskedUpdate(u, p).refusal = "ok" => SentAsAsked("update", AskedUpdate(u, p).request)
    BY DEF SentAsAsked
  <2> QED
    BY <2>1, <2>2, <2>3, AskedAsGiven
<1>3. CASE SetClaims(c)
  <2>1. PICK u \in Uid, claims \in ClaimInputs : Ask(c, AskedClaims(u, claims))
    BY <1>3 DEF SetClaims
  <2>2. AskedClaims(u, claims).op = "claims"
    BY Zenon DEF AskedClaims, Asked
  <2>3. AskedClaims(u, claims).refusal = "ok" => SentAsAsked("claims", AskedClaims(u, claims).request)
    BY DEF SentAsAsked
  <2> QED
    BY <2>1, <2>2, <2>3, AskedAsGiven
<1>4. CASE Revoke(c)
  <2>1. PICK u \in Uid : Ask(c, Asked("revoke", u, UidRefusal(u), revokeRefreshTokens(u)))
    BY <1>4 DEF Revoke
  <2> DEFINE a == Asked("revoke", u, UidRefusal(u), revokeRefreshTokens(u))
  <2>2. a.op = "revoke" /\ a.request = revokeRefreshTokens(u)
    BY DEF Asked
  <2>3. SentAsAsked("revoke", revokeRefreshTokens(u))
    BY DEF SentAsAsked
  <2> HIDE DEF a
  <2> QED
    BY <2>1, <2>2, <2>3, AskedAsGiven DEF a
<1>5. CASE deleteUser(c)
  <2>1. PICK u \in Uid : Ask(c, Asked("delete", u, UidRefusal(u), [localId |-> u]))
    BY <1>5 DEF deleteUser
  <2> DEFINE a == Asked("delete", u, UidRefusal(u), [localId |-> u])
  <2>2. a.op = "delete" /\ a.request = [localId |-> u]
    BY DEF Asked
  <2>3. SentAsAsked("delete", [localId |-> u])
    BY DEF SentAsAsked
  <2> HIDE DEF a
  <2> QED
    BY <2>1, <2>2, <2>3, AskedAsGiven DEF a
<1> DEFINE Others == {"get", "list", "cookie", "link", "deleteBatch", "lookup"}
<1>6. \A op \in Others : \A input, refusal, request : Ask(c, Asked(op, input, refusal, request)) => CallsAsAsked'
  <2>1. \A op \in Others : \A input, refusal, request :
          SentAsAsked(Asked(op, input, refusal, request).op, Asked(op, input, refusal, request).request)
    BY OtherAsked DEF Asked
  <2> QED
    BY <2>1, AskedAsGiven
<1>7. CASE getUser(c) \/ listUsers(c) \/ createSessionCookie(c) \/ generateEmailLink(c)
  <2>1. \A input, refusal, request :
          (\/ Ask(c, Asked("list", input, refusal, request)) \/ Ask(c, Asked("cookie", input, refusal, request))
           \/ Ask(c, Asked("link", input, refusal, request)) \/ Ask(c, Asked("get", input, refusal, request))) => CallsAsAsked'
    BY <1>6
  <2> HIDE DEF CallsAsAsked
  <2>2. getUser(c) => CallsAsAsked'
    BY <2>1, Zenon DEF getUser
  <2>3. listUsers(c) => CallsAsAsked'
    BY <2>1, Zenon DEF listUsers
  <2>4. ASSUME createSessionCookie(c)
        PROVE  CallsAsAsked'
    <3> DEFINE Request(k) == [idToken |-> k.idToken, validDuration |-> k.expiresIn \div 1000]
    <3>1. PICK k \in Cookies : Ask(c, Asked("cookie", k, SessionCookieRefusal(k.idToken, k.expiresIn), Request(k)))
      BY <2>4 DEF createSessionCookie
    <3> HIDE DEF Request
    <3> QED
      BY <2>1, <3>1
  <2>5. generateEmailLink(c) => CallsAsAsked'
    BY <2>1, Zenon DEF generateEmailLink
  <2> QED
    BY <1>7, <2>2, <2>3, <2>4, <2>5
<1>8. CASE deleteUsers(c) \/ getUsers(c)
  <2>1. ASSUME NEW op \in Others, NEW input, NEW refusal, NEW request, NEW response,
               AskOrAnswer(c, Asked(op, input, refusal, request), input, response)
        PROVE  CallsAsAsked'
    <3>1. CASE input # << >>
      BY <1>6, <2>1, <3>1 DEF AskOrAnswer
    <3>2. CASE input = << >>
      <4> DEFINE a == Asked(op, input, refusal, request)
                 k == [op |-> a.op, input |-> a.input, request |-> a.request,
                       phase |-> "answered", tries |-> MaxRetries, response |-> response]
      <4>1. call' = [call EXCEPT ![c] = k]
        BY <2>1, <3>2 DEF AskOrAnswer
      <4>2. k.op = op
        BY DEF Asked
      <4>3. SentAsAsked(k.op, k.request)
        BY <4>2, OtherAsked
      <4> HIDE DEF k
      <4> QED
        BY <4>1, <4>3, CallReplaced
    <3> QED
      BY <3>1, <3>2
  <2>2. deleteUsers(c) => CallsAsAsked'
    BY <2>1 DEF deleteUsers
  <2>3. getUsers(c) => CallsAsAsked'
    BY <2>1 DEF getUsers
  <2> QED
    BY <1>8, <2>2, <2>3
<1>9. CASE importUsers(c)
  <2>1. PICK list \in ImportLists, options \in ImportOptions :
          call' = call \/ Ask(c, AskedImport(list, options))
    BY <1>9 DEF importUsers, ImportCalls
  <2> DEFINE a == AskedImport(list, options)
  <2>2. a.op = "import" /\ a.request = populateUsers(list)
    BY Zenon DEF AskedImport, Asked
  <2>3. SentAsAsked("import", populateUsers(list))
    BY DEF SentAsAsked
  <2> HIDE DEF a
  <2>4. CASE call' = call
    BY <2>4 DEF CallsAsAsked
  <2>5. CASE Ask(c, a)
    BY <2>2, <2>3, <2>5, AskedAsGiven
  <2> QED
    BY <2>1, <2>4, <2>5 DEF a
<1> QED
  BY <1>1, <1>2, <1>3, <1>4, <1>5, <1>7, <1>8, <1>9

\* The server answers the call it serves and touches no other.
LEMMA ServeAnswers ==
  ASSUME NEW c \in Client, Serve(c)
  PROVE  \E response : Answered(c, response)
<1>1. \/ ServeCreate(c) \/ ServeUpdate(c) \/ ServeDelete(c) \/ ServeDeleteBatch(c) \/ ServeImport(c)
      \/ ServeList(c) \/ ServePlain(c) \/ ServeLookup(c)
  BY DEF Serve
<1>2. CASE ServeCreate(c)
  BY <1>2 DEF ServeCreate, Fault
<1>3. CASE ServeUpdate(c)
  BY <1>3 DEF ServeUpdate, Fault
<1>4. CASE ServeDelete(c)
  BY <1>4 DEF ServeDelete, Fault
<1>5. CASE ServeDeleteBatch(c) \/ ServeImport(c)
  BY <1>5, Zenon DEF ServeDeleteBatch, ServeImport
<1>6. CASE ServeList(c)
  BY <1>6, Zenon DEF ServeList
<1>7. CASE ServePlain(c) \/ ServeLookup(c)
  BY <1>7, Zenon DEF ServePlain, ServeLookup
<1> QED
  BY <1>1, <1>2, <1>3, <1>4, <1>5, <1>6, <1>7

\* Answers and repeats leave the request, what reads back or ends a call asks nothing more.
LEMMA AnswerKeepsCalls ==
  ASSUME UsersInv, CallsAsAsked, NEW c \in Client,
         \/ Serve(c) \/ LoseAnswer(c) \/ ReturnFault(c) \/ ReadBack(c)
         \/ ReturnUser(c) \/ ReturnPage(c) \/ ReturnLookup(c) \/ ReturnDeleted(c) \/ ReturnImported(c)
         \/ ReturnNothing(c)
  PROVE  CallsAsAsked'
<1> DEFINE k == call[c]
<1>1. DOMAIN call = Client /\ (call[c] # NoCall => DOMAIN k = UserCallFields /\ SentAsAsked(k.op, k.request))
  BY DEF UsersInv, CallsAsAsked, CallOk
<1>2. CASE Serve(c)
  <2>1. PICK response : Answered(c, response)
    BY <1>2, ServeAnswers
  <2> DEFINE answered == [k EXCEPT !.response = response, !.phase = "answered"]
  <2>2. call' = [call EXCEPT ![c] = answered]
    BY <1>1, <2>1 DEF Answered
  <2>3. DOMAIN k = UserCallFields /\ SentAsAsked(k.op, k.request)
    BY <1>1, <1>2 DEF Serve
  <2>4. answered.op = k.op /\ answered.request = k.request
    BY <2>3 DEF UserCallFields
  <2> HIDE DEF answered
  <2> QED
    BY <1>1, <2>2, <2>3, <2>4, CallReplaced
<1>3. \A outcome : Return(c, outcome) => CallsAsAsked'
  <2> TAKE outcome
  <2> HAVE Return(c, outcome)
  <2>1. call' = [call EXCEPT ![c] = NoCall]
    BY DEF Return
  <2> HIDE DEF NoCall
  <2> QED
    BY <1>1, <2>1, CallReplaced
<1>4. CASE LoseAnswer(c)
  <2> DEFINE again == [k EXCEPT !.phase = "sent", !.tries = @ + 1]
  <2>1. call' = [call EXCEPT ![c] = again] \/ \E outcome : Return(c, outcome)
    BY <1>1, <1>4 DEF LoseAnswer
  <2>2. DOMAIN k = UserCallFields /\ SentAsAsked(k.op, k.request)
    BY <1>1, <1>4 DEF LoseAnswer, HasAnswer
  <2>3. again.op = k.op /\ again.request = k.request
    BY <2>2 DEF UserCallFields
  <2> HIDE DEF again
  <2> QED
    BY <1>1, <1>3, <2>1, <2>2, <2>3, CallReplaced
<1>5. CASE ReadBack(c)
  <2> DEFINE next == [op |-> IF call[c].op = "create" THEN "created" ELSE "updated", input |-> call[c].input,
                      request |-> LookupRequest(<<[kind |-> "uid", value |-> call[c].response.localId]>>),
                      phase |-> "sent", tries |-> 0, response |-> NoResponse]
  <2>1. call' = [call EXCEPT ![c] = next]
    BY <1>5 DEF ReadBack
  <2>2. next.op \in {"created", "updated"}
    OBVIOUS
  <2> HIDE DEF next
  <2>3. SentAsAsked(next.op, next.request)
    BY <2>2, OtherAsked
  <2> QED
    BY <1>1, <2>1, <2>3, CallReplaced
<1>6. CASE ReturnFault(c) \/ ReturnUser(c) \/ ReturnPage(c) \/ ReturnLookup(c) \/ ReturnDeleted(c)
           \/ ReturnImported(c) \/ ReturnNothing(c)
  <2>1. \E outcome : Return(c, outcome)
    <3>1. ReturnFault(c) \/ ReturnUser(c) \/ ReturnPage(c) \/ ReturnNothing(c) => \E outcome : Return(c, outcome)
      BY Zenon DEF ReturnFault, ReturnUser, ReturnPage, ReturnNothing
    <3>2. ReturnLookup(c) \/ ReturnDeleted(c) \/ ReturnImported(c) => \E outcome : Return(c, outcome)
      BY Zenon DEF ReturnLookup, ReturnDeleted, ReturnImported
    <3> QED
      BY <1>6, <3>1, <3>2
  <2> QED
    BY <1>3, <2>1
<1> QED
  BY <1>2, <1>4, <1>5, <1>6

-----------------------------------------------------------------------------
(* What the server does, as shown to the callers. *)

AccountsAreTheirs == \A u \in Uid : accounts[u] # NoAccount => IsAccountOf(u, accounts[u])

\* The users a stock of accounts shows.
UsersShown(stock) == [u \in Uid |-> IF stock[u] = NoAccount THEN NoAccount ELSE UserRecord(stock[u])]

OneSet(f, u, a) == [f EXCEPT ![u] = a]

\* An account set is shown as a user set.
LEMMA ShownSet ==
  ASSUME NEW stock, DOMAIN stock = Uid, NEW u \in Uid, NEW a, a # NoAccount
  PROVE  /\ UsersShown(OneSet(stock, u, a)) = OneSet(UsersShown(stock), u, UserRecord(a))
         /\ stock[u] # NoAccount => UsersShown(stock)[u] = UserRecord(stock[u])
         /\ stock[u] = NoAccount => UsersShown(stock)[u] = NoAccount
<1> HIDE DEF NoAccount
<1> QED
  BY DEF UsersShown, OneSet

\* An account the server makes or changes is not the mark of none.
LEMMA NewAccountIsSome ==
  ASSUME NEW u, NEW r
  PROVE  NewAccount(u, r) # NoAccount
<1>1. \E x, y, z : NewAccount(u, r) = [attrs |-> x, providers |-> y, mfaInfo |-> z]
  BY Zenon DEF NewAccount
<1>2. \A x, y, z : [attrs |-> x, providers |-> y, mfaInfo |-> z] # NoAccount
  <2>1. \A x, y, z : "attrs" \in DOMAIN [attrs |-> x, providers |-> y, mfaInfo |-> z]
    OBVIOUS
  <2>2. "attrs" \notin DOMAIN NoAccount
    BY DEF NoAccount
  <2> QED
    BY <2>1, <2>2
<1> QED
  BY <1>1, <1>2

\* Nor is one it changes.
LEMMA SetAccountIsSome ==
  ASSUME NEW account, NEW r
  PROVE  SetAccount(account, r) # NoAccount
<1>1. \E x, y, z : SetAccount(account, r) = [attrs |-> x, providers |-> y, mfaInfo |-> z]
  BY Zenon DEF SetAccount
<1>2. \A x, y, z : [attrs |-> x, providers |-> y, mfaInfo |-> z] # NoAccount
  <2>1. \A x, y, z : "attrs" \in DOMAIN [attrs |-> x, providers |-> y, mfaInfo |-> z]
    OBVIOUS
  <2>2. "attrs" \notin DOMAIN NoAccount
    BY DEF NoAccount
  <2> QED
    BY <2>1, <2>2
<1> QED
  BY <1>1, <1>2

\* The user id a request to create names is the one asked for.
LEMMA CreateNames ==
  ASSUME NEW p \in CreateInputs, NEW r, r = AskedCreate(p).request
  PROVE  Given(p.attrs, "uid") => Given(r.attrs, "localId") /\ r.attrs["localId"] = p.attrs["uid"]
<1> DEFINE x == p.attrs
           y == Rename(x, "photoURL", "photoUrl")
           z == Rename(y, "uid", "localId")
           b == Only(z, ValidKeys)
<1>1. r.attrs = b
  <2>1. r = KnownPart(createNewAccount(p))
    BY Zenon DEF AskedCreate, Asked
  <2> QED
    BY <2>1, Zenon DEF KnownPart, createNewAccount, EmptyRequest
<1> HIDE DEF x
<1>2. \A k : Held(y, k) =
         IF k = "photoUrl" THEN (IF Held(x, "photoURL") = << >> THEN Held(x, "photoUrl") ELSE Held(x, "photoURL"))
                          ELSE IF k = "photoURL" THEN << >> ELSE Held(x, k)
  BY HeldRenamed
<1> HIDE DEF y
<1>3. \A k : Held(z, k) = IF k = "localId" THEN (IF Held(y, "uid") = << >> THEN Held(y, "localId") ELSE Held(y, "uid"))
                          ELSE IF k = "uid" THEN << >> ELSE Held(y, k)
  BY HeldRenamed
<1> HIDE DEF z
<1>4. \A k : Held(b, k) = IF k \in ValidKeys THEN Held(z, k) ELSE << >>
  BY HeldParts
<1> HIDE DEF b
<1>5. "localId" \in ValidKeys
  BY DEF ValidKeys
<1>6. Held(x, "uid") # << >> => Held(b, "localId") = Held(x, "uid")
  BY <1>2, <1>3, <1>4, <1>5
<1>7. Given(x, "uid") => Given(b, "localId") /\ b["localId"] = x["uid"]
  BY <1>6, HeldNothing DEF Held
<1> QED
  BY <1>1, <1>7 DEF x

\* The server creating an account shows as a user created.
LEMMA ServeCreateShown ==
  ASSUME UsersInv, CallsAsAsked, AccountsAreTheirs, NEW c \in Client, Serve(c), call[c].op = "create"
  PROVE  /\ AccountsAreTheirs'
         /\ UsersShown(accounts') = UsersShown(accounts) \/ \E u \in Uid : Store!Create(u)
<1> DEFINE r == call[c].request
<1>1. ServeCreate(c) /\ DOMAIN accounts = Uid
  BY DEF Serve, UsersInv, AccountsOk
<1>2. PICK p \in CreateInputs : AskedCreate(p).refusal = "ok" /\ r = AskedCreate(p).request
  BY DEF Serve, CallsAsAsked, SentAsAsked
<1>3. CASE accounts' = accounts
  BY <1>3 DEF AccountsAreTheirs
<1>4. CASE accounts' # accounts
  <2>1. PICK u \in Uid : /\ accounts[u] = NoAccount /\ (Given(r.attrs, "localId") => u = r.attrs.localId)
                         /\ accounts' = [accounts EXCEPT ![u] = NewAccount(u, r)]
    <3> HIDE DEF r, NoAccount
    <3> QED
      BY <1>1, <1>4 DEF ServeCreate, r
  <2>2. Given(p.attrs, "uid") => p.attrs.uid = u
    BY <1>2, <2>1, CreateNames
  <2> DEFINE a == NewAccount(u, r)
             new == Store!NewUser(u, p)
  <2>3. UserRecord(a) = new /\ IsAccountOf(u, a)
    BY <1>2, <2>2, CreatedShown
  <2>4. a # NoAccount
    BY NewAccountIsSome
  <2> HIDE DEF a, NoAccount, r
  <2>5. AccountsAreTheirs'
    BY <1>1, <2>1, <2>3 DEF AccountsAreTheirs, a
  <2>6. UsersShown(accounts') = [UsersShown(accounts) EXCEPT ![u] = new] /\ UsersShown(accounts)[u] = NoAccount
    <3>1. /\ UsersShown(OneSet(accounts, u, a)) = OneSet(UsersShown(accounts), u, UserRecord(a))
          /\ accounts[u] = NoAccount => UsersShown(accounts)[u] = NoAccount
      BY <1>1, <2>4, ShownSet
    <3>2. accounts' = OneSet(accounts, u, a)
      BY <2>1 DEF OneSet, a
    <3> HIDE DEF new
    <3> QED
      BY <2>1, <2>3, <3>1, <3>2 DEF OneSet
  <2> HIDE DEF new
  <2>7. Store!Create(u)
    <3>1. Store!Given(p.attrs, "uid") => p.attrs.uid = u
      BY <2>2, StoreObjects
    <3> QED
      BY <2>6, <3>1 DEF Store!Create, UsersShown, new
  <2> QED
    BY <2>5, <2>7
<1> QED
  BY <1>3, <1>4

\* A request about a user names it.
LEMMA NamesUser ==
  ASSUME NEW u, NEW o
  PROVE  /\ (Field("localId", u) ++ o).localId = u
         /\ Only(Field("localId", u) ++ o, ValidKeys).localId = u
<1> DEFINE f == Field("localId", u)
           w == f ++ o
           b == Only(w, ValidKeys)
<1>1. Held(f, "localId") = <<u>>
  BY HeldField
<1> HIDE DEF f
<1>2. Held(w, "localId") = <<u>>
  BY <1>1, HeldOver
<1> HIDE DEF w
<1>3. Held(b, "localId") = <<u>>
  BY <1>2, HeldParts DEF ValidKeys
<1> HIDE DEF b
<1> QED
  BY <1>2, <1>3 DEF Held, w, b, f

\* The requests of updates, claims and revocations name the user.
LEMMA UpdateNames ==
  ASSUME NEW u
  PROVE  /\ \A p : AskedUpdate(u, p).request.attrs.localId = u
         /\ \A c : setCustomUserClaims(u, c).attrs.localId = u
         /\ revokeRefreshTokens(u).attrs.localId = u
<1>1. ASSUME NEW p
      PROVE  AskedUpdate(u, p).request.attrs.localId = u
  <2> DEFINE q == RedirectLink(p)
             r == updateExistingAccount(u, q)
  <2>1. AskedUpdate(u, p).request = KnownPart(r)
    BY Zenon DEF AskedUpdate, Asked
  <2>2. \E o : r.attrs = Field("localId", u) ++ o
    BY Zenon DEF updateExistingAccount, EmptyRequest
  <2>3. KnownPart(r).attrs = Only(r.attrs, ValidKeys)
    BY Zenon DEF KnownPart, updateExistingAccount, EmptyRequest
  <2> HIDE DEF r
  <2> QED
    BY <2>1, <2>2, <2>3, NamesUser
<1>2. ASSUME NEW c
      PROVE  setCustomUserClaims(u, c).attrs.localId = u
  <2>1. \E o : setCustomUserClaims(u, c).attrs = Field("localId", u) ++ o
    BY Zenon DEF setCustomUserClaims, EmptyRequest
  <2> QED
    BY <2>1, NamesUser
<1>3. revokeRefreshTokens(u).attrs.localId = u
  <2>1. \E o : revokeRefreshTokens(u).attrs = Field("localId", u) ++ o
    BY Zenon DEF revokeRefreshTokens, EmptyRequest
  <2> QED
    BY <2>1, NamesUser
<1> QED
  BY <1>1, <1>2, <1>3

\* What the server does to one account, and what is then shown.
LEMMA AccountSet ==
  ASSUME UsersInv, AccountsAreTheirs, NEW c \in Client, ServeUpdate(c), NEW u \in Uid, NEW r,
         r = call[c].request, r.attrs.localId = u, accounts' # accounts,
         NEW shown, UserRecord(SetAccount(accounts[u], r)) = shown, IsAccountOf(u, SetAccount(accounts[u], r))
  PROVE  /\ accounts[u] # NoAccount /\ AccountsAreTheirs'
         /\ UsersShown(accounts)[u] = UserRecord(accounts[u])
         /\ UsersShown(accounts') = OneSet(UsersShown(accounts), u, shown)
<1> DEFINE a == SetAccount(accounts[u], r)
<1>1. DOMAIN accounts = Uid
  BY DEF UsersInv, AccountsOk
<1>2. accounts[u] # NoAccount /\ accounts' = OneSet(accounts, u, a)
  <2> HIDE DEF NoAccount
  <2> QED
    BY <1>1 DEF ServeUpdate, OneSet
<1>3. a # NoAccount
  BY SetAccountIsSome
<1>4. UserRecord(a) = shown /\ IsAccountOf(u, a)
  OBVIOUS
<1> HIDE DEF a, NoAccount
<1>5. AccountsAreTheirs'
  BY <1>1, <1>2, <1>4 DEF AccountsAreTheirs, OneSet
<1>6. /\ UsersShown(OneSet(accounts, u, a)) = OneSet(UsersShown(accounts), u, UserRecord(a))
      /\ accounts[u] # NoAccount => UsersShown(accounts)[u] = UserRecord(accounts[u])
  BY <1>1, <1>3, ShownSet
<1> QED
  BY <1>2, <1>4, <1>5, <1>6

\* The server changing an account shows as an update, claims set or tokens revoked.
LEMMA ServeUpdateShown ==
  ASSUME UsersInv, CallsAsAsked, AccountsAreTheirs, NEW c \in Client, Serve(c),
         call[c].op \in {"update", "claims", "revoke"}
  PROVE  /\ AccountsAreTheirs'
         /\ \/ UsersShown(accounts') = UsersShown(accounts)
            \/ \E u \in Uid : Store!Update(u) \/ Store!SetClaims(u) \/ Store!Revoke(u)
<1> DEFINE r == call[c].request
           old == UsersShown(accounts)
           new == UsersShown(accounts')
<1>1. ServeUpdate(c) /\ SentAsAsked(call[c].op, r)
  BY DEF Serve, CallsAsAsked
<1>2. CASE accounts' = accounts
  BY <1>2 DEF AccountsAreTheirs
<1>3. ASSUME accounts' # accounts, NEW u \in Uid, r.attrs.localId = u
      PROVE  accounts[u] # NoAccount
  <2> HIDE DEF NoAccount, r
  <2> QED
    BY <1>1, <1>3 DEF ServeUpdate, r
<1>4. ASSUME accounts' # accounts, call[c].op = "update"
      PROVE  AccountsAreTheirs' /\ \E u \in Uid : Store!Update(u)
  <2>1. PICK u \in Uid, p \in UpdateInputs : AskedUpdate(u, p).refusal = "ok" /\ r = AskedUpdate(u, p).request
    BY <1>1, <1>4 DEF SentAsAsked
  <2>2. r.attrs.localId = u
    <3>1. \A q : AskedUpdate(u, q).request.attrs.localId = u
      BY UpdateNames
    <3> HIDE DEF r
    <3> QED
      BY <2>1, <3>1
  <2>3. IsAccountOf(u, accounts[u])
    BY <1>3, <1>4, <2>2 DEF AccountsAreTheirs
  <2> DEFINE next == Store!Changed(UserRecord(accounts[u]), p)
  <2>4. UserRecord(SetAccount(accounts[u], r)) = next /\ IsAccountOf(u, SetAccount(accounts[u], r))
    BY <2>1, <2>3, ChangedShown
  <2> HIDE DEF next, r
  <2>5. /\ accounts[u] # NoAccount /\ AccountsAreTheirs' /\ old[u] = UserRecord(accounts[u])
        /\ new = OneSet(old, u, next)
    BY <1>1, <1>4, <2>2, <2>4, AccountSet DEF r
  <2> HIDE DEF NoAccount
  <2>6. new = [old EXCEPT ![u] = Store!Changed(@, p)] /\ old[u] # NoAccount
    BY <2>5, RecordIsSome DEF OneSet, next
  <2>7. Store!Update(u)
    BY <2>6 DEF Store!Update, UsersShown
  <2> QED
    BY <2>5, <2>7
<1>5. ASSUME accounts' # accounts, call[c].op = "claims"
      PROVE  AccountsAreTheirs' /\ \E u \in Uid : Store!SetClaims(u)
  <2>1. PICK u \in Uid, k \in ClaimInputs : AskedClaims(u, k).refusal = "ok" /\ r = AskedClaims(u, k).request
    BY <1>1, <1>5 DEF SentAsAsked
  <2>2. k \in {"null", "admin"} /\ r = setCustomUserClaims(u, k)
    BY <2>1, AcceptedClaims
  <2>3. r.attrs.localId = u
    <3>1. \A d : setCustomUserClaims(u, d).attrs.localId = u
      BY UpdateNames
    <3> HIDE DEF r
    <3> QED
      BY <2>2, <3>1
  <2>4. IsAccountOf(u, accounts[u])
    BY <1>3, <1>5, <2>3 DEF AccountsAreTheirs
  <2> DEFINE claims == IF k = "null" THEN "none" ELSE k
             next == [UserRecord(accounts[u]) EXCEPT !.attrs = Store!++(Store!Field("customClaims", claims), @)]
  <2>5. UserRecord(SetAccount(accounts[u], r)) = next /\ IsAccountOf(u, SetAccount(accounts[u], r))
    BY <2>2, <2>4, ClaimsShown
  <2> HIDE DEF next, r
  <2>6. /\ accounts[u] # NoAccount /\ AccountsAreTheirs' /\ old[u] = UserRecord(accounts[u])
        /\ new = OneSet(old, u, next)
    BY <1>1, <1>5, <2>3, <2>5, AccountSet DEF r
  <2> HIDE DEF NoAccount, claims
  <2>7. new = [old EXCEPT ![u].attrs = Store!++(Store!Field("customClaims", claims), @)] /\ old[u] # NoAccount
    BY <2>6, RecordIsSome DEF OneSet, next
  <2>8. Store!SetClaims(u)
    BY <2>7 DEF Store!SetClaims, UsersShown, claims
  <2> QED
    BY <2>6, <2>8
<1>6. ASSUME accounts' # accounts, call[c].op = "revoke"
      PROVE  AccountsAreTheirs' /\ \E u \in Uid : Store!Revoke(u)
  <2>1. PICK u \in Uid : r = revokeRefreshTokens(u)
    BY <1>1, <1>6 DEF SentAsAsked
  <2>2. r.attrs.localId = u
    <3>1. revokeRefreshTokens(u).attrs.localId = u
      BY UpdateNames
    <3> HIDE DEF r
    <3> QED
      BY <2>1, <3>1
  <2>3. IsAccountOf(u, accounts[u])
    BY <1>3, <1>6, <2>2 DEF AccountsAreTheirs
  <2> DEFINE next == [UserRecord(accounts[u]) EXCEPT !.attrs = Store!++(Store!Field("tokensValidAfterTime", "now"), @)]
  <2>4. UserRecord(SetAccount(accounts[u], r)) = next /\ IsAccountOf(u, SetAccount(accounts[u], r))
    BY <2>1, <2>3, RevocationShown
  <2> HIDE DEF next, r
  <2>5. /\ accounts[u] # NoAccount /\ AccountsAreTheirs' /\ old[u] = UserRecord(accounts[u])
        /\ new = OneSet(old, u, next)
    BY <1>1, <1>6, <2>2, <2>4, AccountSet DEF r
  <2> HIDE DEF NoAccount
  <2>6. new = [old EXCEPT ![u].attrs = Store!++(Store!Field("tokensValidAfterTime", "now"), @)] /\ old[u] # NoAccount
    BY <2>5, RecordIsSome DEF OneSet, next
  <2>7. Store!Revoke(u)
    BY <2>6 DEF Store!Revoke, UsersShown
  <2> QED
    BY <2>5, <2>7
<1> QED
  BY <1>2, <1>4, <1>5, <1>6

\* The server deleting an account shows as a user deleted.
LEMMA ServeDeleteShown ==
  ASSUME UsersInv, CallsAsAsked, AccountsAreTheirs, NEW c \in Client, Serve(c), call[c].op = "delete"
  PROVE  /\ AccountsAreTheirs'
         /\ UsersShown(accounts') = UsersShown(accounts) \/ \E u \in Uid : Store!Delete(u)
<1>1. ServeDelete(c) /\ DOMAIN accounts = Uid /\ call[c] # NoCall
  BY DEF Serve, UsersInv, AccountsOk
<1>2. PICK u \in Uid : call[c].request = [localId |-> u]
  BY <1>1 DEF CallsAsAsked, SentAsAsked
<1> HIDE DEF NoAccount, NoCall
<1>3. CASE accounts' = accounts
  BY <1>3 DEF AccountsAreTheirs
<1>4. CASE accounts' = [accounts EXCEPT ![u] = NoAccount]
  <2>1. AccountsAreTheirs'
    BY <1>1, <1>4 DEF AccountsAreTheirs
  <2>2. UsersShown(accounts') = [UsersShown(accounts) EXCEPT ![u] = NoAccount]
    BY <1>1, <1>4 DEF UsersShown
  <2>3. Store!Delete(u)
    BY <2>2 DEF Store!Delete, UsersShown
  <2> QED
    BY <2>1, <2>3
<1> QED
  BY <1>1, <1>2, <1>3, <1>4 DEF ServeDelete

\* The server deleting a part of a batch shows as some users deleted.
LEMMA ServeDeleteBatchShown ==
  ASSUME AccountsAreTheirs, NEW c \in Client, Serve(c), call[c].op = "deleteBatch"
  PROVE  AccountsAreTheirs' /\ Store!DeleteSome
<1>1. ServeDeleteBatch(c)
  BY DEF Serve
<1>2. PICK gone : accounts' = [u \in Uid |-> IF u \in gone THEN NoAccount ELSE accounts[u]]
  <2> HIDE DEF NoAccount
  <2> QED
    BY <1>1, Zenon DEF ServeDeleteBatch
<1> HIDE DEF NoAccount
<1> DEFINE S == gone \cap Uid
<1>3. AccountsAreTheirs'
  BY <1>2 DEF AccountsAreTheirs
<1>4. UsersShown(accounts') = [u \in Uid |-> IF u \in S THEN NoAccount ELSE UsersShown(accounts)[u]]
  BY <1>2 DEF UsersShown
<1>5. Store!DeleteSome
  <2>1. S \in SUBSET Uid
    OBVIOUS
  <2> HIDE DEF S
  <2> QED
    BY <1>4, <2>1 DEF Store!DeleteSome, UsersShown
<1> QED
  BY <1>3, <1>5

\* The users of the request are accepted ones of the list, each once.
LEMMA SentUsers ==
  ASSUME NEW list, list \in Seq(Range(list))
  PROVE  /\ DOMAIN populateUsers(list) = DOMAIN indexMap(list)
         /\ \A k \in DOMAIN indexMap(list) : /\ indexMap(list)[k] \in Accepted(list)
                                             /\ populateUsers(list)[k] = populateUploadAccountUser(list[indexMap(list)[k]])
<1> DEFINE A == Accepted(list)
           Map == indexMap(list)
<1>1. IsFiniteSet(DOMAIN list) /\ DOMAIN list = 1..Len(list) /\ Len(list) \in Nat
  BY ListDomain
<1>2. A \in SUBSET DOMAIN list
  BY DEF Accepted
<1> HIDE DEF A
<1>3. IsFiniteSet(A) /\ A \in SUBSET Nat
  BY <1>1, <1>2, FS_Subset
<1>4. Map = Sorted(A)
  BY DEF indexMap, A
<1>5. populateUsers(list) = [k \in DOMAIN Map |-> populateUploadAccountUser(list[Map[k]])]
  BY DEF populateUsers
<1> HIDE DEF Map
<1>6. \A k \in DOMAIN Map : Map[k] \in A
  BY <1>3, <1>4, SortedByRank
<1> QED
  BY <1>5, <1>6 DEF A, Map

\* The server storing a part of an import shows as some users of one list imported.
LEMMA ServeImportShown ==
  ASSUME CallsAsAsked, AccountsAreTheirs, NEW c \in Client, Serve(c), call[c].op = "import"
  PROVE  AccountsAreTheirs' /\ Store!Import
<1> DEFINE wire == call[c].request
<1>1. ServeImport(c) /\ call[c] # NoCall
  BY DEF Serve
<1>2. PICK list \in ImportLists : wire = populateUsers(list)
  BY <1>1 DEF CallsAsAsked, SentAsAsked
<1>3. list \in Seq(Range(list)) /\ \A i \in DOMAIN list : IsUserImportRecord(list[i])
  BY InputsAreTyped DEF InputsAreTyped
<1> DEFINE Map == indexMap(list)
           Uids(i) == list[i].attrs["uid"]
<1>4. /\ DOMAIN wire = DOMAIN Map
      /\ \A k \in DOMAIN Map : Map[k] \in Accepted(list) /\ wire[k] = populateUploadAccountUser(list[Map[k]])
  BY <1>2, <1>3, SentUsers
<1> HIDE DEF wire, Map
<1>5. ASSUME NEW k \in DOMAIN Map
      PROVE  /\ Map[k] \in DOMAIN list /\ Uids(Map[k]) \in Uid /\ wire[k].attrs["localId"] = Uids(Map[k])
             /\ LET a == NewAccount(Uids(Map[k]), wire[k])
                IN UserRecord(a) = Store!Imported(list[Map[k]]) /\ IsAccountOf(Uids(Map[k]), a) /\ a # NoAccount
  <2> DEFINE w == list[Map[k]]
             r == populateUploadAccountUser(w)
             a == NewAccount(w.attrs["uid"], r)
  <2>1. Map[k] \in DOMAIN list /\ UserRefusal(w) = "ok" /\ IsUserImportRecord(w) /\ wire[k] = r
    BY <1>3, <1>4 DEF Accepted
  <2> HIDE DEF w
  <2>2. w.attrs["uid"] \in Uid /\ r.attrs["localId"] = w.attrs["uid"]
    BY <2>1, ImportIsComplete
  <2>3. UserRecord(a) = Store!Imported(w) /\ IsAccountOf(w.attrs["uid"], a)
    BY <2>1, ImportedShown
  <2>4. a # NoAccount
    BY NewAccountIsSome
  <2> HIDE DEF r
  <2> QED
    BY <2>1, <2>2, <2>3, <2>4 DEF w
<1>6. PICK kept \in SUBSET DOMAIN Map :
        /\ \A i, j \in kept : wire[i].attrs["localId"] = wire[j].attrs["localId"] => i = j
        /\ accounts' = [u \in Uid |->
             IF \E i \in kept : wire[i].attrs["localId"] = u
             THEN NewAccount(u, wire[CHOOSE i \in kept : wire[i].attrs["localId"] = u])
             ELSE accounts[u]]
  <2>1. PICK failed \in SUBSET DOMAIN wire :
          LET kept == DOMAIN wire \ failed
          IN /\ \A i, j \in kept : wire[i].attrs["localId"] = wire[j].attrs["localId"] => i = j
             /\ accounts' = [u \in Uid |->
                  IF \E i \in kept : wire[i].attrs["localId"] = u
                  THEN NewAccount(u, wire[CHOOSE i \in kept : wire[i].attrs["localId"] = u])
                  ELSE accounts[u]]
    BY <1>1, Zenon DEF ServeImport, wire
  <2>2. DOMAIN wire \ failed \in SUBSET DOMAIN Map
    BY <1>4
  <2> QED
    BY <2>1, <2>2, Zenon
<1> DEFINE S == {Map[k] : k \in kept}
           Place(u) == CHOOSE k \in kept : wire[k].attrs["localId"] = u
           Where(u) == CHOOSE i \in S : Uids(i) = u
           Named(u) == \E k \in kept : wire[k].attrs["localId"] = u
           Wanted(u) == \E i \in S : Uids(i) = u
<1>7. S \in SUBSET DOMAIN list /\ \A i, j \in S : Uids(i) = Uids(j) => i = j
  BY <1>5, <1>6
<1>8. \A u : Named(u) <=> Wanted(u)
  BY <1>5
<1>9. ASSUME NEW u, Named(u)
      PROVE  Place(u) \in kept /\ Where(u) = Map[Place(u)] /\ Uids(Map[Place(u)]) = u
  <2>1. Place(u) \in kept /\ wire[Place(u)].attrs["localId"] = u
    BY <1>9
  <2>2. Where(u) \in S /\ Uids(Where(u)) = u
    BY <1>8, <1>9
  <2> HIDE DEF Place, Where, Uids
  <2>3. Map[Place(u)] \in S /\ Uids(Map[Place(u)]) = u
    BY <1>5, <2>1
  <2> QED
    BY <1>7, <2>1, <2>2, <2>3
<1>10. ASSUME NEW u, Named(u)
       PROVE  LET a == NewAccount(u, wire[Place(u)])
              IN UserRecord(a) = Store!Imported(list[Where(u)]) /\ IsAccountOf(u, a) /\ a # NoAccount
  <2> HIDE DEF Place, Where, NoAccount
  <2> QED
    BY <1>5, <1>9, <1>10
<1>11. accounts' = [u \in Uid |-> IF Named(u) THEN NewAccount(u, wire[Place(u)]) ELSE accounts[u]]
  BY <1>6, Zenon
<1> HIDE DEF Place, Where, Named, NoAccount
<1>12. AccountsAreTheirs'
  BY <1>10, <1>11 DEF AccountsAreTheirs
<1>13. UsersShown(accounts') = [u \in Uid |-> IF Named(u) THEN Store!Imported(list[Where(u)]) ELSE UsersShown(accounts)[u]]
  BY <1>10, <1>11 DEF UsersShown
<1>14. UsersShown(accounts') = [u \in Uid |-> IF Wanted(u) THEN Store!Imported(list[Where(u)]) ELSE UsersShown(accounts)[u]]
  <2> HIDE DEF Wanted
  <2> QED
    BY <1>8, <1>13
<1>15. Store!Import
  <2> HIDE DEF S
  <2> DEFINE new == UsersShown(accounts')
             old == UsersShown(accounts)
  <2>1. new = [u \in Uid |-> IF \E i \in S : Uids(i) = u
                             THEN Store!Imported(list[CHOOSE i \in S : Uids(i) = u]) ELSE old[u]]
    BY <1>14, Zenon DEF Where
  <2>2. \E l \in ImportLists : \E T \in SUBSET DOMAIN l :
          /\ \A i, j \in T : l[i].attrs["uid"] = l[j].attrs["uid"] => i = j
          /\ new = [u \in Uid |-> IF \E i \in T : l[i].attrs["uid"] = u
                                  THEN Store!Imported(l[CHOOSE i \in T : l[i].attrs["uid"] = u]) ELSE old[u]]
    BY <1>7, <2>1, Zenon
  <2> QED
    BY <2>2, Zenon DEF Store!Import, UsersShown
<1> QED
  BY <1>12, <1>15

\* Only the server changes the accounts.
LEMMA OthersKeepAccounts ==
  ASSUME NEW c \in Client,
         \/ createUser(c) \/ updateUser(c) \/ SetClaims(c) \/ Revoke(c)
         \/ deleteUser(c) \/ deleteUsers(c) \/ getUser(c) \/ getUsers(c) \/ importUsers(c)
         \/ listUsers(c) \/ createSessionCookie(c) \/ generateEmailLink(c)
         \/ LoseAnswer(c) \/ ReturnFault(c) \/ ReadBack(c)
         \/ ReturnUser(c) \/ ReturnPage(c) \/ ReturnLookup(c) \/ ReturnDeleted(c) \/ ReturnImported(c)
         \/ ReturnNothing(c)
  PROVE  accounts' = accounts
<1>1. \A a : Ask(c, a) => accounts' = accounts
  BY DEF Ask
<1>2. \A a, list, response : AskOrAnswer(c, a, list, response) => accounts' = accounts
  BY <1>1 DEF AskOrAnswer
<1>3. createUser(c) \/ updateUser(c) \/ SetClaims(c) \/ Revoke(c) \/ deleteUser(c) => accounts' = accounts
  BY <1>1 DEF createUser, updateUser, SetClaims, Revoke, deleteUser
<1>4. getUser(c) \/ listUsers(c) \/ generateEmailLink(c) => accounts' = accounts
  BY <1>1, Zenon DEF getUser, listUsers, generateEmailLink
<1>5. createSessionCookie(c) => accounts' = accounts
  <2> DEFINE Request(k) == [idToken |-> k.idToken, validDuration |-> k.expiresIn \div 1000]
  <2>1. createSessionCookie(c) =>
          \E k \in Cookies : Ask(c, Asked("cookie", k, SessionCookieRefusal(k.idToken, k.expiresIn), Request(k)))
    BY DEF createSessionCookie
  <2> HIDE DEF Request
  <2> QED
    BY <1>1, <2>1
<1>6. deleteUsers(c) \/ getUsers(c) => accounts' = accounts
  BY <1>2, Zenon DEF deleteUsers, getUsers
<1>7. importUsers(c) => accounts' = accounts
  BY <1>1 DEF importUsers
<1>8. \A outcome : Return(c, outcome) => accounts' = accounts
  BY DEF Return
<1>9. LoseAnswer(c) \/ ReadBack(c) => accounts' = accounts
  BY <1>8 DEF LoseAnswer, ReadBack
<1>10. ReturnFault(c) \/ ReturnUser(c) \/ ReturnPage(c) \/ ReturnNothing(c) => accounts' = accounts
  BY <1>8, Zenon DEF ReturnFault, ReturnUser, ReturnPage, ReturnNothing
<1>11. ReturnLookup(c) \/ ReturnDeleted(c) \/ ReturnImported(c) => accounts' = accounts
  BY <1>8, Zenon DEF ReturnLookup, ReturnDeleted, ReturnImported
<1> QED
  BY <1>3, <1>4, <1>5, <1>6, <1>7, <1>9, <1>10, <1>11

\* Whatever the server does is a step of the store or changes nothing shown.
LEMMA ServeShown ==
  ASSUME UsersInv, CallsAsAsked, AccountsAreTheirs, NEW c \in Client, Serve(c)
  PROVE  /\ AccountsAreTheirs'
         /\ \/ UsersShown(accounts') = UsersShown(accounts)
            \/ \E u \in Uid : Store!Create(u) \/ Store!Update(u) \/ Store!SetClaims(u) \/ Store!Revoke(u) \/ Store!Delete(u)
            \/ Store!DeleteSome \/ Store!Import
<1>1. CASE call[c].op = "create"
  BY <1>1, ServeCreateShown
<1>2. CASE call[c].op \in {"update", "claims", "revoke"}
  BY <1>2, ServeUpdateShown
<1>3. CASE call[c].op = "delete"
  BY <1>3, ServeDeleteShown
<1>4. CASE call[c].op = "deleteBatch"
  BY <1>4, ServeDeleteBatchShown
<1>5. CASE call[c].op = "import"
  BY <1>5, ServeImportShown
<1>6. CASE call[c].op \notin {"create", "update", "claims", "revoke", "delete", "deleteBatch", "import"}
  <2>1. ServeList(c) \/ ServePlain(c) \/ ServeLookup(c)
    BY <1>6 DEF Serve
  <2>2. ServeList(c) \/ ServePlain(c) \/ ServeLookup(c) => accounts' = accounts
    BY Zenon DEF ServeList, ServePlain, ServeLookup
  <2> QED
    BY <2>1, <2>2 DEF AccountsAreTheirs
<1> QED
  BY <1>1, <1>2, <1>3, <1>4, <1>5, <1>6

StoreInv == UsersInv /\ CallsAsAsked /\ AccountsAreTheirs

-----------------------------------------------------------------------------
(* Every step. *)

\* Each step keeps the invariant and shows as a step of the store, or as none.
LEMMA StoreStep ==
  ASSUME StoreInv, [Next]_vars
  PROVE  /\ StoreInv'
         /\ \/ UsersShown(accounts') = UsersShown(accounts)
            \/ \E u \in Uid : Store!Create(u) \/ Store!Update(u) \/ Store!SetClaims(u) \/ Store!Revoke(u) \/ Store!Delete(u)
            \/ Store!DeleteSome \/ Store!Import
<1>1. UsersInv'
  BY UsersNextInv DEF StoreInv
<1>2. UsersInv /\ CallsAsAsked /\ AccountsAreTheirs /\ DOMAIN call = Client
  BY DEF StoreInv, UsersInv
<1>3. CASE UNCHANGED vars
  BY <1>1, <1>2, <1>3 DEF vars, StoreInv, CallsAsAsked, AccountsAreTheirs
<1>4. CASE Next
  <2>1. PICK c \in Client :
          \/ createUser(c) \/ updateUser(c) \/ SetClaims(c) \/ Revoke(c)
          \/ deleteUser(c) \/ deleteUsers(c) \/ getUser(c) \/ getUsers(c) \/ importUsers(c)
          \/ listUsers(c) \/ createSessionCookie(c) \/ generateEmailLink(c)
          \/ Serve(c) \/ LoseAnswer(c) \/ ReturnFault(c) \/ ReadBack(c)
          \/ ReturnUser(c) \/ ReturnPage(c) \/ ReturnLookup(c) \/ ReturnDeleted(c) \/ ReturnImported(c)
          \/ ReturnNothing(c)
    BY <1>4, Zenon DEF Next
  <2>2. CallsAsAsked'
    BY <1>2, <2>1, AskKeepsCalls, AnswerKeepsCalls
  <2>3. CASE Serve(c)
    BY <1>1, <1>2, <2>2, <2>3, ServeShown DEF StoreInv
  <2>4. CASE ~Serve(c)
    <3>1. accounts' = accounts
      BY <2>1, <2>4, OthersKeepAccounts
    <3> QED
      BY <1>1, <1>2, <2>2, <3>1 DEF StoreInv, AccountsAreTheirs
  <2> QED
    BY <2>3, <2>4
<1> QED
  BY <1>3, <1>4

\* The calls of the clients change what the accounts show only as UserStore
\* says: whatever the inputs, a user created, updated, imported, deleted or
\* given claims is shown with what some call was given, and all else stays.
THEOREM UsersKeepTheirPromises == Spec => ImplementsUserStore
<1> DEFINE Seen == UsersShown(accounts)
<1>1. Init => StoreInv /\ DOMAIN Seen = Uid
  <2> SUFFICES ASSUME Init PROVE StoreInv /\ DOMAIN Seen = Uid
    OBVIOUS
  <2>1. UsersInv
    <3>1. ResultOk(NoResult, {})
      BY DEF ResultOk, NoResult
    <3> HIDE DEF NoResult, NoCall
    <3> QED
      BY <3>1, AccountsAreSound DEF Init, UsersInv, AccountsOk, AccountsAreSound
  <2> HIDE DEF NoCall, NoAccount
  <2>2. CallsAsAsked /\ AccountsAreTheirs
    BY AccountsAreSound DEF Init, AccountsAreSound, CallsAsAsked, AccountsAreTheirs
  <2> QED
    BY <2>1, <2>2 DEF StoreInv, UsersShown
<1>2. Init => Store!Init
  BY <1>1 DEF Store!Init, UsersShown
<1>3. StoreInv /\ [Next]_vars => StoreInv'
  BY StoreStep
<1>4. StoreInv /\ [Next]_vars => [Store!Next]_Seen
  <2> SUFFICES ASSUME StoreInv, [Next]_vars, Seen' # Seen PROVE Store!Next
    OBVIOUS
  <2>1. Seen' = UsersShown(accounts')
    BY DEF UsersShown
  <2>2. \/ \E u \in Uid : Store!Create(u) \/ Store!Update(u) \/ Store!SetClaims(u) \/ Store!Revoke(u) \/ Store!Delete(u)
        \/ Store!DeleteSome \/ Store!Import
    BY <2>1, StoreStep
  <2> QED
    BY <2>2 DEF Store!Next, UsersShown
<1>5. Spec => Store!Spec
  BY <1>1, <1>2, <1>3, <1>4, PTL DEF Spec, Store!Spec, UsersShown
<1> QED
  BY <1>5 DEF ImplementsUserStore
=============================================================================
