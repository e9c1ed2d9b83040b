----------------------------- MODULE Auth_proofs -----------------------------
(***************************************************************************)
(* Proofs about AuthConfigs: no provider is left with the code flow and no *)
(* client secret, and the calls implement ConfigStore, where each          *)
(* configuration is what the SDK shows of it: the request it makes of what *)
(* a call is given, stored under the mask of its fields and converted back,*)
(* shows what was given.                                                   *)
(***************************************************************************)
EXTENDS Users, AuthConfigs, FiniteSetTheorems, TLAPS

(* Validations, and the least number of a set, by which the proofs do       *)
(* induction: from the well-foundedness of finite sets, which the library   *)
(* states without an operator parameter.                                    *)

LEMMA LeastNumber ==
  ASSUME NEW T \in SUBSET Nat, T # {}
  PROVE  \E x \in T : \A y \in T : x <= y
<1> DEFINE D == {0..n : n \in T}
           R == StrictSubsetOrdering(Nat)
<1>1. IsWellFoundedOn(R, FiniteSubsetsOf(Nat))
  BY FS_StrictSubsetOrderingWellFounded
<1>2. \A n \in T : 0..n \in FiniteSubsetsOf(Nat)
  BY FS_Interval DEF FiniteSubsetsOf
<1>3. PICK d \in D : \A e \in D : ~(<<e, d>> \in R)
  <2>1. D \subseteq FiniteSubsetsOf(Nat) /\ D # {}
    BY <1>2
  <2> HIDE DEF D, R
  <2> QED
    BY <1>1, <2>1, WFMin
<1>4. PICK x \in T : d = 0..x
  BY <1>3
<1>5. ASSUME NEW y \in T, y < x
      PROVE  FALSE
  <2>1. 0..y \in SUBSET Nat /\ 0..x \in SUBSET Nat /\ 0..y \subseteq 0..x /\ 0..y # 0..x
    BY <1>5
  <2>2. <<0..y, d>> \in R
    BY <1>4, <2>1 DEF StrictSubsetOrdering
  <2> QED
    BY <1>3, <2>2
<1> QED
  BY <1>5

LEMMA MinIsLeast ==
  ASSUME NEW T \in SUBSET Nat, T # {}
  PROVE  Min(T) \in T /\ \A y \in T : Min(T) <= y
BY LeastNumber DEF Min

\* A request is accepted when no verdict refuses it.
LEMMA NoRefusal ==
  ASSUME NEW verdicts, Len(verdicts) \in Nat, FirstRefusal(verdicts) = "ok"
  PROVE  \A i \in 1..Len(verdicts) : verdicts[i] = "ok"
<1> DEFINE refused == {i \in 1..Len(verdicts) : verdicts[i] # "ok"}
<1>1. ASSUME refused # {}
      PROVE  FALSE
  <2>1. Min(refused) \in refused
    BY <1>1, MinIsLeast
  <2>2. Min(refused) # 0 /\ verdicts[Min(refused)] # "ok"
    BY <2>1
  <2>3. FirstRefusal(verdicts) = verdicts[Min(refused)]
    BY <1>1, <2>2 DEF FirstRefusal, SelectInSeq
  <2> QED
    BY <2>2, <2>3
<1> QED
  BY <1>1

LEMMA NeitherRefusal ==
  ASSUME NEW first, NEW second, FirstRefusal(<<first, second>>) = "ok"
  PROVE  first = "ok" /\ second = "ok"
BY NoRefusal

\* What a table of checks accepted holds.
LEMMA ChecksHold ==
  ASSUME NEW checks, Len(checks) \in Nat, \A j \in 1..Len(checks) : checks[j].code # "ok",
         NEW o, Verdict(checks, o) = "ok", NEW i \in 1..Len(checks)
  PROVE  Given(o, checks[i].key) => o[checks[i].key] \in checks[i].accepts
<1> DEFINE failing == {j \in 1..Len(checks) : Given(o, checks[j].key) /\ o[checks[j].key] \notin checks[j].accepts}
<1>1. ASSUME failing # {}
      PROVE  FALSE
  <2>1. failing \in SUBSET Nat /\ failing \subseteq 1..Len(checks)
    OBVIOUS
  <2> HIDE DEF failing
  <2>2. Min(failing) \in failing
    BY <1>1, <2>1, MinIsLeast
  <2>3. Min(failing) \in 1..Len(checks) /\ Min(failing) # 0
    <3> DEFINE m == Min(failing)
    <3> HIDE DEF m
    <3>1. m \in 1..Len(checks)
      BY <2>1, <2>2 DEF m
    <3>2. m # 0
      BY <3>1
    <3> QED
      BY <3>1, <3>2 DEF m
  <2>4. Verdict(checks, o) = checks[Min(failing)].code
    BY <1>1, <2>3, Zenon DEF Verdict, SelectInSeq, failing
  <2> QED
    BY <2>3, <2>4
<1> QED
  BY <1>1

AllOk(verdicts) == \A i \in 1..Len(verdicts) : verdicts[i] = "ok"

\* A sequence of verdicts, one for each member of a sequence.
LEMMA EachIsSequence ==
  ASSUME NEW s, s \in Seq(Range(s)), NEW f, f = [i \in DOMAIN s |-> f[i]]
  PROVE  /\ f \in Seq({f[i] : i \in DOMAIN s}) /\ Len(f) = Len(s) /\ DOMAIN f = DOMAIN s
         /\ Len(s) \in Nat /\ DOMAIN s = 1..Len(s)
<1> DEFINE V == {f[i] : i \in DOMAIN s}
<1>1. Len(s) \in Nat /\ DOMAIN s = 1..Len(s)
  OBVIOUS
<1>2. f \in [1..Len(s) -> V]
  BY <1>1
<1> HIDE DEF V
<1>3. f \in Seq(V) /\ Len(f) = Len(s) /\ DOMAIN f = DOMAIN s
  BY <1>1, <1>2
<1> QED
  BY <1>1, <1>3 DEF V

\* Two lists of verdicts without a refusal make one.
LEMMA BothOk ==
  ASSUME NEW S, NEW T, NEW s \in Seq(S), NEW t \in Seq(T)
  PROVE  s \o t \in Seq(S \cup T) /\ (AllOk(s \o t) => AllOk(s) /\ AllOk(t))
<1>1. s \in Seq(S \cup T) /\ t \in Seq(S \cup T)
  OBVIOUS
<1>2. s \o t \in Seq(S \cup T)
  BY <1>1
<1>3. ASSUME AllOk(s \o t)
      PROVE  AllOk(s) /\ AllOk(t)
  <2>1. ASSUME NEW i \in 1..Len(s)
        PROVE  s[i] = "ok"
    <3>1. i \in 1..Len(s \o t) /\ (s \o t)[i] = s[i]
      OBVIOUS
    <3> QED
      BY <1>3, <3>1 DEF AllOk
  <2>2. ASSUME NEW i \in 1..Len(t)
        PROVE  t[i] = "ok"
    <3>1. Len(s) + i \in 1..Len(s \o t) /\ (s \o t)[Len(s) + i] = t[i]
      OBVIOUS
    <3> QED
      BY <1>3, <3>1 DEF AllOk
  <2> QED
    BY <2>1, <2>2 DEF AllOk
<1> QED
  BY <1>2, <1>3

IsList(s) == s \in Seq(Range(s))

\* A function on the positions of a list is a sequence.
LEMMA SomeSequence ==
  ASSUME NEW s, IsList(s), NEW f, f = [i \in DOMAIN s |-> f[i]]
  PROVE  (\E S : f \in Seq(S)) /\ 1..Len(f) = DOMAIN s
BY EachIsSequence DEF IsList

\* Two lists of verdicts that refuse nothing together refuse nothing.
LEMMA BothAccepted ==
  ASSUME NEW S, NEW T, NEW s \in Seq(S), NEW t \in Seq(T), FirstRefusal(s \o t) = "ok"
  PROVE  AllOk(s) /\ AllOk(t)
<1> DEFINE all == s \o t
<1>1. all \in Seq(S \cup T) /\ (AllOk(all) => AllOk(s) /\ AllOk(t)) /\ FirstRefusal(all) = "ok"
  BY BothOk
<1> HIDE DEF all
<1>2. Len(all) \in Nat
  BY <1>1
<1>3. AllOk(all)
  BY <1>1, <1>2, NoRefusal DEF AllOk
<1> QED
  BY <1>1, <1>3
-----------------------------------------------------------------------------
(* What an object holds under a key: nothing, or its value.  Objects that   *)
(* hold the same are the same.                                              *)
Held(o, k) == IF Given(o, k) THEN <<o[k]>> ELSE << >>

\* Two objects that hold the same under every key are the same.
LEMMA SameObject ==
  ASSUME NEW F, NEW G, IsObject(F), IsObject(G), \A k : Held(F, k) = Held(G, k)
  PROVE  F = G
<1>1. \A k : (Given(F, k) <=> Given(G, k)) /\ (Given(F, k) => F[k] = G[k])
  BY DEF Held
<1>2. DOMAIN F = DOMAIN G
  BY <1>1 DEF Given
<1>3. \A k \in DOMAIN F : F[k] = G[k]
  BY <1>1 DEF Given
<1> QED
  BY <1>2, <1>3 DEF IsObject

\* An object holds nothing exactly of the keys not given.
LEMMA HeldNothing ==
  ASSUME NEW o, NEW k
  PROVE  (Held(o, k) = << >> <=> ~Given(o, k)) /\ (Given(o, k) => Held(o, k) = <<o[k]>>)
BY DEF Held

\* What ++ chooses is the only candidate.
LEMMA OverIs ==
  ASSUME NEW o, NEW p
  PROVE  o ++ p = [k \in DOMAIN o \cup DOMAIN p |-> IF k \in DOMAIN o THEN o[k] ELSE p[k]]
<1> DEFINE both(a, b) == [k \in DOMAIN a \cup DOMAIN b |-> IF k \in DOMAIN a THEN a[k] ELSE b[k]]
<1>1. {both(a, b) : a \in {o}, b \in {p}} = {both(o, p)}
  <2> HIDE DEF both
  <2> QED
    OBVIOUS
<1>2. o ++ p = CHOOSE f \in {both(a, b) : a \in {o}, b \in {p}} : TRUE
  BY DEF ++
<1>3. o ++ p = both(o, p)
  <2> HIDE DEF both
  <2> QED
    BY <1>1, <1>2
<1> QED
  BY <1>3

\* Of o ++ p the keys of o come first.
LEMMA HeldOver ==
  ASSUME NEW o, NEW p
  PROVE  /\ IsObject(o ++ p)
         /\ \A k : Held(o ++ p, k) = IF Held(o, k) = << >> THEN Held(p, k) ELSE Held(o, k)
<1> DEFINE f == o ++ p
<1>1. f = [k \in DOMAIN o \cup DOMAIN p |-> IF k \in DOMAIN o THEN o[k] ELSE p[k]]
  BY OverIs
<1> HIDE DEF f
<1>2. IsObject(f)
  BY <1>1 DEF IsObject
<1>3. \A k : Held(f, k) = IF Held(o, k) = << >> THEN Held(p, k) ELSE Held(o, k)
  BY <1>1 DEF Held, Given
<1> QED
  BY <1>2, <1>3 DEF f

\* Parts of an object hold what it holds, or nothing.
LEMMA HeldParts ==
  ASSUME NEW o, NEW K
  PROVE  /\ IsObject(Without(o, K)) /\ IsObject(Only(o, K))
         /\ \A k : /\ Held(Without(o, K), k) = IF k \in K THEN << >> ELSE Held(o, k)
                   /\ Held(Only(o, K), k) = IF k \in K THEN Held(o, k) ELSE << >>
BY DEF IsObject, Without, Only, Restrict, Held, Given

\* A field holds its value and nothing else.
LEMMA HeldField ==
  ASSUME NEW n, NEW v
  PROVE  IsObject(Field(n, v)) /\ \A k : Held(Field(n, v), k) = IF k = n THEN <<v>> ELSE << >>
BY DEF IsObject, Field, Held, Given

\* The empty object holds nothing.
LEMMA HeldEmpty ==
  IsObject(EmptyObject) /\ \A k : Held(EmptyObject, k) = << >>
BY DEF IsObject, EmptyObject, Held, Given

\* A field renamed stands in place of one of the new name.
LEMMA HeldRenamed ==
  ASSUME NEW o, NEW old, NEW new, old # new
  PROVE  /\ IsObject(o) => IsObject(Rename(o, old, new))
         /\ \A k : Held(Rename(o, old, new), k) =
              IF k = new THEN (IF Held(o, old) = << >> THEN Held(o, new) ELSE Held(o, old))
              ELSE IF k = old THEN << >> ELSE Held(o, k)
<1>1. CASE ~Given(o, old)
  BY <1>1, HeldNothing DEF Rename
<1>2. CASE Given(o, old)
  <2> DEFINE f == Field(new, o[old])
             g == Without(o, {old})
  <2>1. Rename(o, old, new) = f ++ g /\ Held(o, old) = <<o[old]>>
    BY <1>2, HeldNothing DEF Rename
  <2>2. \A k : Held(f, k) = IF k = new THEN <<o[old]>> ELSE << >>
    BY HeldField
  <2>3. \A k : Held(g, k) = IF k = old THEN << >> ELSE Held(o, k)
    BY HeldParts
  <2> HIDE DEF f, g
  <2>4. IsObject(f ++ g) /\ \A k : Held(f ++ g, k) = IF Held(f, k) = << >> THEN Held(g, k) ELSE Held(f, k)
    BY HeldOver
  <2> QED
    BY <2>1, <2>2, <2>3, <2>4
<1> QED
  BY <1>1, <1>2

\* An object renamed by a table holds what the table points at.
LEMMA HeldRenamedBack ==
  ASSUME NEW o, NEW names
  PROVE  /\ IsObject(RenameBack(o, names))
         /\ \A n : Held(RenameBack(o, names), n) = IF n \in DOMAIN names THEN Held(o, names[n]) ELSE << >>
BY DEF IsObject, RenameBack, Held, Given
-----------------------------------------------------------------------------

\* What a request under way may make of a provider: all of it is sent, or the
\* fields that its mask names.
RequestKeepsSecret(asking) ==
  asking.op \in {"create", "update"} /\ asking.name \in Oidc =>
    /\ CodeHasSecret(asking.request)
    /\ asking.op = "update" => asking.mask = generateUpdateMask(asking.request, {})

ConfigOps == {"create", "update", "get", "delete", "list"}

ConfigCallFields == {"op", "name", "request", "mask", "phase", "tries", "response"}

ConfigInv ==
  /\ DOMAIN configs = Name /\ DOMAIN asked = Caller
  /\ CodeFlowHasSecret
  /\ \A c \in Caller :
       asked[c] # Idle => /\ DOMAIN asked[c] = ConfigCallFields /\ asked[c].op \in ConfigOps
                          /\ RequestKeepsSecret(asked[c])
-----------------------------------------------------------------------------
\* The validation of the response type is that of the code flow.
LEMMA AcceptedHasSecret ==
  ASSUME NEW o, NEW ignore, OIDCRefusal(o, ignore) = "ok"
  PROVE  CodeHasSecret(OIDCRequest(o))
<1>1. ResponseTypeRefusal(o) = "ok"
  BY NoRefusal DEF OIDCRefusal
<1>2. Require(Flag(At(o, "responseType"), "code") = "true" => Given(o, "clientSecret"), "MISSING_OAUTH_CLIENT_SECRET") = "ok"
  BY <1>1, NoRefusal DEF ResponseTypeRefusal
<1>3. Flag(At(o, "responseType"), "code") = "true" => Given(o, "clientSecret")
  BY <1>2 DEF Require
<1>4. At(OIDCRequest(o), "responseType") = At(o, "responseType") /\ (Given(o, "clientSecret") <=> Given(OIDCRequest(o), "clientSecret"))
  BY DEF OIDCRequest, Without, Restrict, At, Given
<1> QED
  BY <1>3, <1>4 DEF CodeHasSecret

(* What a mask names: fields as a whole, fields of which it names parts, and *)
(* those parts.                                                             *)
WholeIn(mask) == {p[1] : p \in {q \in mask : Len(q) = 1}}
PartsIn(mask) == {p[1] : p \in {q \in mask : Len(q) = 2}}
NamedIn(mask, k) == {p[2] : p \in {q \in mask : Len(q) = 2 /\ q[1] = k}}

(* The objects of a request the mask enters.                                *)
Entered(request, terminalPaths) == {k \in DOMAIN request : k \in Nested \ terminalPaths /\ DOMAIN request[k] # {}}

\* The mask names a field that is no object, or an empty one, by itself, and of
\* any other object its fields.
LEMMA MaskPaths ==
  ASSUME NEW request, NEW terminalPaths
  PROVE  LET mask == generateUpdateMask(request, terminalPaths)
             entered == Entered(request, terminalPaths)
         IN /\ WholeIn(mask) = DOMAIN request \ entered
            /\ PartsIn(mask) = entered
            /\ \A k \in entered : NamedIn(mask, k) = DOMAIN request[k]
<1> DEFINE mask == generateUpdateMask(request, terminalPaths)
           entered == {k \in DOMAIN request : k \in Nested \ terminalPaths /\ DOMAIN request[k] # {}}
<1>1. mask = {<<k>> : k \in DOMAIN request \ entered}
              \cup UNION {{<<k, sub>> : sub \in DOMAIN request[k]} : k \in entered}
  BY DEF generateUpdateMask
<1> HIDE DEF mask, entered
<1>2. {q \in mask : Len(q) = 1} = {<<k>> : k \in DOMAIN request \ entered}
  BY <1>1
<1>3. {q \in mask : Len(q) = 2} = UNION {{<<k, sub>> : sub \in DOMAIN request[k]} : k \in entered}
  BY <1>1
<1>4. {p[1] : p \in {q \in mask : Len(q) = 1}} = DOMAIN request \ entered
  <2> DEFINE S == {q \in mask : Len(q) = 1}
  <2>1. ASSUME NEW k \in DOMAIN request \ entered
        PROVE  \E p \in S : p[1] = k
    <3>1. <<k>> \in S /\ <<k>>[1] = k
      BY <1>2
    <3> QED
      BY <3>1
  <2>2. \A p \in S : p[1] \in DOMAIN request \ entered
    BY <1>2
  <2>3. {p[1] : p \in S} = DOMAIN request \ entered
    <3> HIDE DEF S
    <3> QED
      BY <2>1, <2>2
  <2> QED
    BY <2>3
<1>5. {p[1] : p \in {q \in mask : Len(q) = 2}} = entered
  <2> DEFINE S == {q \in mask : Len(q) = 2}
  <2>1. ASSUME NEW k \in entered
        PROVE  \E p \in S : p[1] = k
    <3>1. PICK sub \in DOMAIN request[k] : TRUE
      BY DEF entered
    <3>2. <<k, sub>> \in S /\ <<k, sub>>[1] = k
      BY <1>3
    <3> QED
      BY <3>2
  <2>2. \A p \in S : p[1] \in entered
    BY <1>3
  <2>3. {p[1] : p \in S} = entered
    <3> HIDE DEF S
    <3> QED
      BY <2>1, <2>2
  <2> QED
    BY <2>3
<1>6. ASSUME NEW k \in entered
      PROVE  {p[2] : p \in {q \in mask : Len(q) = 2 /\ q[1] = k}} = DOMAIN request[k]
  <2> DEFINE S == {q \in mask : Len(q) = 2 /\ q[1] = k}
  <2>1. ASSUME NEW sub \in DOMAIN request[k]
        PROVE  \E p \in S : p[2] = sub
    <3>1. <<k, sub>> \in S /\ <<k, sub>>[2] = sub
      BY <1>3
    <3> QED
      BY <3>1
  <2>2. \A p \in S : p[2] \in DOMAIN request[k]
    BY <1>3
  <2>3. {p[2] : p \in S} = DOMAIN request[k]
    <3> HIDE DEF S
    <3> QED
      BY <2>1, <2>2
  <2> QED
    BY <2>3
<1> QED
  BY <1>4, <1>5, <1>6 DEF mask, entered, Entered, WholeIn, PartsIn, NamedIn

\* A change puts the fields of a request over what was there: of an object those
\* that it has, of the SMS regions and of what is named as a whole all of it.
IsChangeOf(new, old, request, terminalPaths) ==
  \A k :
    IF ~Given(request, k) THEN Held(new, k) = Held(old, k)
    ELSE /\ Given(new, k)
         /\ IF k \in Nested \ terminalPaths /\ DOMAIN request[k] # {}
            THEN /\ IsObject(request[k]) => IsObject(new[k])
                 /\ \A sub : Held(new[k], sub) =
                      IF Held(request[k], sub) = << >> /\ k # "smsRegionConfig" THEN Held(At(old, k), sub)
                      ELSE Held(request[k], sub)
            ELSE new[k] = request[k]

\* The server changes what the mask of the request names.
LEMMA PatchedIsChange ==
  ASSUME NEW old, NEW request, NEW terminalPaths
  PROVE  IsChangeOf(Patched(old, request, generateUpdateMask(request, terminalPaths)), old, request, terminalPaths)
<1> DEFINE mask == generateUpdateMask(request, terminalPaths)
           entered == Entered(request, terminalPaths)
           whole == WholeIn(mask)
           parts == PartsIn(mask)
           Named(k) == NamedIn(mask, k)
           Kept(k) == IF k = "smsRegionConfig" THEN EmptyObject ELSE At(old, k)
           Part(k) == [sub \in Named(k) \cup DOMAIN Kept(k) |->
                         IF sub \in Named(k) THEN request[k][sub] ELSE Kept(k)[sub]]
           new == Patched(old, request, mask)
<1>1. new = [k \in whole \cup parts \cup DOMAIN old |->
               IF k \in parts THEN Part(k) ELSE IF k \in whole THEN request[k] ELSE old[k]]
  BY DEF Patched, WholeIn, PartsIn, NamedIn
<1>2. whole = DOMAIN request \ entered /\ parts = entered /\ \A k \in entered : Named(k) = DOMAIN request[k]
  BY MaskPaths, Zenon
<1> HIDE DEF whole, parts, Named
<1>3. ASSUME NEW k \in entered
      PROVE  /\ IsObject(Part(k))
             /\ \A sub : Held(Part(k), sub) =
                  IF Held(request[k], sub) = << >> /\ k # "smsRegionConfig" THEN Held(At(old, k), sub)
                  ELSE Held(request[k], sub)
  <2> DEFINE all == Named(k) \cup DOMAIN Kept(k)
  <2>1. Named(k) = DOMAIN request[k]
    BY <1>2, <1>3
  <2>2. Part(k) = [sub \in all |-> IF sub \in DOMAIN request[k] THEN request[k][sub] ELSE Kept(k)[sub]]
    BY <2>1
  <2> HIDE DEF Kept, entered, Part, all
  <2>3. IsObject(Part(k))
    BY <2>2 DEF IsObject
  <2>4. \A sub : Held(Part(k), sub) = IF sub \in DOMAIN request[k] THEN <<request[k][sub]>> ELSE Held(Kept(k), sub)
    BY <2>1, <2>2 DEF Held, Given, all
  <2>5. \A sub : Held(Part(k), sub) = IF Held(request[k], sub) = << >> THEN Held(Kept(k), sub) ELSE Held(request[k], sub)
    BY <2>4 DEF Held, Given
  <2>6. \A sub : Held(EmptyObject, sub) = << >>
    BY HeldEmpty
  <2> QED
    BY <2>3, <2>5, <2>6 DEF Kept
<1> HIDE DEF Part, Kept, new
<1>4. \A k : k \in entered <=> k \in DOMAIN request /\ k \in Nested \ terminalPaths /\ DOMAIN request[k] # {}
  BY DEF Entered
<1> HIDE DEF entered
<1>5. DOMAIN new = DOMAIN request \cup DOMAIN old
  BY <1>1, <1>2, <1>4
<1>6. /\ \A k \in entered : new[k] = Part(k)
      /\ \A k \in DOMAIN request \ entered : new[k] = request[k]
      /\ \A k \in DOMAIN old \ DOMAIN request : new[k] = old[k]
  BY <1>1, <1>2, <1>4
<1>7. \A k : ~Given(request, k) => Held(new, k) = Held(old, k)
  BY <1>5, <1>6 DEF Held, Given
<1>8. IsChangeOf(new, old, request, terminalPaths)
  BY <1>3, <1>4, <1>5, <1>6, <1>7, Zenon DEF IsChangeOf, Given
<1> QED
  BY <1>8 DEF new

\* An update that needs no secret, or brings one, does not take the secret of
\* the flow it keeps.
LEMMA ChangeKeepsSecret ==
  ASSUME NEW old, NEW request, NEW new, IsChangeOf(new, old, request, {}), CodeHasSecret(old), CodeHasSecret(request)
  PROVE  CodeHasSecret(new)
<1> DEFINE type == "responseType"
<1>1. \A o : Flag(At(o, type), "code") = "true" <=> Held(At(o, type), "code") = <<"true">>
  BY DEF Flag, Held
<1>2. ASSUME Held(At(new, type), "code") = <<"true">>
      PROVE  \/ Held(At(request, type), "code") = <<"true">>
             \/ Held(At(old, type), "code") = <<"true">>
  <2>1. CASE ~Given(request, type)
    <3>1. Held(new, type) = Held(old, type)
      BY <2>1 DEF IsChangeOf
    <3>2. At(new, type) = At(old, type)
      BY <3>1 DEF At, Held
    <3> QED
      BY <1>2, <3>2
  <2>2. CASE Given(request, type)
    <3>1. At(new, type) = new[type] /\ At(request, type) = request[type]
      BY <2>2 DEF IsChangeOf, At
    <3>2. \/ new[type] = request[type]
          \/ Held(new[type], "code") \in {Held(At(old, type), "code"), Held(request[type], "code")}
      BY <2>2 DEF IsChangeOf
    <3> QED
      BY <1>2, <3>1, <3>2
  <2> QED
    BY <2>1, <2>2
<1>3. Given(request, "clientSecret") \/ Given(old, "clientSecret") => Given(new, "clientSecret")
  BY DEF IsChangeOf, Held
<1> QED
  BY <1>1, <1>2, <1>3 DEF CodeHasSecret
-----------------------------------------------------------------------------
\* A call is sent if its request keeps the secret.
LEMMA ConfigAskStep ==
  ASSUME ConfigInv, NEW c \in Caller, NEW op \in ConfigOps, NEW name, NEW a, AskConfig(c, op, name, a),
         op \in {"create", "update"} /\ name \in Oidc /\ a.refusal = "ok" =>
           /\ CodeHasSecret(a.request)
           /\ op = "update" => a.mask = generateUpdateMask(a.request, {})
  PROVE  ConfigInv'
<1> DEFINE asking == [op |-> op, name |-> name, request |-> a.request, mask |-> a.mask,
                    phase |-> "sent", tries |-> 0, response |-> NoAnswer]
<1>1. DOMAIN asked' = Caller /\ \A d \in Caller \ {c} : asked'[d] = asked[d]
  BY DEF AskConfig, ConfigInv
<1>2. asked'[c] = asked[c] \/ (a.refusal = "ok" /\ asked'[c] = asking)
  <2>1. CASE a.refusal = "ok"
    <3>1. asked' = [asked EXCEPT ![c] = asking]
      BY <2>1 DEF AskConfig
    <3> HIDE DEF asking
    <3> QED
      BY <2>1, <3>1 DEF ConfigInv
  <2>2. CASE a.refusal # "ok"
    BY <2>2 DEF AskConfig
  <2> QED
    BY <2>1, <2>2
<1>3. DOMAIN asking = ConfigCallFields /\ asking.op \in ConfigOps /\ (a.refusal = "ok" => RequestKeepsSecret(asking))
  BY DEF ConfigCallFields, RequestKeepsSecret
<1>4. configs' = configs
  BY DEF AskConfig
<1> HIDE DEF asking
<1> QED
  BY <1>1, <1>2, <1>3, <1>4 DEF ConfigInv, CodeFlowHasSecret

LEMMA OtherAskStep ==
  ASSUME ConfigInv, NEW c \in Caller, NEW op \in ConfigOps, NEW name, NEW a, AskConfig(c, op, name, a),
         op \notin {"create", "update"} \/ name \notin Oidc
  PROVE  ConfigInv'
BY ConfigAskStep

LEMMA ProviderStep ==
  ASSUME ConfigInv, NEW c \in Caller, createProviderConfig(c) \/ updateProviderConfig(c)
  PROVE  ConfigInv'
<1>1. CASE createProviderConfig(c)
  <2>1. PICK o \in NewProviders :
          AskConfig(c, "create", o.providerId, ByProvider(o.providerId, createOAuthIdpConfig(o), createInboundSamlConfig(o)))
    BY <1>1 DEF createProviderConfig
  <2> DEFINE a == ByProvider(o.providerId, createOAuthIdpConfig(o), createInboundSamlConfig(o))
  <2>2. ASSUME o.providerId \in Oidc, a.refusal = "ok"
        PROVE  CodeHasSecret(a.request)
    <3>1. OIDCRefusal(o, FALSE) = "ok" /\ a.request = OIDCRequest(o)
      BY <2>2 DEF ByProvider, createOAuthIdpConfig, Asking
    <3> QED
      BY <3>1, AcceptedHasSecret
  <2> HIDE DEF a
  <2> QED
    BY <2>1, <2>2, ConfigAskStep DEF a, ConfigOps
<1>2. CASE updateProviderConfig(c)
  <2>1. PICK u \in ProviderUpdates :
          AskConfig(c, "update", u.id,
                    ByProvider(u.id, updateOAuthIdpConfig(u.id, u.config), updateInboundSamlConfig(u.id, u.config)))
    BY <1>2 DEF updateProviderConfig
  <2> DEFINE a == ByProvider(u.id, updateOAuthIdpConfig(u.id, u.config), updateInboundSamlConfig(u.id, u.config))
  <2>2. ASSUME u.id \in Oidc, a.refusal = "ok"
        PROVE  CodeHasSecret(a.request) /\ a.mask = generateUpdateMask(a.request, {})
    <3>1. /\ FirstRefusal(<<OnlyFor(Oidc, u.id), OIDCRefusal(u.config, TRUE)>>) = "ok"
          /\ a.request = OIDCRequest(u.config) /\ a.mask = generateUpdateMask(a.request, {})
      BY <2>2 DEF ByProvider, updateOAuthIdpConfig, Updating, Asking
    <3>2. OIDCRefusal(u.config, TRUE) = "ok"
      BY <3>1, NeitherRefusal
    <3> QED
      BY <3>1, <3>2, AcceptedHasSecret
  <2> HIDE DEF a
  <2> QED
    BY <2>1, <2>2, ConfigAskStep DEF a, ConfigOps
<1> QED
  BY <1>1, <1>2

\* What the server stores of a new provider is the request, and of an updated one
\* what the mask names: a call goes on with the request it sent.
LEMMA ConfigServeStep ==
  ASSUME ConfigsAssumption, ConfigInv, NEW c \in Caller, ServeConfig(c)
  PROVE  ConfigInv'
<1> DEFINE asking == asked[c]
           n == asking.name
<1>1. asking # Idle /\ DOMAIN asking = ConfigCallFields /\ asking.op \in ConfigOps /\ RequestKeepsSecret(asking)
  BY DEF ServeConfig, ConfigInv
<1>2. PICK response : ConfigAnswered(c, response)
  BY DEF ServeConfig, ServeNew, ServePage, ServeExisting
<1>3. /\ DOMAIN asked' = Caller /\ \A d \in Caller \ {c} : asked'[d] = asked[d]
      /\ asked'[c] = [asking EXCEPT !.response = response, !.phase = "answered"]
  BY <1>2 DEF ConfigAnswered, ConfigInv
<1>4. DOMAIN asked'[c] = ConfigCallFields /\ asked'[c].op \in ConfigOps /\ RequestKeepsSecret(asked'[c])
  <2>1. /\ DOMAIN asked'[c] = ConfigCallFields /\ asked'[c].op = asking.op /\ asked'[c].name = n
        /\ asked'[c].request = asking.request /\ asked'[c].mask = asking.mask
    BY <1>1, <1>3 DEF ConfigCallFields
  <2> QED
    BY <1>1, <2>1 DEF RequestKeepsSecret
<1>5. DOMAIN configs' = Name /\ CodeFlowHasSecret'
  <2>1. CASE configs' = configs
    BY <2>1 DEF ConfigInv, CodeFlowHasSecret
  <2>2. CASE asking.op = "create" /\ configs' # configs
    <3>1. ServeNew(c)
      BY <2>2 DEF ServeConfig
    <3>2. PICK m \in IF n = Project THEN Tenants ELSE {n} : configs' = [configs EXCEPT ![m] = <<asking.request>>]
      BY <2>2, <3>1 DEF ServeNew
    <3>3. m \in Oidc => m = n
      BY <3>2, ConfigsAssumption DEF ConfigsAssumption
    <3>4. m \in Oidc => CodeHasSecret(asking.request)
      BY <1>1, <2>2, <3>3 DEF RequestKeepsSecret
    <3> QED
      BY <3>2, <3>4 DEF ConfigInv, CodeFlowHasSecret, Name
  <2>3. CASE asking.op # "create" /\ configs' # configs
    <3> DEFINE old == configs[n][1]
               new == Patched(old, asking.request, asking.mask)
               kept == IF configs[n] = << >> \/ asking.op = "get" THEN configs[n]
                       ELSE IF asking.op = "delete" THEN << >> ELSE <<new>>
    <3>1. ServeExisting(c) /\ asking.op # "list"
      BY <2>3 DEF ServeConfig, ServePage
    <3>2. configs' = [configs EXCEPT ![n] = kept]
      BY <3>1 DEF ServeExisting
    <3>3. ASSUME n \in Oidc, kept # << >>
          PROVE  CodeHasSecret(kept[1])
      <4>1. configs[n] = << >> \/ CodeHasSecret(old)
        BY <3>3 DEF ConfigInv, CodeFlowHasSecret
      <4>2. CASE kept = configs[n]
        BY <3>3, <4>1, <4>2
      <4>3. CASE kept = <<new>> /\ configs[n] # << >> /\ asking.op = "update"
        <5>1. IsChangeOf(new, old, asking.request, {}) /\ CodeHasSecret(asking.request)
          BY <1>1, <3>3, <4>3, PatchedIsChange DEF RequestKeepsSecret
        <5>2. CodeHasSecret(new)
          <6> DEFINE request == asking.request
          <6>1. IsChangeOf(new, old, request, {}) /\ CodeHasSecret(old) /\ CodeHasSecret(request)
            BY <4>1, <4>3, <5>1
          <6> HIDE DEF new, old, request
          <6> QED
            BY <6>1, ChangeKeepsSecret
        <5> QED
          BY <4>3, <5>2
      <4>4. configs[n] = << >> \/ asking.op \in {"get", "delete", "update"}
        BY <1>1, <2>3, <3>1 DEF ConfigOps
      <4>5. \/ kept = configs[n]
            \/ kept = << >>
            \/ kept = <<new>> /\ configs[n] # << >> /\ asking.op = "update"
        <5> HIDE DEF new, old, asking
        <5> QED
          BY <4>4
      <4> HIDE DEF new, kept
      <4> QED
        BY <3>3, <4>2, <4>3, <4>5
    <3> HIDE DEF kept
    <3> QED
      BY <3>2, <3>3 DEF ConfigInv, CodeFlowHasSecret, Name
  <2> QED
    BY <2>1, <2>2, <2>3
<1> QED
  BY <1>3, <1>4, <1>5 DEF ConfigInv

\* What is returned or lost changes no configuration; a request that is repeated
\* is the one that was sent.
LEMMA ConfigAnswerStep ==
  ASSUME ConfigInv, NEW c \in Caller, ReturnConfig(c) \/ LoseConfigAnswer(c)
  PROVE  ConfigInv'
<1> DEFINE asking == asked[c]
           again == [asking EXCEPT !.phase = "sent", !.tries = @ + 1]
<1>1. asking # Idle /\ DOMAIN asking = ConfigCallFields /\ asking.op \in ConfigOps /\ RequestKeepsSecret(asking)
  BY DEF ReturnConfig, LoseConfigAnswer, ConfigInv
<1>2. configs' = configs
  BY DEF ReturnConfig, LoseConfigAnswer, FinishConfig
<1>3. /\ DOMAIN asked' = Caller /\ \A d \in Caller \ {c} : asked'[d] = asked[d]
      /\ asked'[c] \in {Idle, again}
  <2> HIDE DEF Idle
  <2> QED
    BY DEF ReturnConfig, LoseConfigAnswer, FinishConfig, ConfigInv
<1>4. DOMAIN again = ConfigCallFields /\ again.op \in ConfigOps /\ RequestKeepsSecret(again)
  <2>1. /\ DOMAIN again = ConfigCallFields /\ again.op = asking.op /\ again.name = asking.name
        /\ again.request = asking.request /\ again.mask = asking.mask
    BY <1>1 DEF ConfigCallFields
  <2> QED
    BY <1>1, <2>1 DEF RequestKeepsSecret
<1> HIDE DEF again
<1> QED
  BY <1>2, <1>3, <1>4 DEF ConfigInv, CodeFlowHasSecret

LEMMA ConfigNextInv ==
  ASSUME ConfigsAssumption, ConfigInv, [ConfigNext]_configVars
  PROVE  ConfigInv'
<1>1. CASE UNCHANGED configVars
  BY <1>1 DEF configVars, ConfigInv, CodeFlowHasSecret
<1>2. ASSUME NEW c \in Caller, createProviderConfig(c) \/ updateProviderConfig(c)
      PROVE  ConfigInv'
  BY <1>2, ProviderStep
<1>3. ASSUME NEW c \in Caller, getProviderConfig(c) \/ deleteProviderConfig(c) \/ listProviderConfigs(c)
      PROVE  ConfigInv'
  <2>1. \A op \in {"get", "delete", "list"} : op \in ConfigOps /\ op \notin {"create", "update"}
    BY DEF ConfigOps
  <2>2. \A op \in {"get", "delete", "list"} : \A name, a : AskConfig(c, op, name, a) => ConfigInv'
    BY <2>1, OtherAskStep
  <2> QED
    BY <1>3, <2>2 DEF getProviderConfig, deleteProviderConfig, listProviderConfigs
<1>4. ASSUME NEW c \in Caller, getTenant(c) \/ deleteTenant(c) \/ listTenants(c) \/ getProjectConfig(c)
      PROVE  ConfigInv'
  <2>1. \A op \in {"get", "delete", "list"} : op \in ConfigOps /\ op \notin {"create", "update"}
    BY DEF ConfigOps
  <2>2. \A op \in {"get", "delete", "list"} : \A name, a : AskConfig(c, op, name, a) => ConfigInv'
    BY <2>1, OtherAskStep
  <2> QED
    BY <1>4, <2>2 DEF getTenant, deleteTenant, listTenants, getProjectConfig
<1>5. ASSUME NEW c \in Caller, createTenant(c) \/ updateTenant(c) \/ updateProjectConfig(c)
      PROVE  ConfigInv'
  <2>1. \A op \in {"create", "update"} : op \in ConfigOps
    BY DEF ConfigOps
  <2>2. \A name \in Tenants \cup {Project, ""} : name \notin Oidc
    BY ConfigsAssumption DEF ConfigsAssumption
  <2>3. \A op \in {"create", "update"}, name \in Tenants \cup {Project, ""} : \A a :
          AskConfig(c, op, name, a) => ConfigInv'
    BY <2>1, <2>2, OtherAskStep
  <2> QED
    BY <1>5, <2>3, ConfigsAssumption DEF createTenant, updateTenant, updateProjectConfig, ConfigsAssumption
<1>6. ASSUME NEW c \in Caller, ServeConfig(c) \/ ReturnConfig(c) \/ LoseConfigAnswer(c)
      PROVE  ConfigInv'
  BY <1>6, ConfigServeStep, ConfigAnswerStep
<1> QED
  BY <1>1, <1>2, <1>3, <1>4, <1>5, <1>6 DEF ConfigNext

\* Whatever is asked, served, lost and repeated, no identity provider is left
\* with the code flow and without the secret it needs.
THEOREM CodeFlowKeepsSecret == ConfigSpec => []CodeFlowHasSecret
<1>1. ConfigInit => ConfigInv
  BY ConfigsAssumption DEF ConfigInit, ConfigsAssumption, ConfigInv, CodeFlowHasSecret
<1>2. ConfigInv /\ [ConfigNext]_configVars => ConfigInv'
  BY ConfigsAssumption, ConfigNextInv
<1>3. ConfigInv => CodeFlowHasSecret
  BY DEF ConfigInv
<1> QED
  BY <1>1, <1>2, <1>3, PTL DEF ConfigSpec
-----------------------------------------------------------------------------
\* The operators of the store are those of the code's model.
LEMMA ConfigObjects ==
  ASSUME NEW o, NEW p
  PROVE  /\ Configs!++(o, p) = o ++ p /\ Configs!Field(o, p) = Field(o, p)
         /\ Configs!Without(o, p) = Without(o, p)
         /\ Configs!Part(o, p) = At(o, p) /\ Configs!EmptyObject = EmptyObject
         /\ Configs!Given(o, p) <=> Given(o, p)
<1>1. Configs!++(o, p) = o ++ p
  <2> DEFINE both(a, b) == [k \in DOMAIN a \cup DOMAIN b |-> IF k \in DOMAIN a THEN a[k] ELSE b[k]]
  <2>1. Configs!++(o, p) = CHOOSE f \in {both(a, b) : a \in {o}, b \in {p}} : TRUE
    BY DEF Configs!++
  <2>2. o ++ p = CHOOSE f \in {both(a, b) : a \in {o}, b \in {p}} : TRUE
    BY DEF ++
  <2> HIDE DEF both
  <2> QED
    BY <2>1, <2>2
<1>2. Configs!Field(o, p) = Field(o, p)
  BY DEF Configs!Field, Field
<1>3. Configs!Without(o, p) = Without(o, p)
  BY DEF Configs!Without, Without, Configs!Restrict, Restrict
<1>4. (Configs!Given(o, p) <=> Given(o, p)) /\ Configs!EmptyObject = EmptyObject
  BY DEF Configs!Given, Given, Configs!EmptyObject, EmptyObject
<1>5. Configs!Part(o, p) = At(o, p)
  BY <1>4 DEF Configs!Part, At
<1> QED
  BY <1>1, <1>2, <1>3, <1>4, <1>5

\* An object renamed by a table of different names holds under each what it held.
LEMMA HeldRenamedAll ==
  ASSUME NEW o, NEW names, \A m, n \in DOMAIN names : names[m] = names[n] => m = n
  PROVE  /\ IsObject(RenameAll(o, names))
         /\ \A n \in DOMAIN names : Held(RenameAll(o, names), names[n]) = Held(o, n)
         /\ \A k : (\A n \in DOMAIN names : names[n] # k) => Held(RenameAll(o, names), k) = << >>
<1> DEFINE both == DOMAIN names \cap DOMAIN o
           f == RenameAll(o, names)
<1>1. f = [k \in {names[n] : n \in both} |-> o[CHOOSE n \in both : names[n] = k]]
  BY DEF RenameAll
<1>2. ASSUME NEW n \in both
      PROVE  (CHOOSE m \in both : names[m] = names[n]) = n
  BY <1>2
<1> HIDE DEF f, both
<1>3. \A n \in both : names[n] \in DOMAIN f /\ f[names[n]] = o[n]
  BY <1>1, <1>2
<1>4. \A k : k \in DOMAIN f => \E n \in both : k = names[n]
  BY <1>1
<1>5. \A n \in DOMAIN names : n \in both <=> n \in DOMAIN o
  BY DEF both
<1>6. both \subseteq DOMAIN names
  BY DEF both
<1>7. IsObject(f)
  BY <1>1 DEF IsObject
<1>8. ASSUME NEW n \in DOMAIN names
      PROVE  Held(f, names[n]) = Held(o, n)
  <2>1. names[n] \in DOMAIN f <=> n \in DOMAIN o
    BY <1>3, <1>4, <1>5, <1>6
  <2> QED
    BY <1>3, <1>5, <2>1 DEF Held, Given
<1>9. \A k : (\A n \in DOMAIN names : names[n] # k) => Held(f, k) = << >>
  BY <1>4, <1>6 DEF Held, Given
<1> QED
  BY <1>7, <1>8, <1>9 DEF f

\* What is shown of a provider after a change of its configuration.
LEMMA ChangedProviderHolds ==
  ASSUME NEW id, NEW old, NEW o
  PROVE  LET changed == Configs!ChangedProvider(id, old, o)
             e == Configs!Effective(id, o)
         IN /\ IsObject(changed)
            /\ \A k : Held(changed, k) =
                 IF k = "providerId" \/ Held(e, k) = << >> THEN Held(old, k)
                 ELSE IF k = "responseType" THEN <<Configs!Merged(At(old, k), e[k])>>
                 ELSE Held(e, k)
<1> DEFINE e == Configs!Effective(id, o)
           w == Without(e, {"providerId"})
           type == [k \in DOMAIN w \cap {"responseType"} |-> Configs!Merged(At(old, k), w[k])]
<1>1. Configs!ChangedProvider(id, old, o) = (type ++ w) ++ old
  <2>1. w = Configs!Without(e, {"providerId"})
    BY ConfigObjects
  <2>2. type = [k \in DOMAIN w \cap {"responseType"} |-> Configs!Merged(Configs!Part(old, k), w[k])]
    BY ConfigObjects
  <2>3. (type ++ w) ++ old = Configs!++(Configs!++(type, w), old)
    BY ConfigObjects
  <2> HIDE DEF e, w, type
  <2> QED
    BY <2>1, <2>2, <2>3 DEF Configs!ChangedProvider, e
<1>2. \A k : Held(w, k) = IF k = "providerId" THEN << >> ELSE Held(e, k)
  <2> HIDE DEF e
  <2> QED
    BY HeldParts
<1>3. \A k : Held(type, k) = IF k = "responseType" /\ Held(w, k) # << >> THEN <<Configs!Merged(At(old, k), w[k])>> ELSE << >>
  <2> HIDE DEF w
  <2> QED
    BY DEF Held, Given
<1>4. Held(w, "responseType") # << >> => w["responseType"] = e["responseType"]
  <2> HIDE DEF e, w
  <2> QED
    BY <1>2 DEF Held
<1> HIDE DEF e, w, type
<1>5. IsObject((type ++ w) ++ old)
  BY HeldOver
<1>6. \A k : Held((type ++ w) ++ old, k) =
        IF Held(type, k) # << >> THEN Held(type, k) ELSE IF Held(w, k) # << >> THEN Held(w, k) ELSE Held(old, k)
  BY HeldOver
<1> QED
  BY <1>1, <1>2, <1>3, <1>4, <1>5, <1>6 DEF e

\* A flag not held is false.
LEMMA HeldFlag ==
  ASSUME NEW o, NEW k
  PROVE  <<Flag(o, k)>> = IF Held(o, k) = << >> THEN <<"false">> ELSE Held(o, k)
BY DEF Flag, Held

\* An object under a key, as the empty one where there is none.
LEMMA HeldUnder ==
  ASSUME NEW key, NEW object, IsObject(object)
  PROVE  /\ IsObject(Under(key, object))
         /\ \A k : Held(Under(key, object), k) = IF k = key /\ DOMAIN object # {} THEN <<object>> ELSE << >>
         /\ \A sub : Held(At(Under(key, object), key), sub) = Held(object, sub)
<1>1. CASE DOMAIN object = {}
  <2>1. Under(key, object) = EmptyObject
    BY <1>1 DEF Under
  <2>2. IsObject(EmptyObject) /\ \A k : Held(EmptyObject, k) = << >>
    BY HeldEmpty
  <2>3. \A sub : Held(object, sub) = << >>
    BY <1>1 DEF Held, Given
  <2>4. At(EmptyObject, key) = EmptyObject
    BY <2>2 DEF At, Held
  <2> QED
    BY <1>1, <2>1, <2>2, <2>3, <2>4
<1>2. CASE DOMAIN object # {}
  <2>1. Under(key, object) = Field(key, object)
    BY <1>2 DEF Under
  <2>2. IsObject(Field(key, object)) /\ \A k : Held(Field(key, object), k) = IF k = key THEN <<object>> ELSE << >>
    BY HeldField
  <2>3. At(Field(key, object), key) = object
    BY <2>2 DEF At, Held
  <2> QED
    BY <1>2, <2>1, <2>2, <2>3
<1> QED
  BY <1>1, <1>2

\* What is held under a key of an object, said of the part that is there.
LEMMA AtOfHeld ==
  ASSUME NEW o, NEW p, NEW k, Held(o, k) = Held(p, k)
  PROVE  At(o, k) = At(p, k)
BY DEF At, Held

\* An object of a change holds what the request has of it over what was there.
LEMMA PartOfChange ==
  ASSUME NEW new, NEW old, NEW request, NEW terminalPaths, IsChangeOf(new, old, request, terminalPaths),
         NEW k \in Nested \ terminalPaths, k # "smsRegionConfig",
         Given(request, k) => DOMAIN request[k] # {}
  PROVE  /\ Given(new, k) <=> Given(request, k) \/ Given(old, k)
         /\ \A sub : Held(At(new, k), sub) =
              IF Held(At(request, k), sub) = << >> THEN Held(At(old, k), sub) ELSE Held(At(request, k), sub)
<1>1. CASE ~Given(request, k)
  <2>1. Held(new, k) = Held(old, k) /\ At(request, k) = EmptyObject
    BY <1>1 DEF IsChangeOf, At
  <2>2. At(new, k) = At(old, k)
    BY <2>1, AtOfHeld
  <2> QED
    BY <1>1, <2>1, <2>2, HeldEmpty, HeldNothing
<1>2. CASE Given(request, k)
  <2>1. At(request, k) = request[k] /\ Given(new, k) /\ At(new, k) = new[k]
    BY <1>2 DEF IsChangeOf, At
  <2> QED
    BY <1>2, <2>1 DEF IsChangeOf
<1> QED
  BY <1>1, <1>2

\* What a change sets as a whole.
LEMMA WholeOfChange ==
  ASSUME NEW new, NEW old, NEW request, NEW terminalPaths, IsChangeOf(new, old, request, terminalPaths),
         NEW k, k \notin Nested \ terminalPaths
  PROVE  Held(new, k) = IF Held(request, k) = << >> THEN Held(old, k) ELSE Held(request, k)
BY HeldNothing DEF IsChangeOf
-----------------------------------------------------------------------------
(* SAML providers. *)

SamlNames == [idpEntityId |-> "idpEntityId", ssoURL |-> "ssoUrl", x509Certificates |-> "idpCertificates"]
SamlServiceNames == [rpEntityId |-> "spEntityId", callbackURL |-> "callbackUri"]

\* What is shown of a SAML provider, part by part.
LEMMA SamlShows ==
  ASSUME NEW id, NEW r
  PROVE  LET shown == SAMLConfig(id, r)
         IN /\ IsObject(shown)
            /\ Held(shown, "providerId") = <<id>>
            /\ Held(shown, "enabled") = <<Flag(r, "enabled")>>
            /\ Held(shown, "enableRequestSigning") = <<Flag(At(r, "idpConfig"), "signRequest")>>
            /\ Held(shown, "displayName") = Held(r, "displayName")
            /\ \A n \in DOMAIN SamlNames : Held(shown, n) = Held(At(r, "idpConfig"), SamlNames[n])
            /\ \A n \in DOMAIN SamlServiceNames : Held(shown, n) = Held(At(r, "spConfig"), SamlServiceNames[n])
            /\ \A k : k \notin SAMLAuthProviderConfig => Held(shown, k) = << >>
<1> DEFINE idp == At(r, "idpConfig")
           sp == At(r, "spConfig")
           first == [providerId |-> id, enabled |-> Flag(r, "enabled"), enableRequestSigning |-> Flag(idp, "signRequest")]
           name == Only(r, {"displayName"})
           ofIdp == RenameBack(idp, SAMLConfigServerRequest.idpConfig)
           ofSp == RenameBack(sp, SAMLConfigServerRequest.spConfig)
<1>1. SAMLConfig(id, r) = ((first ++ name) ++ ofIdp) ++ ofSp
  BY DEF SAMLConfig
<1>2. /\ Held(first, "providerId") = <<id>> /\ Held(first, "enabled") = <<Flag(r, "enabled")>>
      /\ Held(first, "enableRequestSigning") = <<Flag(idp, "signRequest")>>
      /\ \A k : k \notin {"providerId", "enabled", "enableRequestSigning"} => Held(first, k) = << >>
  <2> HIDE DEF idp
  <2> QED
    BY DEF Held, Given
<1>3. \A k : Held(name, k) = IF k = "displayName" THEN Held(r, k) ELSE << >>
  BY HeldParts
<1>4. \A k : Held(ofIdp, k) = IF k \in DOMAIN SAMLConfigServerRequest.idpConfig
                              THEN Held(idp, SAMLConfigServerRequest.idpConfig[k]) ELSE << >>
  <2> HIDE DEF idp
  <2> QED
    BY HeldRenamedBack
<1>5. \A k : Held(ofSp, k) = IF k \in DOMAIN SAMLConfigServerRequest.spConfig
                             THEN Held(sp, SAMLConfigServerRequest.spConfig[k]) ELSE << >>
  <2> HIDE DEF sp
  <2> QED
    BY HeldRenamedBack
<1> HIDE DEF first, name, ofIdp, ofSp, idp, sp
<1>6. /\ IsObject(SAMLConfig(id, r))
      /\ \A k : Held(SAMLConfig(id, r), k) =
           IF Held(first, k) # << >> THEN Held(first, k)
           ELSE IF Held(name, k) # << >> THEN Held(name, k)
           ELSE IF Held(ofIdp, k) # << >> THEN Held(ofIdp, k) ELSE Held(ofSp, k)
  BY <1>1, HeldOver
<1>7. /\ \A k \in {"providerId", "enabled", "enableRequestSigning"} : Held(SAMLConfig(id, r), k) = Held(first, k)
      /\ \A k : k \notin {"providerId", "enabled", "enableRequestSigning"} => Held(first, k) = << >>
  BY <1>2, <1>6
<1>8. Held(SAMLConfig(id, r), "displayName") = Held(r, "displayName")
  BY <1>3, <1>4, <1>5, <1>6, <1>7 DEF SAMLConfigServerRequest
<1>9. \A n \in DOMAIN SamlNames : Held(SAMLConfig(id, r), n) = Held(idp, SamlNames[n])
  BY <1>3, <1>4, <1>5, <1>6, <1>7 DEF SAMLConfigServerRequest, SamlNames
<1>10. \A n \in DOMAIN SamlServiceNames : Held(SAMLConfig(id, r), n) = Held(sp, SamlServiceNames[n])
  BY <1>3, <1>4, <1>5, <1>6, <1>7 DEF SAMLConfigServerRequest, SamlServiceNames
<1>11. \A k : k \notin SAMLAuthProviderConfig => Held(SAMLConfig(id, r), k) = << >>
  BY <1>3, <1>4, <1>5, <1>6, <1>7 DEF SAMLConfigServerRequest, SAMLAuthProviderConfig
<1> QED
  BY <1>2, <1>6, <1>7, <1>8, <1>9, <1>10, <1>11 DEF idp, sp

\* A request about a SAML provider holds what takes effect, under the names of
\* the server; the signing of requests goes with other data only.
LEMMA SamlSends ==
  ASSUME NEW id \in Saml, NEW o
  PROVE  LET q == SAMLRequest(o)
             e == Configs!Effective(id, o)
         IN /\ \A k : k # "enableRequestSigning" => Held(e, k) = Held(o, k)
            /\ \A k \in {"enabled", "displayName"} : Held(q, k) = Held(e, k)
            /\ \A n \in DOMAIN SamlNames : Held(At(q, "idpConfig"), SamlNames[n]) = Held(e, n)
            /\ Held(At(q, "idpConfig"), "signRequest") = Held(e, "enableRequestSigning")
            /\ \A n \in DOMAIN SamlServiceNames : Held(At(q, "spConfig"), SamlServiceNames[n]) = Held(e, n)
            /\ \A k \in {"idpConfig", "spConfig"} : Given(q, k) => DOMAIN q[k] # {} /\ IsObject(q[k])
<1> DEFINE plain == Only(o, {"enabled", "displayName"})
           names == SAMLConfigServerRequest.idpConfig
           idp == RenameAll(o, names)
           sp == RenameAll(o, SAMLConfigServerRequest.spConfig)
           ofIdp == IF DOMAIN idp \subseteq {"signRequest"} THEN EmptyObject ELSE Field("idpConfig", idp)
           ofSp == Under("spConfig", sp)
           q == SAMLRequest(o)
           e == Configs!Effective(id, o)
           given == DOMAIN o \cap {"idpEntityId", "ssoURL", "x509Certificates"} # {}
<1>1. q = (plain ++ ofIdp) ++ ofSp
  BY DEF SAMLRequest
<1>2. \A k : Held(plain, k) = IF k \in {"enabled", "displayName"} THEN Held(o, k) ELSE << >>
  BY HeldParts
<1>3. /\ IsObject(idp) /\ \A n \in DOMAIN names : Held(idp, names[n]) = Held(o, n)
      /\ \A k : (\A n \in DOMAIN names : names[n] # k) => Held(idp, k) = << >>
  <2>1. \A m, n \in DOMAIN names : names[m] = names[n] => m = n
    BY DEF SAMLConfigServerRequest
  <2> HIDE DEF names
  <2> QED
    BY <2>1, HeldRenamedAll
<1>4. IsObject(sp) /\ \A n \in DOMAIN SamlServiceNames : Held(sp, SamlServiceNames[n]) = Held(o, n)
  <2>1. SAMLConfigServerRequest.spConfig = SamlServiceNames
    BY DEF SAMLConfigServerRequest, SamlServiceNames
  <2>2. \A m, n \in DOMAIN SamlServiceNames : SamlServiceNames[m] = SamlServiceNames[n] => m = n
    BY DEF SamlServiceNames
  <2> QED
    BY <2>1, <2>2, HeldRenamedAll
<1>5. given <=> ~(DOMAIN idp \subseteq {"signRequest"})
  <2>1. /\ names["idpEntityId"] = "idpEntityId" /\ names["ssoURL"] = "ssoUrl"
        /\ names["x509Certificates"] = "idpCertificates" /\ names["enableRequestSigning"] = "signRequest"
        /\ DOMAIN names = {"idpEntityId", "ssoURL", "x509Certificates", "enableRequestSigning"}
    BY DEF SAMLConfigServerRequest
  <2>2. \A k : k \in DOMAIN idp <=> Held(idp, k) # << >>
    BY DEF Held, Given
  <2>3. \A k : k \in DOMAIN o <=> Held(o, k) # << >>
    BY DEF Held, Given
  <2> HIDE DEF names, idp
  <2> QED
    BY <1>3, <2>1, <2>2, <2>3
<1>6. e = IF given THEN o ELSE Without(o, {"enableRequestSigning"})
  BY ConfigObjects DEF Configs!Effective
<1>7. /\ \A k : k # "enableRequestSigning" => Held(e, k) = Held(o, k)
      /\ Held(e, "enableRequestSigning") = IF given THEN Held(o, "enableRequestSigning") ELSE << >>
  <2>1. \A k : Held(Without(o, {"enableRequestSigning"}), k) = IF k = "enableRequestSigning" THEN << >> ELSE Held(o, k)
    BY HeldParts
  <2> HIDE DEF given, e
  <2> QED
    BY <1>6, <2>1
<1>8. \A k : Held(ofIdp, k) = IF k = "idpConfig" /\ given THEN <<idp>> ELSE << >>
  <2> HIDE DEF given, idp
  <2> QED
    BY <1>5, HeldField, HeldEmpty
<1>9. \A k : Held(ofSp, k) = IF k = "spConfig" /\ DOMAIN sp # {} THEN <<sp>> ELSE << >>
  <2> HIDE DEF sp
  <2> QED
    BY <1>4, HeldUnder
<1>10. DOMAIN names = DOMAIN SamlNames \cup {"enableRequestSigning"} /\ \A n \in DOMAIN SamlNames : names[n] = SamlNames[n]
  BY DEF SAMLConfigServerRequest, SamlNames
<1>11. names["enableRequestSigning"] = "signRequest"
  BY DEF SAMLConfigServerRequest
<1> HIDE DEF plain, ofIdp, ofSp, idp, sp, q, e, names
<1>12. \A k : Held(q, k) = IF Held(plain, k) # << >> THEN Held(plain, k)
                           ELSE IF Held(ofIdp, k) # << >> THEN Held(ofIdp, k) ELSE Held(ofSp, k)
  BY <1>1, HeldOver
<1>13. /\ \A k \in {"enabled", "displayName"} : Held(q, k) = Held(o, k)
       /\ Held(q, "idpConfig") = IF given THEN <<idp>> ELSE << >>
       /\ Held(q, "spConfig") = IF DOMAIN sp # {} THEN <<sp>> ELSE << >>
  <2> HIDE DEF given
  <2> QED
    BY <1>2, <1>8, <1>9, <1>12
<1>14. \A k : \A v : Held(q, k) = <<v>> => Given(q, k) /\ q[k] = v /\ At(q, k) = v
  BY DEF Held, At
<1>15. \A k : Held(q, k) = << >> => ~Given(q, k) /\ At(q, k) = EmptyObject
  BY DEF Held, At
<1>16. \A k \in {"idpConfig", "spConfig"} : Given(q, k) => DOMAIN q[k] # {} /\ IsObject(q[k])
  <2> HIDE DEF given
  <2>1. given => DOMAIN idp # {}
    BY <1>5
  <2> QED
    BY <1>3, <1>4, <1>13, <1>14, <1>15, <2>1
<1>17. \A n \in DOMAIN SamlServiceNames : Held(At(q, "spConfig"), SamlServiceNames[n]) = Held(e, n)
  <2>1. CASE DOMAIN sp # {}
    BY <1>4, <1>7, <1>13, <1>14, <2>1 DEF SamlServiceNames
  <2>2. CASE DOMAIN sp = {}
    <3>1. \A k : Held(sp, k) = << >>
      BY <2>2 DEF Held, Given
    <3>2. \A k : Held(At(q, "spConfig"), k) = << >>
      BY <1>13, <1>15, <2>2, HeldEmpty
    <3> QED
      BY <1>4, <1>7, <3>1, <3>2 DEF SamlServiceNames
  <2> QED
    BY <2>1, <2>2
<1>18. /\ \A n \in DOMAIN SamlNames : Held(At(q, "idpConfig"), SamlNames[n]) = Held(e, n)
       /\ Held(At(q, "idpConfig"), "signRequest") = Held(e, "enableRequestSigning")
  <2>0. "enableRequestSigning" \notin DOMAIN SamlNames /\ DOMAIN SamlNames = {"idpEntityId", "ssoURL", "x509Certificates"}
    BY DEF SamlNames
  <2>1. CASE given
    <3>1. At(q, "idpConfig") = idp
      BY <1>13, <1>14, <2>1
    <3> HIDE DEF given
    <3> QED
      BY <1>3, <1>7, <1>10, <1>11, <2>0, <2>1, <3>1
  <2>2. CASE ~given
    <3>1. At(q, "idpConfig") = EmptyObject
      BY <1>13, <1>15, <2>2
    <3>2. \A n \in DOMAIN SamlNames : Held(o, n) = << >>
      BY <2>0, <2>2 DEF Held, Given
    <3> HIDE DEF given
    <3> QED
      BY <1>7, <2>0, <2>2, <3>1, <3>2, HeldEmpty
  <2> QED
    BY <2>1, <2>2
<1>19. \A k \in {"enabled", "displayName"} : Held(q, k) = Held(e, k)
  BY <1>7, <1>13
<1> QED
  BY <1>7, <1>16, <1>17, <1>18, <1>19 DEF q, e

\* A SAML provider is shown, after a change, with what the change gives it.
LEMMA SamlChanged ==
  ASSUME NEW id \in Saml, NEW o, NEW ignore, SAMLRefusal(o, ignore) = "ok",
         NEW old, NEW new, IsChangeOf(new, old, SAMLRequest(o), {})
  PROVE  SAMLConfig(id, new) = Configs!ChangedProvider(id, SAMLConfig(id, old), o)
<1> DEFINE q == SAMLRequest(o)
           e == Configs!Effective(id, o)
           before == SAMLConfig(id, old)
           after == SAMLConfig(id, new)
           changed == Configs!ChangedProvider(id, before, o)
<1>1. DOMAIN o \subseteq SAMLAuthProviderConfig
  <2>1. UnknownKeys(o, SAMLAuthProviderConfig, "INVALID_CONFIG") = "ok"
    BY NoRefusal DEF SAMLRefusal
  <2> QED
    BY <2>1 DEF UnknownKeys, Require
<1>2. \A k : k \notin SAMLAuthProviderConfig => Held(e, k) = << >>
  <2>1. \A k : k \notin SAMLAuthProviderConfig => Held(o, k) = << >> /\ k # "enableRequestSigning"
    BY <1>1 DEF Held, Given, SAMLAuthProviderConfig
  <2> QED
    BY <2>1, SamlSends
<1>3. /\ IsObject(changed)
      /\ \A k : k # "responseType" =>
           Held(changed, k) = IF k = "providerId" \/ Held(e, k) = << >> THEN Held(before, k) ELSE Held(e, k)
  BY ChangedProviderHolds
<1>4. Held(changed, "responseType") = Held(before, "responseType")
  <2>1. Held(e, "responseType") = << >>
    BY <1>2 DEF SAMLAuthProviderConfig
  <2> QED
    BY <2>1, ChangedProviderHolds
<1>5. \A k \in {"enabled", "displayName"} : Held(new, k) = IF Held(e, k) = << >> THEN Held(old, k) ELSE Held(e, k)
  <2>1. \A k \in {"enabled", "displayName"} : k \notin Nested \ {}
    BY DEF Nested
  <2>2. \A k \in {"enabled", "displayName"} : Held(q, k) = Held(e, k)
    BY SamlSends
  <2> QED
    BY <2>1, <2>2, WholeOfChange
<1>6. \A k \in {"idpConfig", "spConfig"} : \A sub :
        Held(At(new, k), sub) = IF Held(At(q, k), sub) = << >> THEN Held(At(old, k), sub) ELSE Held(At(q, k), sub)
  <2>1. \A k \in {"idpConfig", "spConfig"} : k \in Nested \ {} /\ k # "smsRegionConfig"
    BY DEF Nested
  <2>2. \A k \in {"idpConfig", "spConfig"} : Given(q, k) => DOMAIN q[k] # {}
    BY SamlSends
  <2> QED
    BY <2>1, <2>2, PartOfChange
<1>7. Held(after, "enabled") = Held(changed, "enabled")
  BY <1>3, <1>5, HeldFlag, SamlShows
<1>8. Held(after, "displayName") = Held(changed, "displayName")
  BY <1>3, <1>5, SamlShows
<1>9. Held(after, "enableRequestSigning") = Held(changed, "enableRequestSigning")
  <2>1. Held(At(q, "idpConfig"), "signRequest") = Held(e, "enableRequestSigning")
    BY SamlSends
  <2>2. Held(after, "enableRequestSigning") = <<Flag(At(new, "idpConfig"), "signRequest")>>
    BY SamlShows
  <2>3. Held(before, "enableRequestSigning") = <<Flag(At(old, "idpConfig"), "signRequest")>>
    BY SamlShows
  <2> HIDE DEF q, e, before, after, changed
  <2> QED
    BY <1>3, <1>6, <2>1, <2>2, <2>3, HeldFlag
<1>10. \A n \in DOMAIN SamlNames : Held(after, n) = Held(changed, n)
  <2>1. \A n \in DOMAIN SamlNames : /\ Held(At(q, "idpConfig"), SamlNames[n]) = Held(e, n)
                                    /\ Held(after, n) = Held(At(new, "idpConfig"), SamlNames[n])
                                    /\ Held(before, n) = Held(At(old, "idpConfig"), SamlNames[n])
    BY SamlSends, SamlShows
  <2>2. \A n \in DOMAIN SamlNames : n \notin {"providerId", "responseType"}
    BY DEF SamlNames
  <2> HIDE DEF q, e, before, after, changed
  <2> QED
    BY <1>3, <1>6, <2>1, <2>2
<1>11. \A n \in DOMAIN SamlServiceNames : Held(after, n) = Held(changed, n)
  <2>1. \A n \in DOMAIN SamlServiceNames : /\ Held(At(q, "spConfig"), SamlServiceNames[n]) = Held(e, n)
                                           /\ Held(after, n) = Held(At(new, "spConfig"), SamlServiceNames[n])
                                           /\ Held(before, n) = Held(At(old, "spConfig"), SamlServiceNames[n])
    BY SamlSends, SamlShows
  <2>2. \A n \in DOMAIN SamlServiceNames : n \notin {"providerId", "responseType"}
    BY DEF SamlServiceNames
  <2> HIDE DEF q, e, before, after, changed
  <2> QED
    BY <1>3, <1>6, <2>1, <2>2
<1>12. Held(after, "providerId") = Held(changed, "providerId")
  BY <1>3, SamlShows
<1>13. \A k : k \notin SAMLAuthProviderConfig => Held(after, k) = Held(changed, k)
  <2>1. \A k : k \notin SAMLAuthProviderConfig => Held(after, k) = << >> /\ Held(before, k) = << >>
    BY SamlShows
  <2> HIDE DEF e, before, after, changed
  <2> QED
    BY <1>2, <1>3, <1>4, <2>1
<1>14. SAMLAuthProviderConfig = DOMAIN SamlNames \cup DOMAIN SamlServiceNames \cup
                                {"providerId", "enabled", "displayName", "enableRequestSigning"}
  BY DEF SAMLAuthProviderConfig, SamlNames, SamlServiceNames
<1>15. IsObject(after)
  BY SamlShows
<1> HIDE DEF after, changed
<1>16. \A k : Held(after, k) = Held(changed, k)
  BY <1>7, <1>8, <1>9, <1>10, <1>11, <1>12, <1>13, <1>14
<1> QED
  BY <1>3, <1>15, <1>16, SameObject DEF after, changed

\* An object that is given empty clears what was there; any other adds to it.
LEMMA MergedByChange ==
  ASSUME NEW new, NEW old, NEW request, NEW terminalPaths, IsChangeOf(new, old, request, terminalPaths),
         NEW k \in Nested \ terminalPaths, k # "smsRegionConfig", Given(request, k), IsObject(request[k])
  PROVE  Held(new, k) = <<Configs!Merged(At(old, k), request[k])>>
<1> DEFINE merged == Configs!Merged(At(old, k), request[k])
<1>1. merged = IF DOMAIN request[k] = {} THEN request[k] ELSE request[k] ++ At(old, k)
  BY ConfigObjects DEF Configs!Merged
<1>2. Given(new, k)
  BY DEF IsChangeOf
<1>3. CASE DOMAIN request[k] = {}
  <2>1. new[k] = request[k]
    BY <1>3 DEF IsChangeOf
  <2> QED
    BY <1>1, <1>2, <1>3, <2>1 DEF Held
<1>4. CASE DOMAIN request[k] # {}
  <2>1. /\ IsObject(new[k])
        /\ \A sub : Held(new[k], sub) = IF Held(request[k], sub) = << >> THEN Held(At(old, k), sub) ELSE Held(request[k], sub)
    BY <1>4 DEF IsChangeOf
  <2>2. /\ IsObject(request[k] ++ At(old, k))
        /\ \A sub : Held(request[k] ++ At(old, k), sub) =
             IF Held(request[k], sub) = << >> THEN Held(At(old, k), sub) ELSE Held(request[k], sub)
    BY HeldOver
  <2>3. new[k] = request[k] ++ At(old, k)
    BY <2>1, <2>2, SameObject
  <2> QED
    BY <1>1, <1>2, <1>4, <2>3 DEF Held
<1> QED
  BY <1>3, <1>4
-----------------------------------------------------------------------------
(* OIDC providers. *)

\* What is shown of an OIDC provider, part by part.
LEMMA OidcShows ==
  ASSUME NEW id, NEW r
  PROVE  LET shown == OIDCConfig(id, r)
         IN /\ IsObject(shown)
            /\ Held(shown, "providerId") = <<id>>
            /\ Held(shown, "enabled") = <<Flag(r, "enabled")>>
            /\ \A k : k \notin {"providerId", "enabled"} => Held(shown, k) = Held(r, k)
<1> DEFINE first == [providerId |-> id, enabled |-> Flag(r, "enabled")]
           rest == Without(r, {"enabled"})
<1>1. OIDCConfig(id, r) = first ++ rest
  BY DEF OIDCConfig
<1>2. /\ Held(first, "providerId") = <<id>> /\ Held(first, "enabled") = <<Flag(r, "enabled")>>
      /\ \A k : k \notin {"providerId", "enabled"} => Held(first, k) = << >>
  BY DEF Held, Given
<1>3. \A k : Held(rest, k) = IF k = "enabled" THEN << >> ELSE Held(r, k)
  BY HeldParts
<1> HIDE DEF first, rest
<1>4. /\ IsObject(first ++ rest)
      /\ \A k : Held(first ++ rest, k) = IF Held(first, k) = << >> THEN Held(rest, k) ELSE Held(first, k)
  BY HeldOver
<1> QED
  BY <1>1, <1>2, <1>3, <1>4

\* An OIDC provider is shown, after a change, with what the change gives it.
LEMMA OidcChanged ==
  ASSUME NEW id \in Oidc, id \notin Saml, NEW o, NEW ignore, OIDCRefusal(o, ignore) = "ok", IsObject(At(o, "responseType")),
         NEW old, NEW new, IsChangeOf(new, old, OIDCRequest(o), {})
  PROVE  OIDCConfig(id, new) = Configs!ChangedProvider(id, OIDCConfig(id, old), o)
<1> DEFINE q == OIDCRequest(o)
           before == OIDCConfig(id, old)
           after == OIDCConfig(id, new)
           changed == Configs!ChangedProvider(id, before, o)
           type == "responseType"
<1>1. DOMAIN o \subseteq OIDCAuthProviderConfig
  <2>1. UnknownKeys(o, OIDCAuthProviderConfig, "INVALID_CONFIG") = "ok"
    BY NoRefusal DEF OIDCRefusal
  <2> QED
    BY <2>1 DEF UnknownKeys, Require
<1>2. \A k : k \notin OIDCAuthProviderConfig => Held(o, k) = << >>
  BY <1>1 DEF Held, Given
<1>3. \A k : Held(q, k) = IF k = "providerId" THEN << >> ELSE Held(o, k)
  BY HeldParts DEF OIDCRequest
<1>4. Configs!Effective(id, o) = o
  BY DEF Configs!Effective
<1>5. /\ IsObject(changed)
      /\ \A k : Held(changed, k) = IF k = "providerId" \/ Held(o, k) = << >> THEN Held(before, k)
                                   ELSE IF k = type THEN <<Configs!Merged(At(before, k), o[k])>>
                                   ELSE Held(o, k)
  BY <1>4, ChangedProviderHolds
<1>6. /\ IsObject(after) /\ IsObject(before)
      /\ Held(after, "providerId") = <<id>> /\ Held(before, "providerId") = <<id>>
      /\ Held(after, "enabled") = <<Flag(new, "enabled")>> /\ Held(before, "enabled") = <<Flag(old, "enabled")>>
      /\ \A k : k \notin {"providerId", "enabled"} => Held(after, k) = Held(new, k) /\ Held(before, k) = Held(old, k)
  BY OidcShows
<1> HIDE DEF before, after, changed
<1>7. \A k : k # type /\ k # "providerId" => Held(new, k) = IF Held(o, k) = << >> THEN Held(old, k) ELSE Held(o, k)
  <2>1. \A k \in OIDCAuthProviderConfig \ {type} : k \notin Nested \ {}
    BY DEF OIDCAuthProviderConfig, Nested
  <2>2. \A k : k \notin Nested \ {} => Held(new, k) = IF Held(q, k) = << >> THEN Held(old, k) ELSE Held(q, k)
    BY WholeOfChange
  <2>3. \A k : Held(q, k) = << >> => Held(new, k) = Held(old, k)
    BY HeldNothing DEF IsChangeOf
  <2> HIDE DEF q
  <2> QED
    BY <1>2, <1>3, <2>1, <2>2, <2>3
<1>8. Held(after, "enabled") = Held(changed, "enabled")
  <2>1. Held(new, "enabled") = IF Held(o, "enabled") = << >> THEN Held(old, "enabled") ELSE Held(o, "enabled")
    BY <1>7
  <2>2. Held(changed, "enabled") = IF Held(o, "enabled") = << >> THEN Held(before, "enabled") ELSE Held(o, "enabled")
    BY <1>5
  <2> QED
    BY <1>6, <2>1, <2>2, HeldFlag
<1>9. Held(after, "providerId") = Held(changed, "providerId")
  BY <1>5, <1>6
<1>10. Held(after, type) = Held(changed, type)
  <2>1. Held(after, type) = Held(new, type) /\ Held(before, type) = Held(old, type)
    BY <1>6
  <2>2. Held(q, type) = Held(o, type)
    BY <1>3
  <2>3. CASE ~Given(q, type)
    <3>1. Held(new, type) = Held(old, type)
      BY <2>3 DEF IsChangeOf
    <3>2. Held(o, type) = << >>
      BY <2>2, <2>3, HeldNothing
    <3> QED
      BY <1>5, <2>1, <3>1, <3>2
  <2>4. CASE Given(q, type)
    <3>1. Held(o, type) = <<o[type]>> /\ q[type] = o[type] /\ At(o, type) = o[type] /\ Held(o, type) # << >>
      BY <2>2, <2>4 DEF Held, At
    <3>2. type \in Nested \ {}
      BY DEF Nested
    <3>3. Held(new, type) = <<Configs!Merged(At(old, type), o[type])>>
      <4>1. IsObject(q[type])
        BY <3>1
      <4> HIDE DEF q
      <4>2. Held(new, type) = <<Configs!Merged(At(old, type), q[type])>>
        BY <2>4, <3>2, <4>1, MergedByChange DEF q
      <4> QED
        BY <3>1, <4>2
    <3>4. At(before, type) = At(old, type)
      BY <2>1, AtOfHeld
    <3>5. Held(changed, type) = <<Configs!Merged(At(before, type), o[type])>>
      BY <1>5, <3>1
    <3> QED
      BY <2>1, <3>3, <3>4, <3>5
  <2> QED
    BY <2>3, <2>4
<1>11. \A k : k \notin {"providerId", "enabled", type} => Held(after, k) = Held(changed, k)
  BY <1>5, <1>6, <1>7
<1>12. \A k : Held(after, k) = Held(changed, k)
  BY <1>8, <1>9, <1>10, <1>11
<1>13. after = changed
  BY <1>5, <1>6, <1>12, SameObject
<1> QED
  BY <1>13 DEF after, changed, before

-----------------------------------------------------------------------------
(* New providers. *)

\* A configuration that was created is its request over nothing.
LEMMA CreatedIsChange ==
  ASSUME NEW request, NEW terminalPaths
  PROVE  IsChangeOf(request, EmptyObject, request, terminalPaths)
<1>1. \A k : At(EmptyObject, k) = EmptyObject /\ Held(EmptyObject, k) = << >>
  BY HeldEmpty, HeldNothing DEF At
<1>2. \A k : ~Given(request, k) => Held(request, k) = << >>
  BY DEF Held
<1>3. \A k : \A sub : Held(request[k], sub) =
        IF Held(request[k], sub) = << >> /\ k # "smsRegionConfig" THEN Held(At(EmptyObject, k), sub)
        ELSE Held(request[k], sub)
  BY <1>1
<1> QED
  BY <1>1, <1>2, <1>3, Zenon DEF IsChangeOf

\* The defaults of a provider are what is shown where the server holds nothing.
LEMMA ProviderDefaultsHold ==
  ASSUME NEW id, NEW k
  PROVE  Held(Configs!ProviderDefaults(id), k) =
           IF k = "enabled" \/ (k = "enableRequestSigning" /\ id \in Saml) THEN <<"false">> ELSE << >>
<1> DEFINE first == [enabled |-> "false"]
           second == IF id \in Saml THEN [enableRequestSigning |-> "false"] ELSE EmptyObject
<1>1. Configs!ProviderDefaults(id) = first ++ second
  <2>1. Configs!ProviderDefaults(id) = Configs!++(first, second)
    BY ConfigObjects DEF Configs!ProviderDefaults
  <2> HIDE DEF first, second
  <2> QED
    BY <2>1, ConfigObjects
<1>2. Held(first, k) = IF k = "enabled" THEN <<"false">> ELSE << >>
  BY DEF Held, Given
<1>3. Held(second, k) = IF k = "enableRequestSigning" /\ id \in Saml THEN <<"false">> ELSE << >>
  BY HeldEmpty DEF Held, Given
<1> HIDE DEF first, second
<1>4. Held(first ++ second, k) = IF Held(first, k) = << >> THEN Held(second, k) ELSE Held(first, k)
  BY HeldOver
<1> QED
  BY <1>1, <1>2, <1>3, <1>4

\* What is given over what is shown of nothing is what is given over the defaults.
LEMMA CreatedProvider ==
  ASSUME NEW id, NEW o, NEW first,
         \A k : Held(first, k) = IF k = "providerId" THEN <<id>> ELSE Held(Configs!ProviderDefaults(id), k)
  PROVE  Configs!ChangedProvider(id, first, o) =
           Configs!++(Configs!Field("providerId", id), Configs!ChangedProvider(id, Configs!ProviderDefaults(id), o))
<1> DEFINE defaults == Configs!ProviderDefaults(id)
           left == Configs!ChangedProvider(id, first, o)
           changed == Configs!ChangedProvider(id, defaults, o)
           e == Configs!Effective(id, o)
           name == Field("providerId", id)
<1>1. /\ IsObject(left)
      /\ \A k : Held(left, k) = IF k = "providerId" \/ Held(e, k) = << >> THEN Held(first, k)
                                ELSE IF k = "responseType" THEN <<Configs!Merged(At(first, k), e[k])>> ELSE Held(e, k)
  BY ChangedProviderHolds
<1>2. \A k : Held(changed, k) = IF k = "providerId" \/ Held(e, k) = << >> THEN Held(defaults, k)
                                ELSE IF k = "responseType" THEN <<Configs!Merged(At(defaults, k), e[k])>> ELSE Held(e, k)
  BY ChangedProviderHolds
<1>3. \A k : Held(name, k) = IF k = "providerId" THEN <<id>> ELSE << >>
  BY HeldField
<1>4. Configs!++(Configs!Field("providerId", id), changed) = name ++ changed
  BY ConfigObjects
<1>5. \A k : k # "providerId" => Held(first, k) = Held(defaults, k)
  OBVIOUS
<1>6. Held(first, "providerId") = <<id>>
  OBVIOUS
<1> HIDE DEF defaults, left, changed, e, name
<1>7. /\ IsObject(name ++ changed)
      /\ \A k : Held(name ++ changed, k) = IF Held(name, k) = << >> THEN Held(changed, k) ELSE Held(name, k)
  BY HeldOver
<1>8. At(first, "responseType") = At(defaults, "responseType")
  BY <1>5, AtOfHeld
<1>9. \A k : k # "providerId" => Held(left, k) = Held(name ++ changed, k)
  BY <1>1, <1>2, <1>3, <1>5, <1>7, <1>8
<1>10. Held(left, "providerId") = Held(name ++ changed, "providerId")
  BY <1>1, <1>3, <1>6, <1>7
<1>11. left = name ++ changed
  BY <1>1, <1>7, <1>9, <1>10, SameObject
<1> QED
  BY <1>4, <1>11 DEF left, changed, defaults

\* A new provider is shown with what it was given over the defaults.
LEMMA SamlCreated ==
  ASSUME NEW id \in Saml, NEW o, NEW ignore, SAMLRefusal(o, ignore) = "ok"
  PROVE  SAMLConfig(id, SAMLRequest(o)) =
           Configs!++(Configs!Field("providerId", id), Configs!ChangedProvider(id, Configs!ProviderDefaults(id), o))
<1> DEFINE first == SAMLConfig(id, EmptyObject)
           q == SAMLRequest(o)
<1>1. SAMLConfig(id, q) = Configs!ChangedProvider(id, first, o)
  BY CreatedIsChange, SamlChanged
<1>2. \A k : Held(EmptyObject, k) = << >> /\ At(EmptyObject, k) = EmptyObject
  BY HeldEmpty, HeldNothing DEF At
<1>3. \A k : <<Flag(EmptyObject, k)>> = <<"false">>
  BY <1>2, HeldFlag
<1>4. /\ Held(first, "providerId") = <<id>> /\ Held(first, "enabled") = <<"false">>
      /\ Held(first, "enableRequestSigning") = <<"false">> /\ Held(first, "displayName") = << >>
      /\ \A n \in DOMAIN SamlNames : Held(first, n) = << >>
      /\ \A n \in DOMAIN SamlServiceNames : Held(first, n) = << >>
      /\ \A k : k \notin SAMLAuthProviderConfig => Held(first, k) = << >>
  BY <1>2, <1>3, SamlShows
<1>5. SAMLAuthProviderConfig = DOMAIN SamlNames \cup DOMAIN SamlServiceNames \cup
                               {"providerId", "enabled", "displayName", "enableRequestSigning"}
  BY DEF SAMLAuthProviderConfig, SamlNames, SamlServiceNames
<1>6. \A n \in DOMAIN SamlNames \cup DOMAIN SamlServiceNames : n \notin {"providerId", "enabled", "enableRequestSigning"}
  BY DEF SamlNames, SamlServiceNames
<1> HIDE DEF first, q
<1>7. \A k : Held(first, k) = IF k = "providerId" THEN <<id>>
                              ELSE IF k \in {"enabled", "enableRequestSigning"} THEN <<"false">> ELSE << >>
  BY <1>4, <1>5, <1>6
<1>8. \A k : Held(first, k) = IF k = "providerId" THEN <<id>> ELSE Held(Configs!ProviderDefaults(id), k)
  BY <1>7, ProviderDefaultsHold
<1>9. Configs!ChangedProvider(id, first, o) =
        Configs!++(Configs!Field("providerId", id), Configs!ChangedProvider(id, Configs!ProviderDefaults(id), o))
  BY <1>8, CreatedProvider
<1> QED
  BY <1>1, <1>9 DEF q

\* A new OIDC provider is shown with what it was given over the defaults.
LEMMA OidcCreated ==
  ASSUME NEW id \in Oidc, id \notin Saml, NEW o, NEW ignore, OIDCRefusal(o, ignore) = "ok", IsObject(At(o, "responseType"))
  PROVE  OIDCConfig(id, OIDCRequest(o)) =
           Configs!++(Configs!Field("providerId", id), Configs!ChangedProvider(id, Configs!ProviderDefaults(id), o))
<1> DEFINE first == OIDCConfig(id, EmptyObject)
           q == OIDCRequest(o)
<1>1. OIDCConfig(id, q) = Configs!ChangedProvider(id, first, o)
  BY CreatedIsChange, OidcChanged
<1>2. \A k : Held(EmptyObject, k) = << >>
  BY HeldEmpty
<1>3. <<Flag(EmptyObject, "enabled")>> = <<"false">>
  BY <1>2, HeldFlag
<1>4. \A k : Held(first, k) = IF k = "providerId" THEN <<id>> ELSE IF k = "enabled" THEN <<"false">> ELSE << >>
  BY <1>2, <1>3, OidcShows
<1> HIDE DEF first, q
<1>5. \A k : Held(first, k) = IF k = "providerId" THEN <<id>> ELSE Held(Configs!ProviderDefaults(id), k)
  BY <1>4, ProviderDefaultsHold
<1>6. Configs!ChangedProvider(id, first, o) =
        Configs!++(Configs!Field("providerId", id), Configs!ChangedProvider(id, Configs!ProviderDefaults(id), o))
  BY <1>5, CreatedProvider
<1> QED
  BY <1>1, <1>6 DEF q

-----------------------------------------------------------------------------
(* The parts of a tenant or of the project. *)

\* Sign-in by e-mail is sent as what the server is to allow.
LEMMA EmailSignInSends ==
  ASSUME NEW o
  PROVE  LET q == EmailSignInRequest(o)
         IN /\ IsObject(q)
            /\ Held(q, "allowPasswordSignup") =
                 IF Given(o, "enabled") /\ o.enabled # "undefined" THEN <<o.enabled>> ELSE << >>
            /\ Held(q, "enableEmailLinkSignin") =
                 IF Given(o, "passwordRequired") THEN <<Inverted(o.passwordRequired)>> ELSE << >>
            /\ \A k : k \notin {"allowPasswordSignup", "enableEmailLinkSignin"} => Held(q, k) = << >>
<1> DEFINE names == [enabled |-> "allowPasswordSignup"]
           given == Restrict(o, {k \in DOMAIN o : o[k] # "undefined"})
           allow == RenameAll(given, names)
           link == [k \in {"enableEmailLinkSignin" : p \in DOMAIN o \cap {"passwordRequired"}} |-> Inverted(o.passwordRequired)]
<1>1. EmailSignInRequest(o) = allow ++ link
  BY DEF EmailSignInRequest
<1>2. Held(given, "enabled") = IF Given(o, "enabled") /\ o.enabled # "undefined" THEN <<o.enabled>> ELSE << >>
  BY DEF Held, Given, Restrict
<1>3. /\ Held(allow, "allowPasswordSignup") = Held(given, "enabled")
      /\ \A k : k # "allowPasswordSignup" => Held(allow, k) = << >>
  <2>1. \A m, n \in DOMAIN names : names[m] = names[n] => m = n
    OBVIOUS
  <2>2. DOMAIN names = {"enabled"} /\ names["enabled"] = "allowPasswordSignup"
    OBVIOUS
  <2> HIDE DEF names, given
  <2>3. /\ \A n \in DOMAIN names : Held(allow, names[n]) = Held(given, n)
        /\ \A k : (\A n \in DOMAIN names : names[n] # k) => Held(allow, k) = << >>
    BY <2>1, HeldRenamedAll
  <2> QED
    BY <2>2, <2>3
<1>4. \A k : Held(link, k) = IF k = "enableEmailLinkSignin" /\ Given(o, "passwordRequired")
                             THEN <<Inverted(o.passwordRequired)>> ELSE << >>
  BY DEF Held, Given
<1> HIDE DEF allow, link, given
<1>5. /\ IsObject(allow ++ link)
      /\ \A k : Held(allow ++ link, k) = IF Held(allow, k) = << >> THEN Held(link, k) ELSE Held(allow, k)
  BY HeldOver
<1> QED
  BY <1>1, <1>2, <1>3, <1>4, <1>5

\* Where the server knows whether passwords are allowed, it shows so and whether
\* a link does instead.
LEMMA EmailSignInShows ==
  ASSUME NEW r, LinkSignInIsKnown(r)
  PROVE  LET shown == EmailSignInConfig(r)
         IN /\ IsObject(shown)
            /\ Held(shown, "enabled") = <<Flag(r, "allowPasswordSignup")>>
            /\ Held(shown, "passwordRequired") = <<Inverted(Flag(r, "enableEmailLinkSignin"))>>
            /\ \A k : k \notin {"enabled", "passwordRequired"} => Held(shown, k) = << >>
<1>1. CASE Given(r, "allowPasswordSignup")
  BY <1>1 DEF EmailSignInConfig, IsObject, Held, Given, Flag
<1>2. CASE ~Given(r, "allowPasswordSignup")
  <2>1. Flag(r, "allowPasswordSignup") = "false" /\ Inverted(Flag(r, "enableEmailLinkSignin")) = "true"
    BY <1>2 DEF LinkSignInIsKnown, Flag, Inverted
  <2>2. EmailSignInConfig(r) = [enabled |-> "false", passwordRequired |-> "true"]
    BY <1>2 DEF EmailSignInConfig
  <2> QED
    BY <2>1, <2>2 DEF IsObject, Held, Given
<1> QED
  BY <1>1, <1>2

\* What sign-in by e-mail may be given as.
EmailSignInGiven(o) ==
  /\ DOMAIN o \subseteq {"enabled", "passwordRequired"}
  /\ Given(o, "enabled") /\ o.enabled # "undefined"
  /\ Given(o, "passwordRequired") => o.passwordRequired \in Bool \cup {"undefined"}

\* What was accepted of the sign-in by e-mail.
LEMMA EmailSignInAccepted ==
  ASSUME NEW o, EmailSignInRefusal(o) = "ok", Given(o, "enabled"), o.enabled # "undefined"
  PROVE  EmailSignInGiven(o)
<1> DEFINE checks == <<Check("enabled", Bool \cup {"undefined"}, "INVALID_ARGUMENT"),
                       Check("passwordRequired", Bool \cup {"undefined"}, "INVALID_ARGUMENT")>>
<1>1. UnknownKeys(o, {"enabled", "passwordRequired"}, "INVALID_ARGUMENT") = "ok" /\ Verdict(checks, o) = "ok"
  BY NeitherRefusal DEF EmailSignInRefusal
<1>2. Len(checks) = 2 /\ checks[2].key = "passwordRequired" /\ checks[2].accepts = Bool \cup {"undefined"}
  BY DEF Check
<1>3. \A i \in 1..Len(checks) : checks[i].code # "ok"
  BY DEF Check
<1> HIDE DEF checks
<1>4. Given(o, "passwordRequired") => o["passwordRequired"] \in Bool \cup {"undefined"}
  <2>1. 2 \in 1..Len(checks) /\ Len(checks) \in Nat
    BY <1>2
  <2> QED
    BY <1>1, <1>2, <1>3, <2>1, ChecksHold
<1> QED
  BY <1>1, <1>4 DEF EmailSignInGiven, UnknownKeys, Require

\* What is shown of sign-in by e-mail after a change: what was given, undefined
\* as false, over what was shown.
LEMMA EmailSignInChanged ==
  ASSUME NEW o, EmailSignInGiven(o), NEW old, NEW new, LinkSignInIsKnown(old),
         \A k \in {"allowPasswordSignup", "enableEmailLinkSignin"} :
           Held(new, k) = IF Held(EmailSignInRequest(o), k) = << >> THEN Held(old, k) ELSE Held(EmailSignInRequest(o), k)
  PROVE  /\ LinkSignInIsKnown(new)
         /\ EmailSignInConfig(new) =
              [i \in DOMAIN o |-> IF o[i] = "undefined" THEN "false" ELSE o[i]] ++ EmailSignInConfig(old)
<1> DEFINE q == EmailSignInRequest(o)
           given == [i \in DOMAIN o |-> IF o[i] = "undefined" THEN "false" ELSE o[i]]
           before == EmailSignInConfig(old)
           after == EmailSignInConfig(new)
<1>1. /\ Held(q, "allowPasswordSignup") = <<o.enabled>>
      /\ Held(q, "enableEmailLinkSignin") =
           IF Given(o, "passwordRequired") THEN <<Inverted(o.passwordRequired)>> ELSE << >>
  BY EmailSignInSends DEF EmailSignInGiven
<1>2. /\ Held(new, "allowPasswordSignup") = <<o.enabled>>
      /\ Held(new, "enableEmailLinkSignin") =
           IF Given(o, "passwordRequired") THEN <<Inverted(o.passwordRequired)>> ELSE Held(old, "enableEmailLinkSignin")
  <2> HIDE DEF q
  <2> QED
    BY <1>1 DEF q
<1>3. LinkSignInIsKnown(new)
  BY <1>2 DEF LinkSignInIsKnown, Held
<1>4. /\ Held(given, "enabled") = <<o.enabled>>
      /\ Held(given, "passwordRequired") =
           IF Given(o, "passwordRequired")
           THEN <<IF o.passwordRequired = "undefined" THEN "false" ELSE o.passwordRequired>> ELSE << >>
      /\ \A k : k \notin {"enabled", "passwordRequired"} => Held(given, k) = << >>
  BY DEF EmailSignInGiven, Held, Given
<1>5. Given(o, "passwordRequired") =>
        Inverted(Inverted(o.passwordRequired)) = IF o.passwordRequired = "undefined" THEN "false" ELSE o.passwordRequired
  BY DEF EmailSignInGiven, Inverted, Bool
<1>6. /\ IsObject(after) /\ Held(after, "enabled") = <<Flag(new, "allowPasswordSignup")>>
      /\ Held(after, "passwordRequired") = <<Inverted(Flag(new, "enableEmailLinkSignin"))>>
      /\ \A k : k \notin {"enabled", "passwordRequired"} => Held(after, k) = << >>
  BY <1>3, EmailSignInShows
<1>7. /\ Held(before, "passwordRequired") = <<Inverted(Flag(old, "enableEmailLinkSignin"))>>
      /\ \A k : k \notin {"enabled", "passwordRequired"} => Held(before, k) = << >>
  BY EmailSignInShows
<1>8. Flag(new, "allowPasswordSignup") = o.enabled
  BY <1>2 DEF Flag, Held
<1>9. Flag(new, "enableEmailLinkSignin") =
        IF Given(o, "passwordRequired") THEN Inverted(o.passwordRequired) ELSE Flag(old, "enableEmailLinkSignin")
  BY <1>2 DEF Flag, Held
<1> HIDE DEF q, given, before, after
<1>10. /\ IsObject(given ++ before)
       /\ \A k : Held(given ++ before, k) = IF Held(given, k) = << >> THEN Held(before, k) ELSE Held(given, k)
  BY HeldOver
<1>11. Held(after, "passwordRequired") = Held(given ++ before, "passwordRequired")
  <2>1. CASE Given(o, "passwordRequired")
    <3>1. Held(after, "passwordRequired") = <<IF o.passwordRequired = "undefined" THEN "false" ELSE o.passwordRequired>>
      BY <1>5, <1>6, <1>9, <2>1
    <3> QED
      BY <1>4, <1>10, <2>1, <3>1
  <2>2. CASE ~Given(o, "passwordRequired")
    BY <1>4, <1>6, <1>7, <1>9, <1>10, <2>2
  <2> QED
    BY <2>1, <2>2
<1>12. Held(after, "enabled") = Held(given ++ before, "enabled")
  BY <1>4, <1>6, <1>8, <1>10
<1>13. \A k : k \notin {"enabled", "passwordRequired"} => Held(after, k) = Held(given ++ before, k)
  BY <1>4, <1>6, <1>7, <1>10
<1>14. \A k : Held(after, k) = Held(given ++ before, k)
  BY <1>11, <1>12, <1>13
<1>15. after = given ++ before
  BY <1>6, <1>10, <1>14, SameObject
<1> QED
  BY <1>3, <1>15 DEF after, given, before

\* An object that holds what a second one adds to a third.
HoldsOver(after, given, before) ==
  \A k : Held(after, k) = IF Held(given, k) = << >> THEN Held(before, k) ELSE Held(given, k)

(* Second factors. *)

FactorFields == {"state", "factorIds", "providerConfigs"}

FactorsGiven(o) ==
  /\ DOMAIN o \subseteq FactorFields /\ Given(o, "state")
  /\ Given(o, "factorIds") => o.factorIds \in {"phone", "empty"}

\* What was accepted of the second factors.
LEMMA FactorsAccepted ==
  ASSUME NEW o, MultiFactorRefusal(o) = "ok", Given(o, "state"),
         Given(o, "providerConfigs") => IsList(o.providerConfigs)
  PROVE  FactorsGiven(o)
<1> DEFINE checks == <<Check("state", MultiFactorConfigState, "INVALID_CONFIG"),
                       Check("factorIds", DOMAIN ServerFactors, "INVALID_CONFIG")>>
           known == UnknownKeys(o, FactorFields, "INVALID_CONFIG")
           checked == Verdict(checks, Without(o, {"providerConfigs"}))
           rest == IF Given(o, "providerConfigs") THEN Each(ProviderConfigRefusal, o.providerConfigs) ELSE << >>
<1>1. MultiFactorRefusal(o) = FirstRefusal(<<known, checked>> \o rest)
  BY DEF MultiFactorRefusal, FactorFields
<1>2. known = "ok" /\ checked = "ok"
  <2> DEFINE first == <<known, checked>>
  <2>1. PICK T : rest \in Seq(T)
    <3>1. CASE ~Given(o, "providerConfigs")
      <4>1. rest = << >>
        BY <3>1
      <4>2. << >> \in Seq({known})
        OBVIOUS
      <4> QED
        BY <4>1, <4>2
    <3>2. CASE Given(o, "providerConfigs")
      <4> DEFINE s == o.providerConfigs
      <4>1. rest = [i \in DOMAIN s |-> ProviderConfigRefusal(s[i])] /\ IsList(s)
        BY <3>2 DEF Each
      <4> HIDE DEF rest, s
      <4>2. rest = [i \in DOMAIN s |-> rest[i]]
        BY <4>1
      <4> QED
        BY <4>1, <4>2, SomeSequence
    <3> QED
      BY <3>1, <3>2
  <2> HIDE DEF rest, known, checked
  <2>2. first \in Seq({known, checked}) /\ Len(first) = 2 /\ first[1] = known /\ first[2] = checked
    OBVIOUS
  <2>3. FirstRefusal(first \o rest) = "ok"
    BY <1>1
  <2> HIDE DEF first
  <2>4. AllOk(first)
    BY <2>1, <2>2, <2>3, BothAccepted
  <2> QED
    BY <2>2, <2>4 DEF AllOk
<1>3. Len(checks) = 2 /\ checks[2].key = "factorIds" /\ checks[2].accepts = DOMAIN ServerFactors
  BY DEF Check
<1>4. \A i \in 1..Len(checks) : checks[i].code # "ok"
  BY DEF Check
<1>5. Held(Without(o, {"providerConfigs"}), "factorIds") = Held(o, "factorIds")
  BY HeldParts
<1> HIDE DEF checks
<1>6. DOMAIN o \subseteq FactorFields
  BY <1>2 DEF UnknownKeys, Require
<1>7. Given(o, "factorIds") => o.factorIds \in DOMAIN ServerFactors
  <2> DEFINE w == Without(o, {"providerConfigs"})
  <2>1. 2 \in 1..Len(checks) /\ Len(checks) \in Nat
    BY <1>3
  <2>2. Given(w, "factorIds") => w["factorIds"] \in DOMAIN ServerFactors
    BY <1>2, <1>3, <1>4, <2>1, ChecksHold
  <2>3. Held(w, "factorIds") = Held(o, "factorIds")
    BY <1>5
  <2> HIDE DEF w
  <2> QED
    BY <2>2, <2>3 DEF Held
<1> QED
  BY <1>6, <1>7 DEF FactorsGiven, ServerFactors

\* What is sent of the second factors.
LEMMA FactorsSent ==
  ASSUME NEW o
  PROVE  LET q == MultiFactorRequest(o)
         IN /\ IsObject(q) /\ Held(q, "state") = Held(o, "state")
            /\ Held(q, "providerConfigs") = Held(o, "providerConfigs")
            /\ Held(q, "enabledProviders") = IF Given(o, "factorIds") THEN <<ServerFactors[o.factorIds]>> ELSE << >>
<1> DEFINE names == [state |-> "state", factorIds |-> "enabledProviders", providerConfigs |-> "providerConfigs"]
           first == [k \in DOMAIN o \cap {"factorIds"} |-> ServerFactors[o[k]]]
           both == first ++ o
           q == MultiFactorRequest(o)
<1>1. q = RenameAll(both, names)
  BY DEF MultiFactorRequest
<1>2. \A k : Held(first, k) = IF k = "factorIds" /\ Given(o, "factorIds") THEN <<ServerFactors[o.factorIds]>> ELSE << >>
  BY DEF Held, Given
<1>3. \A m, n \in DOMAIN names : names[m] = names[n] => m = n
  OBVIOUS
<1>4. /\ DOMAIN names = FactorFields /\ names["state"] = "state"
      /\ names["factorIds"] = "enabledProviders" /\ names["providerConfigs"] = "providerConfigs"
  BY DEF FactorFields
<1> HIDE DEF first, names, q
<1>5. \A k : Held(both, k) = IF Held(first, k) = << >> THEN Held(o, k) ELSE Held(first, k)
  BY HeldOver
<1>6. Held(both, "factorIds") = IF Given(o, "factorIds") THEN <<ServerFactors[o.factorIds]>> ELSE << >>
  BY <1>2, <1>5 DEF Held
<1>7. Held(both, "state") = Held(o, "state") /\ Held(both, "providerConfigs") = Held(o, "providerConfigs")
  BY <1>2, <1>5
<1> HIDE DEF both
<1>8. IsObject(q) /\ \A n \in DOMAIN names : Held(q, names[n]) = Held(both, n)
  BY <1>1, <1>3, HeldRenamedAll
<1> QED
  BY <1>4, <1>6, <1>7, <1>8 DEF q, FactorFields

\* What is shown of the second factors.
LEMMA ConfigFactorsShown ==
  ASSUME NEW r
  PROVE  LET shown == MultiFactorConfig(r)
         IN /\ IsObject(shown) /\ (Given(r, "state") => Held(shown, "state") = Held(r, "state"))
            /\ Held(shown, "factorIds") =
                 <<IF Given(r, "enabledProviders") THEN ClientFactors[r.enabledProviders] ELSE "empty">>
            /\ Held(shown, "providerConfigs") = <<IF Given(r, "providerConfigs") THEN r.providerConfigs ELSE << >>>>
            /\ \A k : k \notin FactorFields => Held(shown, k) = << >>
BY DEF MultiFactorConfig, FactorFields, IsObject, Held, Given

\* Second factors are shown, after a change, as given over what was shown; what
\* was never given is shown as empty.
LEMMA FactorsChanged ==
  ASSUME NEW o, FactorsGiven(o), NEW before, NEW after, HoldsOver(after, MultiFactorRequest(o), before),
         NEW shown, shown = MultiFactorConfig(before) \/ (before = EmptyObject /\ shown = EmptyObject)
  PROVE  MultiFactorConfig(after) = (o ++ shown) ++ Configs!FactorDefaults
<1> DEFINE q == MultiFactorRequest(o)
           defaults == [factorIds |-> "empty", providerConfigs |-> << >>]
           left == MultiFactorConfig(after)
           right == (o ++ shown) ++ defaults
<1>1. Configs!FactorDefaults = defaults
  BY DEF Configs!FactorDefaults
<1>2. /\ Held(defaults, "factorIds") = <<"empty">> /\ Held(defaults, "providerConfigs") = << << >> >>
      /\ \A k : k \notin {"factorIds", "providerConfigs"} => Held(defaults, k) = << >>
  BY DEF Held, Given
<1>3. /\ Held(q, "state") = Held(o, "state") /\ Held(q, "providerConfigs") = Held(o, "providerConfigs")
      /\ Held(q, "enabledProviders") = IF Given(o, "factorIds") THEN <<ServerFactors[o.factorIds]>> ELSE << >>
  BY FactorsSent
<1>4. Given(o, "factorIds") => ClientFactors[ServerFactors[o.factorIds]] = o.factorIds
  BY DEF FactorsGiven, ServerFactors, ClientFactors
<1>5. \A k : Held(after, k) = IF Held(q, k) = << >> THEN Held(before, k) ELSE Held(q, k)
  BY DEF HoldsOver
<1> HIDE DEF q, defaults
<1>6. /\ IsObject(right)
      /\ \A k : Held(right, k) = IF Held(o, k) # << >> THEN Held(o, k)
                                 ELSE IF Held(shown, k) # << >> THEN Held(shown, k) ELSE Held(defaults, k)
  BY HeldOver
<1>7. IsObject(left)
  BY ConfigFactorsShown
<1>8. Held(left, "state") = Held(right, "state")
  <2>1. Held(o, "state") # << >>
    BY HeldNothing DEF FactorsGiven
  <2>2. Held(after, "state") = Held(o, "state")
    BY <1>3, <1>5, <2>1
  <2>3. Given(after, "state")
    BY <2>1, <2>2, HeldNothing
  <2>4. Held(left, "state") = Held(after, "state")
    BY <2>3, ConfigFactorsShown
  <2> HIDE DEF left, right
  <2> QED
    BY <1>6, <2>1, <2>2, <2>4
<1>9. Held(left, "factorIds") = Held(right, "factorIds")
  <2>1. Held(left, "factorIds") =
          <<IF Given(after, "enabledProviders") THEN ClientFactors[after.enabledProviders] ELSE "empty">>
    BY ConfigFactorsShown
  <2>2. IF Held(shown, "factorIds") # << >>
        THEN Held(shown, "factorIds") = <<IF Given(before, "enabledProviders") THEN ClientFactors[before.enabledProviders] ELSE "empty">>
        ELSE ~Given(before, "enabledProviders")
    <3> DEFINE value == IF Given(before, "enabledProviders") THEN ClientFactors[before.enabledProviders] ELSE "empty"
    <3>1. CASE shown = MultiFactorConfig(before)
      <4>1. Held(shown, "factorIds") = <<value>>
        BY <3>1, ConfigFactorsShown
      <4> HIDE DEF value
      <4>2. Held(shown, "factorIds") # << >>
        BY <4>1
      <4> QED
        BY <4>1, <4>2 DEF value
    <3>2. CASE before = EmptyObject /\ shown = EmptyObject
      <4>1. Held(shown, "factorIds") = << >> /\ ~Given(before, "enabledProviders")
        BY <3>2, HeldEmpty, HeldNothing
      <4> QED
        BY <4>1
    <3> QED
      BY <3>1, <3>2
  <2> HIDE DEF left, right
  <2>3. CASE Given(o, "factorIds")
    <3>1. Held(after, "enabledProviders") = <<ServerFactors[o.factorIds]>>
      BY <1>3, <1>5, <2>3
    <3>2. Given(after, "enabledProviders") /\ after.enabledProviders = ServerFactors[o.factorIds]
      BY <3>1 DEF Held
    <3>3. Held(o, "factorIds") = <<o.factorIds>>
      BY <2>3 DEF Held
    <3> QED
      BY <1>4, <1>6, <2>1, <2>3, <3>2, <3>3
  <2>4. CASE ~Given(o, "factorIds")
    <3>1. Held(after, "enabledProviders") = Held(before, "enabledProviders") /\ Held(o, "factorIds") = << >>
      BY <1>3, <1>5, <2>4, HeldNothing
    <3>2. /\ Given(after, "enabledProviders") <=> Given(before, "enabledProviders")
          /\ Given(after, "enabledProviders") => after.enabledProviders = before.enabledProviders
      BY <3>1 DEF Held
    <3> QED
      BY <1>2, <1>6, <2>1, <2>2, <3>1, <3>2
  <2> QED
    BY <2>3, <2>4
<1>10. Held(left, "providerConfigs") = Held(right, "providerConfigs")
  <2>1. Held(left, "providerConfigs") = <<IF Given(after, "providerConfigs") THEN after.providerConfigs ELSE << >>>>
    BY ConfigFactorsShown
  <2>2. IF Held(shown, "providerConfigs") # << >>
        THEN Held(shown, "providerConfigs") = <<IF Given(before, "providerConfigs") THEN before.providerConfigs ELSE << >>>>
        ELSE ~Given(before, "providerConfigs")
    <3> DEFINE value == IF Given(before, "providerConfigs") THEN before.providerConfigs ELSE << >>
    <3>1. CASE shown = MultiFactorConfig(before)
      <4>1. Held(shown, "providerConfigs") = <<value>>
        BY <3>1, ConfigFactorsShown
      <4> HIDE DEF value
      <4>2. Held(shown, "providerConfigs") # << >>
        BY <4>1
      <4> QED
        BY <4>1, <4>2 DEF value
    <3>2. CASE before = EmptyObject /\ shown = EmptyObject
      <4>1. Held(shown, "providerConfigs") = << >> /\ ~Given(before, "providerConfigs")
        BY <3>2, HeldEmpty, HeldNothing
      <4> QED
        BY <4>1
    <3> QED
      BY <3>1, <3>2
  <2> HIDE DEF left, right
  <2>3. Held(after, "providerConfigs") =
          IF Held(o, "providerConfigs") = << >> THEN Held(before, "providerConfigs") ELSE Held(o, "providerConfigs")
    BY <1>3, <1>5
  <2>4. \A x : Given(x, "providerConfigs") => Held(x, "providerConfigs") = <<x.providerConfigs>>
    BY DEF Held
  <2>5. \A x : Given(x, "providerConfigs") <=> Held(x, "providerConfigs") # << >>
    BY HeldNothing
  <2>6. CASE Held(o, "providerConfigs") # << >>
    BY <1>6, <2>1, <2>3, <2>4, <2>5, <2>6
  <2>7. CASE Held(o, "providerConfigs") = << >>
    <3>1. CASE Given(before, "providerConfigs")
      BY <1>6, <2>1, <2>2, <2>3, <2>4, <2>5, <2>7, <3>1
    <3>2. CASE ~Given(before, "providerConfigs")
      BY <1>2, <1>6, <2>1, <2>2, <2>3, <2>5, <2>7, <3>2
    <3> QED
      BY <3>1, <3>2
  <2> QED
    BY <2>6, <2>7
<1>11. \A k : k \notin FactorFields => Held(left, k) = Held(right, k)
  <2>1. \A k : k \notin FactorFields => Held(left, k) = << >> /\ Held(shown, k) = << >> /\ Held(o, k) = << >>
    BY ConfigFactorsShown, HeldEmpty DEF FactorsGiven, Held, Given
  <2> HIDE DEF left, right
  <2> QED
    BY <1>2, <1>6, <2>1 DEF FactorFields
<1> HIDE DEF left, right
<1>12. \A k : Held(left, k) = Held(right, k)
  BY <1>8, <1>9, <1>10, <1>11 DEF FactorFields
<1>13. left = right
  BY <1>6, <1>7, <1>12, SameObject
<1> QED
  BY <1>1, <1>13 DEF left, right

(* reCAPTCHA. *)

\* What was accepted of reCAPTCHA has no rules that only the server sets.
LEMMA RecaptchaAccepted ==
  ASSUME NEW o, RecaptchaRefusal(o) = "ok"
  PROVE  ~Given(o, "tollFraudManagedRules")
<1>1. UnknownKeys(o, RecaptchaConfig, "INVALID_CONFIG") = "ok"
  BY NeitherRefusal DEF RecaptchaRefusal
<1> QED
  BY <1>1 DEF UnknownKeys, Require, RecaptchaConfig, Given

\* The configuration is shown, after a change, as given over what was shown, the
\* rules under the name they are given by.
LEMMA RecaptchaChanged ==
  ASSUME NEW o, IsObject(o), ~Given(o, "tollFraudManagedRules"), NEW before
  PROVE  RecaptchaAuthConfig(Configs!Merged(before, RecaptchaRequest(o))) =
           Configs!Merged(RecaptchaAuthConfig(before), o)
<1> DEFINE sms == "smsTollFraudManagedRules"
           toll == "tollFraudManagedRules"
           q == RecaptchaRequest(o)
           shown == RecaptchaAuthConfig(before)
<1>1. IsObject(q) /\ \A k : Held(q, k) = IF k = toll THEN (IF Held(o, sms) = << >> THEN Held(o, toll) ELSE Held(o, sms))
                                         ELSE IF k = sms THEN << >> ELSE Held(o, k)
  <2>1. sms # toll
    OBVIOUS
  <2> QED
    BY <2>1, HeldRenamed DEF RecaptchaRequest
<1>2. \A p : /\ IsObject(p) => IsObject(RecaptchaAuthConfig(p))
             /\ \A k : Held(RecaptchaAuthConfig(p), k) =
                         IF k = sms THEN (IF Held(p, toll) = << >> THEN Held(p, sms) ELSE Held(p, toll))
                         ELSE IF k = toll THEN << >> ELSE Held(p, k)
  <2>1. sms # toll
    OBVIOUS
  <2> QED
    BY <2>1, HeldRenamed DEF RecaptchaAuthConfig
<1>3. Held(o, toll) = << >>
  BY HeldNothing
<1>4. \A x : DOMAIN x = {} <=> \A k : Held(x, k) = << >>
  BY DEF Held, Given
<1>5. DOMAIN q = {} <=> DOMAIN o = {}
  <2>1. (\A k : Held(q, k) = << >>) <=> (\A k : Held(o, k) = << >>)
    <3> HIDE DEF q
    <3> QED
      BY <1>1, <1>3
  <2> QED
    BY <1>4, <2>1
<1>6. /\ Configs!Merged(before, q) = IF DOMAIN q = {} THEN q ELSE q ++ before
      /\ Configs!Merged(shown, o) = IF DOMAIN o = {} THEN o ELSE o ++ shown
  BY ConfigObjects DEF Configs!Merged
<1> HIDE DEF q, shown
<1>7. CASE DOMAIN o = {}
  <2>1. \A k : Held(q, k) = << >> /\ Held(o, k) = << >>
    BY <1>4, <1>5, <1>7
  <2>2. \A k : Held(RecaptchaAuthConfig(q), k) = Held(o, k)
    BY <1>2, <2>1
  <2>3. RecaptchaAuthConfig(q) = o
    BY <1>1, <1>2, <2>2, SameObject
  <2> QED
    BY <1>5, <1>6, <1>7, <2>3 DEF q, shown
<1>8. CASE DOMAIN o # {}
  <2> DEFINE left == RecaptchaAuthConfig(q ++ before)
  <2>1. /\ IsObject(q ++ before) /\ IsObject(o ++ shown)
        /\ \A k : Held(q ++ before, k) = IF Held(q, k) = << >> THEN Held(before, k) ELSE Held(q, k)
        /\ \A k : Held(o ++ shown, k) = IF Held(o, k) = << >> THEN Held(shown, k) ELSE Held(o, k)
    BY HeldOver
  <2>2. \A k : Held(shown, k) = IF k = sms THEN (IF Held(before, toll) = << >> THEN Held(before, sms) ELSE Held(before, toll))
                                ELSE IF k = toll THEN << >> ELSE Held(before, k)
    BY <1>2 DEF shown
  <2>3. /\ IsObject(left)
        /\ \A k : Held(left, k) = IF k = sms THEN (IF Held(q ++ before, toll) = << >> THEN Held(q ++ before, sms) ELSE Held(q ++ before, toll))
                                  ELSE IF k = toll THEN << >> ELSE Held(q ++ before, k)
    BY <1>2, <2>1
  <2> HIDE DEF left
  <2>4. Held(left, sms) = Held(o ++ shown, sms)
    BY <1>1, <1>3, <2>1, <2>2, <2>3
  <2>5. Held(left, toll) = Held(o ++ shown, toll)
    BY <1>3, <2>1, <2>2, <2>3
  <2>6. \A k : k # sms /\ k # toll => Held(left, k) = Held(o ++ shown, k)
    BY <1>1, <2>1, <2>2, <2>3
  <2>7. \A k : Held(left, k) = Held(o ++ shown, k)
    BY <2>4, <2>5, <2>6
  <2>8. left = o ++ shown
    BY <2>1, <2>3, <2>7, SameObject
  <2>9. Configs!Merged(before, q) = q ++ before /\ Configs!Merged(shown, o) = o ++ shown
    BY <1>5, <1>6, <1>8
  <2> QED
    BY <2>8, <2>9 DEF left, q, shown
<1> QED
  BY <1>7, <1>8

(* The password policy. *)

PolicyFields == {"enforcementState", "forceUpgradeOnSignin", "constraints"}

PolicyGiven(o) ==
  /\ DOMAIN o \subseteq PolicyFields /\ Given(o, "enforcementState")
  /\ Given(o, "constraints") => DOMAIN o.constraints \subseteq DOMAIN DefaultConstraints

\* What was accepted of the constraints on passwords.
LEMMA ConstraintsAccepted ==
  ASSUME NEW o, ConstraintsRefusal(o) = "ok"
  PROVE  DOMAIN o \subseteq DOMAIN DefaultConstraints
<1> DEFINE c == o ++ DefaultConstraints
           flags == <<"requireUppercase", "requireLowercase", "requireNonAlphanumeric", "requireNumeric">>
           known == UnknownKeys(o, DOMAIN DefaultConstraints, "INVALID_CONFIG")
           checked == [i \in DOMAIN flags |-> Require(c[flags[i]] \in Bool, "INVALID_CONFIG")]
           least == Require(c.minLength \in MinPasswordLength..30, "INVALID_CONFIG")
           most == Require(c.maxLength \in c.minLength..MaxPasswordLength, "INVALID_CONFIG")
           first == <<known>>
           last == <<least, most>>
<1>1. FirstRefusal((first \o checked) \o last) = "ok"
  BY DEF ConstraintsRefusal, Each
<1>2. PICK T : checked \in Seq(T)
  <2>1. checked = [i \in DOMAIN flags |-> checked[i]]
    OBVIOUS
  <2>2. IsList(flags)
    <3>1. Range(flags) = {flags[i] : i \in 1..4} /\ DOMAIN flags = 1..4
      BY DEF Range
    <3>2. flags \in Seq(Range(flags))
      BY <3>1
    <3> QED
      BY <3>2 DEF IsList
  <2> HIDE DEF checked, flags
  <2> QED
    BY <2>1, <2>2, SomeSequence
<1> HIDE DEF known, checked, least, most
<1>3. first \in Seq({known}) /\ Len(first) = 1 /\ first[1] = known /\ last \in Seq({least, most})
  OBVIOUS
<1> HIDE DEF first, last
<1>4. first \o checked \in Seq({known} \cup T)
  BY <1>2, <1>3, BothOk
<1>5. AllOk(first \o checked)
  BY <1>1, <1>3, <1>4, BothAccepted
<1>6. AllOk(first)
  BY <1>2, <1>3, <1>5, BothOk
<1>7. known = "ok"
  BY <1>3, <1>6 DEF AllOk
<1> QED
  BY <1>7 DEF known, UnknownKeys, Require

\* What was accepted of the password policy.
LEMMA PolicyAccepted ==
  ASSUME NEW o, PasswordPolicyRefusal(o) = "ok"
  PROVE  PolicyGiven(o)
<1> DEFINE part == Only(o, {"enforcementState", "forceUpgradeOnSignin"})
           required == Requiring(part, {"enforcementState"})
           checks == <<Check("enforcementState", {"ENFORCE", "OFF"}, "INVALID_CONFIG"),
                       Check("forceUpgradeOnSignin", Bool, "INVALID_CONFIG")>>
           constraints == IF Given(o, "constraints") THEN ConstraintsRefusal(o.constraints)
                          ELSE Require(o.enforcementState # "ENFORCE", "INVALID_CONFIG")
<1>1. /\ UnknownKeys(o, PolicyFields, "INVALID_CONFIG") = "ok" /\ Verdict(checks, required) = "ok"
      /\ constraints = "ok"
  <2> DEFINE verdicts == <<UnknownKeys(o, PolicyFields, "INVALID_CONFIG"), Verdict(checks, required), constraints>>
  <2>1. FirstRefusal(verdicts) = "ok"
    BY DEF PasswordPolicyRefusal, PolicyFields
  <2> HIDE DEF checks, required, constraints
  <2>2. \A i \in 1..Len(verdicts) : verdicts[i] = "ok"
    BY <2>1, NoRefusal
  <2>3. verdicts[1] = "ok" /\ verdicts[2] = "ok" /\ verdicts[3] = "ok"
    BY <2>2
  <2> QED
    BY <2>3
<1>2. Len(checks) = 2 /\ checks[1].key = "enforcementState" /\ checks[1].accepts = {"ENFORCE", "OFF"}
  BY DEF Check
<1>3. \A i \in 1..Len(checks) : checks[i].code # "ok"
  BY DEF Check
<1>4. Held(required, "enforcementState") =
        IF Held(o, "enforcementState") = << >> THEN <<"undefined">> ELSE Held(o, "enforcementState")
  <2> DEFINE default == [k \in {"enforcementState"} |-> "undefined"]
  <2>1. required = part ++ default
    BY DEF Requiring
  <2>2. Held(default, "enforcementState") = <<"undefined">>
    BY DEF Held, Given
  <2>3. Held(part, "enforcementState") = Held(o, "enforcementState")
    BY HeldParts
  <2> HIDE DEF default, part, required
  <2> QED
    BY <2>1, <2>2, <2>3, HeldOver
<1> HIDE DEF checks, required
<1>5. Given(required, "enforcementState") => required["enforcementState"] \in {"ENFORCE", "OFF"}
  <2>1. 1 \in 1..Len(checks) /\ Len(checks) \in Nat
    BY <1>2
  <2> QED
    BY <1>1, <1>2, <1>3, <2>1, ChecksHold
<1>6. Given(o, "enforcementState")
  BY <1>4, <1>5 DEF Held
<1>7. Given(o, "constraints") => DOMAIN o.constraints \subseteq DOMAIN DefaultConstraints
  BY <1>1, ConstraintsAccepted
<1> QED
  BY <1>1, <1>6, <1>7 DEF PolicyGiven, UnknownKeys, Require

\* The request holds all of the policy, the defaults where nothing was given.
\* The policy is shown, after a change, as given over the defaults.
LEMMA PolicyChanged ==
  ASSUME NEW o, PolicyGiven(o), NEW before, NEW after, HoldsOver(after, PasswordPolicyRequest(o), before)
  PROVE  PasswordPolicyConfig(after) = Configs!Policy(o)
<1> DEFINE versions == RenameAll(At(o, "constraints") ++ DefaultConstraints, StrengthNames)
           all == At(o, "constraints") ++ DefaultConstraints
           force == Flag(o, "forceUpgradeOnSignin")
           q == PasswordPolicyRequest(o)
           shown == [enforcementState |-> o.enforcementState, forceUpgradeOnSignin |-> force, constraints |-> all]
           constraints == [k \in DOMAIN o \cap {"constraints"} |-> o[k] ++ DefaultConstraints]
           defaults == [forceUpgradeOnSignin |-> "false", constraints |-> DefaultConstraints]
           right == (constraints ++ o) ++ defaults
<1>1. Configs!Policy(o) = right
  <2>1. Configs!PolicyDefaults = defaults
    BY DEF Configs!PolicyDefaults, DefaultConstraints, MinPasswordLength, MaxPasswordLength
  <2>2. Configs!PolicyDefaults.constraints = DefaultConstraints
    BY <2>1
  <2>3. Configs!Policy(o) = Configs!++(Configs!++([k \in DOMAIN o \cap {"constraints"} |->
                                                     Configs!++(o[k], Configs!PolicyDefaults.constraints)], o),
                                       Configs!PolicyDefaults)
    BY DEF Configs!Policy
  <2> HIDE DEF defaults
  <2>4. [k \in DOMAIN o \cap {"constraints"} |-> Configs!++(o[k], Configs!PolicyDefaults.constraints)] = constraints
    BY <2>2, ConfigObjects
  <2> HIDE DEF constraints
  <2> QED
    BY <2>1, <2>3, <2>4, ConfigObjects
<1>2. DOMAIN all = DOMAIN DefaultConstraints /\ IsObject(all)
  <2>1. DOMAIN At(o, "constraints") \subseteq DOMAIN DefaultConstraints
    <3>1. DOMAIN EmptyObject = {}
      BY DEF EmptyObject
    <3> QED
      BY <3>1 DEF PolicyGiven, At
  <2>2. all = [k \in DOMAIN At(o, "constraints") \cup DOMAIN DefaultConstraints |->
                 IF k \in DOMAIN At(o, "constraints") THEN At(o, "constraints")[k] ELSE DefaultConstraints[k]]
    BY OverIs
  <2> HIDE DEF all
  <2> QED
    BY <2>1, <2>2 DEF IsObject
<1>3. DOMAIN StrengthNames = DOMAIN DefaultConstraints
  BY DEF StrengthNames, DefaultConstraints
<1>4. \A k \in DOMAIN StrengthNames : versions[StrengthNames[k]] = all[k]
  <2>1. \A m, n \in DOMAIN StrengthNames : StrengthNames[m] = StrengthNames[n] => m = n
    BY DEF StrengthNames
  <2> HIDE DEF all
  <2>2. \A k \in DOMAIN StrengthNames : Held(versions, StrengthNames[k]) = Held(all, k)
    BY <2>1, HeldRenamedAll DEF all
  <2>3. \A k \in DOMAIN StrengthNames : Given(all, k)
    BY <1>2, <1>3 DEF Given
  <2> HIDE DEF versions
  <2> QED
    BY <2>2, <2>3 DEF Held
<1>5. PasswordPolicyConfig(after) = shown
  <2>1. q = [passwordPolicyEnforcementState |-> o.enforcementState, forceUpgradeOnSignin |-> force,
             passwordPolicyVersions |-> versions]
    BY DEF PasswordPolicyRequest
  <2> HIDE DEF versions, force
  <2>2. /\ Held(q, "passwordPolicyEnforcementState") = <<o.enforcementState>>
        /\ Held(q, "forceUpgradeOnSignin") = <<force>> /\ Held(q, "passwordPolicyVersions") = <<versions>>
    <3> HIDE DEF q
    <3> QED
      BY <2>1 DEF Held, Given
  <2> HIDE DEF q
  <2>3. /\ Held(after, "passwordPolicyEnforcementState") = <<o.enforcementState>>
        /\ Held(after, "forceUpgradeOnSignin") = <<force>> /\ Held(after, "passwordPolicyVersions") = <<versions>>
    BY <2>2 DEF HoldsOver, q
  <2>4. /\ after.passwordPolicyEnforcementState = o.enforcementState
        /\ Flag(after, "forceUpgradeOnSignin") = force /\ after.passwordPolicyVersions = versions
    BY <2>3 DEF Held, Flag
  <2>5. [k \in DOMAIN StrengthNames |-> after.passwordPolicyVersions[StrengthNames[k]]] = all
    <3> HIDE DEF all
    <3>1. all = [k \in DOMAIN all |-> all[k]]
      BY <1>2 DEF IsObject
    <3> QED
      BY <1>2, <1>3, <1>4, <2>4, <3>1
  <2> HIDE DEF all
  <2> QED
    BY <2>4, <2>5 DEF PasswordPolicyConfig
<1>6. /\ IsObject(shown) /\ Held(shown, "enforcementState") = <<o.enforcementState>>
      /\ Held(shown, "forceUpgradeOnSignin") = <<force>> /\ Held(shown, "constraints") = <<all>>
      /\ \A k : k \notin PolicyFields => Held(shown, k) = << >>
  <2> HIDE DEF force, all
  <2> QED
    BY DEF IsObject, Held, Given, PolicyFields
<1>7. /\ Held(defaults, "forceUpgradeOnSignin") = <<"false">> /\ Held(defaults, "constraints") = <<DefaultConstraints>>
      /\ \A k : k \notin {"forceUpgradeOnSignin", "constraints"} => Held(defaults, k) = << >>
  BY DEF Held, Given
<1>8. \A k : Held(constraints, k) = IF k = "constraints" /\ Given(o, k) THEN <<o[k] ++ DefaultConstraints>> ELSE << >>
  BY DEF Held, Given
<1> HIDE DEF constraints, defaults, shown, right
<1>9. /\ IsObject(right)
      /\ \A k : Held(right, k) = IF Held(constraints, k) # << >> THEN Held(constraints, k)
                                 ELSE IF Held(o, k) # << >> THEN Held(o, k) ELSE Held(defaults, k)
  BY HeldOver DEF right
<1>10. Held(shown, "enforcementState") = Held(right, "enforcementState")
  <2>1. Held(o, "enforcementState") = <<o.enforcementState>>
    BY DEF PolicyGiven, Held
  <2> QED
    BY <1>6, <1>8, <1>9, <2>1
<1>11. Held(shown, "forceUpgradeOnSignin") = Held(right, "forceUpgradeOnSignin")
  <2>1. <<force>> = IF Held(o, "forceUpgradeOnSignin") = << >> THEN <<"false">> ELSE Held(o, "forceUpgradeOnSignin")
    BY HeldFlag
  <2> QED
    BY <1>6, <1>7, <1>8, <1>9, <2>1
<1>12. Held(shown, "constraints") = Held(right, "constraints")
  <2>1. CASE Given(o, "constraints")
    <3>1. all = o["constraints"] ++ DefaultConstraints
      BY <2>1 DEF At
    <3> HIDE DEF all
    <3> QED
      BY <1>6, <1>8, <1>9, <2>1, <3>1
  <2>2. CASE ~Given(o, "constraints")
    <3>1. all = DefaultConstraints
      <4>1. At(o, "constraints") = EmptyObject
        BY <2>2 DEF At
      <4>2. \A k : Held(EmptyObject ++ DefaultConstraints, k) = Held(DefaultConstraints, k)
        BY HeldOver, HeldEmpty
      <4>3. IsObject(DefaultConstraints) /\ IsObject(EmptyObject ++ DefaultConstraints)
        BY HeldOver DEF DefaultConstraints, IsObject
      <4> QED
        BY <4>1, <4>2, <4>3, SameObject
    <3> HIDE DEF all
    <3> QED
      BY <1>6, <1>7, <1>8, <1>9, <2>2, <3>1, HeldNothing
  <2> QED
    BY <2>1, <2>2
<1>13. \A k : k \notin PolicyFields => Held(shown, k) = Held(right, k)
  <2>1. \A k : k \notin PolicyFields => Held(o, k) = << >> /\ k \notin {"forceUpgradeOnSignin", "constraints"}
    BY DEF PolicyGiven, PolicyFields, Held, Given
  <2> QED
    BY <1>6, <1>7, <1>8, <1>9, <2>1
<1>14. \A k : Held(shown, k) = Held(right, k)
  BY <1>10, <1>11, <1>12, <1>13 DEF PolicyFields
<1>15. shown = right
  BY <1>6, <1>9, <1>14, SameObject
<1> QED
  BY <1>1, <1>5, <1>15

-----------------------------------------------------------------------------
(* What tenants and the project share, after a change. *)

\* What a change makes of the second factors, as they are shown.
LEMMA FactorsPart ==
  ASSUME NEW new, NEW old, NEW request, NEW terminalPaths, IsChangeOf(new, old, request, terminalPaths),
         NEW n \in Nested \ terminalPaths, n # "smsRegionConfig", NEW o, NEW k,
         Given(o, k) => FactorsGiven(o[k]),
         Held(request, n) = IF Given(o, k) THEN <<MultiFactorRequest(o[k])>> ELSE << >>,
         NEW before, Held(before, k) = IF Given(old, n) THEN <<MultiFactorConfig(old[n])>> ELSE << >>
  PROVE  (IF Given(new, n) THEN <<MultiFactorConfig(new[n])>> ELSE << >>) =
           IF Given(o, k) THEN <<(o[k] ++ At(before, k)) ++ Configs!FactorDefaults>> ELSE Held(before, k)
<1>1. CASE ~Given(o, k)
  <2>1. ~Given(request, n)
    BY <1>1, HeldNothing
  <2>2. Held(new, n) = Held(old, n)
    BY <2>1 DEF IsChangeOf
  <2>3. (Given(new, n) <=> Given(old, n)) /\ (Given(old, n) => new[n] = old[n])
    BY <2>2 DEF Held
  <2> QED
    BY <1>1, <2>3
<1>2. CASE Given(o, k)
  <2> DEFINE q == MultiFactorRequest(o[k])
  <2>1. Given(request, n) /\ request[n] = q /\ At(request, n) = q
    BY <1>2 DEF Held, At
  <2>2. DOMAIN q # {}
    <3>1. Held(q, "state") = Held(o[k], "state") /\ Given(o[k], "state")
      BY <1>2, FactorsSent DEF FactorsGiven
    <3> HIDE DEF q
    <3>2. Given(q, "state")
      BY <3>1, HeldNothing
    <3> QED
      BY <3>2 DEF Given
  <2> HIDE DEF q
  <2>3. Given(new, n) /\ At(new, n) = new[n] /\ HoldsOver(At(new, n), q, At(old, n))
    BY <2>1, <2>2, PartOfChange DEF HoldsOver, At
  <2>4. \/ At(before, k) = MultiFactorConfig(At(old, n))
        \/ At(old, n) = EmptyObject /\ At(before, k) = EmptyObject
    <3>1. CASE Given(old, n)
      <4>1. At(old, n) = old[n] /\ Held(before, k) = <<MultiFactorConfig(old[n])>>
        BY <3>1 DEF At
      <4> QED
        BY <4>1 DEF Held, At
    <3>2. CASE ~Given(old, n)
      <4>1. At(old, n) = EmptyObject /\ Held(before, k) = << >>
        BY <3>2 DEF At
      <4> QED
        BY <4>1, HeldNothing DEF At
    <3> QED
      BY <3>1, <3>2
  <2>5. MultiFactorConfig(At(new, n)) = (o[k] ++ At(before, k)) ++ Configs!FactorDefaults
    <3>1. FactorsGiven(o[k]) /\ HoldsOver(At(new, n), MultiFactorRequest(o[k]), At(old, n))
      BY <1>2, <2>3 DEF q
    <3> QED
      BY <2>4, <3>1, FactorsChanged
  <2> QED
    BY <1>2, <2>3, <2>5
<1> QED
  BY <1>1, <1>2

\* What a change makes of reCAPTCHA, as it is shown.
LEMMA RecaptchaPart ==
  ASSUME NEW new, NEW old, NEW request, NEW terminalPaths, IsChangeOf(new, old, request, terminalPaths),
         NEW n \in Nested \ terminalPaths, n # "smsRegionConfig", NEW o,
         Given(o, n) => IsObject(o[n]) /\ ~Given(o[n], "tollFraudManagedRules"),
         Held(request, n) = IF Given(o, n) THEN <<RecaptchaRequest(o[n])>> ELSE << >>,
         NEW before, Held(before, n) = IF Given(old, n) THEN <<RecaptchaAuthConfig(old[n])>> ELSE << >>
  PROVE  (IF Given(new, n) THEN <<RecaptchaAuthConfig(new[n])>> ELSE << >>) =
           IF Given(o, n) THEN <<Configs!Merged(At(before, n), o[n])>> ELSE Held(before, n)
<1>1. CASE ~Given(o, n)
  <2>1. ~Given(request, n)
    BY <1>1, HeldNothing
  <2>2. Held(new, n) = Held(old, n)
    BY <2>1 DEF IsChangeOf
  <2>3. (Given(new, n) <=> Given(old, n)) /\ (Given(old, n) => new[n] = old[n])
    BY <2>2 DEF Held
  <2> QED
    BY <1>1, <2>3
<1>2. CASE Given(o, n)
  <2> DEFINE q == RecaptchaRequest(o[n])
  <2>1. Given(request, n) /\ request[n] = q
    BY <1>2 DEF Held
  <2>2. IsObject(q)
    BY <1>2, HeldRenamed DEF RecaptchaRequest
  <2>3. Held(new, n) = <<Configs!Merged(At(old, n), q)>>
    <3> HIDE DEF q
    <3> QED
      BY <2>1, <2>2, MergedByChange
  <2>4. At(before, n) = RecaptchaAuthConfig(At(old, n))
    <3>1. CASE Given(old, n)
      <4>1. At(old, n) = old[n] /\ Held(before, n) = <<RecaptchaAuthConfig(old[n])>>
        BY <3>1 DEF At
      <4> QED
        BY <4>1 DEF Held, At
    <3>2. CASE ~Given(old, n)
      <4>1. At(old, n) = EmptyObject /\ Held(before, n) = << >>
        BY <3>2 DEF At
      <4>2. At(before, n) = EmptyObject
        BY <4>1, HeldNothing DEF At
      <4>3. ~Given(EmptyObject, "tollFraudManagedRules")
        BY HeldEmpty, HeldNothing
      <4>4. RecaptchaAuthConfig(EmptyObject) = EmptyObject
        BY <4>3 DEF RecaptchaAuthConfig, Rename
      <4> QED
        BY <4>1, <4>2, <4>4
    <3> QED
      BY <3>1, <3>2
  <2>5. RecaptchaAuthConfig(Configs!Merged(At(old, n), q)) = Configs!Merged(At(before, n), o[n])
    BY <1>2, <2>4, RecaptchaChanged
  <2>6. Given(new, n) /\ new[n] = Configs!Merged(At(old, n), q)
    BY <2>3 DEF Held
  <2> QED
    BY <1>2, <2>5, <2>6
<1> QED
  BY <1>1, <1>2

\* What a change makes of the password policy, as it is shown.
LEMMA PolicyPart ==
  ASSUME NEW new, NEW old, NEW request, NEW terminalPaths, IsChangeOf(new, old, request, terminalPaths),
         NEW n \in Nested \ terminalPaths, n # "smsRegionConfig", NEW o,
         Given(o, n) => PolicyGiven(o[n]),
         Held(request, n) = IF Given(o, n) THEN <<PasswordPolicyRequest(o[n])>> ELSE << >>,
         NEW before, Held(before, n) = IF Given(old, n) THEN <<PasswordPolicyConfig(old[n])>> ELSE << >>
  PROVE  (IF Given(new, n) THEN <<PasswordPolicyConfig(new[n])>> ELSE << >>) =
           IF Given(o, n) THEN <<Configs!Policy(o[n])>> ELSE Held(before, n)
<1>1. CASE ~Given(o, n)
  <2>1. ~Given(request, n)
    BY <1>1, HeldNothing
  <2>2. Held(new, n) = Held(old, n)
    BY <2>1 DEF IsChangeOf
  <2>3. (Given(new, n) <=> Given(old, n)) /\ (Given(old, n) => new[n] = old[n])
    BY <2>2 DEF Held
  <2> QED
    BY <1>1, <2>3
<1>2. CASE Given(o, n)
  <2> DEFINE q == PasswordPolicyRequest(o[n])
  <2>1. Given(request, n) /\ request[n] = q /\ At(request, n) = q
    BY <1>2 DEF Held, At
  <2>2. DOMAIN q # {}
    BY DEF PasswordPolicyRequest
  <2> HIDE DEF q
  <2>3. Given(new, n) /\ At(new, n) = new[n] /\ HoldsOver(At(new, n), q, At(old, n))
    BY <2>1, <2>2, PartOfChange DEF HoldsOver, At
  <2>4. PasswordPolicyConfig(At(new, n)) = Configs!Policy(o[n])
    <3>1. PolicyGiven(o[n]) /\ HoldsOver(At(new, n), PasswordPolicyRequest(o[n]), At(old, n))
      BY <1>2, <2>3 DEF q
    <3> QED
      BY <3>1, PolicyChanged
  <2> QED
    BY <1>2, <2>3, <2>4
<1> QED
  BY <1>1, <1>2

\* What a change makes of an object that is shown as it is kept.
LEMMA MergedPart ==
  ASSUME NEW new, NEW old, NEW request, NEW terminalPaths, IsChangeOf(new, old, request, terminalPaths),
         NEW n \in Nested \ terminalPaths, n # "smsRegionConfig", NEW o, IsObject(At(o, n)),
         Held(request, n) = Held(o, n)
  PROVE  Held(new, n) = IF Given(o, n) THEN <<Configs!Merged(At(old, n), o[n])>> ELSE Held(old, n)
<1>1. CASE ~Given(o, n)
  <2>1. ~Given(request, n)
    BY <1>1, HeldNothing
  <2> QED
    BY <1>1, <2>1 DEF IsChangeOf
<1>2. CASE Given(o, n)
  <2>1. Given(request, n) /\ request[n] = o[n] /\ At(o, n) = o[n]
    BY <1>2 DEF Held, At
  <2>2. IsObject(request[n])
    BY <2>1
  <2>3. Held(new, n) = <<Configs!Merged(At(old, n), request[n])>>
    BY <2>1, <2>2, MergedByChange
  <2> QED
    BY <1>2, <2>1, <2>3
<1> QED
  BY <1>1, <1>2

\* Of the SMS regions nothing is kept.
LEMMA RegionsPart ==
  ASSUME NEW new, NEW old, NEW request, NEW terminalPaths, IsChangeOf(new, old, request, terminalPaths),
         NEW o, IsObject(At(o, "smsRegionConfig")), Held(request, "smsRegionConfig") = Held(o, "smsRegionConfig")
  PROVE  Held(new, "smsRegionConfig") = IF Given(o, "smsRegionConfig") THEN Held(o, "smsRegionConfig") ELSE Held(old, "smsRegionConfig")
<1> DEFINE n == "smsRegionConfig"
<1>1. CASE ~Given(o, n)
  <2>1. ~Given(request, n)
    BY <1>1, HeldNothing
  <2> QED
    BY <1>1, <2>1 DEF IsChangeOf
<1>2. CASE Given(o, n)
  <2>1. Given(request, n) /\ request[n] = o[n] /\ At(o, n) = o[n] /\ Given(new, n)
    BY <1>2 DEF Held, At, IsChangeOf
  <2>2. new[n] = o[n]
    <3>1. CASE n \in Nested \ terminalPaths /\ DOMAIN request[n] # {}
      <4>1. IsObject(request[n]) /\ IsObject(o[n])
        BY <2>1
      <4>2. IsObject(new[n]) /\ \A sub : Held(new[n], sub) = Held(request[n], sub)
        BY <2>1, <3>1, <4>1 DEF IsChangeOf
      <4>3. \A sub : Held(new[n], sub) = Held(o[n], sub)
        BY <2>1, <4>2
      <4> QED
        BY <4>1, <4>2, <4>3, SameObject
    <3>2. CASE ~(n \in Nested \ terminalPaths /\ DOMAIN request[n] # {})
      BY <2>1, <3>2 DEF IsChangeOf
    <3> QED
      BY <3>1, <3>2
  <2> QED
    BY <1>2, <2>1, <2>2 DEF Held
<1> QED
  BY <1>1, <1>2

\* What the store makes of each part.
LEMMA ChangedPolicyIs ==
  ASSUME NEW old, NEW k, k = "passwordPolicyConfig", NEW value
  PROVE  Configs!ChangedPart(old, k, value) = Configs!Policy(value)
BY DEF Configs!ChangedPart

\* Of the second factors: what was given, over what was shown, over the defaults.
LEMMA ChangedFactorsAre ==
  ASSUME NEW old, NEW k, k = "multiFactorConfig", NEW value
  PROVE  Configs!ChangedPart(old, k, value) = (value ++ At(old, k)) ++ Configs!FactorDefaults
<1> DEFINE changed == Configs!ChangedPart(old, k, value)
<1>1. changed = Configs!++(Configs!++(value, Configs!Part(old, k)), Configs!FactorDefaults)
  BY DEF Configs!ChangedPart
<1> HIDE DEF changed
<1>2. changed = (value ++ At(old, k)) ++ Configs!FactorDefaults
  BY <1>1, ConfigObjects
<1> QED
  BY <1>2 DEF changed

\* Of the sign-in by e-mail: what was given, over what was shown.
LEMMA ChangedEmailIs ==
  ASSUME NEW old, NEW k, k = "emailSignInConfig", NEW value
  PROVE  Configs!ChangedPart(old, k, value) =
           [i \in DOMAIN value |-> IF value[i] = "undefined" THEN "false" ELSE value[i]] ++ At(old, k)
<1> DEFINE changed == Configs!ChangedPart(old, k, value)
           email == [i \in DOMAIN value |-> IF value[i] = "undefined" THEN "false" ELSE value[i]]
<1>1. changed = Configs!++(email, Configs!Part(old, k))
  BY DEF Configs!ChangedPart
<1> HIDE DEF changed, email
<1>2. changed = email ++ At(old, k)
  BY <1>1, ConfigObjects
<1> QED
  BY <1>2 DEF changed, email

\* Of an object that is shown as it is kept: both in one, unless it is cleared.
LEMMA ChangedMergedIs ==
  ASSUME NEW old, NEW k, k \in {"recaptchaConfig", "emailPrivacyConfig", "mobileLinksConfig"}, NEW value
  PROVE  Configs!ChangedPart(old, k, value) = Configs!Merged(At(old, k), value)
<1> DEFINE changed == Configs!ChangedPart(old, k, value)
<1>1. changed = Configs!Merged(Configs!Part(old, k), value)
  BY DEF Configs!ChangedPart
<1> HIDE DEF changed
<1>2. changed = Configs!Merged(At(old, k), value)
  BY <1>1, ConfigObjects
<1> QED
  BY <1>2 DEF changed

\* Of any other part: what was given.
LEMMA ChangedPlainIs ==
  ASSUME NEW old, NEW k, NEW value,
         k \notin {"passwordPolicyConfig", "multiFactorConfig", "emailSignInConfig", "recaptchaConfig",
                   "emailPrivacyConfig", "mobileLinksConfig"}
  PROVE  Configs!ChangedPart(old, k, value) = value
BY DEF Configs!ChangedPart

\* What the store makes of all the parts of a tenant or of the project.
LEMMA ChangedSharedHolds ==
  ASSUME NEW old, NEW o
  PROVE  LET changed == Configs!ChangedShared(old, o)
         IN /\ IsObject(changed)
            /\ \A k : Held(changed, k) = IF Given(o, k) THEN <<Configs!ChangedPart(old, k, o[k])>> ELSE Held(old, k)
<1> DEFINE parts == [k \in DOMAIN o |-> Configs!ChangedPart(old, k, o[k])]
<1>1. Configs!ChangedShared(old, o) = parts ++ old
  <2>1. Configs!ChangedShared(old, o) = Configs!++(parts, old)
    BY DEF Configs!ChangedShared
  <2> HIDE DEF parts
  <2> QED
    BY <2>1, ConfigObjects
<1>2. \A k : Held(parts, k) = IF Given(o, k) THEN <<Configs!ChangedPart(old, k, o[k])>> ELSE << >>
  BY DEF Held, Given
<1> HIDE DEF parts
<1>3. /\ IsObject(parts ++ old)
      /\ \A k : Held(parts ++ old, k) = IF Held(parts, k) = << >> THEN Held(old, k) ELSE Held(parts, k)
  BY HeldOver
<1> QED
  BY <1>1, <1>2, <1>3

\* The store makes the same of a part that the same part was before.
LEMMA ChangedPartOnly ==
  ASSUME NEW old, NEW other, NEW k, NEW value, At(old, k) = At(other, k)
  PROVE  Configs!ChangedPart(old, k, value) = Configs!ChangedPart(other, k, value)
<1>1. Configs!Part(old, k) = Configs!Part(other, k)
  BY ConfigObjects
<1> QED
  BY <1>1 DEF Configs!ChangedPart
-----------------------------------------------------------------------------
(* What was accepted of a tenant and of the project. *)

\* What the types of the code require of the input.
InputIsTyped(o) ==
  /\ Given(o, "emailSignInConfig") => Given(o.emailSignInConfig, "enabled") /\ o.emailSignInConfig.enabled # "undefined"
  /\ Given(o, "multiFactorConfig") =>
       /\ Given(o.multiFactorConfig, "state")
       /\ Given(o.multiFactorConfig, "providerConfigs") => IsList(o.multiFactorConfig.providerConfigs)
  /\ \A k \in {"smsRegionConfig", "recaptchaConfig", "emailPrivacyConfig", "mobileLinksConfig"} : IsObject(At(o, k))

PartsGiven(o) ==
  /\ Given(o, "multiFactorConfig") => FactorsGiven(o["multiFactorConfig"])
  /\ Given(o, "recaptchaConfig") => IsObject(o["recaptchaConfig"]) /\ ~Given(o["recaptchaConfig"], "tollFraudManagedRules")
  /\ Given(o, "passwordPolicyConfig") => PolicyGiven(o["passwordPolicyConfig"])
  /\ \A k \in {"smsRegionConfig", "emailPrivacyConfig", "mobileLinksConfig"} : IsObject(At(o, k))

\* What is well typed and was accepted is as the lemmas about its parts need it.
LEMMA PartsAccepted ==
  ASSUME NEW o, InputIsTyped(o),
         \A k \in {"multiFactorConfig", "recaptchaConfig", "passwordPolicyConfig"} : RefusalOf(o, k) = "ok"
  PROVE  PartsGiven(o)
<1>1. Given(o, "multiFactorConfig") => FactorsGiven(o["multiFactorConfig"])
  <2> SUFFICES ASSUME Given(o, "multiFactorConfig") PROVE FactorsGiven(o["multiFactorConfig"])
    OBVIOUS
  <2>1. RefusalOf(o, "multiFactorConfig") = MultiFactorRefusal(o["multiFactorConfig"])
    BY DEF RefusalOf
  <2> QED
    BY <2>1, FactorsAccepted DEF InputIsTyped
<1>2. Given(o, "recaptchaConfig") => IsObject(o["recaptchaConfig"]) /\ ~Given(o["recaptchaConfig"], "tollFraudManagedRules")
  <2> SUFFICES ASSUME Given(o, "recaptchaConfig")
               PROVE IsObject(o["recaptchaConfig"]) /\ ~Given(o["recaptchaConfig"], "tollFraudManagedRules")
    OBVIOUS
  <2>1. RefusalOf(o, "recaptchaConfig") = RecaptchaRefusal(o["recaptchaConfig"])
    BY DEF RefusalOf
  <2>2. At(o, "recaptchaConfig") = o["recaptchaConfig"]
    BY DEF At
  <2>3. IsObject(At(o, "recaptchaConfig"))
    BY DEF InputIsTyped
  <2> QED
    BY <2>1, <2>2, <2>3, RecaptchaAccepted
<1>3. Given(o, "passwordPolicyConfig") => PolicyGiven(o["passwordPolicyConfig"])
  <2> SUFFICES ASSUME Given(o, "passwordPolicyConfig") PROVE PolicyGiven(o["passwordPolicyConfig"])
    OBVIOUS
  <2>1. RefusalOf(o, "passwordPolicyConfig") = PasswordPolicyRefusal(o["passwordPolicyConfig"])
    BY DEF RefusalOf
  <2> QED
    BY <2>1, PolicyAccepted
<1> QED
  BY <1>1, <1>2, <1>3 DEF PartsGiven, InputIsTyped

\* What was accepted of a tenant.
LEMMA TenantAccepted ==
  ASSUME NEW o, InputIsTyped(o), NEW nullPhones, NEW create, TenantRefusal(o, nullPhones, create) = "ok"
  PROVE  /\ DOMAIN o \subseteq UpdateTenantRequest /\ PartsGiven(o)
         /\ Given(o, "emailSignInConfig") => EmailSignInGiven(o["emailSignInConfig"])
         /\ ~(nullPhones /\ create)
<1>1. /\ UnknownKeys(o, UpdateTenantRequest, "INVALID_ARGUMENT") = "ok" /\ RefusalOf(o, "emailSignInConfig") = "ok"
      /\ Require(~(nullPhones /\ create), "INVALID_ARGUMENT") = "ok"
      /\ \A k \in {"multiFactorConfig", "recaptchaConfig", "passwordPolicyConfig"} : RefusalOf(o, k) = "ok"
  <2> DEFINE known == UnknownKeys(o, UpdateTenantRequest, "INVALID_ARGUMENT")
             possible == Require(~(nullPhones /\ create), "INVALID_ARGUMENT")
             verdicts == <<known, RefusalOf(o, "displayName"), RefusalOf(o, "emailSignInConfig"), possible,
                           RefusalOf(o, "testPhoneNumbers"), RefusalOf(o, "multiFactorConfig"),
                           RefusalOf(o, "smsRegionConfig"), RefusalOf(o, "recaptchaConfig"),
                           RefusalOf(o, "passwordPolicyConfig"), RefusalOf(o, "emailPrivacyConfig")>>
  <2>1. FirstRefusal(verdicts) = "ok"
    BY DEF TenantRefusal
  <2> HIDE DEF known, possible
  <2>2. Len(verdicts) = 10
    OBVIOUS
  <2>3. \A i \in 1..10 : verdicts[i] = "ok"
    BY <2>1, <2>2, NoRefusal
  <2>4. /\ verdicts[1] = "ok" /\ verdicts[3] = "ok" /\ verdicts[4] = "ok"
        /\ verdicts[6] = "ok" /\ verdicts[8] = "ok" /\ verdicts[9] = "ok"
    BY <2>3
  <2>5. known = "ok" /\ possible = "ok"
    BY <2>4
  <2> QED
    BY <2>4, <2>5 DEF known, possible
<1>2. Given(o, "emailSignInConfig") => EmailSignInGiven(o["emailSignInConfig"])
  <2> SUFFICES ASSUME Given(o, "emailSignInConfig") PROVE EmailSignInGiven(o["emailSignInConfig"])
    OBVIOUS
  <2>1. RefusalOf(o, "emailSignInConfig") = EmailSignInRefusal(o["emailSignInConfig"])
    BY DEF RefusalOf
  <2> QED
    BY <1>1, <2>1, EmailSignInAccepted DEF InputIsTyped
<1>3. PartsGiven(o)
  BY <1>1, PartsAccepted
<1> QED
  BY <1>1, <1>2, <1>3 DEF UnknownKeys, Require

\* What was accepted of the project.
LEMMA ProjectAccepted ==
  ASSUME NEW o, InputIsTyped(o), ProjectRefusal(o) = "ok"
  PROVE  DOMAIN o \subseteq UpdateProjectConfigRequest /\ PartsGiven(o)
<1>1. /\ UnknownKeys(o, UpdateProjectConfigRequest, "INVALID_ARGUMENT") = "ok"
      /\ \A k \in {"multiFactorConfig", "recaptchaConfig", "passwordPolicyConfig"} : RefusalOf(o, k) = "ok"
  BY NoRefusal DEF ProjectRefusal
<1>2. PartsGiven(o)
  BY <1>1, PartsAccepted
<1> QED
  BY <1>1, <1>2 DEF UnknownKeys, Require

-----------------------------------------------------------------------------
(* Tenants. *)

TenantPlain == {"displayName", "testPhoneNumbers", "smsRegionConfig", "emailPrivacyConfig"}

\* The parts that the server keeps under some name, converted.
LEMMA HeldConvertedParts ==
  ASSUME NEW r, NEW name
  PROVE  LET factors == Converted(r, name, "multiFactorConfig", MultiFactorConfig)
             recaptcha == Converted(r, "recaptchaConfig", "recaptchaConfig", RecaptchaAuthConfig)
             policy == Converted(r, "passwordPolicyConfig", "passwordPolicyConfig", PasswordPolicyConfig)
         IN \A k :
              /\ Held(factors, k) =
                   IF k = "multiFactorConfig" /\ Given(r, name) THEN <<MultiFactorConfig(r[name])>> ELSE << >>
              /\ Held(recaptcha, k) =
                   IF k = "recaptchaConfig" /\ Given(r, k) THEN <<RecaptchaAuthConfig(r[k])>> ELSE << >>
              /\ Held(policy, k) =
                   IF k = "passwordPolicyConfig" /\ Given(r, k) THEN <<PasswordPolicyConfig(r[k])>> ELSE << >>
<1>1. \A k, n, v : Held(IF Given(r, n) THEN Field(k, v) ELSE EmptyObject, k) = IF Given(r, n) THEN <<v>> ELSE << >>
  BY HeldField, HeldEmpty
<1>2. \A j, k, n, v : j # k => Held(IF Given(r, n) THEN Field(k, v) ELSE EmptyObject, j) = << >>
  BY HeldField, HeldEmpty
<1> QED
  BY <1>1, <1>2 DEF Converted

\* The parts that are sent converted, under the name the server keeps them by.
LEMMA SentConvertedParts ==
  ASSUME NEW o, NEW name
  PROVE  LET factors == Converted(o, "multiFactorConfig", name, MultiFactorRequest)
             recaptcha == Converted(o, "recaptchaConfig", "recaptchaConfig", RecaptchaRequest)
             policy == Converted(o, "passwordPolicyConfig", "passwordPolicyConfig", PasswordPolicyRequest)
         IN \A k :
              /\ Held(factors, k) =
                   IF k = name /\ Given(o, "multiFactorConfig") THEN <<MultiFactorRequest(o["multiFactorConfig"])>> ELSE << >>
              /\ Held(recaptcha, k) =
                   IF k = "recaptchaConfig" /\ Given(o, k) THEN <<RecaptchaRequest(o[k])>> ELSE << >>
              /\ Held(policy, k) =
                   IF k = "passwordPolicyConfig" /\ Given(o, k) THEN <<PasswordPolicyRequest(o[k])>> ELSE << >>
<1>1. \A k, n, v : Held(IF Given(o, n) THEN Field(k, v) ELSE EmptyObject, k) = IF Given(o, n) THEN <<v>> ELSE << >>
  BY HeldField, HeldEmpty
<1>2. \A j, k, n, v : j # k => Held(IF Given(o, n) THEN Field(k, v) ELSE EmptyObject, j) = << >>
  BY HeldField, HeldEmpty
<1> QED
  BY <1>1, <1>2 DEF Converted

\* What is shown of a tenant, part by part.
LEMMA TenantShows ==
  ASSUME NEW id, NEW r
  PROVE  LET shown == Tenant(id, r)
         IN /\ IsObject(shown)
            /\ Held(shown, "tenantId") = <<id>>
            /\ Held(shown, "emailSignInConfig") = <<EmailSignInConfig(r)>>
            /\ Held(shown, "anonymousSignInEnabled") = <<Flag(r, "enableAnonymousUser")>>
            /\ \A k \in TenantPlain : Held(shown, k) = Held(r, k)
            /\ Held(shown, "multiFactorConfig") =
                 IF Given(r, "mfaConfig") THEN <<MultiFactorConfig(r["mfaConfig"])>> ELSE << >>
            /\ Held(shown, "recaptchaConfig") =
                 IF Given(r, "recaptchaConfig") THEN <<RecaptchaAuthConfig(r["recaptchaConfig"])>> ELSE << >>
            /\ Held(shown, "passwordPolicyConfig") =
                 IF Given(r, "passwordPolicyConfig") THEN <<PasswordPolicyConfig(r["passwordPolicyConfig"])>> ELSE << >>
            /\ \A k : k \notin UpdateTenantRequest \cup {"tenantId"} => Held(shown, k) = << >>
<1> DEFINE first == [tenantId |-> id, emailSignInConfig |-> EmailSignInConfig(r),
                     anonymousSignInEnabled |-> Flag(r, "enableAnonymousUser")]
           plain == Only(r, TenantPlain)
           factors == Converted(r, "mfaConfig", "multiFactorConfig", MultiFactorConfig)
           recaptcha == Converted(r, "recaptchaConfig", "recaptchaConfig", RecaptchaAuthConfig)
           policy == Converted(r, "passwordPolicyConfig", "passwordPolicyConfig", PasswordPolicyConfig)
           shown == Tenant(id, r)
<1>1. shown = (((first ++ plain) ++ factors) ++ recaptcha) ++ policy
  BY DEF Tenant, TenantPlain
<1>2. /\ Held(first, "tenantId") = <<id>> /\ Held(first, "emailSignInConfig") = <<EmailSignInConfig(r)>>
      /\ Held(first, "anonymousSignInEnabled") = <<Flag(r, "enableAnonymousUser")>>
      /\ \A k : k \notin {"tenantId", "emailSignInConfig", "anonymousSignInEnabled"} => Held(first, k) = << >>
  BY DEF Held, Given
<1>3. \A k : Held(plain, k) = IF k \in TenantPlain THEN Held(r, k) ELSE << >>
  BY HeldParts
<1>4. \A k : /\ Held(factors, k) =
                  IF k = "multiFactorConfig" /\ Given(r, "mfaConfig") THEN <<MultiFactorConfig(r["mfaConfig"])>> ELSE << >>
             /\ Held(recaptcha, k) = IF k = "recaptchaConfig" /\ Given(r, k) THEN <<RecaptchaAuthConfig(r[k])>> ELSE << >>
             /\ Held(policy, k) = IF k = "passwordPolicyConfig" /\ Given(r, k) THEN <<PasswordPolicyConfig(r[k])>> ELSE << >>
  BY HeldConvertedParts
<1> HIDE DEF first, plain, factors, recaptcha, policy, shown
<1>5. /\ IsObject(shown)
      /\ \A k : Held(shown, k) =
           IF Held(first, k) # << >> THEN Held(first, k)
           ELSE IF Held(plain, k) # << >> THEN Held(plain, k)
           ELSE IF Held(factors, k) # << >> THEN Held(factors, k)
           ELSE IF Held(recaptcha, k) # << >> THEN Held(recaptcha, k) ELSE Held(policy, k)
  BY <1>1, HeldOver
<1>6. /\ Held(shown, "tenantId") = <<id>> /\ Held(shown, "emailSignInConfig") = <<EmailSignInConfig(r)>>
      /\ Held(shown, "anonymousSignInEnabled") = <<Flag(r, "enableAnonymousUser")>>
  BY <1>2, <1>5
<1>7. \A k \in TenantPlain : Held(shown, k) = Held(r, k)
  BY <1>2, <1>3, <1>4, <1>5 DEF TenantPlain
<1>8. \A k \in {"multiFactorConfig", "recaptchaConfig", "passwordPolicyConfig"} :
        Held(first, k) = << >> /\ Held(plain, k) = << >>
  BY <1>2, <1>3 DEF TenantPlain
<1>9. Held(shown, "multiFactorConfig") = IF Given(r, "mfaConfig") THEN <<MultiFactorConfig(r["mfaConfig"])>> ELSE << >>
  BY <1>4, <1>5, <1>8
<1>10. Held(shown, "recaptchaConfig") =
         IF Given(r, "recaptchaConfig") THEN <<RecaptchaAuthConfig(r["recaptchaConfig"])>> ELSE << >>
  BY <1>4, <1>5, <1>8
<1>11. Held(shown, "passwordPolicyConfig") =
         IF Given(r, "passwordPolicyConfig") THEN <<PasswordPolicyConfig(r["passwordPolicyConfig"])>> ELSE << >>
  BY <1>4, <1>5, <1>8
<1>12. \A k : k \notin UpdateTenantRequest \cup {"tenantId"} => Held(shown, k) = << >>
  BY <1>2, <1>3, <1>4, <1>5 DEF TenantPlain, UpdateTenantRequest, SharedConfigs
<1> QED
  BY <1>5, <1>6, <1>7, <1>9, <1>10, <1>11, <1>12 DEF shown

\* What is sent of a tenant, part by part.
LEMMA TenantSends ==
  ASSUME NEW o, NEW nullPhones \in BOOLEAN
  PROVE  LET q == TenantRequest(o, nullPhones)
             email == EmailSignInRequest(At(o, "emailSignInConfig"))
         IN /\ Held(q, "testPhoneNumbers") = IF nullPhones THEN <<EmptyObject>> ELSE Held(o, "testPhoneNumbers")
            /\ \A k \in {"allowPasswordSignup", "enableEmailLinkSignin"} : Held(q, k) = Held(email, k)
            /\ \A k \in {"displayName", "smsRegionConfig", "emailPrivacyConfig"} : Held(q, k) = Held(o, k)
            /\ Held(q, "enableAnonymousUser") = Held(o, "anonymousSignInEnabled")
            /\ Held(q, "mfaConfig") =
                 IF Given(o, "multiFactorConfig") THEN <<MultiFactorRequest(o["multiFactorConfig"])>> ELSE << >>
            /\ Held(q, "recaptchaConfig") =
                 IF Given(o, "recaptchaConfig") THEN <<RecaptchaRequest(o["recaptchaConfig"])>> ELSE << >>
            /\ Held(q, "passwordPolicyConfig") =
                 IF Given(o, "passwordPolicyConfig") THEN <<PasswordPolicyRequest(o["passwordPolicyConfig"])>> ELSE << >>
<1> DEFINE names == [displayName |-> "displayName", anonymousSignInEnabled |-> "enableAnonymousUser",
                     testPhoneNumbers |-> "testPhoneNumbers", smsRegionConfig |-> "smsRegionConfig",
                     emailPrivacyConfig |-> "emailPrivacyConfig"]
           phones == IF nullPhones THEN Field("testPhoneNumbers", EmptyObject) ELSE EmptyObject
           email == EmailSignInRequest(At(o, "emailSignInConfig"))
           plain == RenameAll(o, names)
           factors == Converted(o, "multiFactorConfig", "mfaConfig", MultiFactorRequest)
           recaptcha == Converted(o, "recaptchaConfig", "recaptchaConfig", RecaptchaRequest)
           policy == Converted(o, "passwordPolicyConfig", "passwordPolicyConfig", PasswordPolicyRequest)
           q == TenantRequest(o, nullPhones)
<1>1. q = ((((phones ++ email) ++ plain) ++ factors) ++ recaptcha) ++ policy
  BY DEF TenantRequest
<1>2. \A k : Held(phones, k) = IF nullPhones /\ k = "testPhoneNumbers" THEN <<EmptyObject>> ELSE << >>
  BY HeldField, HeldEmpty
<1>3. \A k : k \notin {"allowPasswordSignup", "enableEmailLinkSignin"} => Held(email, k) = << >>
  BY EmailSignInSends
<1>4. /\ \A k \in {"displayName", "testPhoneNumbers", "smsRegionConfig", "emailPrivacyConfig"} : Held(plain, k) = Held(o, k)
      /\ Held(plain, "enableAnonymousUser") = Held(o, "anonymousSignInEnabled")
      /\ \A k : k \notin {"displayName", "testPhoneNumbers", "smsRegionConfig", "emailPrivacyConfig", "enableAnonymousUser"} =>
                  Held(plain, k) = << >>
  <2>1. \A m, n \in DOMAIN names : names[m] = names[n] => m = n
    OBVIOUS
  <2>2. /\ DOMAIN names = {"displayName", "testPhoneNumbers", "smsRegionConfig", "emailPrivacyConfig", "anonymousSignInEnabled"}
        /\ \A k \in {"displayName", "testPhoneNumbers", "smsRegionConfig", "emailPrivacyConfig"} : names[k] = k
        /\ names["anonymousSignInEnabled"] = "enableAnonymousUser"
    OBVIOUS
  <2> HIDE DEF names
  <2>3. /\ \A n \in DOMAIN names : Held(plain, names[n]) = Held(o, n)
        /\ \A k : (\A n \in DOMAIN names : names[n] # k) => Held(plain, k) = << >>
    BY <2>1, HeldRenamedAll
  <2> HIDE DEF plain
  <2>4. \A k \in {"displayName", "testPhoneNumbers", "smsRegionConfig", "emailPrivacyConfig"} : Held(plain, k) = Held(o, k)
    BY <2>2, <2>3
  <2>5. \A k : k \notin {"displayName", "testPhoneNumbers", "smsRegionConfig", "emailPrivacyConfig", "enableAnonymousUser"} =>
                 \A n \in DOMAIN names : names[n] # k
    BY <2>2
  <2> QED
    BY <2>2, <2>3, <2>4, <2>5
<1>5. \A k : /\ Held(factors, k) =
                  IF k = "mfaConfig" /\ Given(o, "multiFactorConfig") THEN <<MultiFactorRequest(o["multiFactorConfig"])>> ELSE << >>
             /\ Held(recaptcha, k) = IF k = "recaptchaConfig" /\ Given(o, k) THEN <<RecaptchaRequest(o[k])>> ELSE << >>
             /\ Held(policy, k) = IF k = "passwordPolicyConfig" /\ Given(o, k) THEN <<PasswordPolicyRequest(o[k])>> ELSE << >>
  BY SentConvertedParts
<1> HIDE DEF names, phones, email, plain, factors, recaptcha, policy, q
<1>6. \A k : Held(q, k) =
           IF Held(phones, k) # << >> THEN Held(phones, k)
           ELSE IF Held(email, k) # << >> THEN Held(email, k)
           ELSE IF Held(plain, k) # << >> THEN Held(plain, k)
           ELSE IF Held(factors, k) # << >> THEN Held(factors, k)
           ELSE IF Held(recaptcha, k) # << >> THEN Held(recaptcha, k) ELSE Held(policy, k)
  BY <1>1, HeldOver
<1>7. Held(q, "testPhoneNumbers") = IF nullPhones THEN <<EmptyObject>> ELSE Held(o, "testPhoneNumbers")
  BY <1>2, <1>3, <1>4, <1>5, <1>6
<1>8. \A k \in {"allowPasswordSignup", "enableEmailLinkSignin"} : Held(q, k) = Held(email, k)
  BY <1>2, <1>4, <1>5, <1>6
<1>9. \A k \in {"displayName", "smsRegionConfig", "emailPrivacyConfig"} : Held(q, k) = Held(o, k)
  BY <1>2, <1>3, <1>4, <1>5, <1>6
<1>10. Held(q, "enableAnonymousUser") = Held(o, "anonymousSignInEnabled")
  BY <1>2, <1>3, <1>4, <1>5, <1>6
<1>11. \A k \in {"mfaConfig", "recaptchaConfig", "passwordPolicyConfig"} :
         Held(phones, k) = << >> /\ Held(email, k) = << >> /\ Held(plain, k) = << >>
  BY <1>2, <1>3, <1>4
<1>12. Held(q, "mfaConfig") =
         IF Given(o, "multiFactorConfig") THEN <<MultiFactorRequest(o["multiFactorConfig"])>> ELSE << >>
  BY <1>5, <1>6, <1>11
<1>13. Held(q, "recaptchaConfig") = IF Given(o, "recaptchaConfig") THEN <<RecaptchaRequest(o["recaptchaConfig"])>> ELSE << >>
  BY <1>5, <1>6, <1>11
<1>14. Held(q, "passwordPolicyConfig") =
         IF Given(o, "passwordPolicyConfig") THEN <<PasswordPolicyRequest(o["passwordPolicyConfig"])>> ELSE << >>
  BY <1>5, <1>6, <1>11
<1> QED
  BY <1>7, <1>8, <1>9, <1>10, <1>12, <1>13, <1>14 DEF q, email

\* A tenant is shown, after a change, with what the change gives it.
LEMMA TenantChanged ==
  ASSUME NEW id, NEW o, NEW nullPhones \in BOOLEAN, nullPhones => ~Given(o, "testPhoneNumbers"),
         DOMAIN o \subseteq UpdateTenantRequest, PartsGiven(o),
         Given(o, "emailSignInConfig") => EmailSignInGiven(o["emailSignInConfig"]),
         NEW old, LinkSignInIsKnown(old), NEW new,
         IsChangeOf(new, old, TenantRequest(o, nullPhones), {"testPhoneNumbers"})
  PROVE  /\ LinkSignInIsKnown(new)
         /\ Tenant(id, new) =
              Configs!ChangedTenant(IF nullPhones THEN Without(Tenant(id, old), {"testPhoneNumbers"}) ELSE Tenant(id, old),
                                    o, nullPhones)
<1> DEFINE T == {"testPhoneNumbers"}
           q == TenantRequest(o, nullPhones)
           before == Tenant(id, old)
           after == Tenant(id, new)
           base == IF nullPhones THEN Without(before, T) ELSE before
           changed == Configs!ChangedShared(base, o)
           phones == IF nullPhones THEN Field("testPhoneNumbers", EmptyObject) ELSE EmptyObject
           right == changed ++ phones
<1>1. Configs!ChangedTenant(base, o, nullPhones) = right
  <2>1. Configs!ChangedTenant(base, o, nullPhones) =
          Configs!++(changed, IF nullPhones THEN Configs!Field("testPhoneNumbers", Configs!EmptyObject) ELSE Configs!EmptyObject)
    BY DEF Configs!ChangedTenant
  <2> HIDE DEF changed
  <2> QED
    BY <2>1, ConfigObjects
<1>2. \A k : Held(phones, k) = IF nullPhones /\ k = "testPhoneNumbers" THEN <<EmptyObject>> ELSE << >>
  BY HeldField, HeldEmpty
<1>3. \A k : Held(base, k) = IF nullPhones /\ k = "testPhoneNumbers" THEN << >> ELSE Held(before, k)
  <2> HIDE DEF before
  <2> QED
    BY HeldParts
<1>4. \A k : Held(changed, k) = IF Given(o, k) THEN <<Configs!ChangedPart(base, k, o[k])>> ELSE Held(base, k)
  BY ChangedSharedHolds
<1> HIDE DEF base, changed, phones
<1>5. /\ IsObject(right)
      /\ \A k : Held(right, k) = IF Held(changed, k) = << >> THEN Held(phones, k) ELSE Held(changed, k)
  BY HeldOver
<1>6. \A k : k # "testPhoneNumbers" =>
        Held(right, k) = IF Given(o, k) THEN <<Configs!ChangedPart(before, k, o[k])>> ELSE Held(before, k)
  <2> SUFFICES ASSUME NEW k, k # "testPhoneNumbers"
               PROVE  Held(right, k) = IF Given(o, k) THEN <<Configs!ChangedPart(before, k, o[k])>> ELSE Held(before, k)
    OBVIOUS
  <2>1. Held(base, k) = Held(before, k)
    BY <1>3
  <2>2. At(base, k) = At(before, k)
    BY <2>1, AtOfHeld
  <2>3. Given(o, k) => Configs!ChangedPart(base, k, o[k]) = Configs!ChangedPart(before, k, o[k])
    BY <2>2, ChangedPartOnly
  <2>4. Held(phones, k) = << >>
    BY <1>2
  <2> HIDE DEF before, right
  <2>5. Held(right, k) = Held(changed, k)
    BY <1>5, <2>4
  <2> QED
    BY <1>4, <2>1, <2>3, <2>5
<1>7. IsChangeOf(new, old, q, T)
  OBVIOUS
<1>8. Held(after, "testPhoneNumbers") = Held(right, "testPhoneNumbers")
  <2> DEFINE k == "testPhoneNumbers"
  <2>1. Held(q, k) = IF nullPhones THEN <<EmptyObject>> ELSE Held(o, k)
    BY TenantSends
  <2>2. Held(after, k) = Held(new, k) /\ Held(before, k) = Held(old, k)
    BY TenantShows DEF TenantPlain
  <2>0. k = "testPhoneNumbers"
    BY DEF PartsGiven
  <2> HIDE DEF q, after, before, right, k
  <2>3. Held(new, k) = IF Held(q, k) = << >> THEN Held(old, k) ELSE Held(q, k)
    BY <2>0, <1>7, WholeOfChange
  <2>4. CASE nullPhones
    <3>1. Held(changed, k) = << >>
      BY <2>0, <1>3, <1>4, <2>4
    <3> QED
      BY <2>0, <1>2, <1>5, <2>1, <2>2, <2>3, <2>4, <3>1
  <2>5. CASE ~nullPhones
    <3>1. Held(changed, k) = IF Given(o, k) THEN Held(o, k) ELSE Held(before, k)
      <4>1. Given(o, k) => Configs!ChangedPart(base, k, o[k]) = o[k] /\ Held(o, k) = <<o[k]>>
        BY <2>0, ChangedPlainIs DEF Held
      <4> QED
        BY <1>3, <1>4, <2>5, <4>1
    <3>2. Held(right, k) = Held(changed, k)
      BY <1>2, <1>5, <2>5
    <3> QED
      BY <2>0, <2>1, <2>2, <2>3, <2>5, <3>1, <3>2, HeldNothing
  <2> QED
    BY <2>4, <2>5
<1>9. LinkSignInIsKnown(new) /\ Held(after, "emailSignInConfig") = Held(right, "emailSignInConfig")
  <2> DEFINE k == "emailSignInConfig"
             email == EmailSignInRequest(At(o, k))
  <2>1. \A n \in {"allowPasswordSignup", "enableEmailLinkSignin"} :
          Held(new, n) = IF Held(email, n) = << >> THEN Held(old, n) ELSE Held(email, n)
    <3>1. \A n \in {"allowPasswordSignup", "enableEmailLinkSignin"} : Held(q, n) = Held(email, n)
      BY TenantSends
    <3>2. \A n \in {"allowPasswordSignup", "enableEmailLinkSignin"} : n \notin Nested \ T
      BY DEF Nested
    <3> HIDE DEF q, email, T
    <3> QED
      BY <1>7, <3>1, <3>2, WholeOfChange
  <2>2. Held(after, k) = <<EmailSignInConfig(new)>> /\ Held(before, k) = <<EmailSignInConfig(old)>>
    BY TenantShows
  <2>0. k = "emailSignInConfig"
    BY DEF PartsGiven
  <2> HIDE DEF q, after, before, right, k
  <2>3. CASE Given(o, k)
    <3>1. At(o, k) = o[k] /\ EmailSignInGiven(o[k])
      BY <2>0, <2>3 DEF At
    <3>2. /\ LinkSignInIsKnown(new)
          /\ EmailSignInConfig(new) =
               [i \in DOMAIN o[k] |-> IF o[k][i] = "undefined" THEN "false" ELSE o[k][i]] ++ EmailSignInConfig(old)
      <4> DEFINE v == o[k]
      <4>1. \A n \in {"allowPasswordSignup", "enableEmailLinkSignin"} :
              Held(new, n) = IF Held(EmailSignInRequest(v), n) = << >> THEN Held(old, n) ELSE Held(EmailSignInRequest(v), n)
        BY <2>1, <3>1
      <4>2. EmailSignInGiven(v)
        BY <3>1
      <4> HIDE DEF v
      <4>3. /\ LinkSignInIsKnown(new)
            /\ EmailSignInConfig(new) =
                 [i \in DOMAIN v |-> IF v[i] = "undefined" THEN "false" ELSE v[i]] ++ EmailSignInConfig(old)
        BY <4>1, <4>2, EmailSignInChanged
      <4> QED
        BY <4>3 DEF v
    <3>3. At(before, k) = EmailSignInConfig(old)
      BY <2>2 DEF Held, At
    <3>4. Configs!ChangedPart(before, k, o[k]) =
            [i \in DOMAIN o[k] |-> IF o[k][i] = "undefined" THEN "false" ELSE o[k][i]] ++ At(before, k)
      BY <2>0, ChangedEmailIs
    <3>5. EmailSignInConfig(new) = Configs!ChangedPart(before, k, o[k])
      BY <3>2, <3>3, <3>4
    <3> QED
      BY <1>6, <2>0, <2>2, <2>3, <3>2, <3>5
  <2>4. CASE ~Given(o, k)
    <3>1. At(o, k) = EmptyObject /\ ~Given(EmptyObject, "enabled") /\ ~Given(EmptyObject, "passwordRequired")
      BY <2>4, HeldEmpty, HeldNothing DEF At
    <3>2. \A n \in {"allowPasswordSignup", "enableEmailLinkSignin"} : Held(email, n) = << >>
      BY <3>1, EmailSignInSends
    <3>3. \A n \in {"allowPasswordSignup", "enableEmailLinkSignin"} : Held(new, n) = Held(old, n)
      BY <2>1, <3>2
    <3>4. /\ (Given(new, "allowPasswordSignup") <=> Given(old, "allowPasswordSignup"))
          /\ (Given(new, "enableEmailLinkSignin") <=> Given(old, "enableEmailLinkSignin"))
          /\ Given(old, "allowPasswordSignup") => new.allowPasswordSignup = old.allowPasswordSignup
          /\ Flag(new, "enableEmailLinkSignin") = Flag(old, "enableEmailLinkSignin")
      BY <3>3 DEF Held, Flag
    <3>5. LinkSignInIsKnown(new) /\ EmailSignInConfig(new) = EmailSignInConfig(old)
      BY <3>4 DEF LinkSignInIsKnown, EmailSignInConfig
    <3> QED
      BY <1>6, <2>0, <2>2, <2>4, <3>5
  <2> QED
    BY <2>3, <2>4
<1>10. Held(after, "anonymousSignInEnabled") = Held(right, "anonymousSignInEnabled")
  <2> DEFINE k == "anonymousSignInEnabled"
             n == "enableAnonymousUser"
  <2>1. Held(q, n) = Held(o, k)
    BY TenantSends
  <2>2. n \notin Nested \ T
    BY DEF Nested
  <2>3. Held(after, k) = <<Flag(new, n)>> /\ Held(before, k) = <<Flag(old, n)>>
    BY TenantShows
  <2>0. k = "anonymousSignInEnabled"
    BY DEF PartsGiven
  <2> HIDE DEF q, after, before, right, k, n
  <2>4. Held(new, n) = IF Held(q, n) = << >> THEN Held(old, n) ELSE Held(q, n)
    BY <1>7, <2>2, WholeOfChange
  <2>5. Given(o, k) => Configs!ChangedPart(before, k, o[k]) = o[k] /\ Held(o, k) = <<o[k]>>
    BY <2>0, ChangedPlainIs DEF Held
  <2>6. Held(right, k) = IF Given(o, k) THEN Held(o, k) ELSE Held(before, k)
    BY <1>6, <2>0, <2>5
  <2> QED
    BY <2>0, <2>1, <2>3, <2>4, <2>6, HeldFlag, HeldNothing
<1>11. Held(after, "displayName") = Held(right, "displayName")
  <2> DEFINE k == "displayName"
  <2>1. Held(q, k) = Held(o, k)
    BY TenantSends
  <2>2. k \notin Nested \ T
    BY DEF Nested
  <2>3. Held(after, k) = Held(new, k) /\ Held(before, k) = Held(old, k)
    BY TenantShows DEF TenantPlain
  <2>0. k = "displayName"
    BY DEF PartsGiven
  <2> HIDE DEF q, after, before, right, k
  <2>4. Held(new, k) = IF Held(q, k) = << >> THEN Held(old, k) ELSE Held(q, k)
    BY <1>7, <2>2, WholeOfChange
  <2>5. Given(o, k) => Configs!ChangedPart(before, k, o[k]) = o[k] /\ Held(o, k) = <<o[k]>>
    BY <2>0, ChangedPlainIs DEF Held
  <2>6. Held(right, k) = IF Given(o, k) THEN Held(o, k) ELSE Held(before, k)
    BY <1>6, <2>0, <2>5
  <2> QED
    BY <2>0, <2>1, <2>3, <2>4, <2>6, HeldNothing
<1>12. Held(after, "smsRegionConfig") = Held(right, "smsRegionConfig")
  <2> DEFINE k == "smsRegionConfig"
  <2>1. Held(q, k) = Held(o, k)
    BY TenantSends
  <2>2. Held(after, k) = Held(new, k) /\ Held(before, k) = Held(old, k)
    BY TenantShows DEF TenantPlain
  <2>0. k = "smsRegionConfig" /\ IsObject(At(o, k))
    BY DEF PartsGiven
  <2> HIDE DEF q, after, before, right, k
  <2>3. Held(new, k) = IF Given(o, k) THEN Held(o, k) ELSE Held(old, k)
    BY <1>7, <2>1, RegionsPart, <2>0
  <2>4. Given(o, k) => Configs!ChangedPart(before, k, o[k]) = o[k] /\ Held(o, k) = <<o[k]>>
    BY <2>0, ChangedPlainIs DEF Held
  <2> QED
    BY <1>6, <2>0, <2>2, <2>3, <2>4
<1>13. Held(after, "emailPrivacyConfig") = Held(right, "emailPrivacyConfig")
  <2> DEFINE k == "emailPrivacyConfig"
  <2>1. Held(q, k) = Held(o, k)
    BY TenantSends
  <2>2. Held(after, k) = Held(new, k) /\ Held(before, k) = Held(old, k)
    BY TenantShows DEF TenantPlain
  <2>3. k \in Nested \ T /\ k # "smsRegionConfig"
    BY DEF Nested
  <2>0. k = "emailPrivacyConfig" /\ IsObject(At(o, k))
    BY DEF PartsGiven
  <2> HIDE DEF q, after, before, right, k
  <2>4. Held(new, k) = IF Given(o, k) THEN <<Configs!Merged(At(old, k), o[k])>> ELSE Held(old, k)
    BY <1>7, <2>1, <2>3, MergedPart, <2>0
  <2>5. At(before, k) = At(old, k)
    BY <2>2, AtOfHeld
  <2>6. Given(o, k) => Configs!ChangedPart(before, k, o[k]) = Configs!Merged(At(before, k), o[k])
    BY <2>0, ChangedMergedIs
  <2> QED
    BY <1>6, <2>0, <2>2, <2>4, <2>5, <2>6
<1>14. Held(after, "multiFactorConfig") = Held(right, "multiFactorConfig")
  <2> DEFINE k == "multiFactorConfig"
             n == "mfaConfig"
  <2>1. Held(q, n) = IF Given(o, k) THEN <<MultiFactorRequest(o[k])>> ELSE << >>
    BY TenantSends
  <2>2. /\ Held(after, k) = IF Given(new, n) THEN <<MultiFactorConfig(new[n])>> ELSE << >>
        /\ Held(before, k) = IF Given(old, n) THEN <<MultiFactorConfig(old[n])>> ELSE << >>
    BY TenantShows
  <2>3. n \in Nested \ T /\ n # "smsRegionConfig"
    BY DEF Nested
  <2>0. k = "multiFactorConfig" /\ (Given(o, k) => FactorsGiven(o[k]))
    BY DEF PartsGiven
  <2> HIDE DEF q, after, before, right, k, n
  <2>4. Held(after, k) = IF Given(o, k) THEN <<(o[k] ++ At(before, k)) ++ Configs!FactorDefaults>> ELSE Held(before, k)
    BY <1>7, <2>1, <2>2, <2>3, FactorsPart, <2>0
  <2>5. Given(o, k) => Configs!ChangedPart(before, k, o[k]) = (o[k] ++ At(before, k)) ++ Configs!FactorDefaults
    BY <2>0, ChangedFactorsAre
  <2> QED
    BY <1>6, <2>0, <2>4, <2>5
<1>15. Held(after, "recaptchaConfig") = Held(right, "recaptchaConfig")
  <2> DEFINE k == "recaptchaConfig"
  <2>1. Held(q, k) = IF Given(o, k) THEN <<RecaptchaRequest(o[k])>> ELSE << >>
    BY TenantSends
  <2>2. /\ Held(after, k) = IF Given(new, k) THEN <<RecaptchaAuthConfig(new[k])>> ELSE << >>
        /\ Held(before, k) = IF Given(old, k) THEN <<RecaptchaAuthConfig(old[k])>> ELSE << >>
    BY TenantShows
  <2>3. k \in Nested \ T /\ k # "smsRegionConfig"
    BY DEF Nested
  <2>0. k = "recaptchaConfig" /\ (Given(o, k) => IsObject(o[k]) /\ ~Given(o[k], "tollFraudManagedRules"))
    BY DEF PartsGiven
  <2> HIDE DEF q, after, before, right, k
  <2>4. Held(after, k) = IF Given(o, k) THEN <<Configs!Merged(At(before, k), o[k])>> ELSE Held(before, k)
    BY <1>7, <2>1, <2>2, <2>3, RecaptchaPart, <2>0
  <2>5. Given(o, k) => Configs!ChangedPart(before, k, o[k]) = Configs!Merged(At(before, k), o[k])
    BY <2>0, ChangedMergedIs
  <2> QED
    BY <1>6, <2>0, <2>4, <2>5
<1>16. Held(after, "passwordPolicyConfig") = Held(right, "passwordPolicyConfig")
  <2> DEFINE k == "passwordPolicyConfig"
  <2>1. Held(q, k) = IF Given(o, k) THEN <<PasswordPolicyRequest(o[k])>> ELSE << >>
    BY TenantSends
  <2>2. /\ Held(after, k) = IF Given(new, k) THEN <<PasswordPolicyConfig(new[k])>> ELSE << >>
        /\ Held(before, k) = IF Given(old, k) THEN <<PasswordPolicyConfig(old[k])>> ELSE << >>
    BY TenantShows
  <2>3. k \in Nested \ T /\ k # "smsRegionConfig"
    BY DEF Nested
  <2>0. k = "passwordPolicyConfig" /\ (Given(o, k) => PolicyGiven(o[k]))
    BY DEF PartsGiven
  <2> HIDE DEF q, after, before, right, k
  <2>4. Held(after, k) = IF Given(o, k) THEN <<Configs!Policy(o[k])>> ELSE Held(before, k)
    BY <1>7, <2>1, <2>2, <2>3, PolicyPart, <2>0
  <2>5. Given(o, k) => Configs!ChangedPart(before, k, o[k]) = Configs!Policy(o[k])
    BY <2>0, ChangedPolicyIs
  <2> QED
    BY <1>6, <2>0, <2>4, <2>5
<1>17. \A k : k \notin UpdateTenantRequest => Held(after, k) = Held(right, k)
  <2>1. \A k : k \notin UpdateTenantRequest => Held(after, k) = Held(before, k)
    BY TenantShows
  <2>2. "testPhoneNumbers" \in UpdateTenantRequest
    BY DEF UpdateTenantRequest
  <2>3. \A k : k \notin UpdateTenantRequest => ~Given(o, k)
    BY DEF Given
  <2> HIDE DEF after, before, right
  <2> QED
    BY <1>6, <2>1, <2>2, <2>3
<1>18. IsObject(after)
  BY TenantShows
<1> HIDE DEF after, right
<1>19. \A k \in UpdateTenantRequest : Held(after, k) = Held(right, k)
  BY <1>8, <1>9, <1>10, <1>11, <1>12, <1>13, <1>14, <1>15, <1>16 DEF UpdateTenantRequest, SharedConfigs
<1>20. after = right
  BY <1>5, <1>17, <1>18, <1>19, SameObject
<1> QED
  BY <1>1, <1>9, <1>20 DEF after, base, before

\* Nothing at the server is shown as the defaults of a tenant.
LEMMA NewTenantIs ==
  ASSUME NEW id
  PROVE  Tenant(id, EmptyObject) = Configs!NewTenant(id) /\ LinkSignInIsKnown(EmptyObject)
<1> DEFINE email == [enabled |-> "false", passwordRequired |-> "true"]
           left == Tenant(id, EmptyObject)
           right == Configs!NewTenant(id)
<1>1. \A k : ~Given(EmptyObject, k) /\ Held(EmptyObject, k) = << >> /\ Flag(EmptyObject, k) = "false"
  BY HeldEmpty, HeldNothing DEF Flag
<1>2. LinkSignInIsKnown(EmptyObject)
  BY <1>1 DEF LinkSignInIsKnown
<1>3. EmailSignInConfig(EmptyObject) = email
  BY <1>1 DEF EmailSignInConfig, Inverted
<1>4. /\ IsObject(right) /\ Held(right, "tenantId") = <<id>> /\ Held(right, "anonymousSignInEnabled") = <<"false">>
      /\ Held(right, "emailSignInConfig") = <<email>>
      /\ \A k : k \notin {"tenantId", "anonymousSignInEnabled", "emailSignInConfig"} => Held(right, k) = << >>
  BY DEF Configs!NewTenant, Held, Given, IsObject
<1>5. /\ IsObject(left) /\ Held(left, "tenantId") = <<id>> /\ Held(left, "anonymousSignInEnabled") = <<"false">>
      /\ Held(left, "emailSignInConfig") = <<email>>
      /\ \A k \in TenantPlain \cup {"multiFactorConfig", "recaptchaConfig", "passwordPolicyConfig"} : Held(left, k) = << >>
      /\ \A k : k \notin UpdateTenantRequest \cup {"tenantId"} => Held(left, k) = << >>
  <2>1. /\ IsObject(left) /\ Held(left, "tenantId") = <<id>>
        /\ Held(left, "emailSignInConfig") = <<EmailSignInConfig(EmptyObject)>>
        /\ Held(left, "anonymousSignInEnabled") = <<Flag(EmptyObject, "enableAnonymousUser")>>
        /\ \A k \in TenantPlain : Held(left, k) = Held(EmptyObject, k)
        /\ \A k : k \notin UpdateTenantRequest \cup {"tenantId"} => Held(left, k) = << >>
    BY TenantShows
  <2>2. /\ Held(left, "multiFactorConfig") = << >> /\ Held(left, "recaptchaConfig") = << >>
        /\ Held(left, "passwordPolicyConfig") = << >>
    BY <1>1, TenantShows
  <2> HIDE DEF left, email
  <2> QED
    BY <1>1, <1>3, <2>1, <2>2
<1> HIDE DEF left, right, email
<1>6. \A k : Held(left, k) = Held(right, k)
  BY <1>4, <1>5 DEF TenantPlain, UpdateTenantRequest, SharedConfigs
<1>7. left = right
  BY <1>4, <1>5, <1>6, SameObject
<1> QED
  BY <1>2, <1>7 DEF left, right

\* A new tenant is shown with what it was given over the defaults.
LEMMA TenantCreated ==
  ASSUME NEW id, NEW o, DOMAIN o \subseteq UpdateTenantRequest, PartsGiven(o),
         Given(o, "emailSignInConfig") => EmailSignInGiven(o["emailSignInConfig"])
  PROVE  /\ LinkSignInIsKnown(TenantRequest(o, FALSE))
         /\ Tenant(id, TenantRequest(o, FALSE)) = Configs!ChangedShared(Configs!NewTenant(id), o)
<1> DEFINE request == TenantRequest(o, FALSE)
           changed == Configs!ChangedShared(Configs!NewTenant(id), o)
<1>1. IsChangeOf(request, EmptyObject, request, {"testPhoneNumbers"})
  BY CreatedIsChange
<1>2. Tenant(id, EmptyObject) = Configs!NewTenant(id) /\ LinkSignInIsKnown(EmptyObject)
  BY NewTenantIs
<1>3. /\ LinkSignInIsKnown(request)
      /\ Tenant(id, request) = Configs!ChangedTenant(Configs!NewTenant(id), o, FALSE)
  <2>1. FALSE \in BOOLEAN /\ (FALSE => ~Given(o, "testPhoneNumbers"))
    OBVIOUS
  <2>2. IsChangeOf(request, EmptyObject, TenantRequest(o, FALSE), {"testPhoneNumbers"})
    BY <1>1
  <2> HIDE DEF request
  <2>3. /\ LinkSignInIsKnown(request)
        /\ Tenant(id, request) =
             Configs!ChangedTenant(IF FALSE THEN Without(Tenant(id, EmptyObject), {"testPhoneNumbers"})
                                   ELSE Tenant(id, EmptyObject), o, FALSE)
    BY <1>2, <2>1, <2>2, TenantChanged
  <2> QED
    BY <1>2, <2>3
<1>4. Configs!ChangedTenant(Configs!NewTenant(id), o, FALSE) = changed
  <2>1. Configs!ChangedTenant(Configs!NewTenant(id), o, FALSE) = Configs!++(changed, Configs!EmptyObject)
    BY DEF Configs!ChangedTenant
  <2>2. IsObject(changed)
    BY ChangedSharedHolds
  <2> HIDE DEF changed
  <2>3. Configs!++(changed, Configs!EmptyObject) = changed ++ EmptyObject
    BY ConfigObjects
  <2>4. \A k : Held(EmptyObject, k) = << >>
    BY HeldEmpty
  <2>5. /\ IsObject(changed ++ EmptyObject)
        /\ \A k : Held(changed ++ EmptyObject, k) = Held(changed, k)
    BY <2>4, HeldOver
  <2>6. changed ++ EmptyObject = changed
    BY <2>2, <2>5, SameObject
  <2> QED
    BY <2>1, <2>3, <2>6
<1> QED
  BY <1>3, <1>4
-----------------------------------------------------------------------------
(* The project. *)

ProjectPlain == {"smsRegionConfig", "emailPrivacyConfig", "mobileLinksConfig"}

\* What is shown of the project, part by part.
LEMMA ProjectShows ==
  ASSUME NEW r
  PROVE  LET shown == ProjectConfig(r)
         IN /\ IsObject(shown)
            /\ \A k \in ProjectPlain : Held(shown, k) = Held(r, k)
            /\ Held(shown, "multiFactorConfig") = IF Given(r, "mfa") THEN <<MultiFactorConfig(r["mfa"])>> ELSE << >>
            /\ Held(shown, "recaptchaConfig") =
                 IF Given(r, "recaptchaConfig") THEN <<RecaptchaAuthConfig(r["recaptchaConfig"])>> ELSE << >>
            /\ Held(shown, "passwordPolicyConfig") =
                 IF Given(r, "passwordPolicyConfig") THEN <<PasswordPolicyConfig(r["passwordPolicyConfig"])>> ELSE << >>
            /\ \A k : k \notin UpdateProjectConfigRequest => Held(shown, k) = << >>
<1> DEFINE plain == Only(r, ProjectPlain)
           factors == Converted(r, "mfa", "multiFactorConfig", MultiFactorConfig)
           recaptcha == Converted(r, "recaptchaConfig", "recaptchaConfig", RecaptchaAuthConfig)
           policy == Converted(r, "passwordPolicyConfig", "passwordPolicyConfig", PasswordPolicyConfig)
           shown == ProjectConfig(r)
<1>1. shown = ((plain ++ factors) ++ recaptcha) ++ policy
  BY DEF ProjectConfig, ProjectPlain
<1>2. \A k : Held(plain, k) = IF k \in ProjectPlain THEN Held(r, k) ELSE << >>
  BY HeldParts
<1>3. \A k : /\ Held(factors, k) =
                  IF k = "multiFactorConfig" /\ Given(r, "mfa") THEN <<MultiFactorConfig(r["mfa"])>> ELSE << >>
             /\ Held(recaptcha, k) = IF k = "recaptchaConfig" /\ Given(r, k) THEN <<RecaptchaAuthConfig(r[k])>> ELSE << >>
             /\ Held(policy, k) = IF k = "passwordPolicyConfig" /\ Given(r, k) THEN <<PasswordPolicyConfig(r[k])>> ELSE << >>
  BY HeldConvertedParts
<1> HIDE DEF plain, factors, recaptcha, policy, shown
<1>4. /\ IsObject(shown)
      /\ \A k : Held(shown, k) =
           IF Held(plain, k) # << >> THEN Held(plain, k)
           ELSE IF Held(factors, k) # << >> THEN Held(factors, k)
           ELSE IF Held(recaptcha, k) # << >> THEN Held(recaptcha, k) ELSE Held(policy, k)
  BY <1>1, HeldOver
<1>5. \A k \in ProjectPlain : Held(shown, k) = Held(r, k)
  BY <1>2, <1>3, <1>4 DEF ProjectPlain
<1>6. \A k \in {"multiFactorConfig", "recaptchaConfig", "passwordPolicyConfig"} : Held(plain, k) = << >>
  BY <1>2 DEF ProjectPlain
<1>7. Held(shown, "multiFactorConfig") = IF Given(r, "mfa") THEN <<MultiFactorConfig(r["mfa"])>> ELSE << >>
  BY <1>3, <1>4, <1>6
<1>8. Held(shown, "recaptchaConfig") =
        IF Given(r, "recaptchaConfig") THEN <<RecaptchaAuthConfig(r["recaptchaConfig"])>> ELSE << >>
  BY <1>3, <1>4, <1>6
<1>9. Held(shown, "passwordPolicyConfig") =
        IF Given(r, "passwordPolicyConfig") THEN <<PasswordPolicyConfig(r["passwordPolicyConfig"])>> ELSE << >>
  BY <1>3, <1>4, <1>6
<1>10. \A k : k \notin UpdateProjectConfigRequest => Held(shown, k) = << >>
  BY <1>2, <1>3, <1>4 DEF ProjectPlain, UpdateProjectConfigRequest, SharedConfigs
<1> QED
  BY <1>4, <1>5, <1>7, <1>8, <1>9, <1>10 DEF shown

\* What is sent of the project, part by part.
LEMMA ProjectSends ==
  ASSUME NEW o
  PROVE  LET q == ProjectRequest(o)
         IN /\ \A k \in ProjectPlain : Held(q, k) = Held(o, k)
            /\ Held(q, "mfa") =
                 IF Given(o, "multiFactorConfig") THEN <<MultiFactorRequest(o["multiFactorConfig"])>> ELSE << >>
            /\ Held(q, "recaptchaConfig") =
                 IF Given(o, "recaptchaConfig") THEN <<RecaptchaRequest(o["recaptchaConfig"])>> ELSE << >>
            /\ Held(q, "passwordPolicyConfig") =
                 IF Given(o, "passwordPolicyConfig") THEN <<PasswordPolicyRequest(o["passwordPolicyConfig"])>> ELSE << >>
<1> DEFINE plain == Only(o, ProjectPlain)
           factors == Converted(o, "multiFactorConfig", "mfa", MultiFactorRequest)
           recaptcha == Converted(o, "recaptchaConfig", "recaptchaConfig", RecaptchaRequest)
           policy == Converted(o, "passwordPolicyConfig", "passwordPolicyConfig", PasswordPolicyRequest)
           q == ProjectRequest(o)
<1>1. q = ((plain ++ factors) ++ recaptcha) ++ policy
  BY DEF ProjectRequest, ProjectPlain
<1>2. \A k : Held(plain, k) = IF k \in ProjectPlain THEN Held(o, k) ELSE << >>
  BY HeldParts
<1>3. \A k : /\ Held(factors, k) =
                  IF k = "mfa" /\ Given(o, "multiFactorConfig") THEN <<MultiFactorRequest(o["multiFactorConfig"])>> ELSE << >>
             /\ Held(recaptcha, k) = IF k = "recaptchaConfig" /\ Given(o, k) THEN <<RecaptchaRequest(o[k])>> ELSE << >>
             /\ Held(policy, k) = IF k = "passwordPolicyConfig" /\ Given(o, k) THEN <<PasswordPolicyRequest(o[k])>> ELSE << >>
  BY SentConvertedParts
<1> HIDE DEF plain, factors, recaptcha, policy, q
<1>4. \A k : Held(q, k) =
           IF Held(plain, k) # << >> THEN Held(plain, k)
           ELSE IF Held(factors, k) # << >> THEN Held(factors, k)
           ELSE IF Held(recaptcha, k) # << >> THEN Held(recaptcha, k) ELSE Held(policy, k)
  BY <1>1, HeldOver
<1>5. \A k \in ProjectPlain : Held(q, k) = Held(o, k)
  BY <1>2, <1>3, <1>4 DEF ProjectPlain
<1>6. \A k \in {"mfa", "recaptchaConfig", "passwordPolicyConfig"} : Held(plain, k) = << >>
  BY <1>2 DEF ProjectPlain
<1>7. Held(q, "mfa") = IF Given(o, "multiFactorConfig") THEN <<MultiFactorRequest(o["multiFactorConfig"])>> ELSE << >>
  BY <1>3, <1>4, <1>6
<1>8. Held(q, "recaptchaConfig") = IF Given(o, "recaptchaConfig") THEN <<RecaptchaRequest(o["recaptchaConfig"])>> ELSE << >>
  BY <1>3, <1>4, <1>6
<1>9. Held(q, "passwordPolicyConfig") =
        IF Given(o, "passwordPolicyConfig") THEN <<PasswordPolicyRequest(o["passwordPolicyConfig"])>> ELSE << >>
  BY <1>3, <1>4, <1>6
<1> QED
  BY <1>5, <1>7, <1>8, <1>9 DEF q

\* The project is shown, after a change, with what the change gives it.
LEMMA ProjectChanged ==
  ASSUME NEW o, DOMAIN o \subseteq UpdateProjectConfigRequest, PartsGiven(o),
         NEW old, NEW new, IsChangeOf(new, old, ProjectRequest(o), {})
  PROVE  ProjectConfig(new) = Configs!ChangedShared(ProjectConfig(old), o)
<1> DEFINE q == ProjectRequest(o)
           before == ProjectConfig(old)
           after == ProjectConfig(new)
           right == Configs!ChangedShared(before, o)
<1>1. /\ IsObject(right)
      /\ \A k : Held(right, k) = IF Given(o, k) THEN <<Configs!ChangedPart(before, k, o[k])>> ELSE Held(before, k)
  BY ChangedSharedHolds
<1>2. IsChangeOf(new, old, q, {})
  OBVIOUS
<1>3. Held(after, "smsRegionConfig") = Held(right, "smsRegionConfig")
  <2> DEFINE k == "smsRegionConfig"
  <2>1. Held(q, k) = Held(o, k)
    BY ProjectSends DEF ProjectPlain
  <2>2. Held(after, k) = Held(new, k) /\ Held(before, k) = Held(old, k)
    BY ProjectShows DEF ProjectPlain
  <2>3. k = "smsRegionConfig" /\ IsObject(At(o, k))
    BY DEF PartsGiven
  <2> HIDE DEF q, after, before, right, k
  <2>4. Held(new, k) = IF Given(o, k) THEN Held(o, k) ELSE Held(old, k)
    BY <1>2, <2>1, <2>3, RegionsPart
  <2>5. Given(o, k) => Configs!ChangedPart(before, k, o[k]) = o[k] /\ Held(o, k) = <<o[k]>>
    BY <2>3, ChangedPlainIs DEF Held
  <2> QED
    BY <1>1, <2>2, <2>3, <2>4, <2>5
<1>4. ASSUME NEW k \in {"emailPrivacyConfig", "mobileLinksConfig"}
      PROVE  Held(after, k) = Held(right, k)
  <2>1. Held(q, k) = Held(o, k)
    BY ProjectSends DEF ProjectPlain
  <2>2. Held(after, k) = Held(new, k) /\ Held(before, k) = Held(old, k)
    BY ProjectShows DEF ProjectPlain
  <2>3. k \in Nested \ {} /\ k # "smsRegionConfig" /\ IsObject(At(o, k))
    BY DEF Nested, PartsGiven
  <2> HIDE DEF q, after, before, right
  <2>4. Held(new, k) = IF Given(o, k) THEN <<Configs!Merged(At(old, k), o[k])>> ELSE Held(old, k)
    BY <1>2, <2>1, <2>3, MergedPart
  <2>5. At(before, k) = At(old, k)
    BY <2>2, AtOfHeld
  <2>6. Given(o, k) => Configs!ChangedPart(before, k, o[k]) = Configs!Merged(At(before, k), o[k])
    BY ChangedMergedIs
  <2> QED
    BY <1>1, <2>2, <2>4, <2>5, <2>6
<1>5. Held(after, "multiFactorConfig") = Held(right, "multiFactorConfig")
  <2> DEFINE k == "multiFactorConfig"
             n == "mfa"
             none == {}
  <2>1. Held(q, n) = IF Given(o, k) THEN <<MultiFactorRequest(o[k])>> ELSE << >>
    BY ProjectSends
  <2>2. /\ Held(after, k) = IF Given(new, n) THEN <<MultiFactorConfig(new[n])>> ELSE << >>
        /\ Held(before, k) = IF Given(old, n) THEN <<MultiFactorConfig(old[n])>> ELSE << >>
    BY ProjectShows
  <2>3. IsChangeOf(new, old, q, none) /\ n \in Nested \ none /\ n # "smsRegionConfig"
    BY <1>2 DEF Nested
  <2>4. k = "multiFactorConfig" /\ (Given(o, k) => FactorsGiven(o[k]))
    BY DEF PartsGiven
  <2> HIDE DEF q, after, before, right, k, n, none
  <2>5. Held(after, k) = IF Given(o, k) THEN <<(o[k] ++ At(before, k)) ++ Configs!FactorDefaults>> ELSE Held(before, k)
    BY <2>1, <2>2, <2>3, <2>4, FactorsPart
  <2>6. Given(o, k) => Configs!ChangedPart(before, k, o[k]) = (o[k] ++ At(before, k)) ++ Configs!FactorDefaults
    BY <2>4, ChangedFactorsAre
  <2> QED
    BY <1>1, <2>4, <2>5, <2>6
<1>6. Held(after, "recaptchaConfig") = Held(right, "recaptchaConfig")
  <2> DEFINE k == "recaptchaConfig"
  <2>1. Held(q, k) = IF Given(o, k) THEN <<RecaptchaRequest(o[k])>> ELSE << >>
    BY ProjectSends
  <2>2. /\ Held(after, k) = IF Given(new, k) THEN <<RecaptchaAuthConfig(new[k])>> ELSE << >>
        /\ Held(before, k) = IF Given(old, k) THEN <<RecaptchaAuthConfig(old[k])>> ELSE << >>
    BY ProjectShows
  <2>3. k \in Nested \ {} /\ k # "smsRegionConfig"
    BY DEF Nested
  <2>4. /\ k = "recaptchaConfig"
        /\ Given(o, k) => IsObject(o[k]) /\ ~Given(o[k], "tollFraudManagedRules")
    BY DEF PartsGiven
  <2> HIDE DEF q, after, before, right, k
  <2>5. Held(after, k) = IF Given(o, k) THEN <<Configs!Merged(At(before, k), o[k])>> ELSE Held(before, k)
    BY <1>2, <2>1, <2>2, <2>3, <2>4, RecaptchaPart
  <2>6. Given(o, k) => Configs!ChangedPart(before, k, o[k]) = Configs!Merged(At(before, k), o[k])
    BY <2>4, ChangedMergedIs
  <2> QED
    BY <1>1, <2>4, <2>5, <2>6
<1>7. Held(after, "passwordPolicyConfig") = Held(right, "passwordPolicyConfig")
  <2> DEFINE k == "passwordPolicyConfig"
  <2>1. Held(q, k) = IF Given(o, k) THEN <<PasswordPolicyRequest(o[k])>> ELSE << >>
    BY ProjectSends
  <2>2. /\ Held(after, k) = IF Given(new, k) THEN <<PasswordPolicyConfig(new[k])>> ELSE << >>
        /\ Held(before, k) = IF Given(old, k) THEN <<PasswordPolicyConfig(old[k])>> ELSE << >>
    BY ProjectShows
  <2>3. k \in Nested \ {} /\ k # "smsRegionConfig"
    BY DEF Nested
  <2>4. k = "passwordPolicyConfig" /\ (Given(o, k) => PolicyGiven(o[k]))
    BY DEF PartsGiven
  <2> HIDE DEF q, after, before, right, k
  <2>5. Held(after, k) = IF Given(o, k) THEN <<Configs!Policy(o[k])>> ELSE Held(before, k)
    BY <1>2, <2>1, <2>2, <2>3, <2>4, PolicyPart
  <2>6. Given(o, k) => Configs!ChangedPart(before, k, o[k]) = Configs!Policy(o[k])
    BY <2>4, ChangedPolicyIs
  <2> QED
    BY <1>1, <2>4, <2>5, <2>6
<1>8. \A k : k \notin UpdateProjectConfigRequest => Held(after, k) = Held(right, k)
  <2>1. \A k : k \notin UpdateProjectConfigRequest => Held(after, k) = << >> /\ Held(before, k) = << >>
    BY ProjectShows
  <2>2. \A k : k \notin UpdateProjectConfigRequest => ~Given(o, k)
    BY DEF Given
  <2> HIDE DEF after, before, right
  <2> QED
    BY <1>1, <2>1, <2>2
<1>9. IsObject(after)
  BY ProjectShows
<1> HIDE DEF after, right
<1>10. \A k \in UpdateProjectConfigRequest : Held(after, k) = Held(right, k)
  BY <1>3, <1>4, <1>5, <1>6, <1>7 DEF UpdateProjectConfigRequest, SharedConfigs
<1>11. after = right
  BY <1>1, <1>8, <1>9, <1>10, SameObject
<1> QED
  BY <1>11 DEF after, right, before

-----------------------------------------------------------------------------
(* The calls under way, and what is stored. *)

\* What was asked of a provider of each kind and accepted.
AskedOfProvider(id, o, ignore, request) ==
  \/ id \in Saml /\ SAMLRefusal(o, ignore) = "ok" /\ request = SAMLRequest(o)
  \/ id \in Oidc /\ OIDCRefusal(o, ignore) = "ok" /\ request = OIDCRequest(o)

\* A call under way sends what one of the inputs was converted to: of what is
\* created all of it, of what is updated with the mask of its fields.
ConfigAsAsked(op, name, request, mask) ==
  /\ op = "create" =>
       \/ \E o \in NewProviders : o.providerId = name /\ AskedOfProvider(name, o, FALSE, request)
       \/ /\ name = Project
          /\ \E o \in NewTenants : TenantRefusal(o, FALSE, TRUE) = "ok" /\ request = TenantRequest(o, FALSE)
  /\ op = "update" =>
       \/ /\ \E u \in ProviderUpdates : u.id = name /\ AskedOfProvider(name, u.config, TRUE, request)
          /\ mask = generateUpdateMask(request, {})
       \/ /\ \E u \in TenantUpdates :
               u.id = name /\ TenantRefusal(u.config, u.nullPhones, FALSE) = "ok" /\ request = TenantRequest(u.config, u.nullPhones)
          /\ name \in Tenants /\ mask = generateUpdateMask(request, {"testPhoneNumbers"})
       \/ /\ name = Project /\ mask = generateUpdateMask(request, {})
          /\ \E o \in ProjectUpdates : ProjectRefusal(o) = "ok" /\ request = ProjectRequest(o)
  /\ op = "delete" => name # Project

ConfigsAsAsked ==
  \A c \in Caller : asked[c] # Idle => ConfigAsAsked(asked[c].op, asked[c].name, asked[c].request, asked[c].mask)

LinksAreKnown == \A n \in Tenants : configs[n] # << >> => LinkSignInIsKnown(configs[n][1])

ConfigStoreInv == ConfigInv /\ ConfigsAsAsked /\ LinksAreKnown

\* A call is sent as it was asked if its request is what an input was converted to.
LEMMA ConfigAskKeepsAsked ==
  ASSUME ConfigInv, ConfigsAsAsked, NEW c \in Caller, NEW op, NEW name, NEW a, AskConfig(c, op, name, a),
         a.refusal = "ok" => ConfigAsAsked(op, name, a.request, a.mask)
  PROVE  ConfigsAsAsked'
<1> DEFINE asking == [op |-> op, name |-> name, request |-> a.request, mask |-> a.mask,
                      phase |-> "sent", tries |-> 0, response |-> NoAnswer]
<1>1. \A d \in Caller \ {c} : asked'[d] = asked[d]
  BY DEF AskConfig, ConfigInv
<1>2. asked'[c] = asked[c] \/ (a.refusal = "ok" /\ asked'[c] = asking)
  <2>1. CASE a.refusal = "ok"
    <3>1. asked' = [asked EXCEPT ![c] = asking]
      BY <2>1 DEF AskConfig
    <3> HIDE DEF asking
    <3> QED
      BY <2>1, <3>1 DEF ConfigInv
  <2>2. CASE a.refusal # "ok"
    BY <2>2 DEF AskConfig
  <2> QED
    BY <2>1, <2>2
<1>3. asking.op = op /\ asking.name = name /\ asking.request = a.request /\ asking.mask = a.mask
  OBVIOUS
<1> HIDE DEF asking
<1>4. asked'[c] # Idle => ConfigAsAsked(asked'[c].op, asked'[c].name, asked'[c].request, asked'[c].mask)
  BY <1>2, <1>3 DEF ConfigsAsAsked
<1> QED
  BY <1>1, <1>4 DEF ConfigsAsAsked

\* So it is with the calls about providers that send one,
LEMMA ProviderAsksAsAsked ==
  ASSUME ConfigInv, ConfigsAsAsked, NEW c \in Caller, createProviderConfig(c) \/ updateProviderConfig(c)
  PROVE  ConfigsAsAsked'
<1>1. CASE createProviderConfig(c)
  <2>1. PICK o \in NewProviders :
          AskConfig(c, "create", o.providerId, ByProvider(o.providerId, createOAuthIdpConfig(o), createInboundSamlConfig(o)))
    BY <1>1 DEF createProviderConfig
  <2> DEFINE a == ByProvider(o.providerId, createOAuthIdpConfig(o), createInboundSamlConfig(o))
  <2>2. a.refusal = "ok" => AskedOfProvider(o.providerId, o, FALSE, a.request)
    BY DEF ByProvider, createOAuthIdpConfig, createInboundSamlConfig, Asking, Plain, AskedOfProvider
  <2> HIDE DEF a
  <2>3. a.refusal = "ok" => ConfigAsAsked("create", o.providerId, a.request, a.mask)
    BY <2>2 DEF ConfigAsAsked
  <2> QED
    BY <2>1, <2>3, ConfigAskKeepsAsked DEF a
<1>2. CASE updateProviderConfig(c)
  <2>1. PICK u \in ProviderUpdates :
          AskConfig(c, "update", u.id,
                    ByProvider(u.id, updateOAuthIdpConfig(u.id, u.config), updateInboundSamlConfig(u.id, u.config)))
    BY <1>2 DEF updateProviderConfig
  <2> DEFINE a == ByProvider(u.id, updateOAuthIdpConfig(u.id, u.config), updateInboundSamlConfig(u.id, u.config))
  <2>2. ASSUME a.refusal = "ok"
        PROVE  AskedOfProvider(u.id, u.config, TRUE, a.request) /\ a.mask = generateUpdateMask(a.request, {})
    <3>1. CASE u.id \in Oidc
      <4>1. /\ FirstRefusal(<<OnlyFor(Oidc, u.id), OIDCRefusal(u.config, TRUE)>>) = "ok"
            /\ a.request = OIDCRequest(u.config) /\ a.mask = generateUpdateMask(a.request, {})
        BY <2>2, <3>1 DEF ByProvider, updateOAuthIdpConfig, Updating, Asking
      <4>2. OIDCRefusal(u.config, TRUE) = "ok"
        BY <4>1, NeitherRefusal
      <4> QED
        BY <3>1, <4>1, <4>2 DEF AskedOfProvider
    <3>2. CASE u.id \in Saml /\ u.id \notin Oidc
      <4>1. /\ FirstRefusal(<<OnlyFor(Saml, u.id), SAMLRefusal(u.config, TRUE)>>) = "ok"
            /\ a.request = SAMLRequest(u.config) /\ a.mask = generateUpdateMask(a.request, {})
        BY <2>2, <3>2 DEF ByProvider, updateInboundSamlConfig, Updating, Asking
      <4>2. SAMLRefusal(u.config, TRUE) = "ok"
        BY <4>1, NeitherRefusal
      <4> QED
        BY <3>2, <4>1, <4>2 DEF AskedOfProvider
    <3>3. CASE u.id \notin Saml \cup Oidc
      BY <2>2, <3>3 DEF ByProvider, Plain, Asking
    <3> QED
      BY <3>1, <3>2, <3>3
  <2> HIDE DEF a
  <2>3. a.refusal = "ok" => ConfigAsAsked("update", u.id, a.request, a.mask)
    BY <2>2 DEF ConfigAsAsked
  <2> QED
    BY <2>1, <2>3, ConfigAskKeepsAsked DEF a
<1> QED
  BY <1>1, <1>2

\* with those about tenants and the project,
LEMMA TenantAsksAsAsked ==
  ASSUME ConfigsAssumption, ConfigInv, ConfigsAsAsked, NEW c \in Caller, createTenant(c) \/ updateTenant(c) \/ updateProjectConfig(c)
  PROVE  ConfigsAsAsked'
<1>1. CASE createTenant(c)
  <2>1. PICK o \in NewTenants : AskConfig(c, "create", Project, createTenantRequest(o))
    BY <1>1 DEF createTenant
  <2> DEFINE a == createTenantRequest(o)
  <2>2. a.refusal = TenantRefusal(o, FALSE, TRUE) /\ a.request = TenantRequest(o, FALSE)
    BY DEF createTenantRequest, Asking
  <2> HIDE DEF a
  <2>3. a.refusal = "ok" => ConfigAsAsked("create", Project, a.request, a.mask)
    BY <2>2 DEF ConfigAsAsked
  <2> QED
    BY <2>1, <2>3, ConfigAskKeepsAsked DEF a
<1>2. CASE updateTenant(c)
  <2>1. PICK u \in TenantUpdates : AskConfig(c, "update", u.id, updateTenantRequest(u))
    BY <1>2 DEF updateTenant
  <2> DEFINE a == updateTenantRequest(u)
  <2>2. ASSUME a.refusal = "ok"
        PROVE  /\ TenantRefusal(u.config, u.nullPhones, FALSE) = "ok" /\ u.id # ""
               /\ a.request = TenantRequest(u.config, u.nullPhones)
               /\ a.mask = generateUpdateMask(a.request, {"testPhoneNumbers"})
    <3>1. /\ a.refusal = FirstRefusal(<<Require(u.id # "", "INVALID_TENANT_ID"), TenantRefusal(u.config, u.nullPhones, FALSE)>>)
          /\ a.request = TenantRequest(u.config, u.nullPhones)
          /\ a.mask = generateUpdateMask(a.request, {"testPhoneNumbers"})
      BY DEF updateTenantRequest, Asking
    <3>2. Require(u.id # "", "INVALID_TENANT_ID") = "ok" /\ TenantRefusal(u.config, u.nullPhones, FALSE) = "ok"
      BY <2>2, <3>1, NeitherRefusal
    <3> QED
      BY <3>1, <3>2 DEF Require
  <2> HIDE DEF a
  <2>3. u.id \in Tenants \cup {""}
    BY <2>1, ConfigsAssumption DEF ConfigsAssumption
  <2>4. a.refusal = "ok" => ConfigAsAsked("update", u.id, a.request, a.mask)
    BY <2>2, <2>3 DEF ConfigAsAsked
  <2> QED
    BY <2>1, <2>4, ConfigAskKeepsAsked DEF a
<1>3. CASE updateProjectConfig(c)
  <2>1. PICK o \in ProjectUpdates : AskConfig(c, "update", Project, updateProjectConfigRequest(o))
    BY <1>3 DEF updateProjectConfig
  <2> DEFINE a == updateProjectConfigRequest(o)
  <2>2. a.refusal = ProjectRefusal(o) /\ a.request = ProjectRequest(o) /\ a.mask = generateUpdateMask(a.request, {})
    BY DEF updateProjectConfigRequest, Updating, Asking
  <2> HIDE DEF a
  <2>3. a.refusal = "ok" => ConfigAsAsked("update", Project, a.request, a.mask)
    BY <2>2 DEF ConfigAsAsked
  <2> QED
    BY <2>1, <2>3, ConfigAskKeepsAsked DEF a
<1> QED
  BY <1>1, <1>2, <1>3

\* and with those that send nothing to store.
LEMMA OtherAsksAsAsked ==
  ASSUME ConfigsAssumption, ConfigInv, ConfigsAsAsked, NEW c \in Caller,
         \/ getProviderConfig(c) \/ deleteProviderConfig(c) \/ listProviderConfigs(c)
         \/ getTenant(c) \/ deleteTenant(c) \/ listTenants(c) \/ getProjectConfig(c)
  PROVE  ConfigsAsAsked'
<1>1. \A op \in {"get", "list"} : \A name, a : AskConfig(c, op, name, a) => ConfigsAsAsked'
  BY ConfigAskKeepsAsked DEF ConfigAsAsked
<1>2. CASE deleteProviderConfig(c)
  <2>1. PICK id : AskConfig(c, "delete", id, ByProvider(id, deleteOAuthIdpConfig(id), deleteInboundSamlConfig(id)))
    BY <1>2 DEF deleteProviderConfig
  <2> DEFINE a == ByProvider(id, deleteOAuthIdpConfig(id), deleteInboundSamlConfig(id))
  <2>2. a.refusal = "ok" => id \in Saml \cup Oidc
    BY DEF ByProvider, Plain, Asking
  <2> HIDE DEF a
  <2>3. a.refusal = "ok" => ConfigAsAsked("delete", id, a.request, a.mask)
    BY <2>2, ConfigsAssumption DEF ConfigAsAsked, ConfigsAssumption
  <2> QED
    BY <2>1, <2>3, ConfigAskKeepsAsked DEF a
<1>3. CASE deleteTenant(c)
  <2>1. PICK id \in Tenants \cup {""} : AskConfig(c, "delete", id, Plain(Require(id # "", "INVALID_TENANT_ID")))
    BY <1>3 DEF deleteTenant
  <2> DEFINE a == Plain(Require(id # "", "INVALID_TENANT_ID"))
  <2>2. a.refusal = "ok" => id # ""
    BY DEF Plain, Asking, Require
  <2> HIDE DEF a
  <2>3. a.refusal = "ok" => ConfigAsAsked("delete", id, a.request, a.mask)
    BY <2>1, <2>2, ConfigsAssumption DEF ConfigAsAsked, ConfigsAssumption
  <2> QED
    BY <2>1, <2>3, ConfigAskKeepsAsked DEF a
<1> QED
  BY <1>1, <1>2, <1>3 DEF getProviderConfig, listProviderConfigs, getTenant, listTenants, getProjectConfig

\* What is answered, returned, lost or repeated is still what was asked.
LEMMA AnswerKeepsAsked ==
  ASSUME ConfigInv, ConfigsAsAsked, NEW c \in Caller, ServeConfig(c) \/ ReturnConfig(c) \/ LoseConfigAnswer(c)
  PROVE  ConfigsAsAsked'
<1> DEFINE asking == asked[c]
<1>1. asking # Idle /\ DOMAIN asking = ConfigCallFields
  BY DEF ServeConfig, ReturnConfig, LoseConfigAnswer, ConfigInv
<1>2. /\ \A d \in Caller \ {c} : asked'[d] = asked[d]
      /\ \/ asked'[c] = Idle
         \/ asked'[c] = [asking EXCEPT !.phase = "sent", !.tries = @ + 1]
         \/ \E response : asked'[c] = [asking EXCEPT !.response = response, !.phase = "answered"]
  <2>1. CASE ServeConfig(c)
    <3>1. PICK response : ConfigAnswered(c, response)
      BY <2>1 DEF ServeConfig, ServeNew, ServePage, ServeExisting
    <3> QED
      BY <3>1 DEF ConfigAnswered, ConfigInv
  <2>2. CASE ReturnConfig(c) \/ LoseConfigAnswer(c)
    <3> HIDE DEF Idle
    <3> QED
      BY <2>2 DEF ReturnConfig, LoseConfigAnswer, FinishConfig, ConfigInv
  <2> QED
    BY <2>1, <2>2
<1>3. \/ asked'[c] = Idle
      \/ /\ asked'[c].op = asking.op /\ asked'[c].name = asking.name
         /\ asked'[c].request = asking.request /\ asked'[c].mask = asking.mask
  BY <1>1, <1>2 DEF ConfigCallFields
<1>4. ConfigAsAsked(asking.op, asking.name, asking.request, asking.mask)
  BY <1>1 DEF ConfigsAsAsked
<1>5. asked'[c] # Idle => ConfigAsAsked(asked'[c].op, asked'[c].name, asked'[c].request, asked'[c].mask)
  BY <1>3, <1>4
<1> QED
  BY <1>2, <1>5 DEF ConfigsAsAsked

-----------------------------------------------------------------------------
(* What the SDK shows of a change. *)

\* What is shown changes under the name that was changed, and there only.
LEMMA OneIsShown ==
  ASSUME ConfigsAssumption, DOMAIN configs = Name, NEW m \in Name, NEW held, configs' = [configs EXCEPT ![m] = held]
  PROVE  /\ \A n \in Name \ {m} : Shown(n)' = Shown(n)
         /\ held = << >> => Shown(m)' = << >>
         /\ held # << >> =>
              /\ m \in Saml => Shown(m)' = <<SAMLConfig(m, held[1])>>
              /\ m \in Oidc => Shown(m)' = <<OIDCConfig(m, held[1])>>
              /\ m \in Tenants => Shown(m)' = <<Tenant(m, held[1])>>
              /\ m = Project => Shown(m)' = <<ProjectConfig(held[1])>>
<1>1. configs'[m] = held /\ \A n \in Name \ {m} : configs'[n] = configs[n]
  OBVIOUS
<1>2. ASSUME NEW n \in Name \ {m} PROVE Shown(n)' = Shown(n)
  <2>1. configs'[n] = configs[n]
    BY <1>1
  <2> QED
    BY <2>1 DEF Shown, Name
<1>3. held = << >> => Shown(m)' = << >>
  BY <1>1 DEF Shown
<1>4. m \in Oidc => m \notin Saml
  BY ConfigsAssumption DEF ConfigsAssumption
<1>5. m \in Tenants => m \notin Saml \cup Oidc
  BY ConfigsAssumption DEF ConfigsAssumption
<1>6. m = Project => m \notin Saml \cup Oidc \cup Tenants
  BY ConfigsAssumption DEF ConfigsAssumption
<1>7. ASSUME held # << >>
      PROVE  /\ m \in Saml => Shown(m)' = <<SAMLConfig(m, held[1])>>
             /\ m \in Oidc => Shown(m)' = <<OIDCConfig(m, held[1])>>
             /\ m \in Tenants => Shown(m)' = <<Tenant(m, held[1])>>
             /\ m = Project => Shown(m)' = <<ProjectConfig(held[1])>>
  BY <1>1, <1>4, <1>5, <1>6, <1>7 DEF Shown
<1> QED
  BY <1>2, <1>3, <1>7

\* What is shown under a name is of the kind that the name tells.
LEMMA ShownByKind ==
  ASSUME ConfigsAssumption, NEW m \in Name
  PROVE  /\ configs[m] = << >> => Shown(m) = << >>
         /\ configs[m] # << >> =>
              /\ Shown(m) # << >>
              /\ m \in Saml => Shown(m) = <<SAMLConfig(m, configs[m][1])>>
              /\ m \in Oidc => Shown(m) = <<OIDCConfig(m, configs[m][1])>>
              /\ m \in Tenants => Shown(m) = <<Tenant(m, configs[m][1])>>
              /\ m = Project => Shown(m) = <<ProjectConfig(configs[m][1])>>
<1>1. m \in Oidc => m \notin Saml
  BY ConfigsAssumption DEF ConfigsAssumption
<1>2. m \in Tenants => m \notin Saml \cup Oidc
  BY ConfigsAssumption DEF ConfigsAssumption
<1>3. m = Project => m \notin Saml \cup Oidc \cup Tenants
  BY ConfigsAssumption DEF ConfigsAssumption
<1> QED
  BY <1>1, <1>2, <1>3 DEF Shown

\* The one element of a list of one.
LEMMA FirstOfOne ==
  ASSUME NEW s, NEW v, s = <<v>>
  PROVE  s[1] = v
OBVIOUS

ConfigsShown == [n \in Name |-> Shown(n)]

\* A change under one name is a change of what is shown as a whole.
LEMMA ShownChange ==
  ASSUME NEW m \in Name, NEW value, \A n \in Name \ {m} : Shown(n)' = Shown(n), Shown(m)' = value
  PROVE  ConfigsShown' = [ConfigsShown EXCEPT ![m] = value]
<1>1. ConfigsShown' = [n \in Name |-> Shown(n)']
  BY DEF ConfigsShown
<1>2. \A n \in Name : Shown(n)' = IF n = m THEN value ELSE Shown(n)
  OBVIOUS
<1>3. [ConfigsShown EXCEPT ![m] = value] = [n \in Name |-> IF n = m THEN value ELSE Shown(n)]
  BY DEF ConfigsShown
<1> QED
  BY <1>1, <1>2, <1>3

\* What is shown after a step of the server is what some call named, and a
\* link that may do for a password stays known.
ServedAsPromised ==
  \/ \E n \in Name : \/ Configs!CreateProvider(n) \/ Configs!UpdateProvider(n) \/ Configs!CreateTenant(n)
                     \/ Configs!UpdateTenant(n) \/ Configs!Delete(n)
  \/ Configs!UpdateProject

\* A new provider is stored as the store promises,
LEMMA NewProviderServed ==
  ASSUME ConfigsAssumption, ConfigsAreTyped, DOMAIN configs = Name, NEW m \in Saml \cup Oidc, configs[m] = << >>, NEW request,
         NEW o \in NewProviders, o.providerId = m, AskedOfProvider(m, o, FALSE, request),
         configs' = [configs EXCEPT ![m] = <<request>>]
  PROVE  ServedAsPromised
<1> DEFINE value == Configs!++(Configs!Field("providerId", m), Configs!ChangedProvider(m, Configs!ProviderDefaults(m), o))
<1>1. m \in Name /\ IsObject(At(o, "responseType"))
  BY ConfigsAreTyped DEF Name, ConfigsAreTyped
<1>2. <<request>> # << >> /\ <<request>>[1] = request
  OBVIOUS
<1>3. /\ \A n \in Name \ {m} : Shown(n)' = Shown(n)
      /\ m \in Saml => Shown(m)' = <<SAMLConfig(m, request)>>
      /\ m \in Oidc => Shown(m)' = <<OIDCConfig(m, request)>>
  BY <1>1, <1>2, OneIsShown
<1>4. Shown(m)' = <<value>>
  <2>1. CASE m \in Saml /\ SAMLRefusal(o, FALSE) = "ok" /\ request = SAMLRequest(o)
    BY <1>3, <2>1, SamlCreated
  <2>2. CASE m \in Oidc /\ OIDCRefusal(o, FALSE) = "ok" /\ request = OIDCRequest(o)
    <3>1. m \notin Saml
      BY <2>2, ConfigsAssumption DEF ConfigsAssumption
    <3> QED
      BY <1>1, <1>3, <2>2, <3>1, OidcCreated
  <2> QED
    BY <2>1, <2>2 DEF AskedOfProvider
<1> HIDE DEF value
<1>5. ConfigsShown' = [ConfigsShown EXCEPT ![m] = <<value>>]
  BY <1>1, <1>3, <1>4, ShownChange
<1>6. ConfigsShown[m] = << >>
  BY <1>1, ShownByKind DEF ConfigsShown
<1>7. Configs!CreateProvider(m)
  BY <1>5, <1>6 DEF Configs!CreateProvider, ConfigsShown, value
<1> QED
  BY <1>1, <1>7 DEF ServedAsPromised

\* and an update of a provider,
LEMMA ProviderUpdateServed ==
  ASSUME ConfigsAssumption, ConfigsAreTyped, DOMAIN configs = Name, NEW m \in Saml \cup Oidc, configs[m] # << >>, NEW request,
         NEW u \in ProviderUpdates, u.id = m, AskedOfProvider(m, u.config, TRUE, request),
         NEW new, IsChangeOf(new, configs[m][1], request, {}), configs' = [configs EXCEPT ![m] = <<new>>]
  PROVE  ServedAsPromised
<1> DEFINE old == configs[m][1]
           o == u.config
           before == ConfigsShown[m][1]
           value == Configs!ChangedProvider(m, before, o)
<1>1. m \in Name /\ IsObject(At(o, "responseType"))
  BY ConfigsAreTyped DEF Name, ConfigsAreTyped
<1>2. <<new>> # << >> /\ <<new>>[1] = new
  OBVIOUS
<1>3. /\ \A n \in Name \ {m} : Shown(n)' = Shown(n)
      /\ m \in Saml => Shown(m)' = <<SAMLConfig(m, new)>>
      /\ m \in Oidc => Shown(m)' = <<OIDCConfig(m, new)>>
  BY <1>1, <1>2, OneIsShown
<1>4. /\ ConfigsShown[m] # << >>
      /\ m \in Saml => before = SAMLConfig(m, old)
      /\ m \in Oidc => before = OIDCConfig(m, old)
  <2>1. ConfigsShown[m] = Shown(m)
    BY <1>1 DEF ConfigsShown
  <2>2. /\ Shown(m) # << >>
        /\ m \in Saml => Shown(m) = <<SAMLConfig(m, old)>>
        /\ m \in Oidc => Shown(m) = <<OIDCConfig(m, old)>>
    BY <1>1, ShownByKind
  <2> HIDE DEF old
  <2>3. /\ m \in Saml => Shown(m)[1] = SAMLConfig(m, old)
        /\ m \in Oidc => Shown(m)[1] = OIDCConfig(m, old)
    BY <2>2, FirstOfOne
  <2> QED
    BY <2>1, <2>2, <2>3
<1>5. Shown(m)' = <<value>>
  <2>0. IsChangeOf(new, old, request, {})
    OBVIOUS
  <2> HIDE DEF old, o, before
  <2>1. CASE m \in Saml /\ SAMLRefusal(o, TRUE) = "ok" /\ request = SAMLRequest(o)
    <3>1. SAMLConfig(m, new) = Configs!ChangedProvider(m, SAMLConfig(m, old), o)
      BY <2>0, <2>1, SamlChanged
    <3> QED
      BY <1>3, <1>4, <2>1, <3>1
  <2>2. CASE m \in Oidc /\ OIDCRefusal(o, TRUE) = "ok" /\ request = OIDCRequest(o)
    <3>1. m \notin Saml
      BY <2>2, ConfigsAssumption DEF ConfigsAssumption
    <3>2. OIDCConfig(m, new) = Configs!ChangedProvider(m, OIDCConfig(m, old), o)
      BY <1>1, <2>0, <2>2, <3>1, OidcChanged
    <3> QED
      BY <1>3, <1>4, <2>2, <3>2
  <2> QED
    BY <2>1, <2>2 DEF AskedOfProvider, o
<1> HIDE DEF value
<1>6. ConfigsShown' = [ConfigsShown EXCEPT ![m] = <<value>>]
  BY <1>1, <1>3, <1>5, ShownChange
<1>7. [ConfigsShown EXCEPT ![m] = <<Configs!ChangedProvider(m, @[1], u.config)>>] = [ConfigsShown EXCEPT ![m] = <<value>>]
  BY <1>1 DEF value, ConfigsShown
<1>8. Configs!UpdateProvider(m)
  BY <1>4, <1>6, <1>7 DEF Configs!UpdateProvider, ConfigsShown
<1> QED
  BY <1>1, <1>8 DEF ServedAsPromised

\* The inputs are typed as the lemmas about them need it.
LEMMA InputsAreAsTyped ==
  ASSUME ConfigsAreTyped, NEW o \in NewTenants \cup {u.config : u \in TenantUpdates} \cup ProjectUpdates
  PROVE  InputIsTyped(o)
<1>1. /\ Given(o, "emailSignInConfig") => Given(o.emailSignInConfig, "enabled") /\ o.emailSignInConfig.enabled # "undefined"
      /\ Given(o, "multiFactorConfig") =>
           /\ Given(o.multiFactorConfig, "state")
           /\ Given(o.multiFactorConfig, "providerConfigs") =>
                o.multiFactorConfig.providerConfigs \in Seq(Range(o.multiFactorConfig.providerConfigs))
      /\ \A k \in {"smsRegionConfig", "recaptchaConfig", "emailPrivacyConfig", "mobileLinksConfig"} : IsObject(At(o, k))
  BY ConfigsAreTyped, Zenon DEF ConfigsAreTyped
<1> QED
  BY <1>1, Zenon DEF InputIsTyped, IsList

\* A change keeps it known which links may do for a password, where what it stores does.
LEMMA LinksStayKnown ==
  ASSUME DOMAIN configs = Name, LinksAreKnown, NEW m, NEW held, configs' = [configs EXCEPT ![m] = held],
         m \in Tenants /\ held # << >> => LinkSignInIsKnown(held[1])
  PROVE  LinksAreKnown'
<1> SUFFICES ASSUME NEW n \in Tenants, configs'[n] # << >> PROVE LinkSignInIsKnown(configs'[n][1])
  BY DEF LinksAreKnown
<1>1. n \in Name
  BY DEF Name
<1>2. CASE n = m
  <2>1. configs'[n] = held
    BY <1>1, <1>2
  <2> QED
    BY <1>2, <2>1
<1>3. CASE n # m
  <2>1. configs'[n] = configs[n]
    BY <1>1, <1>3
  <2> QED
    BY <2>1 DEF LinksAreKnown
<1> QED
  BY <1>2, <1>3

\* a new tenant,
LEMMA NewTenantServed ==
  ASSUME ConfigsAssumption, ConfigsAreTyped, DOMAIN configs = Name, LinksAreKnown, NEW m \in Tenants, configs[m] = << >>,
         NEW request, NEW o \in NewTenants, TenantRefusal(o, FALSE, TRUE) = "ok", request = TenantRequest(o, FALSE),
         configs' = [configs EXCEPT ![m] = <<request>>]
  PROVE  ServedAsPromised /\ LinksAreKnown'
<1> DEFINE value == Configs!ChangedShared(Configs!NewTenant(m), o)
<1>1. m \in Name /\ InputIsTyped(o)
  BY InputsAreAsTyped DEF Name
<1>2. /\ DOMAIN o \subseteq UpdateTenantRequest /\ PartsGiven(o)
      /\ Given(o, "emailSignInConfig") => EmailSignInGiven(o["emailSignInConfig"])
  BY <1>1, TenantAccepted
<1>3. LinkSignInIsKnown(request) /\ Tenant(m, request) = value
  BY <1>2, TenantCreated
<1>4. <<request>> # << >> /\ <<request>>[1] = request
  OBVIOUS
<1>5. /\ \A n \in Name \ {m} : Shown(n)' = Shown(n)
      /\ Shown(m)' = <<Tenant(m, request)>>
  BY <1>1, <1>4, OneIsShown
<1> HIDE DEF value
<1>6. ConfigsShown' = [ConfigsShown EXCEPT ![m] = <<value>>]
  BY <1>1, <1>3, <1>5, ShownChange
<1>7. ConfigsShown[m] = << >>
  BY <1>1, ShownByKind DEF ConfigsShown
<1>8. Configs!CreateTenant(m)
  BY <1>6, <1>7 DEF Configs!CreateTenant, ConfigsShown, value
<1>9. LinksAreKnown'
  BY <1>3, <1>4, LinksStayKnown
<1> QED
  BY <1>1, <1>8, <1>9 DEF ServedAsPromised

\* A change of a tenant that clears its test numbers,
LEMMA TenantClearedAndChanged ==
  ASSUME NEW id, NEW o, DOMAIN o \subseteq UpdateTenantRequest, PartsGiven(o), ~Given(o, "testPhoneNumbers"),
         Given(o, "emailSignInConfig") => EmailSignInGiven(o["emailSignInConfig"]),
         NEW old, LinkSignInIsKnown(old), NEW new,
         IsChangeOf(new, old, TenantRequest(o, TRUE), {"testPhoneNumbers"})
  PROVE  /\ LinkSignInIsKnown(new)
         /\ Tenant(id, new) = Configs!ChangedTenant(Without(Tenant(id, old), {"testPhoneNumbers"}), o, TRUE)
BY TenantChanged

\* and one that does not.
LEMMA TenantOnlyChanged ==
  ASSUME NEW id, NEW o, DOMAIN o \subseteq UpdateTenantRequest, PartsGiven(o),
         Given(o, "emailSignInConfig") => EmailSignInGiven(o["emailSignInConfig"]),
         NEW old, LinkSignInIsKnown(old), NEW new,
         IsChangeOf(new, old, TenantRequest(o, FALSE), {"testPhoneNumbers"})
  PROVE  LinkSignInIsKnown(new) /\ Tenant(id, new) = Configs!ChangedTenant(Tenant(id, old), o, FALSE)
BY TenantChanged

\* an update of a tenant,
LEMMA TenantUpdateServed ==
  ASSUME ConfigsAssumption, ConfigsAreTyped, DOMAIN configs = Name, LinksAreKnown, NEW m \in Tenants, configs[m] # << >>,
         NEW request, NEW u \in TenantUpdates, TenantRefusal(u.config, u.nullPhones, FALSE) = "ok",
         request = TenantRequest(u.config, u.nullPhones),
         NEW new, IsChangeOf(new, configs[m][1], request, {"testPhoneNumbers"}), configs' = [configs EXCEPT ![m] = <<new>>]
  PROVE  ServedAsPromised /\ LinksAreKnown'
<1> DEFINE old == configs[m][1]
           o == u.config
           nullPhones == u.nullPhones
           before == ConfigsShown[m][1]
           base == IF nullPhones THEN Configs!Without(before, {"testPhoneNumbers"}) ELSE before
           value == Configs!ChangedTenant(base, o, nullPhones)
<1>1. m \in Name /\ InputIsTyped(o) /\ nullPhones \in BOOLEAN /\ (nullPhones => ~Given(o, "testPhoneNumbers"))
  BY InputsAreAsTyped DEF Name, ConfigsAreTyped
<1>2. /\ DOMAIN o \subseteq UpdateTenantRequest /\ PartsGiven(o)
      /\ Given(o, "emailSignInConfig") => EmailSignInGiven(o["emailSignInConfig"])
  <2>1. TenantRefusal(o, nullPhones, FALSE) = "ok"
    OBVIOUS
  <2> HIDE DEF o, nullPhones
  <2> QED
    BY <1>1, <2>1, TenantAccepted
<1>3. <<new>> # << >> /\ <<new>>[1] = new
  OBVIOUS
<1>4. /\ \A n \in Name \ {m} : Shown(n)' = Shown(n)
      /\ Shown(m)' = <<Tenant(m, new)>>
  BY <1>1, <1>3, OneIsShown
<1>5. ConfigsShown[m] # << >> /\ before = Tenant(m, old)
  <2>1. ConfigsShown[m] = Shown(m)
    BY <1>1 DEF ConfigsShown
  <2>2. Shown(m) # << >> /\ Shown(m) = <<Tenant(m, old)>>
    BY <1>1, ShownByKind
  <2> HIDE DEF old
  <2>3. Shown(m)[1] = Tenant(m, old)
    BY <2>2, FirstOfOne
  <2> QED
    BY <2>1, <2>2, <2>3
<1>6. LinkSignInIsKnown(new) /\ Tenant(m, new) = value
  <2>1. LinkSignInIsKnown(old) /\ IsChangeOf(new, old, TenantRequest(o, nullPhones), {"testPhoneNumbers"})
    BY DEF LinksAreKnown
  <2> HIDE DEF old, o, nullPhones, before
  <2>2. /\ LinkSignInIsKnown(new)
        /\ Tenant(m, new) =
             Configs!ChangedTenant(IF nullPhones THEN Without(Tenant(m, old), {"testPhoneNumbers"}) ELSE Tenant(m, old),
                                   o, nullPhones)
    <3>1. CASE nullPhones = TRUE
      <4>1. ~Given(o, "testPhoneNumbers")
        BY <1>1, <3>1
      <4>2. IsChangeOf(new, old, TenantRequest(o, TRUE), {"testPhoneNumbers"})
        BY <2>1, <3>1
      <4>3. LinkSignInIsKnown(new) /\ Tenant(m, new) = Configs!ChangedTenant(Without(Tenant(m, old), {"testPhoneNumbers"}), o, TRUE)
        BY <1>2, <2>1, <4>1, <4>2, TenantClearedAndChanged
      <4> QED
        BY <3>1, <4>3, Zenon
    <3>2. CASE nullPhones = FALSE
      <4>1. IsChangeOf(new, old, TenantRequest(o, FALSE), {"testPhoneNumbers"})
        BY <2>1, <3>2
      <4>2. LinkSignInIsKnown(new) /\ Tenant(m, new) = Configs!ChangedTenant(Tenant(m, old), o, FALSE)
        BY <1>2, <2>1, <4>1, TenantOnlyChanged
      <4> QED
        BY <3>2, <4>2, Zenon
    <3> QED
      BY <1>1, <3>1, <3>2
  <2>3. base = IF nullPhones THEN Without(Tenant(m, old), {"testPhoneNumbers"}) ELSE Tenant(m, old)
    BY <1>5, ConfigObjects
  <2> QED
    BY <2>2, <2>3
<1> HIDE DEF value
<1>7. ConfigsShown' = [ConfigsShown EXCEPT ![m] = <<value>>]
  BY <1>1, <1>4, <1>6, ShownChange
<1>8. Configs!UpdateTenant(m)
  <2> DEFINE change == [config |-> o, nullPhones |-> nullPhones]
  <2>1. change \in {[config |-> v.config, nullPhones |-> v.nullPhones] : v \in TenantUpdates}
    OBVIOUS
  <2>2. change.config = o /\ change.nullPhones = nullPhones
    OBVIOUS
  <2>3. m \in DOMAIN ConfigsShown
    BY <1>1 DEF ConfigsShown
  <2> HIDE DEF change, o, nullPhones
  <2>4. ConfigsShown' = [ConfigsShown EXCEPT ![m] =
          <<Configs!ChangedTenant(IF change.nullPhones THEN Configs!Without(@[1], {"testPhoneNumbers"}) ELSE @[1],
                                  change.config, change.nullPhones)>>]
    BY <1>7, <2>2, <2>3 DEF value
  <2> QED
    BY <1>5, <2>1, <2>4 DEF Configs!UpdateTenant, ConfigsShown
<1>9. LinksAreKnown'
  BY <1>3, <1>6, LinksStayKnown
<1> QED
  BY <1>1, <1>8, <1>9 DEF ServedAsPromised

\* an update of the project,
LEMMA ProjectUpdateServed ==
  ASSUME ConfigsAssumption, ConfigsAreTyped, DOMAIN configs = Name, LinksAreKnown, configs[Project] # << >>,
         NEW request, NEW o \in ProjectUpdates, ProjectRefusal(o) = "ok", request = ProjectRequest(o),
         NEW new, IsChangeOf(new, configs[Project][1], request, {}), configs' = [configs EXCEPT ![Project] = <<new>>]
  PROVE  ServedAsPromised
<1> DEFINE old == configs[Project][1]
           before == ConfigsShown[Project][1]
           value == Configs!ChangedShared(before, o)
<1>1. Project \in Name /\ InputIsTyped(o)
  BY InputsAreAsTyped DEF Name
<1>2. DOMAIN o \subseteq UpdateProjectConfigRequest /\ PartsGiven(o)
  BY <1>1, ProjectAccepted
<1>3. <<new>> # << >> /\ <<new>>[1] = new
  OBVIOUS
<1>4. /\ \A n \in Name \ {Project} : Shown(n)' = Shown(n)
      /\ Shown(Project)' = <<ProjectConfig(new)>>
  BY <1>1, <1>3, OneIsShown
<1>5. ConfigsShown[Project] # << >> /\ before = ProjectConfig(old)
  <2>1. ConfigsShown[Project] = Shown(Project)
    BY <1>1 DEF ConfigsShown
  <2>2. Shown(Project) # << >> /\ Shown(Project) = <<ProjectConfig(old)>>
    BY <1>1, ShownByKind
  <2> HIDE DEF old
  <2>3. Shown(Project)[1] = ProjectConfig(old)
    BY <2>2, FirstOfOne
  <2> QED
    BY <2>1, <2>2, <2>3
<1>6. ProjectConfig(new) = value
  <2>1. IsChangeOf(new, old, ProjectRequest(o), {})
    OBVIOUS
  <2> HIDE DEF old, before
  <2>2. ProjectConfig(new) = Configs!ChangedShared(ProjectConfig(old), o)
    BY <1>2, <2>1, ProjectChanged
  <2> QED
    BY <1>5, <2>2
<1> HIDE DEF value
<1>7. ConfigsShown' = [ConfigsShown EXCEPT ![Project] = <<value>>]
  BY <1>1, <1>4, <1>6, ShownChange
<1>8. [ConfigsShown EXCEPT ![Project] = <<Configs!ChangedShared(@[1], o)>>] = [ConfigsShown EXCEPT ![Project] = <<value>>]
  BY <1>1 DEF value, ConfigsShown
<1>9. Configs!UpdateProject
  BY <1>5, <1>7, <1>8 DEF Configs!UpdateProject, ConfigsShown
<1> QED
  BY <1>9 DEF ServedAsPromised

\* and a deletion.
LEMMA DeleteServed ==
  ASSUME ConfigsAssumption, DOMAIN configs = Name, NEW m \in Name, m # Project, configs' = [configs EXCEPT ![m] = << >>]
  PROVE  ServedAsPromised
<1>1. /\ \A n \in Name \ {m} : Shown(n)' = Shown(n)
      /\ Shown(m)' = << >>
  BY OneIsShown
<1>2. ConfigsShown' = [ConfigsShown EXCEPT ![m] = << >>]
  BY <1>1, ShownChange
<1>3. Configs!Delete(m)
  BY <1>2 DEF Configs!Delete, ConfigsShown
<1> QED
  BY <1>3 DEF ServedAsPromised

\* What is shown stays where what is stored does.
LEMMA SameShown ==
  ASSUME LinksAreKnown, \A m \in Name : configs'[m] = configs[m]
  PROVE  LinksAreKnown' /\ ConfigsShown' = ConfigsShown
<1>1. ASSUME NEW n \in Name PROVE Shown(n)' = Shown(n)
  <2>1. configs'[n] = configs[n]
    OBVIOUS
  <2> QED
    BY <2>1 DEF Shown, Name
<1>2. ConfigsShown' = ConfigsShown
  BY <1>1 DEF ConfigsShown
<1>3. LinksAreKnown'
  BY DEF LinksAreKnown, Name
<1> QED
  BY <1>2, <1>3

\* The server does what a call asked, and that is what is shown.
LEMMA ConfigServeShown ==
  ASSUME ConfigsAssumption, ConfigsAreTyped, ConfigStoreInv, NEW c \in Caller, ServeConfig(c)
  PROVE  LinksAreKnown' /\ (ConfigsShown' = ConfigsShown \/ ServedAsPromised)
<1> DEFINE asking == asked[c]
           n == asking.name
           request == asking.request
           mask == asking.mask
<1>1. /\ asking # Idle /\ asking.op \in ConfigOps /\ ConfigAsAsked(asking.op, n, request, mask)
      /\ DOMAIN configs = Name /\ LinksAreKnown
  BY DEF ServeConfig, ConfigStoreInv, ConfigInv, ConfigsAsAsked
<1>2. CASE \A m \in Name : configs'[m] = configs[m]
  BY <1>1, <1>2, SameShown
<1>3. CASE asking.op = "create" /\ configs' # configs
  <2>1. ServeNew(c)
    BY <1>3 DEF ServeConfig
  <2>2. PICK m \in IF n = Project THEN Tenants ELSE {n} :
          configs[m] = << >> /\ configs' = [configs EXCEPT ![m] = <<request>>]
    <3> DEFINE names == IF n = Project THEN {t \in Tenants : configs[t] = << >>} ELSE {n}
    <3>1. \E m \in names : configs[m] = << >>
      BY <1>3, <2>1 DEF ServeNew
    <3>2. \E m \in names : configs' = [configs EXCEPT ![m] = <<request>>]
      BY <2>1, <3>1 DEF ServeNew
    <3> HIDE DEF request, n
    <3> QED
      BY <3>1, <3>2
  <2>3. CASE n = Project /\ \E o \in NewTenants : TenantRefusal(o, FALSE, TRUE) = "ok" /\ request = TenantRequest(o, FALSE)
    <3> HIDE DEF request, n
    <3> QED
      BY <1>1, <2>2, <2>3, NewTenantServed
  <2>4. CASE \E o \in NewProviders : o.providerId = n /\ AskedOfProvider(n, o, FALSE, request)
    <3>1. n \in Saml \cup Oidc
      BY <2>4 DEF AskedOfProvider
    <3>2. n # Project /\ n \notin Tenants
      BY <3>1, ConfigsAssumption DEF ConfigsAssumption
    <3>3. m = n
      BY <2>2, <3>2
    <3> HIDE DEF request, n
    <3>4. ServedAsPromised
      BY <1>1, <2>2, <2>4, <3>1, <3>3, NewProviderServed
    <3>5. LinksAreKnown'
      BY <1>1, <2>2, <3>2, <3>3, LinksStayKnown
    <3> QED
      BY <3>4, <3>5
  <2> QED
    BY <1>1, <1>3, <2>3, <2>4 DEF ConfigAsAsked
<1>4. CASE asking.op # "create" /\ configs' # configs
  <2> DEFINE old == configs[n][1]
             new == Patched(old, request, mask)
  <2>1. ServeExisting(c)
    BY <1>4 DEF ServeConfig, ServePage
  <2>2. configs' = [configs EXCEPT ![n] = IF @ = << >> \/ asking.op = "get" THEN @
                                          ELSE IF asking.op = "delete" THEN << >> ELSE <<new>>]
    BY <2>1 DEF ServeExisting
  <2>3. CASE n \notin Name \/ configs[n] = << >> \/ asking.op = "get"
    <3> HIDE DEF new, n
    <3>1. \A m \in Name : configs'[m] = configs[m]
      BY <1>1, <2>2, <2>3
    <3> QED
      BY <1>2, <3>1
  <2>4. asking.op # "list"
    BY <1>4 DEF ServeConfig, ServePage
  <2>5. CASE n \in Name /\ configs[n] # << >> /\ asking.op = "delete"
    <3>1. configs' = [configs EXCEPT ![n] = << >>]
      BY <2>2, <2>5
    <3>2. n # Project
      BY <1>1, <2>5 DEF ConfigAsAsked
    <3> HIDE DEF n
    <3>3. LinksAreKnown'
      BY <1>1, <3>1, LinksStayKnown
    <3> QED
      BY <1>1, <2>5, <3>1, <3>2, <3>3, DeleteServed
  <2>6. CASE n \in Name /\ configs[n] # << >> /\ asking.op = "update"
    <3>1. configs' = [configs EXCEPT ![n] = <<new>>]
      BY <2>2, <2>6
    <3>2. ASSUME NEW paths, mask = generateUpdateMask(request, paths)
          PROVE  IsChangeOf(new, configs[n][1], request, paths)
      BY <3>2, PatchedIsChange
    <3>3. CASE /\ \E u \in ProviderUpdates : u.id = n /\ AskedOfProvider(n, u.config, TRUE, request)
               /\ mask = generateUpdateMask(request, {})
      <4>1. n \in Saml \cup Oidc
        BY <3>3 DEF AskedOfProvider
      <4>2. n \notin Tenants
        BY <4>1, ConfigsAssumption DEF ConfigsAssumption
      <4>3. IsChangeOf(new, configs[n][1], request, {})
        BY <3>2, <3>3
      <4> HIDE DEF new, request, mask, n
      <4>4. LinksAreKnown'
        BY <1>1, <3>1, <4>2, LinksStayKnown
      <4> QED
        BY <1>1, <2>6, <3>1, <3>3, <4>1, <4>3, <4>4, ProviderUpdateServed
    <3>4. CASE /\ \E u \in TenantUpdates :
                    /\ u.id = n /\ TenantRefusal(u.config, u.nullPhones, FALSE) = "ok"
                    /\ request = TenantRequest(u.config, u.nullPhones)
               /\ n \in Tenants /\ mask = generateUpdateMask(request, {"testPhoneNumbers"})
      <4>1. IsChangeOf(new, configs[n][1], request, {"testPhoneNumbers"})
        BY <3>2, <3>4
      <4> HIDE DEF new, request, mask, n
      <4> QED
        BY <1>1, <2>6, <3>1, <3>4, <4>1, TenantUpdateServed
    <3>5. CASE /\ n = Project /\ mask = generateUpdateMask(request, {})
               /\ \E o \in ProjectUpdates : ProjectRefusal(o) = "ok" /\ request = ProjectRequest(o)
      <4>1. IsChangeOf(new, configs[n][1], request, {})
        BY <3>2, <3>5
      <4>2. n \notin Tenants
        BY <3>5, ConfigsAssumption DEF ConfigsAssumption
      <4> HIDE DEF new, request, mask, n
      <4>3. LinksAreKnown'
        BY <1>1, <3>1, <4>2, LinksStayKnown
      <4> QED
        BY <1>1, <2>6, <3>1, <3>5, <4>1, <4>3, ProjectUpdateServed
    <3> QED
      BY <1>1, <2>6, <3>3, <3>4, <3>5, Zenon DEF ConfigAsAsked
  <2> QED
    BY <1>1, <1>4, <2>3, <2>4, <2>5, <2>6 DEF ConfigOps
<1>5. configs' = configs => \A m \in Name : configs'[m] = configs[m]
  OBVIOUS
<1> QED
  BY <1>2, <1>3, <1>4, <1>5
-----------------------------------------------------------------------------
(* Every step. *)

\* Each step keeps the invariant and shows as a step of the store, or as none.
LEMMA ConfigStoreStep ==
  ASSUME ConfigStoreInv, [ConfigNext]_configVars
  PROVE  ConfigStoreInv' /\ (ConfigsShown' = ConfigsShown \/ ServedAsPromised)
<1>1. ConfigInv'
  BY ConfigsAssumption, ConfigNextInv DEF ConfigStoreInv
<1>2. configs' = configs => LinksAreKnown' /\ ConfigsShown' = ConfigsShown
  BY DEF ConfigStoreInv, LinksAreKnown, ConfigsShown, Shown
<1>3. CASE UNCHANGED configVars
  <2>1. configs' = configs /\ asked' = asked
    BY <1>3 DEF configVars
  <2>2. ConfigsAsAsked'
    BY <2>1 DEF ConfigStoreInv, ConfigsAsAsked
  <2> QED
    BY <1>1, <1>2, <2>1, <2>2 DEF ConfigStoreInv
<1>4. ASSUME NEW c \in Caller, ServeConfig(c)
      PROVE  ConfigStoreInv' /\ (ConfigsShown' = ConfigsShown \/ ServedAsPromised)
  <2>1. ConfigsAsAsked'
    BY <1>4, AnswerKeepsAsked DEF ConfigStoreInv
  <2>2. LinksAreKnown' /\ (ConfigsShown' = ConfigsShown \/ ServedAsPromised)
    BY <1>4, ConfigsAssumption, ConfigsAreTyped, ConfigServeShown
  <2> QED
    BY <1>1, <1>2, <2>1, <2>2 DEF ConfigStoreInv
<1>5. ASSUME NEW c \in Caller,
             \/ createProviderConfig(c) \/ updateProviderConfig(c) \/ getProviderConfig(c) \/ deleteProviderConfig(c)
             \/ listProviderConfigs(c)
             \/ createTenant(c) \/ updateTenant(c) \/ getTenant(c) \/ deleteTenant(c) \/ listTenants(c)
             \/ getProjectConfig(c) \/ updateProjectConfig(c) \/ ReturnConfig(c) \/ LoseConfigAnswer(c)
      PROVE  ConfigStoreInv' /\ ConfigsShown' = ConfigsShown
  <2>1. ConfigsAsAsked'
    BY <1>5, ConfigsAssumption, ProviderAsksAsAsked, TenantAsksAsAsked, OtherAsksAsAsked, AnswerKeepsAsked DEF ConfigStoreInv
  <2>2. \A op, name, a : AskConfig(c, op, name, a) => configs' = configs
    BY DEF AskConfig
  <2>3. configs' = configs
    <3>1. CASE createProviderConfig(c) \/ updateProviderConfig(c) \/ getProviderConfig(c) \/ deleteProviderConfig(c)
      BY <2>2, <3>1 DEF createProviderConfig, updateProviderConfig, getProviderConfig, deleteProviderConfig
    <3>2. CASE listProviderConfigs(c)
      BY <2>2, <3>2 DEF listProviderConfigs
    <3>3. CASE createTenant(c) \/ updateTenant(c) \/ getTenant(c) \/ deleteTenant(c) \/ listTenants(c)
      BY <2>2, <3>3 DEF createTenant, updateTenant, getTenant, deleteTenant, listTenants
    <3>4. CASE getProjectConfig(c) \/ updateProjectConfig(c)
      BY <2>2, <3>4 DEF getProjectConfig, updateProjectConfig
    <3>5. CASE ReturnConfig(c) \/ LoseConfigAnswer(c)
      BY <3>5 DEF ReturnConfig, LoseConfigAnswer, FinishConfig
    <3> QED
      BY <1>5, <3>1, <3>2, <3>3, <3>4, <3>5
  <2> QED
    BY <1>1, <1>2, <2>1, <2>3 DEF ConfigStoreInv
<1> QED
  BY <1>3, <1>4, <1>5 DEF ConfigNext

\* The configuration calls change what is shown of the configurations only as
\* ConfigStore says: whatever the inputs, however the updates of several clients
\* are served, lost and repeated, a change gives what some call named.
THEOREM ConfigsKeepTheirPromises == ConfigSpec => ImplementsConfigStore
<1>1. ConfigInit => ConfigStoreInv
  BY ConfigsAssumption DEF ConfigInit, ConfigsAssumption, ConfigStoreInv, ConfigInv, CodeFlowHasSecret, ConfigsAsAsked,
     LinksAreKnown
<1>2. ConfigInit => Configs!Init
  BY DEF Configs!Init, Configs!Name, Name
<1>3. ConfigStoreInv /\ [ConfigNext]_configVars => ConfigStoreInv'
  BY ConfigStoreStep
<1>4. ConfigStoreInv /\ [ConfigNext]_configVars => [Configs!Next]_ConfigsShown
  <2> SUFFICES ASSUME ConfigStoreInv, [ConfigNext]_configVars, ConfigsShown' # ConfigsShown PROVE Configs!Next
    OBVIOUS
  <2>1. ServedAsPromised
    BY ConfigStoreStep
  <2>2. Configs!Name = Name
    BY DEF Configs!Name, Name
  <2> QED
    BY <2>1, <2>2 DEF Configs!Next, ServedAsPromised, ConfigsShown
<1>5. ConfigSpec => Configs!Spec
  BY <1>1, <1>2, <1>3, <1>4, PTL DEF ConfigSpec, Configs!Spec, ConfigsShown
<1> QED
  BY <1>5 DEF ImplementsConfigStore
==============================================================================
