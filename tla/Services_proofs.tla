--------------------------- MODULE Services_proofs ---------------------------
(***************************************************************************)
(* Proofs about RemoteConfig: no publisher loses the changes of another,   *)
(* and none is refused without a change of another.  Proofs about          *)
(* SecurityRules: what a release resolved with was in force, and what is   *)
(* refused leaves nothing behind.  About ServerTemplate: no load() leaves  *)
(* an old template, only a collision of hashes misleads a client, and      *)
(* every config is what its template means.                                *)
(* About Messages: every request is what was asked, however many calls     *)
(* convert the objects it is made from, and the response to a subscription *)
(* counts every token and finds the refused ones.                          *)
(***************************************************************************)
EXTENDS RemoteConfig, SecurityRules, ServerTemplate, Messages, FiniteSetTheorems, TLAPS

(* Remote Config                                                            *)

Updates == {"INCREMENTAL_UPDATE", "FORCED_UPDATE", "ROLLBACK"}
VersionSet == [edits : SUBSET Publisher, update : Updates, base : Nat]

\* What the server wrote into the template t: the ETag of the version it was
\* read from, whose changes it still holds.
Descends(v, etag, held, from) ==
  /\ etag = Etag(from) /\ held \in SUBSET Publisher
  /\ from \in Nat /\ from \in 1..Len(v) /\ v[from].edits \subseteq held

TemplateOk(v, t) == t = NoTemplate \/ (DOMAIN t = {"etag", "edits", "from"} /\ Descends(v, t.etag, t.edits, t.from))

ReadOk(r) == r.op \in {"get", "rollback", "list"} /\ r.arg \in Nat

\* A request to update carries the template its publisher holds.
PutOk(v, t, r) ==
  /\ r.op \in {"validate", "publish", "force"}
  /\ "arg" \in DOMAIN r /\ DOMAIN r.arg = {"ifMatch", "edits", "from"}
  /\ r.arg.from = t.from
  /\ Descends(v, Etag(r.arg.from), r.arg.edits, r.arg.from)
  /\ r.arg.ifMatch = (IF r.op = "force" THEN AnyEtag ELSE Etag(r.arg.from))

AnswerOk(v, t, r) ==
  /\ r.status \in {"OK", "NOT_FOUND", "FAILED_PRECONDITION"}
  /\ r.status = "FAILED_PRECONDITION" => t.from < Len(v)
  /\ r.status = "OK" /\ r.op = "validate" => r.from = r.arg.from /\ Descends(v, Etag(r.from), r.edits, r.from)
  /\ r.status = "OK" /\ r.op \notin {"validate", "list"} => Descends(v, r.etag, r.edits, r.from)

RequestOk(v, t, r) ==
  \/ r = NoRequest
  \/ /\ r.op # "none"
     /\ ReadOk(r) \/ PutOk(v, t, r)
     /\ r.phase = "sent" \/ (r.phase = "answered" /\ AnswerOk(v, t, r))

RcInv ==
  /\ versions \in Seq(VersionSet)
  /\ DOMAIN template = Publisher /\ DOMAIN request = Publisher /\ DOMAIN rcOutcome = Publisher
  /\ \A p \in Publisher : TemplateOk(versions, template[p]) /\ RequestOk(versions, template[p], request[p])
  /\ NoLostUpdate
  /\ RefusedOnlyIfChanged

\* The server keeps its versions, and an incremental one is made of the last.
Extends(v, w) ==
  \/ w = v
  \/ \E x \in VersionSet :
       /\ w = Append(v, x)
       /\ x.update = "INCREMENTAL_UPDATE" => x.base = Len(v) /\ v[Len(v)].edits \subseteq x.edits

LEMMA Grown ==
  ASSUME NEW v \in Seq(VersionSet), NEW w, Extends(v, w)
  PROVE  /\ w \in Seq(VersionSet) /\ Len(v) <= Len(w)
         /\ \A n \in 1..Len(v) : w[n] = v[n]
BY DEF Extends

LEMMA StillDescends ==
  ASSUME NEW v \in Seq(VersionSet), NEW w, Extends(v, w), NEW etag, NEW held, NEW from,
         Descends(v, etag, held, from)
  PROVE  Descends(w, etag, held, from)
BY Grown DEF Descends

LEMMA FromIsNat ==
  ASSUME NEW v, NEW t, TemplateOk(v, t)
  PROVE  t.from \in Nat
<1>1. CASE t = NoTemplate
  <2>1. NoTemplate.from = 0
    BY DEF NoTemplate, Template
  <2> QED
    BY <1>1, <2>1
<1>2. CASE t # NoTemplate
  BY <1>2 DEF TemplateOk, Descends
<1> QED
  BY <1>1, <1>2

LEMMA StillOk ==
  ASSUME NEW v \in Seq(VersionSet), NEW w, Extends(v, w), NEW t, NEW r, TemplateOk(v, t), RequestOk(v, t, r)
  PROVE  TemplateOk(w, t) /\ RequestOk(w, t, r)
<1>1. TemplateOk(w, t)
  BY StillDescends DEF TemplateOk
<1>2. t.from \in Nat
  BY FromIsNat
<1>3. PutOk(v, t, r) => PutOk(w, t, r)
  BY StillDescends DEF PutOk
<1>4. AnswerOk(v, t, r) => AnswerOk(w, t, r)
  BY <1>2, StillDescends, Grown DEF AnswerOk
<1> QED
  BY <1>1, <1>3, <1>4 DEF RequestOk

LEMMA NothingLost ==
  ASSUME versions \in Seq(VersionSet), NoLostUpdate, Extends(versions, versions')
  PROVE  NoLostUpdate'
<1>1. CASE versions' = versions
  BY <1>1 DEF NoLostUpdate
<1>2. ASSUME NEW x \in VersionSet, versions' = Append(versions, x),
             x.update = "INCREMENTAL_UPDATE" => x.base = Len(versions) /\ versions[Len(versions)].edits \subseteq x.edits
      PROVE  NoLostUpdate'
  <2> SUFFICES ASSUME NEW n \in DOMAIN versions', n > 1, versions'[n].update = "INCREMENTAL_UPDATE"
               PROVE  versions'[n].base = n - 1 /\ versions'[n - 1].edits \subseteq versions'[n].edits
    BY DEF NoLostUpdate
  <2>1. n \in 1..(Len(versions) + 1) /\ versions'[n - 1] = versions[n - 1]
    BY <1>2
  <2>2. CASE n = Len(versions) + 1
    BY <1>2, <2>1, <2>2
  <2>3. CASE n # Len(versions) + 1
    <3>1. n \in DOMAIN versions /\ versions'[n] = versions[n]
      BY <1>2, <2>1, <2>3
    <3> QED
      BY <2>1, <3>1 DEF NoLostUpdate
  <2> QED
    BY <2>2, <2>3
<1> QED
  BY <1>1, <1>2 DEF Extends

\* A step is one publisher's, or the server's answer to it.
LEMMA StepOf ==
  ASSUME RcInv, NEW p \in Publisher, Extends(versions, versions'),
         DOMAIN template' = Publisher, DOMAIN request' = Publisher, DOMAIN rcOutcome' = Publisher,
         \A q \in Publisher \ {p} :
           template'[q] = template[q] /\ request'[q] = request[q] /\ rcOutcome'[q] = rcOutcome[q],
         TemplateOk(versions', template'[p]), RequestOk(versions', template'[p], request'[p]),
         rcOutcome'[p] = "failed-precondition" => template'[p].from < Len(versions')
  PROVE  RcInv'
<1>1. versions' \in Seq(VersionSet) /\ Len(versions) <= Len(versions')
  BY Grown DEF RcInv
<1>2. NoLostUpdate'
  BY NothingLost DEF RcInv
<1>3. ASSUME NEW q \in Publisher
      PROVE  TemplateOk(versions', template'[q]) /\ RequestOk(versions', template'[q], request'[q])
  <2>1. CASE q = p
    BY <2>1
  <2>2. CASE q # p
    BY <2>2, StillOk DEF RcInv
  <2> QED
    BY <2>1, <2>2
<1>4. ASSUME NEW q \in Publisher, rcOutcome'[q] = "failed-precondition"
      PROVE  template'[q].from < Len(versions')
  <2>1. CASE q # p
    <3>1. template[q].from \in Nat /\ template[q].from < Len(versions)
      BY <1>4, <2>1, FromIsNat DEF RcInv, RefusedOnlyIfChanged
    <3> QED
      BY <1>1, <2>1, <3>1 DEF RcInv
  <2> QED
    BY <1>4, <2>1
<1> QED
  BY <1>1, <1>2, <1>3, <1>4 DEF RcInv, RefusedOnlyIfChanged

----------------------------------------------------------------------------
(* Calls *)

\* A call sends a request that is in order, or is refused and changes nothing.
Calls(p) ==
  /\ request[p] = NoRequest /\ UNCHANGED <<versions, template>>
  /\ \/ /\ RequestOk(versions, template[p], request'[p])
        /\ request' = [request EXCEPT ![p] = request'[p]]
        /\ rcOutcome' = [rcOutcome EXCEPT ![p] = "none"]
     \/ UNCHANGED request /\ rcOutcome' = [rcOutcome EXCEPT ![p] = "invalid-argument"]

LEMMA CallStep == ASSUME RcInv, NEW p \in Publisher, Calls(p) PROVE RcInv'
<1>1. Extends(versions, versions') /\ versions' = versions /\ template' = template
  BY DEF Calls, Extends
<1>2. TemplateOk(versions', template'[p]) /\ RequestOk(versions', template'[p], request'[p])
  BY <1>1 DEF Calls, RcInv
<1>3. /\ DOMAIN template' = Publisher /\ DOMAIN request' = Publisher /\ DOMAIN rcOutcome' = Publisher
      /\ \A q \in Publisher \ {p} :
           template'[q] = template[q] /\ request'[q] = request[q] /\ rcOutcome'[q] = rcOutcome[q]
      /\ rcOutcome'[p] # "failed-precondition"
  BY <1>1 DEF Calls, RcInv
<1> QED
  BY <1>1, <1>2, <1>3, StepOf

LEMMA SendRead ==
  ASSUME RcInv, NEW p \in Publisher, NEW op \in {"get", "rollback", "list"}, NEW n \in Nat,
         Send(p, [op |-> op, arg |-> n])
  PROVE  RcInv'
<1> DEFINE r == [phase |-> "sent", tries |-> 0, op |-> op, arg |-> n]
<1>1. request' = [request EXCEPT ![p] = r] /\ request'[p] = r
  BY DEF Send, RcInv
<1>2. RequestOk(versions, template[p], r)
  BY DEF RequestOk, ReadOk
<1> HIDE DEF r
<1>3. Calls(p)
  BY <1>1, <1>2 DEF Send, Calls
<1> QED
  BY <1>3, CallStep

LEMMA RefuseStep == ASSUME RcInv, NEW p \in Publisher, Refuse(p) PROVE RcInv'
<1>1. Calls(p)
  BY DEF Refuse, Calls
<1> QED
  BY <1>1, CallStep

\* A template that is accepted has the ETag of the version it was read from.
LEMMA SendPut ==
  ASSUME RcInv, NEW p \in Publisher, NEW op \in {"validate", "publish", "force"}, NEW flaw,
         validateInputRemoteConfigTemplate(template[p], flaw),
         Send(p, Put(template[p], IF op = "force" THEN AnyEtag ELSE template[p].etag, op))
  PROVE  RcInv'
<1> DEFINE ifMatch == IF op = "force" THEN AnyEtag ELSE template[p].etag
           body == [ifMatch |-> ifMatch, edits |-> template[p].edits, from |-> template[p].from]
           r == [phase |-> "sent", tries |-> 0, op |-> op, arg |-> body]
<1>1. request' = [request EXCEPT ![p] = r] /\ request'[p] = r
  BY DEF Send, Put, RcInv
<1>2. template[p] # NoTemplate
  <2>1. NoTemplate.etag = <<"", 0>>
    BY DEF NoTemplate, Template
  <2> DEFINE none == <<"", 0>>
  <2>2. none[1] = ""
    OBVIOUS
  <2> HIDE DEF none
  <2>3. NoTemplate.etag = none
    BY <2>1 DEF none
  <2>4. NoTemplate.etag[1] = ""
    BY <2>2, <2>3
  <2> QED
    BY <2>4 DEF validateInputRemoteConfigTemplate
<1>3. Descends(versions, template[p].etag, template[p].edits, template[p].from)
  BY <1>2 DEF RcInv, TemplateOk
<1>4. /\ "arg" \in DOMAIN r /\ DOMAIN r.arg = {"ifMatch", "edits", "from"}
      /\ r.op = op /\ r.phase = "sent" /\ r.arg.from = template[p].from /\ r.arg.edits = template[p].edits
      /\ r.arg.ifMatch = ifMatch
  OBVIOUS
<1> HIDE DEF r, body
<1>5. template[p].etag = Etag(template[p].from)
  BY <1>3 DEF Descends
<1>6. PutOk(versions, template[p], r)
  BY <1>3, <1>4, <1>5 DEF PutOk
<1>7. RequestOk(versions, template[p], r)
  BY <1>4, <1>6 DEF RequestOk
<1>8. Calls(p)
  BY <1>1, <1>7 DEF Send, Calls
<1> QED
  BY <1>8, CallStep

LEMMA EditStep == ASSUME RcInv, NEW p \in Publisher, EditTemplate(p) PROVE RcInv'
<1>1. Extends(versions, versions') /\ versions' = versions
  BY DEF EditTemplate, Extends
<1>2. template[p] # NoTemplate /\ Descends(versions, template[p].etag, template[p].edits, template[p].from)
      /\ DOMAIN template[p] = {"etag", "edits", "from"}
  BY DEF EditTemplate, RcInv, TemplateOk
<1>3. /\ DOMAIN template'[p] = {"etag", "edits", "from"}
      /\ template'[p].etag = template[p].etag /\ template'[p].from = template[p].from
      /\ template'[p].edits = template[p].edits \cup {p}
  BY <1>2 DEF EditTemplate, RcInv
<1>4. TemplateOk(versions', template'[p])
  BY <1>1, <1>2, <1>3 DEF TemplateOk, Descends
<1>5. /\ DOMAIN template' = Publisher /\ DOMAIN request' = Publisher /\ DOMAIN rcOutcome' = Publisher
      /\ \A q \in Publisher \ {p} :
           template'[q] = template[q] /\ request'[q] = request[q] /\ rcOutcome'[q] = rcOutcome[q]
      /\ rcOutcome'[p] = rcOutcome[p]
  BY DEF EditTemplate, RcInv
<1>6. RequestOk(versions', template'[p], request'[p])
  <2> DEFINE r == request[p]
  <2>1. RequestOk(versions, template[p], r)
    BY DEF RcInv
  <2>2. CASE r.op \in {"validate", "publish", "force"}
    <3>1. r # NoRequest /\ PutOk(versions, template[p], r)
      BY <2>1, <2>2 DEF RequestOk, ReadOk, NoRequest
    <3>2. request' = [request EXCEPT ![p].arg.edits = @ \cup {p}]
      BY <2>2 DEF EditTemplate
    <3>3. /\ DOMAIN request'[p] = DOMAIN r /\ DOMAIN request'[p].arg = DOMAIN r.arg
          /\ request'[p].arg.edits = r.arg.edits \cup {p}
          /\ request'[p].arg.from = r.arg.from /\ request'[p].arg.ifMatch = r.arg.ifMatch
          /\ request'[p].op = r.op /\ request'[p].phase = r.phase /\ request'[p].status = r.status
          /\ request'[p].from = r.from /\ request'[p].etag = r.etag /\ request'[p].edits = r.edits
      BY <3>1, <3>2 DEF RcInv, PutOk
    <3>4. PutOk(versions', template'[p], request'[p])
      BY <1>1, <1>3, <3>1, <3>3 DEF PutOk, Descends
    <3>5. AnswerOk(versions, template[p], r) => AnswerOk(versions', template'[p], request'[p])
      BY <1>1, <1>3, <3>3 DEF AnswerOk
    <3> QED
      BY <2>1, <3>1, <3>3, <3>4, <3>5 DEF RequestOk
  <2>3. CASE r.op \notin {"validate", "publish", "force"}
    <3>1. request' = request
      BY <2>3 DEF EditTemplate
    <3> QED
      BY <1>1, <1>3, <2>1, <2>3, <3>1 DEF RequestOk, PutOk, AnswerOk
  <2> QED
    BY <2>2, <2>3
<1>7. rcOutcome'[p] = "failed-precondition" => template'[p].from < Len(versions')
  BY <1>1, <1>3, <1>5 DEF RcInv, RefusedOnlyIfChanged
<1> QED
  BY <1>1, <1>4, <1>5, <1>6, <1>7, StepOf

----------------------------------------------------------------------------
(* The server *)

\* An answer, whatever the server stored for it.
LEMMA Answers ==
  ASSUME RcInv, NEW p \in Publisher, NEW status, NEW etag, NEW held, NEW from,
         Extends(versions, versions'), request[p] # NoRequest, RcAnswer(p, status, etag, held, from),
         UNCHANGED <<template, rcOutcome>>,
         status \in {"OK", "NOT_FOUND", "FAILED_PRECONDITION"},
         status = "FAILED_PRECONDITION" => template[p].from < Len(versions'),
         status = "OK" /\ request[p].op = "validate" => held = request[p].arg.edits /\ from = request[p].arg.from,
         status = "OK" /\ request[p].op \notin {"validate", "list"} => Descends(versions', etag, held, from)
  PROVE  RcInv'
<1> DEFINE r == [op |-> request[p].op, arg |-> request[p].arg, tries |-> request[p].tries, phase |-> "answered",
                 status |-> status, etag |-> etag, edits |-> held, from |-> from]
<1>1. /\ r.op = request[p].op /\ r.arg = request[p].arg /\ r.phase = "answered"
      /\ r.status = status /\ r.etag = etag /\ r.edits = held /\ r.from = from
  OBVIOUS
<1>2. request' = [request EXCEPT ![p] = r]
  BY DEF RcAnswer, RcInv
<1> HIDE DEF r
<1>3. template' = template /\ rcOutcome' = rcOutcome
  OBVIOUS
<1>4. /\ DOMAIN template' = Publisher /\ DOMAIN request' = Publisher /\ DOMAIN rcOutcome' = Publisher
      /\ \A q \in Publisher \ {p} :
           template'[q] = template[q] /\ request'[q] = request[q] /\ rcOutcome'[q] = rcOutcome[q]
      /\ request'[p] = r
  BY <1>2, <1>3 DEF RcInv
<1>5. TemplateOk(versions', template[p]) /\ RequestOk(versions', template[p], request[p])
  BY StillOk DEF RcInv
<1>6. ReadOk(r) \/ PutOk(versions', template[p], r)
  <2>1. "arg" \in DOMAIN r
    BY DEF r
  <2> QED
    BY <1>1, <1>5, <2>1 DEF RequestOk, ReadOk, PutOk
<1>7. AnswerOk(versions', template[p], r)
  <2>1. request[p].op = "validate" => PutOk(versions', template[p], request[p])
    BY <1>5 DEF RequestOk, ReadOk
  <2> QED
    BY <1>1, <2>1 DEF AnswerOk, PutOk
<1>8. RequestOk(versions', template[p], r)
  BY <1>1, <1>5, <1>6, <1>7 DEF RequestOk
<1>9. rcOutcome[p] = "failed-precondition" => template[p].from < Len(versions')
  <2>1. template[p].from \in Nat
    BY <1>5, FromIsNat
  <2>2. Len(versions) <= Len(versions') /\ versions' \in Seq(VersionSet) /\ versions \in Seq(VersionSet)
    BY Grown DEF RcInv
  <2> QED
    BY <2>1, <2>2 DEF RcInv, RefusedOnlyIfChanged
<1> QED
  BY <1>3, <1>4, <1>5, <1>8, <1>9, StepOf

\* A failure, and an answer that reads what is stored.
LEMMA FailStep ==
  ASSUME RcInv, NEW p \in Publisher, NEW status \in {"NOT_FOUND", "FAILED_PRECONDITION"},
         request[p] # NoRequest, RcFail(p, status), UNCHANGED <<template, rcOutcome>>,
         status = "FAILED_PRECONDITION" => template[p].from < Len(versions)
  PROVE  RcInv'
<1>1. Extends(versions, versions') /\ versions' = versions
  BY DEF RcFail, Extends
<1>2. RcAnswer(p, status, <<"", 0>>, {}, 0)
  BY DEF RcFail
<1>3. status # "OK" /\ status \in {"OK", "NOT_FOUND", "FAILED_PRECONDITION"}
  OBVIOUS
<1> QED
  BY <1>1, <1>2, <1>3, Answers

LEMMA VersionDescends ==
  ASSUME NEW v \in Seq(VersionSet), NEW n \in DOMAIN v
  PROVE  Descends(v, Etag(n), v[n].edits, n)
<1>1. v[n] \in VersionSet /\ n \in 1..Len(v) /\ n \in Nat
  OBVIOUS
<1>2. v[n].edits \in SUBSET Publisher
  BY <1>1 DEF VersionSet
<1> QED
  BY <1>1, <1>2 DEF Descends

LEMMA ReadStep ==
  ASSUME RcInv, NEW p \in Publisher, request[p] # NoRequest, ServeRead(p), UNCHANGED <<template, rcOutcome>>
  PROVE  RcInv'
<1> DEFINE n == IF request[p].arg = 0 THEN Active ELSE request[p].arg
<1>1. CASE n \in DOMAIN versions
  <2>1. RcAnswer(p, "OK", Etag(n), versions[n].edits, n) /\ versions' = versions /\ request[p].op = "get"
    BY <1>1 DEF ServeRead
  <2>2. Extends(versions, versions')
    BY <2>1 DEF Extends
  <2>3. Descends(versions', Etag(n), versions[n].edits, n)
    BY <1>1, <2>1, VersionDescends DEF RcInv
  <2> HIDE DEF n
  <2> QED
    BY <2>1, <2>2, <2>3, Answers
<1>2. CASE n \notin DOMAIN versions
  <2>1. RcFail(p, "NOT_FOUND")
    BY <1>2 DEF ServeRead
  <2> QED
    BY <2>1, FailStep
<1> QED
  BY <1>1, <1>2

\* The request of a publisher that waits for an answer.
LEMMA PutInOrder ==
  ASSUME RcInv, NEW p \in Publisher, request[p] # NoRequest, request[p].op \in {"validate", "publish", "force"}
  PROVE  PutOk(versions, template[p], request[p])
<1>1. RequestOk(versions, template[p], request[p])
  BY DEF RcInv
<1> QED
  BY <1>1 DEF RequestOk, ReadOk

\* The template of a refused request is not of the active version.
LEMMA RefusedByServer ==
  ASSUME RcInv, NEW p \in Publisher, request[p] # NoRequest, request[p].op \in {"validate", "publish", "force"},
         ~Matching(request[p].arg.ifMatch)
  PROVE  template[p].from < Len(versions)
<1> DEFINE n == request[p].arg.from
<1>1. PutOk(versions, template[p], request[p])
  BY PutInOrder
<1>2. /\ template[p].from = n /\ n \in Nat /\ n \in 1..Len(versions)
      /\ request[p].arg.ifMatch \in {AnyEtag, Etag(n)}
  BY <1>1 DEF PutOk, Descends
<1> HIDE DEF n
<1>3. n # Len(versions)
  BY <1>2 DEF Matching, Active
<1>4. Len(versions) \in Nat
  BY DEF RcInv
<1> QED
  BY <1>2, <1>3, <1>4

LEMMA ValidateStep ==
  ASSUME RcInv, NEW p \in Publisher, request[p] # NoRequest, ServeValidate(p), UNCHANGED <<template, rcOutcome>>
  PROVE  RcInv'
<1>1. request[p].op = "validate"
  BY DEF ServeValidate
<1>2. CASE Matching(request[p].arg.ifMatch)
  <2>1. RcAnswer(p, "OK", ValidatedEtag, request[p].arg.edits, request[p].arg.from) /\ versions' = versions
    BY <1>2 DEF ServeValidate
  <2>2. Extends(versions, versions')
    BY <2>1 DEF Extends
  <2> QED
    BY <1>1, <2>1, <2>2, Answers
<1>3. CASE ~Matching(request[p].arg.ifMatch)
  <2>1. RcFail(p, "FAILED_PRECONDITION")
    BY <1>3 DEF ServeValidate
  <2>2. template[p].from < Len(versions)
    BY <1>1, <1>3, RefusedByServer
  <2> QED
    BY <2>1, <2>2, FailStep
<1> QED
  BY <1>2, <1>3

LEMMA VersionMade ==
  ASSUME NEW held \in SUBSET Publisher, NEW update \in Updates, NEW base \in Nat
  PROVE  /\ Version(held, update, base) \in VersionSet
         /\ Version(held, update, base).update = update
BY DEF Version, VersionSet

LEMMA StoreStep ==
  ASSUME RcInv, NEW p \in Publisher, NEW x \in VersionSet, request[p] # NoRequest,
         StoreVersion(p, x), UNCHANGED <<template, rcOutcome>>, request[p].op # "validate",
         x.update = "INCREMENTAL_UPDATE" => x.base = Len(versions) /\ versions[Len(versions)].edits \subseteq x.edits
  PROVE  RcInv'
<1>1. /\ versions' = Append(versions, x)
      /\ RcAnswer(p, "OK", Etag(Len(versions) + 1), x.edits, Len(versions) + 1)
  BY DEF StoreVersion, Active
<1>2. Extends(versions, versions')
  BY <1>1 DEF Extends
<1>3. versions \in Seq(VersionSet)
  BY DEF RcInv
<1>4. /\ versions' \in Seq(VersionSet) /\ Len(versions) + 1 \in DOMAIN versions'
      /\ versions'[Len(versions) + 1] = x
  BY <1>1, <1>3
<1>5. Descends(versions', Etag(Len(versions) + 1), x.edits, Len(versions) + 1)
  BY <1>4, VersionDescends
<1> QED
  BY <1>1, <1>2, <1>5, Answers

LEMMA PublishStep ==
  ASSUME RcInv, NEW p \in Publisher, request[p] # NoRequest, ServePublish(p), UNCHANGED <<template, rcOutcome>>
  PROVE  RcInv'
<1> DEFINE r == request[p].arg
           update == IF request[p].op = "force" THEN "FORCED_UPDATE" ELSE "INCREMENTAL_UPDATE"
           x == Version(r.edits, update, r.from)
<1>1. request[p].op \in {"publish", "force"}
  BY DEF ServePublish
<1>2. PutOk(versions, template[p], request[p])
  BY <1>1, PutInOrder
<1>3. CASE Matching(r.ifMatch)
  <2>1. StoreVersion(p, x)
    BY <1>3 DEF ServePublish
  <2>2. x.edits = r.edits /\ x.base = r.from /\ x.update = update
    BY DEF Version
  <2>3. r.edits \in SUBSET Publisher /\ r.from \in Nat /\ versions[r.from].edits \subseteq r.edits
    BY <1>2 DEF PutOk, Descends
  <2>4. x \in VersionSet
    BY <2>3, VersionMade DEF Updates
  <2>5. request[p].op = "publish" => r.from = Len(versions)
    BY <1>2, <1>3 DEF PutOk, Matching, AnyEtag, Etag, Active
  <2>6. x.update = "INCREMENTAL_UPDATE" => request[p].op = "publish"
    BY <1>1, <2>2
  <2> HIDE DEF r, x
  <2> QED
    BY <1>1, <2>1, <2>2, <2>3, <2>4, <2>5, <2>6, StoreStep
<1>4. CASE ~Matching(r.ifMatch)
  <2>1. RcFail(p, "FAILED_PRECONDITION")
    BY <1>4 DEF ServePublish
  <2>2. template[p].from < Len(versions)
    BY <1>1, <1>4, RefusedByServer
  <2> QED
    BY <2>1, <2>2, FailStep
<1> QED
  BY <1>3, <1>4

LEMMA RollbackStep ==
  ASSUME RcInv, NEW p \in Publisher, request[p] # NoRequest, ServeRollback(p), UNCHANGED <<template, rcOutcome>>
  PROVE  RcInv'
<1> DEFINE x == Version(versions[request[p].arg].edits, "ROLLBACK", 0)
<1>1. CASE request[p].arg \in DOMAIN versions
  <2>1. StoreVersion(p, x) /\ request[p].op = "rollback"
    BY <1>1 DEF ServeRollback
  <2>2. versions[request[p].arg].edits \in SUBSET Publisher
    BY <1>1, VersionDescends DEF RcInv, Descends
  <2>3. x \in VersionSet /\ x.update = "ROLLBACK"
    BY <2>2, VersionMade DEF Updates
  <2> HIDE DEF x
  <2> QED
    BY <2>1, <2>3, StoreStep
<1>2. CASE request[p].arg \notin DOMAIN versions
  <2>1. RcFail(p, "NOT_FOUND")
    BY <1>2 DEF ServeRollback
  <2> QED
    BY <2>1, FailStep
<1> QED
  BY <1>1, <1>2

LEMMA ServeStep == ASSUME RcInv, NEW p \in Publisher, ServeRc(p) PROVE RcInv'
<1>1. request[p] # NoRequest /\ UNCHANGED <<template, rcOutcome>>
  BY DEF ServeRc
<1>2. CASE ServeVersions(p)
  <2>1. RcAnswer(p, "OK", <<"", 0>>, {}, 0) /\ request[p].op = "list" /\ versions' = versions
    BY <1>2 DEF ServeVersions
  <2>2. Extends(versions, versions')
    BY <2>1 DEF Extends
  <2> QED
    BY <1>1, <2>1, <2>2, Answers
<1> QED
  BY <1>1, <1>2, ReadStep, ValidateStep, PublishStep, RollbackStep DEF ServeRc

----------------------------------------------------------------------------
(* Answers *)

LEMMA LoseStep == ASSUME RcInv, NEW p \in Publisher, LoseRcAnswer(p) PROVE RcInv'
<1>1. Extends(versions, versions') /\ versions' = versions /\ template' = template /\ request[p] # NoRequest
  BY DEF LoseRcAnswer, Extends, Resolve, RcAnswered
<1>2. RequestOk(versions, template[p], request[p]) /\ TemplateOk(versions, template[p])
  BY DEF RcInv
<1>3. CASE request[p].tries < MaxRcRetries
  <2> DEFINE r == [phase |-> "sent", tries |-> request[p].tries + 1, op |-> request[p].op, arg |-> request[p].arg]
  <2>1. r.op = request[p].op /\ r.arg = request[p].arg /\ r.phase = "sent" /\ "arg" \in DOMAIN r
    OBVIOUS
  <2>2. request' = [request EXCEPT ![p] = r] /\ rcOutcome' = rcOutcome
    BY <1>3 DEF LoseRcAnswer, RcInv
  <2> HIDE DEF r
  <2>3. RequestOk(versions, template[p], r)
    BY <1>1, <1>2, <2>1 DEF RequestOk, ReadOk, PutOk
  <2>4. /\ DOMAIN template' = Publisher /\ DOMAIN request' = Publisher /\ DOMAIN rcOutcome' = Publisher
        /\ \A q \in Publisher \ {p} :
             template'[q] = template[q] /\ request'[q] = request[q] /\ rcOutcome'[q] = rcOutcome[q]
        /\ request'[p] = r
    BY <1>1, <2>2 DEF RcInv
  <2>5. rcOutcome'[p] = "failed-precondition" => template'[p].from < Len(versions')
    BY <1>1, <2>2 DEF RcInv, RefusedOnlyIfChanged
  <2> QED
    BY <1>1, <1>2, <2>3, <2>4, <2>5, StepOf
<1>4. CASE ~(request[p].tries < MaxRcRetries)
  <2>1. Resolve(p, "network-error")
    BY <1>4 DEF LoseRcAnswer
  <2>2. /\ DOMAIN template' = Publisher /\ DOMAIN request' = Publisher /\ DOMAIN rcOutcome' = Publisher
        /\ \A q \in Publisher \ {p} :
             template'[q] = template[q] /\ request'[q] = request[q] /\ rcOutcome'[q] = rcOutcome[q]
        /\ request'[p] = NoRequest /\ rcOutcome'[p] = "network-error"
    BY <1>1, <2>1 DEF RcInv, Resolve
  <2>3. RequestOk(versions', template'[p], request'[p])
    BY <2>2 DEF RequestOk
  <2> QED
    BY <1>1, <1>2, <2>2, <2>3, StepOf
<1> QED
  BY <1>3, <1>4

LEMMA ErrorStep == ASSUME RcInv, NEW p \in Publisher, toFirebaseError(p) PROVE RcInv'
<1>1. Extends(versions, versions') /\ versions' = versions /\ template' = template
  BY DEF toFirebaseError, Extends, Resolve
<1>2. RequestOk(versions, template[p], request[p]) /\ TemplateOk(versions, template[p])
  BY DEF RcInv
<1>3. AnswerOk(versions, template[p], request[p]) /\ request[p].status # "OK"
  BY <1>2 DEF toFirebaseError, RcAnswered, RequestOk
<1>4. /\ request[p].status \in {"NOT_FOUND", "FAILED_PRECONDITION"}
      /\ request[p].status = "FAILED_PRECONDITION" => template[p].from < Len(versions)
  BY <1>3 DEF AnswerOk
<1>5. ErrorCode["NOT_FOUND"] = "not-found" /\ ErrorCode["FAILED_PRECONDITION"] = "failed-precondition"
  BY DEF ErrorCode
<1>6. /\ DOMAIN template' = Publisher /\ DOMAIN request' = Publisher /\ DOMAIN rcOutcome' = Publisher
      /\ \A q \in Publisher \ {p} :
           template'[q] = template[q] /\ request'[q] = request[q] /\ rcOutcome'[q] = rcOutcome[q]
      /\ request'[p] = NoRequest /\ rcOutcome'[p] = ErrorCode[request[p].status]
  BY <1>1 DEF toFirebaseError, Resolve, RcInv
<1>7. RequestOk(versions', template'[p], request'[p])
  BY <1>6 DEF RequestOk
<1>8. rcOutcome'[p] = "failed-precondition" => template'[p].from < Len(versions')
  BY <1>1, <1>4, <1>5, <1>6
<1> QED
  BY <1>1, <1>2, <1>6, <1>7, <1>8, StepOf

LEMMA ListedStep == ASSUME RcInv, NEW p \in Publisher, ReturnVersions(p) PROVE RcInv'
<1>1. Extends(versions, versions') /\ versions' = versions /\ template' = template
  BY DEF ReturnVersions, Extends, Resolve
<1>2. /\ DOMAIN template' = Publisher /\ DOMAIN request' = Publisher /\ DOMAIN rcOutcome' = Publisher
      /\ \A q \in Publisher \ {p} :
           template'[q] = template[q] /\ request'[q] = request[q] /\ rcOutcome'[q] = rcOutcome[q]
      /\ request'[p] = NoRequest /\ rcOutcome'[p] = "ok"
  BY <1>1 DEF ReturnVersions, Resolve, RcInv
<1>3. RequestOk(versions', template'[p], request'[p]) /\ TemplateOk(versions', template'[p])
  BY <1>1, <1>2 DEF RequestOk, RcInv
<1> QED
  BY <1>1, <1>2, <1>3, StepOf

LEMMA TemplateStep == ASSUME RcInv, NEW p \in Publisher, toRemoteConfigTemplate(p) PROVE RcInv'
<1> DEFINE r == request[p]
           t == Template(ResultEtag(p), r.edits, r.from)
<1>1. Extends(versions, versions') /\ versions' = versions
  BY DEF toRemoteConfigTemplate, Extends, Resolve
<1>2. RequestOk(versions, template[p], r)
  BY DEF RcInv
<1>3. r # NoRequest /\ r.phase = "answered" /\ r.status = "OK" /\ r.op # "list"
  BY DEF toRemoteConfigTemplate, RcAnswered
<1>4. AnswerOk(versions, template[p], r) /\ (ReadOk(r) \/ PutOk(versions, template[p], r))
  BY <1>2, <1>3 DEF RequestOk
<1>5. Descends(versions, ResultEtag(p), r.edits, r.from)
  <2>1. CASE r.op = "validate"
    <3>1. /\ PutOk(versions, template[p], r) /\ r.from = r.arg.from
          /\ Descends(versions, Etag(r.from), r.edits, r.from)
      BY <1>3, <1>4, <2>1 DEF ReadOk, AnswerOk
    <3>2. ResultEtag(p) = Etag(r.arg.from)
      BY <2>1, <3>1 DEF PutOk, ResultEtag
    <3> QED
      BY <3>1, <3>2 DEF PutOk
  <2>2. CASE r.op # "validate"
    BY <1>3, <1>4, <2>2 DEF AnswerOk, ResultEtag
  <2> QED
    BY <2>1, <2>2
<1>6. t.etag = ResultEtag(p) /\ t.edits = r.edits /\ t.from = r.from /\ DOMAIN t = {"etag", "edits", "from"}
  BY DEF Template
<1>7. template' = [template EXCEPT ![p] = t]
  BY DEF toRemoteConfigTemplate
<1> HIDE DEF t
<1>8. TemplateOk(versions, t)
  BY <1>5, <1>6 DEF TemplateOk
<1>9. /\ DOMAIN template' = Publisher /\ DOMAIN request' = Publisher /\ DOMAIN rcOutcome' = Publisher
      /\ \A q \in Publisher \ {p} :
           template'[q] = template[q] /\ request'[q] = request[q] /\ rcOutcome'[q] = rcOutcome[q]
      /\ template'[p] = t /\ request'[p] = NoRequest /\ rcOutcome'[p] = "ok"
  BY <1>7 DEF toRemoteConfigTemplate, Resolve, RcInv
<1>10. RequestOk(versions', template'[p], request'[p])
  BY <1>9 DEF RequestOk
<1> QED
  BY <1>1, <1>8, <1>9, <1>10, StepOf

----------------------------------------------------------------------------
(* Theorems *)

LEMMA InitInv == RcInit => RcInv
<1> SUFFICES ASSUME RcInit PROVE RcInv
  OBVIOUS
<1>1. versions = <<Version({}, "INCREMENTAL_UPDATE", 0)>> /\ Version({}, "INCREMENTAL_UPDATE", 0) \in VersionSet
  BY VersionMade DEF RcInit, Updates
<1>2. versions \in Seq(VersionSet) /\ DOMAIN versions = {1}
  BY <1>1
<1>3. NoLostUpdate
  BY <1>2 DEF NoLostUpdate
<1> QED
  BY <1>2, <1>3 DEF RcInit, RcInv, TemplateOk, RequestOk, RefusedOnlyIfChanged

LEMMA ByVersionStep ==
  ASSUME RcInv, NEW p \in Publisher, NEW op \in {"get", "rollback"}, ByVersion(p, op)
  PROVE  RcInv'
<1>1. PICK n \in 0..MaxVersions : IF n = 0 THEN Refuse(p) ELSE Send(p, [op |-> op, arg |-> n])
  BY DEF ByVersion
<1>2. n \in Nat
  OBVIOUS
<1> QED
  BY <1>1, <1>2, RefuseStep, SendRead

LEMMA PublisherStep ==
  ASSUME RcInv, NEW p \in Publisher,
         getTemplate(p) \/ getTemplateAtVersion(p) \/ rollback(p) \/ validateTemplate(p) \/ publishTemplate(p)
           \/ listVersions(p)
  PROVE  RcInv'
<1>1. CASE getTemplate(p)
  BY <1>1, SendRead DEF getTemplate
<1>2. CASE getTemplateAtVersion(p)
  BY <1>2, ByVersionStep DEF getTemplateAtVersion
<1>3. CASE rollback(p)
  BY <1>3, ByVersionStep DEF rollback
<1>4. CASE validateTemplate(p)
  <2>1. PICK flaw \in Flaws :
          IF validateInputRemoteConfigTemplate(template[p], flaw)
          THEN Send(p, Put(template[p], template[p].etag, "validate")) ELSE Refuse(p)
    BY <1>4 DEF validateTemplate
  <2>2. CASE validateInputRemoteConfigTemplate(template[p], flaw)
    <3>1. Send(p, Put(template[p], IF "validate" = "force" THEN AnyEtag ELSE template[p].etag, "validate"))
      BY <2>1, <2>2
    <3> QED
      BY <2>2, <3>1, SendPut
  <2> QED
    BY <2>1, <2>2, RefuseStep
<1>5. CASE publishTemplate(p)
  <2>1. PICK options \in {"none", "noforce", "force"}, flaw \in Flaws :
          IF validateInputRemoteConfigTemplate(template[p], flaw)
          THEN Send(p, Put(template[p], IfMatch(template[p], options),
                           IF options = "force" THEN "force" ELSE "publish"))
          ELSE Refuse(p)
    BY <1>5 DEF publishTemplate
  <2>2. CASE validateInputRemoteConfigTemplate(template[p], flaw)
    <3> DEFINE op == IF options = "force" THEN "force" ELSE "publish"
    <3>1. op \in {"validate", "publish", "force"}
      OBVIOUS
    <3>2. Send(p, Put(template[p], IF op = "force" THEN AnyEtag ELSE template[p].etag, op))
      BY <2>1, <2>2 DEF IfMatch
    <3> HIDE DEF op
    <3> QED
      BY <2>2, <3>1, <3>2, SendPut
  <2> QED
    BY <2>1, <2>2, RefuseStep
<1>6. CASE listVersions(p)
  BY <1>6, SendRead, RefuseStep DEF listVersions
<1> QED
  BY <1>1, <1>2, <1>3, <1>4, <1>5, <1>6

LEMMA NextInv == ASSUME RcInv, [RcNext]_rcVars PROVE RcInv'
<1>1. CASE UNCHANGED rcVars
  BY <1>1 DEF rcVars, RcInv, NoLostUpdate, RefusedOnlyIfChanged
<1>2. ASSUME NEW p \in Publisher,
             EditTemplate(p) \/ ServeRc(p) \/ toFirebaseError(p) \/ toRemoteConfigTemplate(p)
               \/ ReturnVersions(p) \/ LoseRcAnswer(p)
      PROVE  RcInv'
  BY <1>2, EditStep, ServeStep, ErrorStep, TemplateStep, ListedStep, LoseStep
<1> QED
  BY <1>1, <1>2, PublisherStep DEF RcNext

LEMMA AlwaysInv == RcSpec => []RcInv
BY InitInv, NextInv, PTL DEF RcSpec

(* However publishers interleave, and however often the SDK repeats a       *)
(* request, an incremental update is made of the version it replaces        *)
(* (publishTemplate() sends the ETag of the template as If-Match).          *)
THEOREM NoUpdateIsLost == RcSpec => []NoLostUpdate
<1>1. RcInv => NoLostUpdate
  BY DEF RcInv
<1> QED
  BY <1>1, AlwaysInv, PTL

(* A publisher that is told of a conflict holds a template of a version     *)
(* that is not the active one (validateTemplate() gives a template back the *)
(* ETag it came with).                                                      *)
THEOREM ConflictsAreReal == RcSpec => []RefusedOnlyIfChanged
<1>1. RcInv => RefusedOnlyIfChanged
  BY DEF RcInv
<1> QED
  BY <1>1, AlwaysInv, PTL

----------------------------------------------------------------------------
(* Security Rules                                                           *)

Releases == {CLOUD_FIRESTORE} \cup {FIREBASE_STORAGE(b) : b \in Bucket}

Operations == {"none", "release", "fromSource", "create", "get", "delete", "list"}
Steps ==
  {"none", "createRuleset", "updateRelease", "createRelease", "getRelease", "getRuleset", "deleteRuleset",
   "listRulesets"}
Phases == {"sent", "answered", "done"}
Statuses == {"none", "OK", "INVALID_ARGUMENT", "NOT_FOUND", "ALREADY_EXISTS", "FAILED_PRECONDITION"}
Outcomes == {"none", "ok", "invalid-argument", "not-found", "unknown-error", "network-error"}

JobType ==
  [op : Operations, release : Releases \cup {<< >>}, ruleset : Nat, source : Source, step : Steps, phase : Phases,
   tries : Nat, status : Statuses, outcome : Outcomes, own : SUBSET Nat, seen : SUBSET Nat]

Releasing(k) == k.step \in {"updateRelease", "createRelease"}

\* The requests a call has under way are of its kind.
StepOfKind(k) ==
  /\ k.outcome = "none"
  /\ k.op = "release" => Releasing(k)
  /\ k.op = "fromSource" => k.release \in Releases /\ (k.step = "createRuleset" \/ Releasing(k))
  /\ k.step = "getRelease" => k.release \in Releases

\* An answer OK to a release means that it has been seen; only a source with a
\* mistake in it is answered as invalid, and no ruleset is made of that.
AnswerMeant(k) ==
  /\ k.status = "OK" /\ Releasing(k) => k.ruleset \in k.seen
  /\ k.status = "INVALID_ARGUMENT" => k.source # "rules"

JobOk(k) ==
  /\ k \in JobType
  /\ k.phase # "done" => StepOfKind(k)
  /\ k.phase = "answered" => AnswerMeant(k)
  /\ k.own # {} => k.source = "rules"
  /\ k.outcome = "ok" /\ k.op \in {"release", "fromSource"} => k.ruleset \in k.seen
  /\ k.outcome = "invalid-argument" => k.own = {}

RulesInv ==
  /\ made \in Nat /\ releases \in [Releases -> Nat]
  /\ DOMAIN job = RulesCaller /\ \A c \in RulesCaller : JobOk(job[c])

LEMMA OneCaller ==
  ASSUME RulesInv, NEW c \in RulesCaller, NEW k, JobOk(k), job' = [job EXCEPT ![c] = k],
         made' \in Nat, releases' \in [Releases -> Nat]
  PROVE  RulesInv'
BY DEF RulesInv

LEMMA BucketsReleases == ASSUME NEW b \in Bucket PROVE FIREBASE_STORAGE(b) \in Releases
BY DEF Releases

LEMMA NamesOfBuckets ==
  ASSUME NEW bucket \in BucketArgument, getBucketName(bucket) # ""
  PROVE  getBucketName(bucket) \in Bucket
BY BucketsAreNames DEF BucketArgument, getBucketName

\* A call that begins.
LEMMA Starts ==
  ASSUME RulesInv, NEW c \in RulesCaller,
         NEW op \in {"none", "release", "fromSource", "create", "get", "delete", "list"},
         NEW release \in Releases \cup {<< >>}, NEW ruleset \in Nat, NEW source \in Source,
         NEW step \in {"none", "createRuleset", "updateRelease", "createRelease", "getRelease", "getRuleset",
                       "deleteRuleset", "listRulesets"},
         NEW refused \in BOOLEAN, Start(c, Job(op, release, ruleset, source), step, refused),
         ~refused => /\ op = "release" => step = "updateRelease"
                     /\ op = "fromSource" => release \in Releases /\ step = "createRuleset"
                     /\ step = "getRelease" => release \in Releases
  PROVE  RulesInv'
<1> DEFINE j == Job(op, release, ruleset, source)
           seen == IF release = << >> THEN {} ELSE {releases[release]}
           k == IF refused THEN [j EXCEPT !.outcome = "invalid-argument"]
                ELSE [j EXCEPT !.step = step, !.phase = "sent", !.seen = seen]
<1>1. job' = [job EXCEPT ![c] = k] /\ made' = made /\ releases' = releases
  BY DEF Start, Job
<1>2. seen \in SUBSET Nat
  BY DEF RulesInv
<1>3. JobOk(k)
  <2> HIDE DEF seen
  <2>1. CASE refused
    BY <2>1 DEF Job, JobOk, JobType, Operations, Steps, Phases, Statuses, Outcomes
  <2>2. CASE ~refused
    BY <1>2, <2>2 DEF Job, JobOk, JobType, Operations, Steps, Phases, Statuses, Outcomes, StepOfKind, Releasing
  <2> QED
    BY <2>1, <2>2
<1> HIDE DEF k
<1> QED
  BY <1>1, <1>3, OneCaller DEF RulesInv

LEMMA RulesCallStep ==
  ASSUME RulesInv, NEW c \in RulesCaller,
         releaseFirestoreRuleset(c) \/ releaseStorageRuleset(c)
           \/ releaseFirestoreRulesetFromSource(c) \/ releaseStorageRulesetFromSource(c)
           \/ createRuleset(c) \/ getFirestoreRuleset(c) \/ getStorageRuleset(c) \/ getRuleset(c)
           \/ deleteRuleset(c) \/ listRulesetMetadata(c)
  PROVE  RulesInv'
<1>0. "" \in Source /\ CLOUD_FIRESTORE \in Releases /\ 0 \in Nat
  BY DEF Source, Releases
<1>1. CASE releaseFirestoreRuleset(c)
  <2>1. PICK r \in RulesetArgument :
          Start(c, Job("release", CLOUD_FIRESTORE, r, ""), "updateRelease", ~IsRulesetName(r))
    BY <1>1 DEF releaseFirestoreRuleset
  <2>2. r \in Nat /\ (~IsRulesetName(r)) \in BOOLEAN
    BY DEF RulesetArgument, IsRulesetName
  <2> QED
    BY <1>0, <2>1, <2>2, Starts
<1>2. CASE releaseStorageRuleset(c)
  <2>1. PICK r \in RulesetArgument, bucket \in BucketArgument :
          IF getBucketName(bucket) = "" THEN Start(c, NoJob, "none", TRUE)
          ELSE Start(c, Job("release", FIREBASE_STORAGE(getBucketName(bucket)), r, ""), "updateRelease", ~IsRulesetName(r))
    BY <1>2 DEF releaseStorageRuleset
  <2>2. r \in Nat /\ (~IsRulesetName(r)) \in BOOLEAN
    BY DEF RulesetArgument, IsRulesetName
  <2>3. CASE getBucketName(bucket) = ""
    BY <1>0, <2>1, <2>3, Starts DEF NoJob
  <2>4. CASE getBucketName(bucket) # ""
    <3>1. FIREBASE_STORAGE(getBucketName(bucket)) \in Releases
      BY <2>4, NamesOfBuckets, BucketsReleases
    <3> QED
      BY <1>0, <2>1, <2>2, <2>4, <3>1, Starts
  <2> QED
    BY <2>3, <2>4
<1>3. CASE releaseFirestoreRulesetFromSource(c)
  <2>1. PICK source \in Source :
          Start(c, Job("fromSource", CLOUD_FIRESTORE, 0, source), "createRuleset", ~createRulesFileFromSource(source))
    BY <1>3 DEF releaseFirestoreRulesetFromSource
  <2>2. (~createRulesFileFromSource(source)) \in BOOLEAN
    BY DEF createRulesFileFromSource
  <2> QED
    BY <1>0, <2>1, <2>2, Starts
<1>4. CASE releaseStorageRulesetFromSource(c)
  <2>1. PICK source \in Source, bucket \in BucketArgument :
          Start(c, Job("fromSource", IF getBucketName(bucket) = "" THEN << >> ELSE FIREBASE_STORAGE(getBucketName(bucket)),
                       0, source), "createRuleset", ~StorageSourceAccepted(bucket, source))
    BY <1>4 DEF releaseStorageRulesetFromSource
  <2> DEFINE release == IF getBucketName(bucket) = "" THEN << >> ELSE FIREBASE_STORAGE(getBucketName(bucket))
  <2>2. (~StorageSourceAccepted(bucket, source)) \in BOOLEAN
    BY DEF StorageSourceAccepted, createRulesFileFromSource
  <2>3. /\ release \in Releases \cup {<< >>}
        /\ StorageSourceAccepted(bucket, source) => release \in Releases
    BY NamesOfBuckets, BucketsReleases DEF StorageSourceAccepted
  <2>4. Start(c, Job("fromSource", release, 0, source), "createRuleset", ~StorageSourceAccepted(bucket, source))
    BY <2>1
  <2> HIDE DEF release
  <2> QED
    BY <1>0, <2>2, <2>3, <2>4, Starts
<1>5. CASE createRuleset(c)
  <2>1. PICK source \in Source :
          Start(c, Job("create", << >>, 0, source), "createRuleset", ~createRulesFileFromSource(source))
    BY <1>5 DEF createRuleset
  <2>2. (~createRulesFileFromSource(source)) \in BOOLEAN
    BY DEF createRulesFileFromSource
  <2> QED
    BY <1>0, <2>1, <2>2, Starts
<1>6. CASE getFirestoreRuleset(c)
  BY <1>0, <1>6, Starts DEF getFirestoreRuleset
<1>7. CASE getStorageRuleset(c)
  <2>1. PICK bucket \in BucketArgument :
          IF getBucketName(bucket) = "" THEN Start(c, NoJob, "none", TRUE)
          ELSE Start(c, Job("get", FIREBASE_STORAGE(getBucketName(bucket)), 0, ""), "getRelease", FALSE)
    BY <1>7 DEF getStorageRuleset
  <2>2. CASE getBucketName(bucket) = ""
    BY <1>0, <2>1, <2>2, Starts DEF NoJob
  <2>3. CASE getBucketName(bucket) # ""
    <3>1. FIREBASE_STORAGE(getBucketName(bucket)) \in Releases
      BY <2>3, NamesOfBuckets, BucketsReleases
    <3> QED
      BY <1>0, <2>1, <2>3, <3>1, Starts
  <2> QED
    BY <2>2, <2>3
<1>8. CASE getRuleset(c) \/ deleteRuleset(c)
  <2>1. PICK r \in RulesetArgument :
          \/ Start(c, Job("get", << >>, r, ""), "getRuleset", ~IsRulesetName(r))
          \/ Start(c, Job("delete", << >>, r, ""), "deleteRuleset", ~IsRulesetName(r))
    BY <1>8 DEF getRuleset, deleteRuleset
  <2>2. r \in Nat /\ (~IsRulesetName(r)) \in BOOLEAN
    BY DEF RulesetArgument, IsRulesetName
  <2> QED
    BY <1>0, <2>1, <2>2, Starts
<1>9. CASE listRulesetMetadata(c)
  <2>1. PICK pageSize \in {0, 1, 100, 101}, pageToken \in {"undefined", "", "token"} :
          Start(c, Job("list", << >>, 0, ""), "listRulesets", pageSize \notin 1..100 \/ pageToken = "")
    BY <1>9 DEF listRulesetMetadata
  <2>2. (pageSize \notin 1..100 \/ pageToken = "") \in BOOLEAN
    OBVIOUS
  <2> QED
    BY <1>0, <2>1, <2>2, Starts
<1> QED
  BY <1>1, <1>2, <1>3, <1>4, <1>5, <1>6, <1>7, <1>8, <1>9

\* An answer that is none of a release.
LEMMA Replies ==
  ASSUME RulesInv, NEW c \in RulesCaller, job[c].phase = "sent", NEW ruleset \in Nat, NEW own \in SUBSET Nat,
         NEW status \in {"OK", "INVALID_ARGUMENT", "NOT_FOUND", "ALREADY_EXISTS", "FAILED_PRECONDITION"},
         job' = [job EXCEPT ![c] =
                   [[job[c] EXCEPT !.ruleset = ruleset, !.own = own] EXCEPT !.phase = "answered", !.status = status]],
         made' \in Nat, releases' = releases,
         own # {} => job[c].source = "rules",
         status = "OK" => ~Releasing(job[c]),
         status = "INVALID_ARGUMENT" => job[c].source # "rules"
  PROVE  RulesInv'
<1> DEFINE k == [[job[c] EXCEPT !.ruleset = ruleset, !.own = own] EXCEPT !.phase = "answered", !.status = status]
<1>1. JobOk(job[c])
  BY DEF RulesInv
<1>2. /\ k \in JobType
      /\ k.op = job[c].op /\ k.release = job[c].release /\ k.source = job[c].source /\ k.step = job[c].step
      /\ k.outcome = job[c].outcome /\ k.phase = "answered" /\ k.status = status /\ k.own = own
  BY <1>1 DEF JobOk, JobType, Phases, Statuses
<1>3. job' = [job EXCEPT ![c] = k] /\ releases' \in [Releases -> Nat]
  BY DEF RulesInv
<1> HIDE DEF k
<1>4. JobOk(k)
  BY <1>1, <1>2 DEF JobOk, StepOfKind, AnswerMeant, Releasing
<1> QED
  BY <1>3, <1>4, OneCaller

LEMMA RulesRefuse ==
  ASSUME RulesInv, NEW c \in RulesCaller, job[c].phase = "sent",
         NEW status \in {"OK", "INVALID_ARGUMENT", "NOT_FOUND", "ALREADY_EXISTS", "FAILED_PRECONDITION"},
         job' = Reply(c, job[c], status), made' = made, releases' = releases,
         status = "OK" => ~Releasing(job[c]),
         status = "INVALID_ARGUMENT" => job[c].source # "rules"
  PROVE  RulesInv'
<1> DEFINE k == [job[c] EXCEPT !.phase = "answered", !.status = status]
<1>1. JobOk(job[c])
  BY DEF RulesInv
<1>2. /\ k \in JobType
      /\ k.op = job[c].op /\ k.release = job[c].release /\ k.source = job[c].source /\ k.step = job[c].step
      /\ k.outcome = job[c].outcome /\ k.phase = "answered" /\ k.status = status /\ k.own = job[c].own
  BY <1>1 DEF JobOk, JobType, Phases, Statuses
<1>3. job' = [job EXCEPT ![c] = k] /\ made' \in Nat /\ releases' \in [Releases -> Nat]
  BY DEF Reply, RulesInv
<1> HIDE DEF k
<1>4. JobOk(k)
  BY <1>1, <1>2 DEF JobOk, StepOfKind, AnswerMeant, Releasing
<1> QED
  BY <1>3, <1>4, OneCaller

\* The release of one call: others that wait for it see its ruleset too.
LEMMA PointStep ==
  ASSUME RulesInv, NEW c \in RulesCaller, job[c].phase = "sent", Releasing(job[c]), Point(c)
  PROVE  RulesInv'
<1> DEFINE j == job[c]
           k(d) == IF d = c THEN [j EXCEPT !.phase = "answered", !.status = "OK"] ELSE job[d]
           m(d) == IF k(d).release = j.release /\ k(d).phase # "done"
                   THEN [k(d) EXCEPT !.seen = @ \cup {j.ruleset}] ELSE k(d)
<1>1. job' = [d \in RulesCaller |-> m(d)] /\ made' = made
  BY DEF Point
<1>2. JobOk(j) /\ j.ruleset \in Nat
  BY DEF RulesInv, JobOk, JobType
<1>3. releases' \in [Releases -> Nat]
  BY <1>2 DEF Point, RulesInv
<1>4. ASSUME NEW d \in RulesCaller
      PROVE  JobOk(m(d))
  <2>1. CASE d = c
    <3> DEFINE seen == j.seen \cup {j.ruleset}
    <3>1. m(d) = [j EXCEPT !.phase = "answered", !.status = "OK", !.seen = seen]
      BY <1>2, <2>1 DEF JobOk, JobType
    <3>2. seen \in SUBSET Nat /\ j.ruleset \in seen
      BY <1>2 DEF JobOk, JobType
    <3> HIDE DEF m, seen
    <3>3. /\ m(d) \in JobType /\ m(d).phase = "answered" /\ m(d).status = "OK" /\ m(d).seen = seen
          /\ m(d).op = j.op /\ m(d).release = j.release /\ m(d).source = j.source /\ m(d).step = j.step
          /\ m(d).outcome = j.outcome /\ m(d).own = j.own /\ m(d).ruleset = j.ruleset
      BY <1>2, <3>1, <3>2 DEF JobOk, JobType, Phases, Statuses
    <3> QED
      BY <1>2, <3>2, <3>3 DEF JobOk, StepOfKind, AnswerMeant, Releasing
  <2>2. CASE d # c
    <3>1. m(d) = job[d] \/ m(d) = [job[d] EXCEPT !.seen = @ \cup {j.ruleset}]
      BY <2>2
    <3>2. JobOk(job[d])
      BY DEF RulesInv
    <3> HIDE DEF m
    <3>3. CASE m(d) = [job[d] EXCEPT !.seen = @ \cup {j.ruleset}]
      <4>1. /\ m(d) \in JobType
            /\ m(d).op = job[d].op /\ m(d).release = job[d].release /\ m(d).source = job[d].source
            /\ m(d).step = job[d].step /\ m(d).outcome = job[d].outcome /\ m(d).phase = job[d].phase
            /\ m(d).status = job[d].status /\ m(d).own = job[d].own /\ m(d).ruleset = job[d].ruleset
            /\ job[d].seen \subseteq m(d).seen
        BY <1>2, <3>2, <3>3 DEF JobOk, JobType
      <4> QED
        BY <3>2, <4>1 DEF JobOk, StepOfKind, AnswerMeant, Releasing
    <3> QED
      BY <3>1, <3>2, <3>3
  <2> QED
    BY <2>1, <2>2
<1> HIDE DEF m
<1>5. made \in Nat
  BY DEF RulesInv
<1> QED
  BY <1>1, <1>3, <1>4, <1>5 DEF RulesInv

LEMMA RulesServeStep == ASSUME RulesInv, NEW c \in RulesCaller, ServeRules(c) PROVE RulesInv'
<1>0. JobOk(job[c]) /\ job[c] \in JobType /\ made \in Nat /\ releases \in [Releases -> Nat]
  BY DEF RulesInv, JobOk
<1>1. CASE ServeCreateRuleset(c)
  <2>1. CASE job[c].source # "rules"
    BY <1>1, <2>1, RulesRefuse DEF ServeCreateRuleset, Asked, Refusing, Releasing
  <2>2. CASE job[c].source = "rules"
    <3> DEFINE n == made + 1
               own == job[c].own \cup {n}
    <3>1. /\ job[c].phase = "sent" /\ ~Releasing(job[c]) /\ releases' = releases /\ made' = n
          /\ job' = Reply(c, [job[c] EXCEPT !.ruleset = n, !.own = own], "OK")
      BY <1>0, <1>1, <2>2 DEF ServeCreateRuleset, Asked, Releasing, JobType
    <3>2. n \in Nat /\ own \in SUBSET Nat
      BY <1>0 DEF JobType
    <3>3. job' = [job EXCEPT ![c] =
                    [[job[c] EXCEPT !.ruleset = n, !.own = own] EXCEPT !.phase = "answered", !.status = "OK"]]
      BY <3>1 DEF Reply
    <3> HIDE DEF n, own
    <3> QED
      BY <2>2, <3>1, <3>2, <3>3, Replies
  <2> QED
    BY <2>1, <2>2
<1>2. CASE ServeUpdateRelease(c) \/ ServeCreateRelease(c)
  <2>1. job[c].phase = "sent" /\ Releasing(job[c])
    BY <1>2 DEF ServeUpdateRelease, ServeCreateRelease, Asked, Releasing
  <2>2. Point(c) \/ Refusing(c, "NOT_FOUND") \/ Refusing(c, "ALREADY_EXISTS")
    BY <1>2 DEF ServeUpdateRelease, ServeCreateRelease
  <2> QED
    BY <2>1, <2>2, PointStep, RulesRefuse DEF Refusing
<1>3. CASE ServeGetRelease(c)
  <2>1. job[c].phase = "sent" /\ ~Releasing(job[c]) /\ job[c].release \in Releases
    BY <1>0, <1>3 DEF ServeGetRelease, Asked, Releasing, JobOk, StepOfKind
  <2>2. CASE releases[job[c].release] = 0
    BY <1>3, <2>1, <2>2, RulesRefuse DEF ServeGetRelease, Refusing
  <2>3. CASE releases[job[c].release] # 0
    <3> DEFINE n == releases[job[c].release]
    <3>1. job' = Reply(c, [job[c] EXCEPT !.ruleset = n], "OK") /\ made' = made /\ releases' = releases
      BY <1>3, <2>3 DEF ServeGetRelease
    <3>2. n \in Nat
      BY <1>0, <2>1
    <3>3. [job[c] EXCEPT !.ruleset = n] = [job[c] EXCEPT !.ruleset = n, !.own = job[c].own]
      BY <1>0 DEF JobType
    <3>4. job[c].own \in SUBSET Nat /\ (job[c].own # {} => job[c].source = "rules")
      BY <1>0 DEF JobType, JobOk
    <3>5. job' = [job EXCEPT ![c] =
                    [[job[c] EXCEPT !.ruleset = n, !.own = job[c].own] EXCEPT !.phase = "answered", !.status = "OK"]]
      BY <3>1, <3>3 DEF Reply
    <3> HIDE DEF n
    <3> QED
      BY <1>0, <2>1, <3>1, <3>2, <3>4, <3>5, Replies
  <2> QED
    BY <2>2, <2>3
<1>4. CASE ServeGetRuleset(c) \/ ServeListRulesets(c)
  <2>1. job[c].phase = "sent" /\ ~Releasing(job[c])
    BY <1>4 DEF ServeGetRuleset, ServeListRulesets, Asked, Releasing
  <2>2. Refusing(c, "OK") \/ Refusing(c, "NOT_FOUND")
    BY <1>4 DEF ServeGetRuleset, ServeListRulesets
  <2> QED
    BY <2>1, <2>2, RulesRefuse DEF Refusing
<1>5. CASE ServeDeleteRuleset(c)
  <2>1. job[c].phase = "sent" /\ ~Releasing(job[c])
    BY <1>5 DEF ServeDeleteRuleset, Asked, Releasing
  <2>2. /\ made' = made /\ releases' = releases
        /\ \E status \in {"OK", "NOT_FOUND", "FAILED_PRECONDITION"} : job' = Reply(c, job[c], status)
    BY <1>5 DEF ServeDeleteRuleset, Refusing
  <2> QED
    BY <2>1, <2>2, RulesRefuse
<1> QED
  BY <1>1, <1>2, <1>3, <1>4, <1>5 DEF ServeRules

LEMMA Codes ==
  ASSUME NEW status \in {"none", "OK", "INVALID_ARGUMENT", "NOT_FOUND", "ALREADY_EXISTS", "FAILED_PRECONDITION"}
  PROVE  /\ CodeOf(status) \in {"invalid-argument", "not-found", "unknown-error"}
         /\ CodeOf(status) = "invalid-argument" => status = "INVALID_ARGUMENT"
BY DEF CodeOf, RulesErrorCode

LEMMA Settles ==
  ASSUME RulesInv, NEW c \in RulesCaller, UNCHANGED <<made, releases>>,
         NEW outcome \in {"ok", "invalid-argument", "not-found", "unknown-error", "network-error"}, Settle(c, outcome),
         outcome = "ok" /\ job[c].op \in {"release", "fromSource"} => job[c].ruleset \in job[c].seen,
         outcome = "invalid-argument" => job[c].own = {}
  PROVE  RulesInv'
<1> DEFINE k == [job[c] EXCEPT !.phase = "done", !.outcome = outcome]
<1>1. JobOk(job[c])
  BY DEF RulesInv
<1>2. /\ k \in JobType
      /\ k.op = job[c].op /\ k.source = job[c].source /\ k.ruleset = job[c].ruleset
      /\ k.own = job[c].own /\ k.seen = job[c].seen /\ k.phase = "done" /\ k.outcome = outcome
  BY <1>1 DEF JobOk, JobType, Phases, Outcomes
<1>3. job' = [job EXCEPT ![c] = k] /\ made' \in Nat /\ releases' \in [Releases -> Nat]
  BY DEF Settle, RulesInv
<1> HIDE DEF k
<1>4. JobOk(k)
  BY <1>1, <1>2 DEF JobOk
<1> QED
  BY <1>3, <1>4, OneCaller

LEMMA Proceeds ==
  ASSUME RulesInv, NEW c \in RulesCaller, UNCHANGED <<made, releases>>, job[c].phase = "answered",
         NEW step \in {"updateRelease", "createRelease", "getRuleset"}, Proceed(c, step),
         step = "getRuleset" => job[c].op \notin {"release", "fromSource"}
  PROVE  RulesInv'
<1> DEFINE k == [job[c] EXCEPT !.phase = "sent", !.step = step, !.tries = 0]
<1>1. JobOk(job[c])
  BY DEF RulesInv
<1>2. /\ k \in JobType
      /\ k.op = job[c].op /\ k.release = job[c].release /\ k.source = job[c].source /\ k.own = job[c].own
      /\ k.phase = "sent" /\ k.step = step /\ k.outcome = job[c].outcome
  BY <1>1 DEF JobOk, JobType, Phases, Steps
<1>3. job' = [job EXCEPT ![c] = k] /\ made' \in Nat /\ releases' \in [Releases -> Nat]
  BY DEF Proceed, RulesInv
<1> HIDE DEF k
<1>4. JobOk(k)
  BY <1>1, <1>2 DEF JobOk, StepOfKind, Releasing
<1> QED
  BY <1>3, <1>4, OneCaller

LEMMA AnsweredStep == ASSUME RulesInv, NEW c \in RulesCaller, RulesAnswered(c) PROVE RulesInv'
<1> DEFINE j == job[c]
<1>0. /\ JobOk(j) /\ j \in JobType /\ j.phase = "answered" /\ StepOfKind(j) /\ AnswerMeant(j)
      /\ UNCHANGED <<made, releases>>
  BY DEF RulesInv, JobOk, RulesAnswered
<1>1. CASE j.status = "OK"
  <2>1. CASE j.op = "fromSource" /\ j.step = "createRuleset"
    <3>1. j.release # << >>
      <4>1. ASSUME NEW r \in Releases PROVE r # << >>
        BY <4>1 DEF Releases, CLOUD_FIRESTORE, FIREBASE_STORAGE
      <4> QED
        BY <1>0, <2>1, <4>1 DEF StepOfKind
    <3>2. Proceed(c, "updateRelease")
      BY <1>1, <2>1, <3>1 DEF RulesAnswered, ReleaseMade
    <3> QED
      BY <1>0, <3>2, Proceeds
  <2>2. CASE ~(j.op = "fromSource" /\ j.step = "createRuleset") /\ j.step = "getRelease"
    <3>1. Proceed(c, "getRuleset")
      BY <1>1, <2>2 DEF RulesAnswered
    <3>2. j.op \notin {"release", "fromSource"}
      BY <1>0, <2>2 DEF StepOfKind, Releasing
    <3> QED
      BY <1>0, <3>1, <3>2, Proceeds
  <2>3. CASE ~(j.op = "fromSource" /\ j.step = "createRuleset") /\ j.step # "getRelease"
    <3>1. Settle(c, "ok")
      BY <1>1, <2>3 DEF RulesAnswered
    <3>2. j.op \in {"release", "fromSource"} => j.ruleset \in j.seen
      BY <1>0, <1>1, <2>3 DEF StepOfKind, AnswerMeant
    <3> QED
      BY <1>0, <3>1, <3>2, Settles
  <2> QED
    BY <2>1, <2>2, <2>3
<1>2. CASE j.status # "OK"
  <2>1. CASE j.step = "updateRelease" /\ j.status = "NOT_FOUND"
    <3>1. Proceed(c, "createRelease")
      BY <1>2, <2>1 DEF RulesAnswered, updateOrCreateRelease
    <3> QED
      BY <1>0, <3>1, Proceeds
  <2>2. CASE ~(j.step = "updateRelease" /\ j.status = "NOT_FOUND")
    <3>1. Settle(c, CodeOf(j.status))
      BY <1>2, <2>2 DEF RulesAnswered, updateOrCreateRelease
    <3>2. /\ CodeOf(j.status) \in {"invalid-argument", "not-found", "unknown-error"}
          /\ CodeOf(j.status) = "invalid-argument" => j.own = {}
      BY <1>0, Codes DEF JobType, JobOk, Statuses, AnswerMeant
    <3> QED
      BY <1>0, <3>1, <3>2, Settles
  <2> QED
    BY <2>1, <2>2
<1> QED
  BY <1>1, <1>2

LEMMA LostStep == ASSUME RulesInv, NEW c \in RulesCaller, RulesAnswerLost(c) PROVE RulesInv'
<1>0. JobOk(job[c]) /\ job[c].phase = "answered" /\ UNCHANGED <<made, releases>>
  BY DEF RulesInv, RulesAnswerLost
<1>3. made' \in Nat /\ releases' \in [Releases -> Nat]
  BY <1>0 DEF RulesInv
<1>1. CASE job[c].tries < MaxRulesRetries
  <2> DEFINE n == job[c].tries + 1
             k == [job[c] EXCEPT !.phase = "sent", !.tries = n]
  <2>1. job' = [job EXCEPT ![c] = k]
    BY <1>1 DEF RulesAnswerLost, RulesInv
  <2>2. n \in Nat
    BY <1>0 DEF JobOk, JobType
  <2> HIDE DEF n
  <2>3. /\ k \in JobType
        /\ k.op = job[c].op /\ k.release = job[c].release /\ k.source = job[c].source /\ k.own = job[c].own
        /\ k.phase = "sent" /\ k.step = job[c].step /\ k.outcome = job[c].outcome
    BY <1>0, <2>2 DEF JobOk, JobType, Phases
  <2> HIDE DEF k
  <2>4. JobOk(k)
    BY <1>0, <2>3 DEF JobOk, StepOfKind, Releasing
  <2> QED
    BY <1>3, <2>1, <2>4, OneCaller
<1>2. CASE ~(job[c].tries < MaxRulesRetries)
  <2> DEFINE k == [job[c] EXCEPT !.phase = "done", !.outcome = "network-error"]
  <2>1. /\ k \in JobType
        /\ k.source = job[c].source /\ k.own = job[c].own /\ k.phase = "done" /\ k.outcome = "network-error"
    BY <1>0 DEF JobOk, JobType, Phases, Outcomes
  <2>2. job' = [job EXCEPT ![c] = k]
    BY <1>2 DEF RulesAnswerLost
  <2> HIDE DEF k
  <2>3. JobOk(k)
    BY <1>0, <2>1 DEF JobOk, StepOfKind, Releasing
  <2> QED
    BY <1>3, <2>2, <2>3, OneCaller
<1> QED
  BY <1>1, <1>2

LEMMA RulesInitInv == RulesInit => RulesInv
<1> SUFFICES ASSUME RulesInit PROVE RulesInv
  OBVIOUS
<1>1. JobOk(NoJob)
  BY DEF NoJob, Job, JobOk, JobType, Operations, Steps, Phases, Statuses, Outcomes, Source
<1> QED
  BY <1>1 DEF RulesInit, RulesInv, Releases

LEMMA RulesNextInv == ASSUME RulesInv, [RulesNext]_rulesVars PROVE RulesInv'
<1>1. CASE UNCHANGED rulesVars
  BY <1>1 DEF rulesVars, RulesInv
<1>2. ASSUME NEW c \in RulesCaller, ServeRules(c) \/ RulesAnswered(c) \/ RulesAnswerLost(c)
      PROVE  RulesInv'
  BY <1>2, RulesServeStep, AnsweredStep, LostStep
<1> QED
  BY <1>1, <1>2, RulesCallStep DEF RulesNext

LEMMA AlwaysRulesInv == RulesSpec => []RulesInv
BY RulesInitInv, RulesNextInv, PTL DEF RulesSpec

(* Whoever else releases, creates or deletes, and whichever answers are     *)
(* lost, a call that resolved had its ruleset in force                      *)
(* (updateOrCreateRelease()).                                               *)
THEOREM ReleasesAreInForce == RulesSpec => []ResolvedIsReleased
<1>1. RulesInv => ResolvedIsReleased
  BY DEF RulesInv, JobOk, ResolvedIsReleased
<1> QED
  BY <1>1, AlwaysRulesInv, PTL

(* A call that is refused for its arguments made no ruleset, also when the  *)
(* backend is the one that refuses (releaseStorageRulesetFromSource() looks *)
(* at the bucket first).                                                    *)
THEOREM RefusalsLeaveNothing == RulesSpec => []RefusedLeavesNothing
<1>1. RulesInv => RefusedLeavesNothing
  BY DEF RulesInv, JobOk, RefusedLeavesNothing
<1> QED
  BY <1>1, AlwaysRulesInv, PTL
-----------------------------------------------------------------------------
(* The server template of Remote Config                                     *)

\* Versions grow: what is answered is no older than what was active when it was
\* asked for, and the ETag a client holds is that of its config.
LoadOk(call, last) ==
  \/ call.phase = "none"
  \/ call.phase = "sent" /\ call.asked \in Nat /\ call.asked <= last
  \/ call.phase = "answered" /\ call.asked \in Nat /\ call.version \in Nat /\ call.asked <= call.version

FetchedOk(f) ==
  /\ DOMAIN f = {"status", "etag", "config", "meant"}
  /\ \/ f.etag = << >> /\ f.config = f.meant
     \/ f.etag = <<Hash(f.config)>> /\ Hash(f.config) = Hash(f.meant)

TemplateInv ==
  /\ active \in Nat
  /\ DOMAIN loads = Load
  /\ \A l \in Load : LoadOk(loads[l], active)
  /\ LoadIsFresh
  /\ FetchedOk(fetched)

LEMMA FetchStep ==
  ASSUME FetchedOk(fetched), RemoteConfigFetchResponse
  PROVE  FetchedOk(fetched')
<1> DEFINE config == Texts(evaluated[1].answer.values)
           etag == processEtag(config)
           same == [fetched EXCEPT !.status = 304, !.meant = config]
           new == [status |-> 200, etag |-> <<etag>>, config |-> config, meant |-> config]
<1>1. \/ fetched' = same /\ <<etag>> = fetched.etag
      \/ fetched' = new
  BY DEF RemoteConfigFetchResponse
<1>2. etag = Hash(config)
  BY DEF processEtag
<1> HIDE DEF config, etag
<1>3. FetchedOk(new)
  BY <1>2 DEF FetchedOk
<1>4. ASSUME <<etag>> = fetched.etag
      PROVE  FetchedOk(same)
  <2>1. /\ DOMAIN same = {"status", "etag", "config", "meant"}
        /\ same.etag = fetched.etag /\ same.config = fetched.config /\ same.meant = config
    BY DEF FetchedOk
  <2>2. fetched.etag = <<Hash(fetched.config)>>
    BY <1>4 DEF FetchedOk
  <2>3. Hash(fetched.config) = etag
    BY <1>4, <2>2
  <2> QED
    BY <1>2, <2>1, <2>2, <2>3 DEF FetchedOk
<1> HIDE DEF same, new
<1> QED
  BY <1>1, <1>3, <1>4

\* The step of one load: the others stay as they are.
LEMMA OneLoad ==
  ASSUME TemplateInv, NEW l \in Load, NEW call, loads' = [loads EXCEPT ![l] = call],
         active' = active, LoadOk(call, active)
  PROVE  DOMAIN loads' = Load /\ \A k \in Load : LoadOk(loads'[k], active')
BY DEF TemplateInv

LEMMA LoadStep ==
  ASSUME TemplateInv, NEW l \in Load, load(l) \/ ServeLoad(l) \/ LoadResolved(l) \/ LoadRejected(l)
  PROVE  TemplateInv'
<1> DEFINE called == [phase |-> "sent", asked |-> active]
           answered == [phase |-> "answered", asked |-> loads[l].asked, version |-> active, data |-> Published[active]]
<1>1. active \in Nat /\ LoadOk(loads[l], active) /\ LoadOk(NoLoad, active) /\ LoadOk(called, active)
  BY DEF TemplateInv, LoadOk, NoLoad
<1>2. active' = active /\ fetched' = fetched
  BY DEF load, ServeLoad, LoadResolved, LoadRejected
<1>3. CASE load(l)
  <2>1. loads' = [loads EXCEPT ![l] = called] /\ cache' = cache
    BY <1>3 DEF load
  <2> HIDE DEF called
  <2> QED
    BY <1>1, <1>2, <2>1, OneLoad DEF TemplateInv, LoadIsFresh
<1>4. CASE ServeLoad(l)
  <2>1. loads' = [loads EXCEPT ![l] = answered] /\ cache' = cache
    BY <1>4 DEF ServeLoad, TemplateInv
  <2>2. LoadOk(answered, active)
    BY <1>1, <1>4 DEF ServeLoad, LoadOk
  <2> HIDE DEF answered
  <2> QED
    BY <1>1, <1>2, <2>1, <2>2, OneLoad DEF TemplateInv, LoadIsFresh
<1>5. CASE LoadResolved(l)
  <2>1. loads' = [loads EXCEPT ![l] = NoLoad]
    BY <1>5 DEF LoadResolved
  <2>2. LoadIsFresh'
    BY <1>1, <1>5 DEF LoadResolved, LoadIsFresh, Cached, LoadOk
  <2> QED
    BY <1>1, <1>2, <2>1, <2>2, OneLoad DEF TemplateInv
<1>6. CASE LoadRejected(l)
  <2>1. loads' = [loads EXCEPT ![l] = NoLoad] /\ cache' = cache
    BY <1>6 DEF LoadRejected
  <2> QED
    BY <1>1, <1>2, <2>1, OneLoad DEF TemplateInv, LoadIsFresh
<1> QED
  BY <1>3, <1>4, <1>5, <1>6

LEMMA TemplateNextInv ==
  ASSUME TemplateInv, [TemplateNext]_templateVars
  PROVE  TemplateInv'
<1>1. CASE UNCHANGED templateVars
  BY <1>1 DEF templateVars, TemplateInv, LoadIsFresh
<1>2. CASE initServerTemplate \/ setServerTemplate
  <2>1. active' = active /\ loads' = loads /\ fetched' = fetched
    BY <1>2 DEF initServerTemplate, setServerTemplate
  <2>2. cache' = cache \/ \E t : cache' = Cached(t, 0, 0)
    BY <1>2 DEF initServerTemplate, setServerTemplate
  <2>3. LoadIsFresh'
    BY <2>2 DEF TemplateInv, LoadIsFresh, Cached
  <2> QED
    BY <2>1, <2>3 DEF TemplateInv
<1>3. CASE evaluate
  BY <1>3 DEF evaluate, TemplateInv, LoadIsFresh
<1>4. CASE RemoteConfigFetchResponse
  <2>1. active' = active /\ loads' = loads /\ cache' = cache
    BY <1>4 DEF RemoteConfigFetchResponse
  <2> QED
    BY <1>4, <2>1, FetchStep DEF TemplateInv, LoadIsFresh
<1>5. CASE PublishServerTemplate
  <2>1. active' = active + 1 /\ loads' = loads /\ cache' = cache /\ fetched' = fetched
    BY <1>5 DEF PublishServerTemplate
  <2>2. \A l \in Load : LoadOk(loads[l], active + 1)
    BY DEF TemplateInv, LoadOk
  <2> QED
    BY <2>1, <2>2 DEF TemplateInv, LoadIsFresh
<1>6. ASSUME NEW l \in Load, load(l) \/ ServeLoad(l) \/ LoadResolved(l) \/ LoadRejected(l)
      PROVE  TemplateInv'
  BY <1>6, LoadStep
<1> QED
  BY <1>1, <1>2, <1>3, <1>4, <1>5, <1>6 DEF TemplateNext

LEMMA AlwaysTemplateInv == TemplateSpec => []TemplateInv
<1>1. TemplateInit => TemplateInv
  BY DEF TemplateInit, TemplateInv, LoadOk, NoLoad, LoadIsFresh, FetchedOk
<1>2. TemplateInv /\ [TemplateNext]_templateVars => TemplateInv'
  BY TemplateNextInv
<1> QED
  BY <1>1, <1>2, PTL DEF TemplateSpec

\* However loads overlap, with each other and with versions that are published,
\* none leaves a template older than the one active when it was called.
THEOREM LoadsAreFresh == TemplateSpec => []LoadIsFresh
<1>1. TemplateInv => LoadIsFresh
  BY DEF TemplateInv
<1> QED
  BY <1>1, AlwaysTemplateInv, PTL

\* A client is told that its config is unchanged when it is another only where
\* the hashes of the two collide: no assumption is made about Hash.
THEOREM OnlyCollisionsMislead == TemplateSpec => []OnlyCollisionsMisleadClients
<1>1. TemplateInv => OnlyCollisionsMisleadClients
  BY DEF TemplateInv, FetchedOk, OnlyCollisionsMisleadClients
<1> QED
  BY <1>1, AlwaysTemplateInv, PTL
-----------------------------------------------------------------------------
(* Remote Config: the conditions of a server template and what they mean    *)

\* Every set of numbers has a least one.
LEMMA LeastNumber ==
  ASSUME NEW T \in SUBSET Nat, T # {}
  PROVE  \E x \in T : \A y \in T : x <= y
<1> DEFINE D == {0..n : n \in T}
           R == StrictSubsetOrdering(Nat)
<1>1. IsWellFoundedOn(R, FiniteSubsetsOf(Nat))
  BY FS_StrictSubsetOrderingWellFounded
<1>2. \A n \in T : 0..n \in FiniteSubsetsOf(Nat)
  BY FS_Interval DEF FiniteSubsetsOf
<1>3. PICK d \in D : \A e \in D : ~(<<e, d>> \in R)
  <2>1. D \subseteq FiniteSubsetsOf(Nat) /\ D # {}
    BY <1>2
  <2> HIDE DEF D, R
  <2> QED
    BY <1>1, <2>1, WFMin
<1>4. PICK x \in T : d = 0..x
  BY <1>3
<1>5. ASSUME NEW y \in T, y < x
      PROVE  FALSE
  <2>1. 0..y \in SUBSET Nat /\ 0..x \in SUBSET Nat /\ 0..y \subseteq 0..x /\ 0..y # 0..x
    BY <1>5
  <2>2. <<0..y, d>> \in R
    BY <1>4, <2>1 DEF StrictSubsetOrdering
  <2> QED
    BY <1>3, <2>2
<1> QED
  BY <1>5

\* Of a condition that has no list, or is too deep, nothing is asked of members.
LEMMA MembersAskedOnlyOfLists ==
  ASSUME NEW d, NEW context, NEW level, NEW m1, NEW m2,
         level >= MaxDepth \/ d.kind \notin {"or", "and"}
  PROVE  ConditionAt(d, context, level, m1) = ConditionAt(d, context, level, m2)
BY DEF ConditionAt

Levels == Condition \X Nat

MembersAt(f, d, level) == [i \in DOMAIN d.conditions |-> f[<<d.conditions[i], level>>]]

EvaluationAt(context) ==
  CHOOSE at : at = [p \in Levels |-> ConditionAt(p[1], context, p[2], MembersAt(at, p[1], p[2] + 2))]

\* And of one that has a list, only what becomes of its members.
LEMMA SameMembers ==
  ASSUME NEW d \in Condition, NEW context, NEW level \in Nat, NEW f, NEW g,
         level < MaxDepth => \A e \in Condition : f[<<e, level + 2>>] = g[<<e, level + 2>>]
  PROVE  ConditionAt(d, context, level, MembersAt(f, d, level + 2)) = ConditionAt(d, context, level, MembersAt(g, d, level + 2))
<1>1. CASE level < MaxDepth /\ d.kind \in {"or", "and"}
  <2>1. \A i \in DOMAIN d.conditions : d.conditions[i] \in Condition
    BY <1>1, ConditionsAssumption DEF ConditionsAssumption
  <2>2. MembersAt(f, d, level + 2) = MembersAt(g, d, level + 2)
    BY <1>1, <2>1 DEF MembersAt
  <2> QED
    BY <2>2
<1>2. CASE level >= MaxDepth \/ d.kind \notin {"or", "and"}
  BY <1>2, MembersAskedOnlyOfLists
<1> QED
  BY <1>1, <1>2, ConditionsAssumption DEF ConditionsAssumption

\* There is a function of the conditions and the levels that evaluateCondition
\* describes: what is too deep fails, and the levels below are found from it.
LEMMA EvaluationExists ==
  ASSUME NEW context
  PROVE  EvaluationAt(context) =
           [p \in Levels |-> ConditionAt(p[1], context, p[2], MembersAt(EvaluationAt(context), p[1], p[2] + 2))]
<1> DEFINE Down(f, n) == f = [p \in Levels |-> IF p[2] + n >= MaxDepth
                                THEN ConditionAt(p[1], context, p[2], MembersAt(f, p[1], p[2] + 2)) ELSE "fails"]
           Open == {n \in Nat : ~ \E f : Down(f, n)}
<1>0. MaxDepth \in Nat
  BY ConditionsAssumption DEF ConditionsAssumption
<1>1. ASSUME NEW n \in Open, \A m \in Open : n <= m
      PROVE  FALSE
  <2>1. CASE n = 0
    <3> DEFINE f == [p \in Levels |-> "fails"]
    <3>1. ASSUME NEW p \in Levels
          PROVE  f[p] = IF p[2] + n >= MaxDepth
                        THEN ConditionAt(p[1], context, p[2], MembersAt(f, p[1], p[2] + 2)) ELSE "fails"
      <4>1. p[2] \in Nat
        BY DEF Levels
      <4> QED
        BY <1>0, <2>1, <4>1 DEF ConditionAt
    <3>2. Down(f, n)
      BY <3>1
    <3> QED
      BY <3>2
  <2>2. CASE n # 0
    <3>1. PICK f : Down(f, n - 1)
      BY <1>1, <2>2
    <3> DEFINE Next1(p) == IF p[2] + n >= MaxDepth
                           THEN ConditionAt(p[1], context, p[2], MembersAt(f, p[1], p[2] + 2)) ELSE "fails"
               g == [p \in Levels |-> Next1(p)]
    <3>2. ASSUME NEW e \in Condition, NEW level \in Nat, level + n > MaxDepth
          PROVE  f[<<e, level>>] = g[<<e, level>>]
      <4>1. <<e, level>> \in Levels /\ <<e, level>>[1] = e /\ <<e, level>>[2] = level
        BY DEF Levels
      <4>2. f[<<e, level>>] = ConditionAt(e, context, level, MembersAt(f, e, level + 2))
        <5>1. level + (n - 1) >= MaxDepth
          BY <1>0, <2>2, <3>2
        <5> QED
          BY <3>1, <4>1, <5>1
      <4>3. g[<<e, level>>] = ConditionAt(e, context, level, MembersAt(f, e, level + 2))
        BY <1>0, <3>2, <4>1
      <4> QED
        BY <4>2, <4>3
    <3> HIDE DEF g
    <3>3. ASSUME NEW p \in Levels
          PROVE  Next1(p) = IF p[2] + n >= MaxDepth
                            THEN ConditionAt(p[1], context, p[2], MembersAt(g, p[1], p[2] + 2)) ELSE "fails"
      <4>1. p[1] \in Condition /\ p[2] \in Nat
        BY DEF Levels
      <4>2. CASE p[2] + n >= MaxDepth
        <5>1. \A e \in Condition : f[<<e, p[2] + 2>>] = g[<<e, p[2] + 2>>]
          BY <1>0, <3>2, <4>1, <4>2
        <5> QED
          BY <4>1, <4>2, <5>1, SameMembers
      <4> QED
        BY <4>2
    <3>4. g = [p \in Levels |-> IF p[2] + n >= MaxDepth
                                THEN ConditionAt(p[1], context, p[2], MembersAt(g, p[1], p[2] + 2)) ELSE "fails"]
      <4>1. g = [p \in Levels |-> Next1(p)]
        BY DEF g
      <4> HIDE DEF Next1
      <4> QED
        BY <3>3, <4>1
    <3> QED
      BY <3>4
  <2> QED
    BY <2>1, <2>2
<1>2. Open = {}
  BY <1>1, LeastNumber
<1>3. PICK f : Down(f, MaxDepth)
  BY <1>0, <1>2
<1>4. f = [p \in Levels |-> ConditionAt(p[1], context, p[2], MembersAt(f, p[1], p[2] + 2))]
  <2>1. \A p \in Levels : p[2] + MaxDepth >= MaxDepth
    BY <1>0 DEF Levels
  <2> QED
    BY <1>3, <2>1
<1> QED
  BY <1>4 DEF EvaluationAt

\* So a condition is evaluated from what its members are evaluated to.
LEMMA EvaluationIs ==
  ASSUME NEW c \in Condition, NEW context, NEW level \in Nat
  PROVE  evaluateCondition(c, context, level) =
           ConditionAt(c, context, level, [i \in DOMAIN c.conditions |-> evaluateCondition(c.conditions[i], context, level + 2)])
<1>1. ASSUME NEW d, NEW n
      PROVE  evaluateCondition(d, context, n) = EvaluationAt(context)[<<d, n>>]
  BY DEF evaluateCondition, EvaluationAt, Levels, MembersAt
<1>2. <<c, level>> \in Levels
  BY DEF Levels
<1>3. EvaluationAt(context)[<<c, level>>] = ConditionAt(c, context, level, MembersAt(EvaluationAt(context), c, level + 2))
  BY <1>2, EvaluationExists
<1>4. MembersAt(EvaluationAt(context), c, level + 2) =
        [i \in DOMAIN c.conditions |-> evaluateCondition(c.conditions[i], context, level + 2)]
  BY <1>1 DEF MembersAt
<1> QED
  BY <1>1, <1>3, <1>4

\* What a condition says is found from what those in its list say, too.
LEMMA MeaningOfMembersOnly ==
  ASSUME NEW d, NEW context, NEW m1, NEW m2, d.kind \notin {"or", "and"}
  PROVE  MeansWith(d, context, m1) = MeansWith(d, context, m2)
BY DEF MeansWith

Depths(lists) == Condition \X (0..(lists + 1))

MeaningAt(context, lists) ==
  CHOOSE within : within = [p \in Depths(lists) |-> p[2] > 0 /\ MeansWith(p[1], context, MembersAt(within, p[1], p[2] - 1))]

LEMMA SameMeaning ==
  ASSUME NEW d \in Condition, NEW context, NEW n \in Nat, NEW f, NEW g,
         \A e \in Condition : f[<<e, n>>] = g[<<e, n>>]
  PROVE  MeansWith(d, context, MembersAt(f, d, n)) = MeansWith(d, context, MembersAt(g, d, n))
<1>1. CASE d.kind \in {"or", "and"}
  <2>1. \A i \in DOMAIN d.conditions : d.conditions[i] \in Condition
    BY <1>1, ConditionsAssumption DEF ConditionsAssumption
  <2>2. MembersAt(f, d, n) = MembersAt(g, d, n)
    BY <1>1, <2>1 DEF MembersAt
  <2> QED
    BY <2>2
<1>2. CASE d.kind \notin {"or", "and"}
  BY <1>2, MeaningOfMembersOnly
<1> QED
  BY <1>1, <1>2

LEMMA MeaningExists ==
  ASSUME NEW context, NEW lists \in Nat
  PROVE  MeaningAt(context, lists) =
           [p \in Depths(lists) |-> p[2] > 0 /\ MeansWith(p[1], context, MembersAt(MeaningAt(context, lists), p[1], p[2] - 1))]
<1> DEFINE Up(f, n) == f = [p \in Depths(lists) |-> p[2] > 0 /\ p[2] <= n /\ MeansWith(p[1], context, MembersAt(f, p[1], p[2] - 1))]
           Open == {n \in Nat : ~ \E f : Up(f, n)}
<1>1. ASSUME NEW n \in Open, \A m \in Open : n <= m
      PROVE  FALSE
  <2>1. CASE n = 0
    <3> DEFINE f == [p \in Depths(lists) |-> FALSE]
    <3>1. ASSUME NEW p \in Depths(lists)
          PROVE  (p[2] > 0 /\ p[2] <= n /\ MeansWith(p[1], context, MembersAt(f, p[1], p[2] - 1))) = FALSE
      <4>1. p[2] \in Nat
        BY DEF Depths
      <4>2. ~(p[2] > 0 /\ p[2] <= n)
        BY <2>1, <4>1
      <4> HIDE DEF f
      <4> QED
        BY <4>2
    <3>2. Up(f, n)
      BY <3>1
    <3> QED
      BY <3>2
  <2>2. CASE n # 0
    <3>1. PICK f : Up(f, n - 1)
      BY <1>1, <2>2
    <3> DEFINE Next1(p) == p[2] > 0 /\ p[2] <= n /\ MeansWith(p[1], context, MembersAt(f, p[1], p[2] - 1))
               g == [p \in Depths(lists) |-> Next1(p)]
    <3>2. ASSUME NEW e \in Condition, NEW m \in 0..(lists + 1), m < n
          PROVE  f[<<e, m>>] = g[<<e, m>>]
      <4>1. <<e, m>> \in Depths(lists) /\ <<e, m>>[1] = e /\ <<e, m>>[2] = m
        BY DEF Depths
      <4>2. f[<<e, m>>] = (m > 0 /\ m <= n - 1 /\ MeansWith(e, context, MembersAt(f, e, m - 1)))
        BY <3>1, <4>1, Zenon
      <4>3. g[<<e, m>>] = (m > 0 /\ m <= n /\ MeansWith(e, context, MembersAt(f, e, m - 1)))
        BY <4>1, Zenon
      <4>4. m <= n - 1 /\ m <= n
        BY <3>2
      <4> HIDE DEF g
      <4> QED
        <5>1. CASE m > 0 /\ MeansWith(e, context, MembersAt(f, e, m - 1))
          BY <4>2, <4>3, <4>4, <5>1, Zenon
        <5>2. CASE ~(m > 0 /\ MeansWith(e, context, MembersAt(f, e, m - 1)))
          BY <4>2, <4>3, <5>2, Zenon
        <5> QED
          BY <5>1, <5>2
    <3> HIDE DEF g
    <3>3. ASSUME NEW p \in Depths(lists)
          PROVE  Next1(p) = (p[2] > 0 /\ p[2] <= n /\ MeansWith(p[1], context, MembersAt(g, p[1], p[2] - 1)))
      <4>1. p[1] \in Condition /\ p[2] \in 0..(lists + 1)
        BY DEF Depths
      <4>2. CASE p[2] > 0 /\ p[2] <= n
        <5>1. p[2] - 1 \in 0..(lists + 1) /\ p[2] - 1 < n /\ p[2] - 1 \in Nat
          BY <4>1, <4>2
        <5>2. \A e \in Condition : f[<<e, p[2] - 1>>] = g[<<e, p[2] - 1>>]
          BY <3>2, <5>1
        <5>3. MeansWith(p[1], context, MembersAt(f, p[1], p[2] - 1)) = MeansWith(p[1], context, MembersAt(g, p[1], p[2] - 1))
          BY <4>1, <5>1, <5>2, SameMeaning
        <5> QED
          BY <5>3, Zenon
      <4>3. CASE ~(p[2] > 0 /\ p[2] <= n)
        BY <4>3, Zenon
      <4> QED
        BY <4>2, <4>3
    <3>4. g = [p \in Depths(lists) |-> p[2] > 0 /\ p[2] <= n /\ MeansWith(p[1], context, MembersAt(g, p[1], p[2] - 1))]
      <4>1. g = [p \in Depths(lists) |-> Next1(p)]
        BY DEF g
      <4> HIDE DEF Next1
      <4> QED
        BY <3>3, <4>1
    <3> QED
      BY <3>4
  <2> QED
    BY <2>1, <2>2
<1>2. Open = {}
  BY <1>1, LeastNumber
<1>3. PICK f : Up(f, lists + 1)
  <2>1. lists + 1 \in Nat
    OBVIOUS
  <2> HIDE DEF Up
  <2> QED
    BY <1>2, <2>1
<1>4. f = [p \in Depths(lists) |-> p[2] > 0 /\ MeansWith(p[1], context, MembersAt(f, p[1], p[2] - 1))]
  <2>1. ASSUME NEW p \in Depths(lists)
        PROVE  (p[2] > 0 /\ p[2] <= lists + 1 /\ MeansWith(p[1], context, MembersAt(f, p[1], p[2] - 1)))
                = (p[2] > 0 /\ MeansWith(p[1], context, MembersAt(f, p[1], p[2] - 1)))
    <3>1. p[2] <= lists + 1
      BY DEF Depths
    <3> QED
      BY <3>1, Zenon
  <2> QED
    BY <1>3, <2>1
<1> QED
  BY <1>4 DEF MeaningAt

\* What the conditions say to all those depths is one function.
LEMMA MeansIs ==
  ASSUME NEW c \in Condition, NEW context, NEW lists \in Nat
  PROVE  Means(c, context, lists) = MeaningAt(context, lists)[<<c, lists + 1>>]
BY DEF Means, MeaningAt, Depths, MembersAt

LEMMA MeaningStep ==
  ASSUME NEW c \in Condition, NEW context, NEW lists \in Nat, NEW n \in 0..(lists + 1)
  PROVE  MeaningAt(context, lists)[<<c, n>>]
           = (n > 0 /\ MeansWith(c, context, MembersAt(MeaningAt(context, lists), c, n - 1)))
<1>1. <<c, n>> \in Depths(lists) /\ <<c, n>>[1] = c /\ <<c, n>>[2] = n
  BY DEF Depths
<1> DEFINE all == MeaningAt(context, lists)
<1>2. all = [p \in Depths(lists) |-> p[2] > 0 /\ MeansWith(p[1], context, MembersAt(all, p[1], p[2] - 1))]
  BY MeaningExists, Zenon
<1> HIDE DEF all
<1>3. all[<<c, n>>] = (n > 0 /\ MeansWith(c, context, MembersAt(all, c, n - 1)))
  BY <1>1, <1>2, Zenon
<1> QED
  BY <1>3 DEF all

LEMMA MinIsLeast ==
  ASSUME NEW T \in SUBSET Nat, T # {}
  PROVE  Min(T) \in T /\ \A y \in T : Min(T) <= y
BY LeastNumber DEF Min

LEMMA MaxIsGreatest ==
  ASSUME NEW n \in Nat, NEW T \in SUBSET (0..n), T # {}
  PROVE  Max(T) \in T /\ \A y \in T : y <= Max(T)
<1> DEFINE R == {n - x : x \in T}
<1>1. R \in SUBSET Nat /\ R # {}
  <2>1. \A x \in T : n - x \in Nat
    OBVIOUS
  <2> QED
    BY <2>1
<1>2. PICK r \in R : \A y \in R : r <= y
  BY <1>1, LeastNumber
<1>3. PICK x \in T : r = n - x
  BY <1>2
<1>4. \A y \in T : x >= y
  <2> TAKE y \in T
  <2>1. r <= n - y
    BY <1>2
  <2> QED
    BY <1>3, <2>1
<1>5. Max(T) \in T /\ \A y \in T : Max(T) >= y
  BY <1>4 DEF Max
<1> QED
  BY <1>5

ConditionOutcomes == {"holds", "fails", "throws"}

\* A list of alternatives, and one of requirements, says what its members do.
LEMMA OrSays ==
  ASSUME NEW n \in Nat, NEW results \in [1..n -> ConditionOutcomes]
  PROVE  /\ Decide(results, "fails") \in ConditionOutcomes
         /\ Decide(results, "fails") = "holds" => \E i \in 1..n : results[i] = "holds"
         /\ Decide(results, "fails") = "fails" => \A i \in 1..n : results[i] = "fails"
<1> DEFINE decisive == {i \in DOMAIN results : results[i] # "fails"}
<1>1. CASE decisive = {}
  BY <1>1 DEF Decide, ConditionOutcomes
<1>2. CASE decisive # {}
  <2>1. decisive \in SUBSET Nat
    OBVIOUS
  <2>2. Min(decisive) \in decisive
    <3> HIDE DEF decisive
    <3> QED
      BY <1>2, <2>1, MinIsLeast
  <2>3. Decide(results, "fails") = results[Min(decisive)]
    BY <1>2 DEF Decide
  <2> QED
    BY <2>2, <2>3 DEF ConditionOutcomes
<1> QED
  BY <1>1, <1>2

LEMMA AndSays ==
  ASSUME NEW n \in Nat, NEW results \in [1..n -> ConditionOutcomes]
  PROVE  /\ Decide(results, "holds") \in ConditionOutcomes
         /\ Decide(results, "holds") = "holds" => \A i \in 1..n : results[i] = "holds"
         /\ Decide(results, "holds") = "fails" => \E i \in 1..n : results[i] = "fails"
<1> DEFINE decisive == {i \in DOMAIN results : results[i] # "holds"}
<1>1. CASE decisive = {}
  BY <1>1 DEF Decide, ConditionOutcomes
<1>2. CASE decisive # {}
  <2>1. decisive \in SUBSET Nat
    OBVIOUS
  <2>2. Min(decisive) \in decisive
    <3> HIDE DEF decisive
    <3> QED
      BY <1>2, <2>1, MinIsLeast
  <2>3. Decide(results, "holds") = results[Min(decisive)]
    BY <1>2 DEF Decide
  <2> QED
    BY <2>2, <2>3 DEF ConditionOutcomes
<1> QED
  BY <1>1, <1>2

LEMMA ComparingSigns ==
  ASSUME NEW comparison \in Comparisons
  PROVE  /\ Comparing(comparison, -1) <=> comparison \in {"LESS_THAN", "LESS_EQUAL", "NOT_EQUAL"}
         /\ Comparing(comparison, 0) <=> comparison \in {"LESS_EQUAL", "EQUAL", "GREATER_EQUAL"}
         /\ Comparing(comparison, 1) <=> comparison \in {"GREATER_THAN", "GREATER_EQUAL", "NOT_EQUAL"}
<1>1. /\ -1 < 0 /\ -1 <= 0 /\ -1 # 0 /\ ~(-1 = 0) /\ ~(-1 > 0) /\ ~(-1 >= 0)
      /\ 1 > 0 /\ 1 >= 0 /\ 1 # 0 /\ ~(1 < 0) /\ ~(1 <= 0) /\ ~(0 < 0) /\ ~(0 > 0)
  OBVIOUS
<1>2. CASE comparison = "LESS_THAN"
  BY <1>1, <1>2 DEF Comparing
<1>3. CASE comparison = "LESS_EQUAL"
  BY <1>1, <1>3 DEF Comparing
<1>4. CASE comparison = "EQUAL"
  BY <1>1, <1>4 DEF Comparing
<1>5. CASE comparison = "NOT_EQUAL"
  BY <1>1, <1>5 DEF Comparing
<1>6. CASE comparison = "GREATER_THAN"
  BY <1>1, <1>6 DEF Comparing
<1>7. CASE comparison = "GREATER_EQUAL"
  BY <1>1, <1>7 DEF Comparing
<1> QED
  BY <1>2, <1>3, <1>4, <1>5, <1>6, <1>7 DEF Comparisons

\* Which of two versions precedes is settled where they first differ.
LEMMA PrecedesWhereTheyDiffer ==
  ASSUME NEW a, NEW b, NEW m \in 1..5,
         \A i \in 1..(m - 1) : Digit(a, i) # << >> /\ Digit(a, i) = Digit(b, i) /\ Digit(a, i)[1] \in Int,
         Digit(a, m) = << >> \/ Digit(b, m) = << >> \/ Digit(a, m) # Digit(b, m)
  PROVE  Precedes(a, b) <=> Digit(a, m) # << >> /\ Digit(b, m) # << >> /\ Digit(a, m)[1] < Digit(b, m)[1]
<1>1. AgreeBefore(a, b, m)
  BY DEF AgreeBefore
<1>2. ASSUME NEW i \in 1..5, AgreeBefore(a, b, i),
             Digit(a, i) # << >>, Digit(b, i) # << >>, Digit(a, i)[1] < Digit(b, i)[1]
      PROVE  i = m
  <2>1. ~(i < m)
    BY <1>2
  <2>2. ASSUME i > m
        PROVE  FALSE
    <3>1. Digit(a, m) # << >> /\ Digit(a, m) = Digit(b, m)
      BY <1>2, <2>2 DEF AgreeBefore
    <3> QED
      BY <3>1
  <2> QED
    BY <2>1, <2>2
<1> QED
  BY <1>1, <1>2 DEF Precedes

\* The segment by segment comparison finds what the whole versions mean.
LEMMA VersionsCompare ==
  ASSUME NEW actual, NEW target, NEW comparison,
         IsSegments(VersionOf(actual)), IsSegments(VersionOf(target)), comparison \in Comparisons
  PROVE  (\E r \in compareSemanticVersions(actual, target) : Comparing(comparison, r))
           <=> MeansVersion(comparison, VersionOf(actual), VersionOf(target))
<1> DEFINE v == VersionOf(actual)
           w == VersionOf(target)
           Segment(s, i) == IF i <= Len(s) THEN s[i] ELSE <<0>>
           NoNumber(i) == Segment(v, i) = << >> \/ Segment(w, i) = << >>
           decisive == {i \in 1..MaxSegments : NoNumber(i) \/ Segment(v, i) # Segment(w, i)}
<1>0. compareSemanticVersions(actual, target) =
        IF Len(v) > MaxSegments \/ Len(w) > MaxSegments THEN {}
        ELSE IF decisive = {} THEN {0}
        ELSE IF NoNumber(Min(decisive)) THEN {} ELSE {Sign(Segment(v, Min(decisive))[1], Segment(w, Min(decisive))[1])}
  BY DEF compareSemanticVersions
<1>1. \A i \in 1..5 : Segment(v, i) = Digit(v, i) /\ Segment(w, i) = Digit(w, i)
  BY DEF Digit, IsSegments
<1>2. \A i \in 1..5 : /\ Digit(v, i) # << >> => Digit(v, i)[1] \in Int
                      /\ Digit(w, i) # << >> => Digit(w, i)[1] \in Int
  <2>1. ASSUME NEW s, IsSegments(s), NEW i \in 1..5, Digit(s, i) # << >>
        PROVE  Digit(s, i)[1] \in Int
    <3>1. CASE i \in DOMAIN s
      <4>1. Digit(s, i) = s[i] /\ s[i] \in Seq(Int) /\ Len(s[i]) <= 1
        BY <2>1, <3>1 DEF IsSegments, Digit
      <4> QED
        BY <2>1, <4>1
    <3>2. CASE i \notin DOMAIN s
      BY <3>2 DEF Digit
    <3> QED
      BY <3>1, <3>2
  <2> QED
    BY <2>1
<1>3. Len(v) \in Nat /\ Len(w) \in Nat
  BY DEF IsSegments
<1>4. CASE Len(v) > 5 \/ Len(w) > 5
  BY <1>0, <1>3, <1>4 DEF MaxSegments, MeansVersion
<1>5. CASE Len(v) <= 5 /\ Len(w) <= 5 /\ decisive = {}
  <2>1. \A i \in 1..5 : Digit(v, i) # << >> /\ Digit(v, i) = Digit(w, i)
    BY <1>1, <1>5 DEF MaxSegments
  <2>2. AgreeBefore(v, w, 6) /\ ~Precedes(v, w) /\ ~Precedes(w, v)
    BY <1>2, <2>1 DEF AgreeBefore, Precedes
  <2>3. compareSemanticVersions(actual, target) = {0}
    BY <1>0, <1>3, <1>5 DEF MaxSegments
  <2> HIDE DEF v, w, NoNumber, Segment, decisive
  <2>4. (\E r \in compareSemanticVersions(actual, target) : Comparing(comparison, r))
          <=> comparison \in {"LESS_EQUAL", "EQUAL", "GREATER_EQUAL"}
    BY <2>3, ComparingSigns
  <2>5. MeansVersion(comparison, v, w) <=> comparison \in {"LESS_EQUAL", "EQUAL", "GREATER_EQUAL"}
    BY <1>5, <2>2 DEF MeansVersion
  <2> QED
    BY <2>4, <2>5 DEF v, w
<1>6. CASE Len(v) <= 5 /\ Len(w) <= 5 /\ decisive # {}
  <2> DEFINE m == Min(decisive)
  <2>1. m \in decisive /\ \A i \in decisive : m <= i
    <3>1. decisive \in SUBSET Nat
      BY DEF MaxSegments
    <3> HIDE DEF decisive
    <3> QED
      BY <1>6, <3>1, MinIsLeast
  <2>2. m \in 1..5 /\ \A i \in 1..(m - 1) : Digit(v, i) # << >> /\ Digit(v, i) = Digit(w, i)
    <3> HIDE DEF m
    <3>1. m \in 1..5
      BY <2>1 DEF MaxSegments
    <3>2. ASSUME NEW i \in 1..(m - 1)
          PROVE  Digit(v, i) # << >> /\ Digit(v, i) = Digit(w, i)
      <4>1. i \in 1..5 /\ ~(m <= i)
        BY <3>1
      <4>2. i \notin decisive
        BY <2>1, <4>1
      <4>3. ~NoNumber(i) /\ Segment(v, i) = Segment(w, i)
        BY <4>1, <4>2 DEF MaxSegments
      <4> HIDE DEF Segment, v, w
      <4> QED
        BY <1>1, <4>1, <4>3
    <3> QED
      BY <3>1, <3>2
  <2>3. AgreeBefore(v, w, m) /\ AgreeBefore(w, v, m)
    BY <2>2 DEF AgreeBefore
  <2>4. ~AgreeBefore(v, w, 6)
    BY <1>1, <2>1, <2>2 DEF AgreeBefore
  <2>9. /\ Precedes(v, w) <=> Digit(v, m) # << >> /\ Digit(w, m) # << >> /\ Digit(v, m)[1] < Digit(w, m)[1]
        /\ Precedes(w, v) <=> Digit(w, m) # << >> /\ Digit(v, m) # << >> /\ Digit(w, m)[1] < Digit(v, m)[1]
    <3> HIDE DEF m
    <3>1. \A i \in 1..(m - 1) : Digit(v, i)[1] \in Int /\ Digit(w, i)[1] \in Int
      BY <1>2, <2>2
    <3>2. Digit(v, m) = << >> \/ Digit(w, m) = << >> \/ Digit(v, m) # Digit(w, m)
      BY <1>1, <2>1, <2>2
    <3> HIDE DEF v, w
    <3>3. Precedes(v, w) <=> Digit(v, m) # << >> /\ Digit(w, m) # << >> /\ Digit(v, m)[1] < Digit(w, m)[1]
      BY <2>2, <3>1, <3>2, PrecedesWhereTheyDiffer
    <3>4. Precedes(w, v) <=> Digit(w, m) # << >> /\ Digit(v, m) # << >> /\ Digit(w, m)[1] < Digit(v, m)[1]
      BY <2>2, <3>1, <3>2, PrecedesWhereTheyDiffer
    <3> QED
      BY <3>3, <3>4
  <2> HIDE DEF m
  <2>6. compareSemanticVersions(actual, target) =
          IF NoNumber(m) THEN {} ELSE {Sign(Segment(v, m)[1], Segment(w, m)[1])}
    BY <1>0, <1>3, <1>6 DEF MaxSegments, m
  <2>7. CASE NoNumber(m)
    <3>1. ~Precedes(v, w) /\ ~Precedes(w, v)
      BY <1>1, <2>2, <2>9, <2>7
    <3> QED
      BY <2>4, <2>6, <2>7, <3>1 DEF MeansVersion
  <2>8. CASE ~NoNumber(m)
    <3>1. /\ Digit(v, m) # << >> /\ Digit(w, m) # << >> /\ Digit(v, m)[1] \in Int /\ Digit(w, m)[1] \in Int
          /\ Segment(v, m) = Digit(v, m) /\ Segment(w, m) = Digit(w, m)
      BY <1>1, <1>2, <2>2, <2>8
    <3>2. Digit(v, m)[1] # Digit(w, m)[1]
      <4>1. Digit(v, m) # Digit(w, m)
        BY <1>1, <2>1, <2>2, <2>8
      <4>2. ASSUME NEW s, IsSegments(s), Digit(s, m) # << >>
            PROVE  Digit(s, m) = <<Digit(s, m)[1]>>
        <5>1. CASE m \in DOMAIN s
          <6>1. Digit(s, m) = s[m] /\ s[m] \in Seq(Int) /\ Len(s[m]) <= 1 /\ s[m] # << >>
            BY <4>2, <5>1 DEF IsSegments, Digit
          <6> QED
            BY <6>1
        <5>2. CASE m \notin DOMAIN s
          BY <5>2 DEF Digit
        <5> QED
          BY <5>1, <5>2
      <4> QED
        BY <3>1, <4>1, <4>2
    <3>3. compareSemanticVersions(actual, target) = {Sign(Digit(v, m)[1], Digit(w, m)[1])}
      BY <2>6, <2>8, <3>1
    <3>4. /\ Precedes(v, w) <=> Digit(v, m)[1] < Digit(w, m)[1]
          /\ Precedes(w, v) <=> Digit(w, m)[1] < Digit(v, m)[1]
      <4>1. Digit(v, m) # << >> /\ Digit(w, m) # << >>
        BY <3>1
      <4> QED
        BY <2>9, <4>1
    <3> HIDE DEF v, w, NoNumber, Segment, decisive
    <3>5. CASE Digit(v, m)[1] < Digit(w, m)[1]
      <4>1. Sign(Digit(v, m)[1], Digit(w, m)[1]) = -1 /\ Precedes(v, w) /\ ~Precedes(w, v)
        BY <3>1, <3>4, <3>5 DEF Sign
      <4>2. (\E r \in compareSemanticVersions(actual, target) : Comparing(comparison, r)) <=> comparison \in {"LESS_THAN", "LESS_EQUAL", "NOT_EQUAL"}
        BY <3>3, <4>1, ComparingSigns
      <4>3. MeansVersion(comparison, v, w) <=> comparison \in {"LESS_THAN", "LESS_EQUAL", "NOT_EQUAL"}
        BY <1>6, <2>4, <4>1 DEF MeansVersion
      <4> QED
        BY <4>2, <4>3 DEF v, w
    <3>6. CASE Digit(w, m)[1] < Digit(v, m)[1]
      <4>1. Sign(Digit(v, m)[1], Digit(w, m)[1]) = 1 /\ Precedes(w, v) /\ ~Precedes(v, w)
        BY <3>1, <3>4, <3>6 DEF Sign
      <4>2. (\E r \in compareSemanticVersions(actual, target) : Comparing(comparison, r)) <=> comparison \in {"GREATER_THAN", "GREATER_EQUAL", "NOT_EQUAL"}
        BY <3>3, <4>1, ComparingSigns
      <4>3. MeansVersion(comparison, v, w) <=> comparison \in {"GREATER_THAN", "GREATER_EQUAL", "NOT_EQUAL"}
        BY <1>6, <2>4, <4>1 DEF MeansVersion
      <4> QED
        BY <4>2, <4>3 DEF v, w
    <3> QED
      BY <3>1, <3>2, <3>5, <3>6
  <2> QED
    BY <2>7, <2>8
<1> QED
  BY <1>3, <1>4, <1>5, <1>6

LEMMA OutcomeIsOne ==
  ASSUME NEW holds \in BOOLEAN
  PROVE  Outcome(holds) \in ConditionOutcomes /\ Outcome(holds) # "throws" /\ (Outcome(holds) = "holds" <=> holds)
BY DEF Outcome, ConditionOutcomes

\* A signal's condition holds where it says so, if it is evaluated at all.
LEMMA SignalSays ==
  ASSUME NEW d \in Condition, d.kind = "customSignal", NEW context \in Contexts
  PROVE  /\ evaluateCustomSignalCondition(d, context) \in ConditionOutcomes
         /\ evaluateCustomSignalCondition(d, context) # "throws" =>
              (evaluateCustomSignalCondition(d, context) = "holds" <=> MeansSignal(d, context))
<1> DEFINE actual == context.signals[d.customSignalKey]
           targets == d.targetCustomSignalValues
           op == d.customSignalOperator
           Holds(signs) == Outcome(\E r \in signs : Comparing(op[2], r))
           answer == evaluateCustomSignalCondition(d, context)
           Read == op \in CustomSignalOperator /\ targets # << >> /\ d.customSignalKey \in DOMAIN context.signals
<1>0. op \in STRING \X STRING /\ op = <<op[1], op[2]>> /\ targets \in Seq(Range(targets))
  BY TemplatesAreTyped DEF TemplatesAreTyped
<1>1. CASE ~Read
  <2>1. answer = "fails"
    BY <1>1 DEF evaluateCustomSignalCondition
  <2>2. CASE op[1] # "SEMANTIC_VERSION"
    BY <2>1, <2>2 DEF MeansSignal, ConditionOutcomes
  <2>3. CASE op[1] = "SEMANTIC_VERSION"
    <3>1. op[2] \in Comparisons => op \in CustomSignalOperator
      BY <1>0, <2>3 DEF CustomSignalOperator
    <3>2. ~MeansSignal(d, context)
      BY <1>1, <2>3, <3>1 DEF MeansSignal, MeansVersion, Comparisons
    <3> QED
      BY <2>1, <3>2 DEF ConditionOutcomes
  <2> QED
    BY <2>2, <2>3
<1>2. CASE Read
  <2>0. targets[1] \in Range(targets)
    BY <1>0, <1>2 DEF Range
  <2>1. CASE op[1] = "STRING"
    <3>2. op \in {<<"STRING", o>> : o \in {"CONTAINS", "DOES_NOT_CONTAIN", "EXACTLY_MATCHES", "CONTAINS_REGEX"}}
      BY <1>2, <2>1 DEF CustomSignalOperator
    <3>3. Decide([i \in DOMAIN targets |-> Tests(actual, targets[i])], "fails") \in ConditionOutcomes
      <4>1. DOMAIN targets = 1..Len(targets) /\ Len(targets) \in Nat
        BY <1>0
      <4>2. \A i \in DOMAIN targets : Tests(actual, targets[i]) \in ConditionOutcomes
        BY <1>2, TemplatesAreTyped DEF TemplatesAreTyped, ConditionOutcomes, Range
      <4>3. [i \in DOMAIN targets |-> Tests(actual, targets[i])] \in [1..Len(targets) -> ConditionOutcomes]
        BY <4>1, <4>2
      <4> QED
        BY <4>1, <4>3, OrSays
    <3>4. answer \in ConditionOutcomes
      <4>1. compareStrings(targets, actual, op[2]) \in BOOLEAN
        BY DEF compareStrings
      <4>2. CASE op = <<"STRING", "CONTAINS">>
        <5>1. answer = Outcome(compareStrings(targets, actual, op[2]))
          BY <1>2, <4>2 DEF evaluateCustomSignalCondition
        <5> QED
          BY <4>1, <5>1, OutcomeIsOne
      <4>3. CASE op = <<"STRING", "DOES_NOT_CONTAIN">>
        <5>1. answer = Outcome(~compareStrings(targets, actual, op[2]))
          BY <1>2, <4>3 DEF evaluateCustomSignalCondition
        <5> QED
          BY <4>1, <5>1, OutcomeIsOne
      <4>4. CASE op = <<"STRING", "EXACTLY_MATCHES">>
        <5>1. answer = Outcome(compareStrings(targets, actual, op[2]))
          BY <1>2, <4>4 DEF evaluateCustomSignalCondition
        <5> QED
          BY <4>1, <5>1, OutcomeIsOne
      <4>5. CASE op = <<"STRING", "CONTAINS_REGEX">>
        <5>1. answer = Decide([i \in DOMAIN targets |-> Tests(actual, targets[i])], "fails")
          BY <1>2, <4>5 DEF evaluateCustomSignalCondition
        <5> QED
          BY <3>3, <5>1
      <4> QED
        BY <3>2, <4>2, <4>3, <4>4, <4>5
    <3> QED
      BY <2>1, <3>4 DEF MeansSignal
  <2>2. CASE op[1] = "NUMERIC"
    <3>1. answer = Holds(compareNumbers(actual, targets[1]))
      <4>1. \A o : op # <<"STRING", o>>
        BY <2>2
      <4> QED
        BY <1>2, <2>2, <4>1 DEF evaluateCustomSignalCondition
    <3> QED
      BY <2>2, <3>1, OutcomeIsOne DEF MeansSignal
  <2>3. CASE op[1] = "SEMANTIC_VERSION"
    <3>1. answer = Holds(compareSemanticVersions(actual, targets[1]))
      <4>1. \A o : op # <<"STRING", o>>
        BY <2>3
      <4> QED
        BY <1>2, <2>3, <4>1 DEF evaluateCustomSignalCondition
    <3>2. op[2] \in Comparisons
      BY <1>2, <2>3 DEF CustomSignalOperator
    <3>3. IsSegments(VersionOf(actual)) /\ IsSegments(VersionOf(targets[1]))
      BY <1>2, <2>0, TemplatesAreTyped DEF TemplatesAreTyped
    <3>4. (\E r \in compareSemanticVersions(actual, targets[1]) : Comparing(op[2], r))
            <=> MeansVersion(op[2], VersionOf(actual), VersionOf(targets[1]))
      BY <3>2, <3>3, VersionsCompare
    <3>5. MeansSignal(d, context) <=> MeansVersion(op[2], VersionOf(actual), VersionOf(targets[1]))
      BY <1>2, <2>3 DEF MeansSignal
    <3> QED
      BY <3>1, <3>4, <3>5, OutcomeIsOne
  <2> QED
    BY <1>2, <2>1, <2>2, <2>3 DEF CustomSignalOperator
<1> QED
  BY <1>1, <1>2

\* The levels of the evaluator are those of the meaning, from the inside out.
LEMMA LevelsAndLists ==
  /\ MaxLists \in Nat
  /\ \A n \in 0..(MaxLists + 1) :
       LET level == 2 * (MaxLists + 1 - n) IN level \in Nat /\ (level < MaxDepth <=> n > 0)
<1>1. PICK q \in Nat : MaxLists = q /\ 2 * q <= MaxDepth - 1 /\ MaxDepth - 1 <= 2 * q + 1
  BY ConditionsAssumption DEF ConditionsAssumption, MaxLists
<1> QED
  BY <1>1, ConditionsAssumption DEF ConditionsAssumption

Says(c, context, n) ==
  LET answer == evaluateCondition(c, context, 2 * (MaxLists + 1 - n))
  IN answer \in ConditionOutcomes /\ (answer # "throws" => (answer = "holds" <=> MeaningAt(context, MaxLists)[<<c, n>>]))

\* At every level, a condition that is evaluated holds where it says so.
LEMMA ConditionSays ==
  ASSUME NEW context \in Contexts, NEW n \in 0..(MaxLists + 1), NEW c \in Condition
  PROVE  Says(c, context, n)
<1> DEFINE Wrong == {m \in 0..(MaxLists + 1) : \E d \in Condition : ~Says(d, context, m)}
<1>0. MaxLists \in Nat
  BY LevelsAndLists
<1>1. ASSUME NEW m \in Wrong, \A k \in Wrong : m <= k
      PROVE  FALSE
  <2>1. PICK d \in Condition : ~Says(d, context, m)
    OBVIOUS
  <2> DEFINE level == 2 * (MaxLists + 1 - m)
             Member(i) == evaluateCondition(d.conditions[i], context, level + 2)
             answer == evaluateCondition(d, context, level)
             meaning == MeaningAt(context, MaxLists)
  <2>2. m \in 0..(MaxLists + 1) /\ level \in Nat /\ (level < MaxDepth <=> m > 0)
    BY LevelsAndLists
  <2>3. answer = ConditionAt(d, context, level, [i \in DOMAIN d.conditions |-> Member(i)])
    BY <2>2, EvaluationIs
  <2>4. meaning[<<d, m>>] = (m > 0 /\ MeansWith(d, context, MembersAt(meaning, d, m - 1)))
    BY <1>0, MeaningStep
  <2>5. CASE m = 0
    <3>1. answer = "fails" /\ ~meaning[<<d, m>>]
      <4>1. level >= MaxDepth
        <5> HIDE DEF level
        <5> QED
          BY <2>2, <2>5, ConditionsAssumption DEF ConditionsAssumption
      <4>2. ~(m > 0)
        BY <2>5
      <4>3. answer = "fails"
        BY <2>3, <4>1 DEF ConditionAt
      <4> QED
        BY <2>4, <4>2, <4>3, Zenon
    <3> QED
      BY <2>1, <3>1 DEF Says, ConditionOutcomes
  <2>6. CASE m > 0
    <3>1. answer = CASE d.kind = "or" -> Decide([i \in DOMAIN d.conditions |-> Member(i)], "fails")
                     [] d.kind = "and" -> Decide([i \in DOMAIN d.conditions |-> Member(i)], "holds")
                     [] d.kind = "true" -> "holds"
                     [] d.kind = "percent" -> Outcome(evaluatePercentCondition(d, context))
                     [] d.kind = "customSignal" -> evaluateCustomSignalCondition(d, context)
                     [] OTHER -> "fails"
      BY <2>2, <2>3, <2>6, ConditionsAssumption DEF ConditionAt, ConditionsAssumption
    <3>2. meaning[<<d, m>>] <=> MeansWith(d, context, MembersAt(meaning, d, m - 1))
      BY <2>4, <2>6, Zenon
    <3>3. answer \in ConditionOutcomes /\ (answer # "throws" => (answer = "holds" <=> meaning[<<d, m>>]))
      <4>1. CASE d.kind \in {"or", "and"}
        <5> DEFINE results == [i \in DOMAIN d.conditions |-> Member(i)]
        <5>1. d.conditions \in Seq(Condition)
          BY <4>1, ConditionsAssumption DEF ConditionsAssumption
        <5>2. DOMAIN d.conditions = 1..Len(d.conditions) /\ Len(d.conditions) \in Nat
          BY <5>1
        <5>3. ASSUME NEW i \in DOMAIN d.conditions
              PROVE  /\ Member(i) \in ConditionOutcomes
                     /\ Member(i) # "throws" => (Member(i) = "holds" <=> meaning[<<d.conditions[i], m - 1>>])
          <6>1. d.conditions[i] \in Condition
            BY <5>1
          <6>2. m - 1 \in 0..(MaxLists + 1) /\ m - 1 \notin Wrong
            BY <1>0, <1>1, <2>2, <2>6
          <6>3. 2 * (MaxLists + 1 - (m - 1)) = level + 2
            BY <1>0, <2>2
          <6> QED
            BY <6>1, <6>2, <6>3 DEF Says
        <5>4. results \in [1..Len(d.conditions) -> ConditionOutcomes]
          BY <5>2, <5>3
        <5>5. \A i \in DOMAIN d.conditions : results[i] = Member(i)
          OBVIOUS
        <5>6. MembersAt(meaning, d, m - 1) = [i \in DOMAIN d.conditions |-> meaning[<<d.conditions[i], m - 1>>]]
          BY DEF MembersAt
        <5> HIDE DEF results, Member, meaning, answer
        <5>7. CASE d.kind = "or"
          <6>1. answer = Decide(results, "fails")
            BY <3>1, <5>7 DEF results
          <6>2. meaning[<<d, m>>] <=> \E i \in DOMAIN d.conditions : meaning[<<d.conditions[i], m - 1>>]
            BY <3>2, <5>6, <5>7 DEF MeansWith
          <6>3. /\ answer \in ConditionOutcomes
                /\ answer = "holds" => \E i \in DOMAIN d.conditions : Member(i) = "holds"
                /\ answer = "fails" => \A i \in DOMAIN d.conditions : Member(i) = "fails"
            BY <5>2, <5>4, <5>5, <6>1, OrSays
          <6> QED
            BY <5>3, <6>2, <6>3 DEF ConditionOutcomes
        <5>8. CASE d.kind = "and"
          <6>1. answer = Decide(results, "holds")
            BY <3>1, <5>8 DEF results
          <6>2. meaning[<<d, m>>] <=> \A i \in DOMAIN d.conditions : meaning[<<d.conditions[i], m - 1>>]
            BY <3>2, <5>6, <5>8 DEF MeansWith
          <6>3. /\ answer \in ConditionOutcomes
                /\ answer = "holds" => \A i \in DOMAIN d.conditions : Member(i) = "holds"
                /\ answer = "fails" => \E i \in DOMAIN d.conditions : Member(i) = "fails"
            BY <5>2, <5>4, <5>5, <6>1, AndSays
          <6> QED
            BY <5>3, <6>2, <6>3 DEF ConditionOutcomes
        <5> QED
          BY <4>1, <5>7, <5>8
      <4>2. CASE d.kind = "percent"
        <5>1. answer = Outcome(evaluatePercentCondition(d, context))
          BY <3>1, <4>2
        <5>2. meaning[<<d, m>>] <=> evaluatePercentCondition(d, context)
          BY <3>2, <4>2 DEF MeansWith
        <5>3. evaluatePercentCondition(d, context) \in BOOLEAN
          BY DEF evaluatePercentCondition
        <5> HIDE DEF answer, meaning
        <5> QED
          BY <5>1, <5>2, <5>3, OutcomeIsOne, Zenon
      <4>3. CASE d.kind = "customSignal"
        <5>1. answer = evaluateCustomSignalCondition(d, context)
          BY <3>1, <4>3
        <5>2. meaning[<<d, m>>] <=> MeansSignal(d, context)
          BY <3>2, <4>3 DEF MeansWith
        <5> HIDE DEF answer, meaning
        <5> QED
          BY <4>3, <5>1, <5>2, SignalSays, Zenon
      <4>4. CASE d.kind \notin {"or", "and", "percent", "customSignal"}
        BY <3>1, <3>2, <4>4 DEF MeansWith, ConditionOutcomes
      <4> QED
        BY <4>1, <4>2, <4>3, <4>4
    <3> QED
      BY <2>1, <3>3 DEF Says
  <2> QED
    BY <2>2, <2>5, <2>6
<1>2. Wrong \in SUBSET Nat
  OBVIOUS
<1>3. Wrong = {}
  <2> HIDE DEF Wrong
  <2> QED
    BY <1>1, <1>2, LeastNumber
<1> QED
  BY <1>3

LEMMA ConditionMeans ==
  ASSUME NEW context \in Contexts, NEW c \in Condition
  PROVE  /\ evaluateCondition(c, context, 0) \in ConditionOutcomes
         /\ evaluateCondition(c, context, 0) # "throws" =>
              (evaluateCondition(c, context, 0) = "holds" <=> Means(c, context, MaxLists))
<1>1. MaxLists \in Nat
  BY LevelsAndLists
<1>2. MaxLists + 1 \in 0..(MaxLists + 1) /\ 2 * (MaxLists + 1 - (MaxLists + 1)) = 0
  BY <1>1
<1>3. Says(c, context, MaxLists + 1)
  BY <1>2, ConditionSays
<1> QED
  BY <1>1, <1>2, <1>3, MeansIs DEF Says

Templates == {t \in Range(Published) \cup GivenTemplates : ServerTemplateDataAccepts(t)}

FirstOf(named) == {i \in DOMAIN named : \A j \in 1..(i - 1) : named[j].name # named[i].name}
LastOf(named, name) == Max({i \in DOMAIN named : named[i].name = name})

LEMMA LastIsLast ==
  ASSUME NEW named, named \in Seq(Range(named)), NEW i \in DOMAIN named
  PROVE  LET last == LastOf(named, named[i].name)
         IN /\ last \in DOMAIN named /\ named[last].name = named[i].name
            /\ \A k \in DOMAIN named : k > last => named[k].name # named[i].name
<1> DEFINE T == {j \in DOMAIN named : named[j].name = named[i].name}
<1>1. Len(named) \in Nat /\ DOMAIN named = 1..Len(named)
  OBVIOUS
<1>2. T \in SUBSET (0..Len(named)) /\ T # {}
  BY <1>1
<1>3. Max(T) \in T /\ \A k \in T : k <= Max(T)
  <2> HIDE DEF T
  <2> QED
    BY <1>1, <1>2, MaxIsGreatest
<1>4. LastOf(named, named[i].name) = Max(T)
  BY DEF LastOf
<1>5. \A k \in DOMAIN named : k > Max(T) => k \notin T
  <2>1. Max(T) \in Nat
    BY <1>1, <1>2, <1>3
  <2> HIDE DEF T
  <2> QED
    BY <1>1, <1>3, <2>1
<1>6. Max(T) \in DOMAIN named /\ named[Max(T)].name = named[i].name
  BY <1>3
<1> QED
  BY <1>4, <1>5, <1>6

LEMMA FirstExists ==
  ASSUME NEW named, named \in Seq(Range(named)), NEW i \in DOMAIN named
  PROVE  \E k \in FirstOf(named) : k <= i /\ named[k].name = named[i].name
<1> DEFINE T == {j \in DOMAIN named : named[j].name = named[i].name}
<1>1. Len(named) \in Nat /\ DOMAIN named = 1..Len(named)
  OBVIOUS
<1>2. T \in SUBSET Nat /\ T # {}
  BY <1>1
<1>3. PICK k \in T : \A j \in T : k <= j
  <2> HIDE DEF T
  <2> QED
    BY <1>2, LeastNumber
<1>4. \A j \in 1..(k - 1) : j \notin T /\ j \in DOMAIN named
  BY <1>1, <1>3
<1> QED
  BY <1>3, <1>4 DEF FirstOf

\* The results, in the places where a name comes first.
LEMMA ResultsAre ==
  ASSUME NEW named, NEW context
  PROVE  evaluateConditions(named, context) =
           [k \in FirstOf(named) |->
              [name |-> named[k].name,
               result |-> evaluateCondition(named[LastOf(named, named[k].name)].condition, context, 0)]]
BY DEF evaluateConditions, FirstOf, LastOf

\* The names that hold, and the first place a value is found at.
HoldingNames(named, context) ==
  {named[i].name : i \in {j \in DOMAIN named :
     Means(named[j].condition, context, MaxLists) /\ \A k \in DOMAIN named : k > j => named[k].name # named[j].name}}

LEMMA ResultsHold ==
  ASSUME NEW named, named \in Seq(Range(named)), \A n \in Range(named) : n.condition \in Condition,
         NEW context \in Contexts, NEW k \in FirstOf(named)
  PROVE  LET r == evaluateConditions(named, context)[k]
         IN /\ r.name = named[k].name
            /\ r.result = "throws" => \E i \in DOMAIN named : evaluateCondition(named[i].condition, context, 0) = "throws"
            /\ r.result # "throws" => (r.result = "holds" <=> r.name \in HoldingNames(named, context))
<1> DEFINE last == LastOf(named, named[k].name)
<1>1. k \in DOMAIN named
  BY DEF FirstOf
<1>2. /\ last \in DOMAIN named /\ named[last].name = named[k].name
      /\ \A j \in DOMAIN named : j > last => named[j].name # named[k].name
  BY <1>1, LastIsLast
<1> HIDE DEF last
<1>3. named[last].condition \in Condition
  BY <1>2 DEF Range
<1>4. evaluateConditions(named, context)[k] =
        [name |-> named[k].name, result |-> evaluateCondition(named[last].condition, context, 0)]
  BY ResultsAre DEF last
<1>5. named[k].name \in HoldingNames(named, context) <=> Means(named[last].condition, context, MaxLists)
  <2>1. ASSUME NEW j \in DOMAIN named, named[j].name = named[k].name, \A i \in DOMAIN named : i > j => named[i].name # named[j].name
        PROVE  j = last
    <3>1. j \in Nat /\ last \in Nat
      BY <1>2
    <3> QED
      BY <1>2, <2>1, <3>1
  <2> QED
    BY <1>2, <2>1 DEF HoldingNames
<1>6. evaluateCondition(named[last].condition, context, 0) # "throws" =>
        (evaluateCondition(named[last].condition, context, 0) = "holds" <=> Means(named[last].condition, context, MaxLists))
  BY <1>3, ConditionMeans
<1> QED
  BY <1>2, <1>4, <1>5, <1>6

\* Where no condition throws, a parameter has the value of the first one met.
LEMMA ValueOfTheFirstMet ==
  ASSUME NEW named, named \in Seq(Range(named)), \A n \in Range(named) : n.condition \in Condition,
         NEW context \in Contexts, NEW parameter,
         \A k \in FirstOf(named) : evaluateConditions(named, context)[k].result # "throws"
  PROVE  LET Met(i) == named[i].name \in HoldingNames(named, context) \cap DOMAIN parameter.conditional
         IN ConditionalValue(parameter, evaluateConditions(named, context)) =
              IF \E i \in DOMAIN named : Met(i)
              THEN LET i == CHOOSE i \in DOMAIN named : Met(i) /\ \A j \in 1..(i - 1) : ~Met(j)
                   IN <<parameter.conditional[named[i].name]>>
              ELSE << >>
<1> DEFINE Met(i) == named[i].name \in HoldingNames(named, context) \cap DOMAIN parameter.conditional
           results == evaluateConditions(named, context)
           given == {k \in DOMAIN results : results[k].result = "holds" /\ results[k].name \in DOMAIN parameter.conditional}
           least == Min(given)
<1>0. ConditionalValue(parameter, results) = IF given = {} THEN << >> ELSE <<parameter.conditional[results[Min(given)].name]>>
  BY DEF ConditionalValue
<1>1. DOMAIN results = FirstOf(named)
  BY ResultsAre
<1>2. \A k \in FirstOf(named) : results[k].name = named[k].name /\ (results[k].result = "holds" <=> named[k].name \in HoldingNames(named, context))
  BY ResultsHold
<1> HIDE DEF results
<1>3. given = {k \in FirstOf(named) : Met(k)}
  BY <1>1, <1>2
<1> HIDE DEF Met
<1>4. ASSUME NEW i \in DOMAIN named, Met(i)
      PROVE  \E k \in given : k <= i
  <2>1. PICK k \in FirstOf(named) : k <= i /\ named[k].name = named[i].name
    BY FirstExists
  <2>2. Met(k)
    BY <1>4, <2>1 DEF Met
  <2> QED
    BY <1>3, <2>1, <2>2
<1>5. given \subseteq DOMAIN named
  BY <1>3 DEF FirstOf
<1> HIDE DEF given
<1>6. CASE given = {}
  BY <1>0, <1>4, <1>6 DEF Met, results
<1>7. CASE given # {}
  <2>1. least \in given /\ \A k \in given : least <= k
    <3>1. given \in SUBSET Nat
      BY <1>5
    <3> QED
      BY <1>7, <3>1, MinIsLeast
  <2> HIDE DEF least
  <2>2. least \in DOMAIN named /\ Met(least) /\ results[least].name = named[least].name
    BY <1>2, <1>3, <1>5, <2>1
  <2>3. ASSUME NEW i \in DOMAIN named, Met(i)
        PROVE  least <= i
    <3>1. PICK k \in given : k <= i
      BY <1>4, <2>3
    <3>2. k \in Nat /\ least \in Nat /\ i \in Nat
      BY <1>5, <2>2
    <3> QED
      BY <2>1, <3>1, <3>2
  <2>4. \A j \in 1..(least - 1) : j \in DOMAIN named /\ ~(least <= j)
    BY <2>2
  <2>5. \A j \in 1..(least - 1) : ~Met(j)
    BY <2>3, <2>4
  <2>6. ASSUME NEW i \in DOMAIN named, Met(i), \A j \in 1..(i - 1) : ~Met(j)
        PROVE  i = least
    <3>1. least <= i /\ i \in Nat /\ least \in Nat \ {0}
      BY <2>2, <2>3, <2>6
    <3>2. ~(least \in 1..(i - 1))
      BY <2>2, <2>6
    <3> QED
      BY <3>1, <3>2
  <2>7. (CHOOSE i \in DOMAIN named : Met(i) /\ \A j \in 1..(i - 1) : ~Met(j)) = least
    BY <2>2, <2>5, <2>6
  <2>8. ConditionalValue(parameter, results) = <<parameter.conditional[named[least].name]>>
    BY <1>0, <1>7, <2>2 DEF least
  <2> QED
    BY <2>2, <2>7, <2>8 DEF Met, results
<1> QED
  BY <1>6, <1>7

\* What an evaluation answers is what ConfigMeetsTemplate says of it.
LEMMA EvaluationMeets ==
  ASSUME evaluated[1].template \in Templates, evaluated[1].context \in Contexts,
         evaluated[1].answer = Evaluation(evaluated[1].template, evaluated[1].default, evaluated[1].context)
  PROVE  ConfigMeetsTemplate
<1> DEFINE e == evaluated[1]
           t == e.template
           default == e.default
           context == e.context
           named == t.conditions
           results == evaluateConditions(named, context)
           holds == HoldingNames(named, context)
           config == ConfigValues(t, default, results)
           Met(i, key) == named[i].name \in holds \cap DOMAIN t.parameters[key].conditional
           Meant(key) ==
             IF key \notin DOMAIN t.parameters THEN << >>
             ELSE IF \E i \in DOMAIN named : Met(i, key)
             THEN LET i == CHOOSE i \in DOMAIN named : Met(i, key) /\ \A j \in 1..(i - 1) : ~Met(j, key)
                  IN <<t.parameters[key].conditional[named[i].name]>>
             ELSE t.parameters[key].default
           IsRemote(key) == Meant(key) # << >> /\ ~Meant(key)[1].useInAppDefault
           Expected(key) == View(IF IsRemote(key) THEN Value("remote", Meant(key)[1].value)
                                 ELSE IF key \in DOMAIN default THEN Value("default", default[key])
                                 ELSE Value("static", ""))
           Throws == AnyThrows(named, context)
<1>1. named \in Seq(Range(named)) /\ \A n \in Range(named) : n.condition \in Condition
  BY TemplatesAreTyped DEF TemplatesAreTyped, Templates
<1>2. DOMAIN results = FirstOf(named)
  BY ResultsAre
<1>3. e.answer = IF Throws THEN [result |-> "SyntaxError"]
                 ELSE [result |-> "ok", values |-> getAll(config), views |-> [key \in Keys |-> View(getValue(config, key))]]
  BY DEF Evaluation
<1>4. CASE Throws
  <2>1. e.answer.result = "SyntaxError"
    BY <1>3, <1>4
  <2>2. \E i \in DOMAIN named : evaluateCondition(named[i].condition, context, 0) = "throws"
    BY <1>4 DEF AnyThrows
  <2> QED
    BY <2>1, <2>2 DEF ConfigMeetsTemplate
<1>5. CASE ~Throws
  <2>0. \A i \in DOMAIN named : evaluateCondition(named[i].condition, context, 0) # "throws"
    BY <1>5 DEF AnyThrows
  <2>1. ASSUME NEW key \in DOMAIN t.parameters
        PROVE  ChosenValue(t.parameters[key], results) = Meant(key)
    <3>1. ConditionalValue(t.parameters[key], results) =
            IF \E i \in DOMAIN named : Met(i, key)
            THEN LET i == CHOOSE i \in DOMAIN named : Met(i, key) /\ \A j \in 1..(i - 1) : ~Met(j, key)
                 IN <<t.parameters[key].conditional[named[i].name]>>
            ELSE << >>
      <4>1. \A k \in FirstOf(named) : results[k].result # "throws"
        BY <1>1, <1>2, <2>0, ResultsHold
      <4> QED
        BY <1>1, <4>1, ValueOfTheFirstMet
    <3> HIDE DEF Met, results, named
    <3> QED
      BY <2>1, <3>1 DEF ChosenValue
  <2>2. \A key \in Keys : View(getValue(config, key)) = Expected(key)
    <3> TAKE key \in Keys
    <3> DEFINE remote == {k \in DOMAIN t.parameters : Meant(k) # << >> /\ ~Meant(k)[1].useInAppDefault}
    <3> HIDE DEF Meant, results
    <3>1. config = [k \in DOMAIN default \cup remote |->
                      IF k \in remote THEN Value("remote", Meant(k)[1].value) ELSE Value("default", default[k])]
      BY <2>1 DEF ConfigValues
    <3>2. key \in remote <=> IsRemote(key)
      BY DEF Meant
    <3> HIDE DEF remote, IsRemote, config
    <3> QED
      BY <3>1, <3>2 DEF getValue
  <2>3. /\ e.answer.result = "ok"
        /\ \A key \in Keys : e.answer.views[key] = View(getValue(config, key))
    <3> HIDE DEF e, config, Throws
    <3> QED
      BY <1>3, <1>5
  <2>4. \A key \in Keys : e.answer.views[key] = Expected(key)
    BY <2>2, <2>3
  <2>5. e.answer.result = "ok"
    BY <2>3
  <2> QED
    BY <2>0, <2>4, <2>5 DEF ConfigMeetsTemplate, HoldingNames
<1> QED
  BY <1>4, <1>5

\* What is cached, under way and was evaluated are accepted templates.
ServedInv ==
  /\ DOMAIN loads = Load
  /\ active \in 1..Len(Published)
  /\ \A l \in DOMAIN loads : loads[l].phase = "answered" => loads[l].data \in Range(Published)
  /\ cache # << >> => cache[1].data \in Templates
  /\ evaluated # << >> =>
       /\ evaluated[1].template \in Templates /\ evaluated[1].context \in Contexts
       /\ evaluated[1].answer = Evaluation(evaluated[1].template, evaluated[1].default, evaluated[1].context)

LEMMA ServedInit == TemplateInit => ServedInv
BY TemplatesAreTyped DEF TemplateInit, ServedInv, NoLoad, TemplatesAreTyped

LEMMA ServedNext ==
  ASSUME ServedInv, [TemplateNext]_templateVars
  PROVE  ServedInv'
<1> USE DEF ServedInv
<1>0. Published \in Seq(Range(Published))
  BY TemplatesAreTyped DEF TemplatesAreTyped
<1>1. CASE UNCHANGED templateVars
  BY <1>1 DEF templateVars
<1>2. CASE initServerTemplate
  BY <1>2 DEF initServerTemplate, Cached, Templates
<1>3. CASE setServerTemplate
  BY <1>3 DEF setServerTemplate, Cached, Templates
<1>4. CASE evaluate
  <2>1. PICK context \in Contexts :
          evaluated' = <<[template |-> cache[1].data, default |-> object[1].default, context |-> context,
                          answer |-> Evaluation(cache[1].data, object[1].default, context)]>>
    BY <1>4 DEF evaluate
  <2>2. cache # << >> /\ cache' = cache /\ loads' = loads /\ active' = active
    BY <1>4 DEF evaluate
  <2>3. LET e == evaluated'[1]
        IN e.template \in Templates /\ e.context \in Contexts /\ e.answer = Evaluation(e.template, e.default, e.context)
    <3>1. /\ evaluated'[1].template = cache[1].data /\ evaluated'[1].context = context /\ evaluated'[1].default = object[1].default
          /\ evaluated'[1].answer = Evaluation(cache[1].data, object[1].default, context)
      BY <2>1
    <3> QED
      BY <2>2, <3>1
  <2> QED
    BY <2>2, <2>3
<1>5. CASE RemoteConfigFetchResponse
  BY <1>5 DEF RemoteConfigFetchResponse
<1>6. CASE PublishServerTemplate
  BY <1>0, <1>6 DEF PublishServerTemplate
<1>7. ASSUME NEW l \in Load, load(l) \/ ServeLoad(l) \/ LoadRejected(l)
      PROVE  ServedInv'
  <2>1. /\ active' = active /\ cache' = cache /\ evaluated' = evaluated
        /\ \/ loads' = [loads EXCEPT ![l] = [phase |-> "sent", asked |-> active]]
           \/ loads' = [loads EXCEPT ![l] = [phase |-> "answered", asked |-> loads[l].asked, version |-> active, data |-> Published[active]]]
           \/ loads' = [loads EXCEPT ![l] = NoLoad]
    BY <1>7 DEF load, ServeLoad, LoadRejected
  <2>2. Published[active] \in Range(Published)
    BY <1>0 DEF Range
  <2>3. \A k \in DOMAIN loads' : loads'[k].phase = "answered" => loads'[k].data \in Range(Published)
    BY <2>1, <2>2 DEF NoLoad
  <2> QED
    BY <2>1, <2>3
<1>8. ASSUME NEW l \in Load, LoadResolved(l)
      PROVE  ServedInv'
  <2>1. /\ active' = active /\ evaluated' = evaluated /\ loads' = [loads EXCEPT ![l] = NoLoad]
        /\ cache' = Cached(loads[l].data, loads[l].version, loads[l].asked)
        /\ loads[l].phase = "answered" /\ ServerTemplateDataAccepts(loads[l].data)
    BY <1>8 DEF LoadResolved
  <2>2. \A k \in DOMAIN loads' : loads'[k].phase = "answered" => loads'[k].data \in Range(Published)
    BY <2>1 DEF NoLoad
  <2>3. cache'[1].data = loads[l].data
    BY <2>1 DEF Cached
  <2>4. loads[l].data \in Templates
    <3>1. l \in DOMAIN loads
      OBVIOUS
    <3> QED
      BY <2>1, <3>1 DEF Templates
  <2> QED
    BY <2>1, <2>2, <2>3, <2>4
<1> QED
  BY <1>1, <1>2, <1>3, <1>4, <1>5, <1>6, <1>7, <1>8 DEF TemplateNext

\* Every config that evaluate() answers, whatever is published, loaded, set and
\* evaluated, is the one its template means in the context it was given.
THEOREM ConfigsMeetTheirTemplates == TemplateSpec => []ConfigMeetsTemplate
<1>1. ServedInv => ConfigMeetsTemplate
  BY EvaluationMeets DEF ServedInv, ConfigMeetsTemplate
<1> QED
  BY <1>1, ServedInit, ServedNext, PTL DEF TemplateSpec
-----------------------------------------------------------------------------
(* Messaging: what a second conversion of a message comes to                *)

\* The message n, at every section, is the message m after some of the steps, none
\* of which refuses the section; a section that was renamed has had all of its steps.
Passed(steps, path, o) ==
  /\ steps \subseteq AllSteps
  /\ Renames(path, steps) => {s \in AllSteps : s.at = path} \subseteq steps
  /\ \A s \in steps : s.at = path => ~Refuses(s, o)

Reached(m, n) ==
  /\ IsMessage(m) /\ IsMessage(n)
  /\ DOMAIN n = DOMAIN m
  /\ \A path \in DOMAIN m : \E steps : Passed(steps, path, m[path]) /\ n[path] = Converted(path, m[path], steps)

\* The form in which the value v of the key k is written.
Writes(values, keys, k, v) == k \in keys /\ Given(values, k) /\ Given(values[k], v)
FormOf(values, keys, k, v) == IF Writes(values, keys, k, v) THEN values[k][v] ELSE v
Removes(values, keys, k, v) == Writes(values, keys, k, v) /\ values[k][v] = "removed"

\* What ++ chooses is the only candidate.
LEMMA OverIs ==
  ASSUME NEW o, NEW p
  PROVE  o ++ p = [k \in DOMAIN o \cup DOMAIN p |-> IF k \in DOMAIN o THEN o[k] ELSE p[k]]
<1> DEFINE both(a, b) == [k \in DOMAIN a \cup DOMAIN b |-> IF k \in DOMAIN a THEN a[k] ELSE b[k]]
<1>1. {both(a, b) : a \in {o}, b \in {p}} = {both(o, p)}
  <2> HIDE DEF both
  <2> QED
    OBVIOUS
<1>2. o ++ p = CHOOSE f \in {both(a, b) : a \in {o}, b \in {p}} : TRUE
  BY DEF ++
<1>3. o ++ p = both(o, p)
  <2> HIDE DEF both
  <2> QED
    BY <1>1, <1>2
<1> QED
  BY <1>3

LEMMA RewrittenIs ==
  ASSUME NEW o, NEW values, NEW keys
  PROVE  Rewritten(o, values, keys) =
           [k \in {n \in DOMAIN o : ~Removes(values, keys, n, o[n])} |-> FormOf(values, keys, k, o[k])]
BY DEF Rewritten, Removes, FormOf, Writes

\* A value that is written, or that is not to be written, is left as it is.
LEMMA WrittenOnce ==
  ASSUME NEW path, ValuesAssumption(path), NEW k, NEW v, NEW keys, NEW more,
         ~Removes(ValuesOf(path), keys, k, v)
  PROVE  LET values == ValuesOf(path)  w == FormOf(values, keys, k, v)  both == keys \cup more IN
         /\ FormOf(values, more, k, w) = FormOf(values, both, k, v)
         /\ Removes(values, more, k, w) <=> Removes(values, both, k, v)
<1> DEFINE values == ValuesOf(path)
           w == FormOf(values, keys, k, v)
<1>1. CASE ~Writes(values, keys, k, v)
  BY <1>1 DEF FormOf, Removes, Writes
<1>2. CASE Writes(values, keys, k, v)
  <2>1. w = values[k][v] /\ w # "removed" /\ Writes(values, keys \cup more, k, v)
    BY <1>2 DEF FormOf, Removes, Writes
  <2>2. Given(values[k], w) => values[k][w] = w
    BY <1>2, <2>1 DEF ValuesAssumption, Writes, Given
  <2> QED
    BY <1>2, <2>1, <2>2 DEF FormOf, Removes, Writes
<1> QED
  BY <1>1, <1>2

LEMMA RewrittenTwice ==
  ASSUME NEW path, ValuesAssumption(path), NEW o, NEW keys, NEW more
  PROVE  LET values == ValuesOf(path) IN
         Rewritten(Rewritten(o, values, keys), values, more) = Rewritten(o, values, keys \cup more)
<1> DEFINE values == ValuesOf(path)
           r == Rewritten(o, values, keys)
           both == keys \cup more
<1>1. r = [k \in {n \in DOMAIN o : ~Removes(values, keys, n, o[n])} |-> FormOf(values, keys, k, o[k])]
  BY RewrittenIs
<1>2. /\ DOMAIN r = {n \in DOMAIN o : ~Removes(values, keys, n, o[n])}
      /\ \A k \in DOMAIN r : r[k] = FormOf(values, keys, k, o[k])
  BY <1>1
<1>3. \A k \in DOMAIN r : /\ FormOf(values, more, k, r[k]) = FormOf(values, both, k, o[k])
                          /\ Removes(values, more, k, r[k]) <=> Removes(values, both, k, o[k])
  BY <1>2, WrittenOnce
<1>4. \A k : Removes(values, keys, k, o[k]) => Removes(values, both, k, o[k])
  BY DEF Removes, Writes
<1> HIDE DEF r, values, both
<1>5. {n \in DOMAIN r : ~Removes(values, more, n, r[n])} = {n \in DOMAIN o : ~Removes(values, both, n, o[n])}
  BY <1>2, <1>3, <1>4
<1>6. Rewritten(r, values, more) =
        [k \in {n \in DOMAIN r : ~Removes(values, more, n, r[n])} |-> FormOf(values, more, k, r[k])]
  BY RewrittenIs
<1>7. Rewritten(o, values, both) =
        [k \in {n \in DOMAIN o : ~Removes(values, both, n, o[n])} |-> FormOf(values, both, k, o[k])]
  BY RewrittenIs
<1> QED
  BY <1>3, <1>5, <1>6, <1>7 DEF r, values, both
LEMMA FormatOf ==
  ASSUME NEW step \in AllSteps
  PROVE  NamesAssumption(step.at) /\ ValuesAssumption(step.at) /\ RefusalAssumption(step)
BY FormatAssumption

\* The keys an object has once it is renamed, and what they hold.
LEMMA RenamedIs ==
  ASSUME NEW o, NEW names, IsInjective(names), \A k \in DOMAIN names : names[k] \notin DOMAIN names
  PROVE  LET r == renameProperties(o, names) IN
         /\ IsObject(r) /\ DOMAIN r \cap DOMAIN names = {}
         /\ \A k \in DOMAIN r : \/ \E n \in DOMAIN names \cap DOMAIN o : k = names[n] /\ r[k] = o[n]
                                \/ k \in DOMAIN o \ DOMAIN names /\ r[k] = o[k]
<1> DEFINE a == RenameAll(o, names)
           b == Without(o, DOMAIN names)
           r == renameProperties(o, names)
           given == DOMAIN names \cap DOMAIN o
<1>1. a = [k \in {names[n] : n \in given} |-> o[CHOOSE n \in given : names[n] = k]]
  BY DEF RenameAll
<1>2. b = [k \in DOMAIN o \cap (DOMAIN o \ DOMAIN names) |-> o[k]]
  BY DEF Without, Restrict
<1>3. \A k \in DOMAIN a : \E n \in given : k = names[n] /\ a[k] = o[n]
  BY <1>1
<1>4. DOMAIN b = DOMAIN o \ DOMAIN names /\ \A k \in DOMAIN b : b[k] = o[k]
  BY <1>2
<1>5. r = [k \in DOMAIN a \cup DOMAIN b |-> IF k \in DOMAIN a THEN a[k] ELSE b[k]]
  BY OverIs DEF renameProperties
<1> HIDE DEF a, b, r
<1>6. IsObject(r) /\ DOMAIN r = DOMAIN a \cup DOMAIN b
  BY <1>5 DEF IsObject
<1>7. DOMAIN r \cap DOMAIN names = {}
  BY <1>3, <1>4, <1>6
<1>8. ASSUME NEW k \in DOMAIN r
      PROVE  \/ \E n \in given : k = names[n] /\ r[k] = o[n]
             \/ k \in DOMAIN o \ DOMAIN names /\ r[k] = o[k]
  BY <1>3, <1>4, <1>5, <1>6, <1>8
<1> QED
  BY <1>6, <1>7, <1>8 DEF r

\* What is renamed is renamed once.
LEMMA RenamedOnce ==
  ASSUME NEW o, NEW names, IsObject(o), DOMAIN o \cap DOMAIN names = {}
  PROVE  renameProperties(o, names) = o
<1> DEFINE a == RenameAll(o, names)
           b == Without(o, DOMAIN names)
<1>1. DOMAIN a = {}
  BY DEF RenameAll
<1>2. b = [k \in DOMAIN o \cap (DOMAIN o \ DOMAIN names) |-> o[k]]
  BY DEF Without, Restrict
<1>3. renameProperties(o, names) = [k \in DOMAIN a \cup DOMAIN b |-> IF k \in DOMAIN a THEN a[k] ELSE b[k]]
  BY OverIs DEF renameProperties
<1>4. DOMAIN b = DOMAIN o /\ \A k \in DOMAIN o : b[k] = o[k]
  BY <1>2
<1> HIDE DEF a, b
<1>5. renameProperties(o, names) = [k \in DOMAIN o |-> o[k]]
  BY <1>1, <1>3, <1>4
<1> QED
  BY <1>5 DEF IsObject

LEMMA KeysOfBoth ==
  ASSUME NEW path, NEW steps, NEW more
  PROVE  KeysOf(path, steps \cup more) = KeysOf(path, steps) \cup KeysOf(path, more)
BY DEF KeysOf

\* All of the steps of a section have it as the API writes it.
LEMMA RenamedStays ==
  ASSUME NEW path, NEW o, NEW more, NEW step \in AllSteps, step.at = path, step.renames
  PROVE  LET all == Converted(path, o, AllSteps) IN Converted(path, all, more) = all
<1> DEFINE values == ValuesOf(path)
           names == NamesOf(path)
           keys == KeysOf(path, AllSteps)
           r == Rewritten(o, values, keys)
           all == renameProperties(r, names)
           written == KeysOf(path, more)
<1>1. NamesAssumption(path) /\ ValuesAssumption(path)
  BY FormatOf
<1>2. DOMAIN values \subseteq keys
  <2>1. PICK i \in DOMAIN MessageSteps : MessageSteps[i] = step
    BY DEF AllSteps, Range
  <2> QED
    BY <2>1, FormatAssumption DEF OrderAssumption
<1>3. Converted(path, o, AllSteps) = all
  BY DEF Converted, Renames
<1>4. /\ IsObject(all) /\ DOMAIN all \cap DOMAIN names = {}
      /\ \A k \in DOMAIN all : \/ \E n \in DOMAIN names \cap DOMAIN r : k = names[n] /\ all[k] = r[n]
                               \/ k \in DOMAIN r \ DOMAIN names /\ all[k] = r[k]
  <2> HIDE DEF r
  <2> QED
    BY <1>1, RenamedIs DEF NamesAssumption
<1>5. \A n \in DOMAIN r : ~Removes(values, keys, n, o[n]) /\ r[n] = FormOf(values, keys, n, o[n])
  BY RewrittenIs
<1> HIDE DEF r, all, values, names, keys, written
<1>6. ASSUME NEW n \in DOMAIN r, NEW k, Given(values, k) => Given(values, n) /\ values[n] = values[k]
      PROVE  ~Removes(values, written, k, r[n]) /\ FormOf(values, written, k, r[n]) = r[n]
  <2>1. CASE Writes(values, written, k, r[n])
    <3>1. Given(values, n) /\ values[n] = values[k] /\ n \in keys /\ Given(values[n], r[n])
      BY <1>2, <1>6, <2>1 DEF Writes, Given
    <3>2. Writes(values, keys, n, o[n])
      BY <1>5, <3>1 DEF Writes, FormOf
    <3>3. r[n] = values[n][o[n]] /\ r[n] # "removed"
      BY <1>5, <3>2 DEF FormOf, Removes
    <3>4. values[n][r[n]] = r[n]
      BY <1>1, <3>1, <3>2, <3>3 DEF ValuesAssumption, Writes, Given, values
    <3> QED
      BY <3>1, <3>3, <3>4 DEF Removes, FormOf
  <2>2. CASE ~Writes(values, written, k, r[n])
    BY <2>2 DEF Removes, FormOf
  <2> QED
    BY <2>1, <2>2
<1>7. ASSUME NEW k \in DOMAIN all
      PROVE  ~Removes(values, written, k, all[k]) /\ FormOf(values, written, k, all[k]) = all[k]
  <2>1. CASE \E n \in DOMAIN names \cap DOMAIN r : k = names[n] /\ all[k] = r[n]
    <3>1. PICK n \in DOMAIN names \cap DOMAIN r : k = names[n] /\ all[k] = r[n]
      BY <2>1
    <3>2. Given(values, k) => Given(values, n) /\ values[n] = values[k]
      BY <1>1, <3>1 DEF NamesAssumption, Given, values, names
    <3> QED
      BY <1>6, <3>1, <3>2
  <2>2. CASE k \in DOMAIN r \ DOMAIN names /\ all[k] = r[k]
    BY <1>6, <2>2
  <2> QED
    BY <1>4, <2>1, <2>2
<1>8. Rewritten(all, values, written) = all
  <2>1. Rewritten(all, values, written) =
          [k \in {n \in DOMAIN all : ~Removes(values, written, n, all[n])} |-> FormOf(values, written, k, all[k])]
    BY RewrittenIs
  <2>2. {n \in DOMAIN all : ~Removes(values, written, n, all[n])} = DOMAIN all
    BY <1>7
  <2>3. Rewritten(all, values, written) = [k \in DOMAIN all |-> all[k]]
    BY <1>7, <2>1, <2>2
  <2> QED
    BY <1>4, <2>3 DEF IsObject
<1>9. renameProperties(all, names) = all
  BY <1>4, RenamedOnce
<1>10. Converted(path, all, more) = all
  BY <1>8, <1>9 DEF Converted, values, names, written
<1> QED
  BY <1>3, <1>10
\* Only the steps of a section convert it.
LEMMA ConvertedBySteps ==
  ASSUME NEW path, NEW o, NEW steps, NEW more,
         {s \in steps : s.at = path} = {s \in more : s.at = path}
  PROVE  Converted(path, o, steps) = Converted(path, o, more)
<1>1. KeysOf(path, steps) = KeysOf(path, more)
  BY DEF KeysOf
<1>2. Renames(path, steps) <=> Renames(path, more)
  BY DEF Renames
<1> QED
  BY <1>1, <1>2 DEF Converted

LEMMA ConvertedIsObject ==
  ASSUME NEW path, NEW o, NEW steps
  PROVE  IsObject(Converted(path, o, steps))
<1> DEFINE r == Rewritten(o, ValuesOf(path), KeysOf(path, steps))
           names == NamesOf(path)
<1>1. IsObject(r)
  BY DEF IsObject, Rewritten
<1>2. IsObject(renameProperties(r, names))
  <2>1. renameProperties(r, names) =
          [k \in DOMAIN RenameAll(r, names) \cup DOMAIN Without(r, DOMAIN names) |->
             IF k \in DOMAIN RenameAll(r, names) THEN RenameAll(r, names)[k] ELSE Without(r, DOMAIN names)[k]]
    BY OverIs DEF renameProperties
  <2> HIDE DEF r, names
  <2> QED
    BY <2>1 DEF IsObject
<1> QED
  BY <1>1, <1>2 DEF Converted

LEMMA ConvertedByNone ==
  ASSUME NEW path, NEW o, IsObject(o)
  PROVE  Converted(path, o, {}) = o
<1>1. KeysOf(path, {}) = {} /\ ~Renames(path, {})
  BY DEF KeysOf, Renames
<1>2. \A k : ~Writes(ValuesOf(path), {}, k, o[k])
  BY DEF Writes
<1>3. Rewritten(o, ValuesOf(path), {}) = [k \in DOMAIN o |-> o[k]]
  BY <1>2, RewrittenIs DEF Removes, FormOf
<1> QED
  BY <1>1, <1>3 DEF Converted, IsObject

\* What is converted twice is converted by the steps of both times.
LEMMA ConvertedTwice ==
  ASSUME NEW path, NEW o, NEW steps, NEW more, NEW p, NEW q,
         Passed(steps, path, p), Passed(more, path, q),
         \E s \in AllSteps : s.at = path
  PROVE  Converted(path, Converted(path, o, steps), more) = Converted(path, o, steps \cup more)
<1>1. CASE Renames(path, steps)
  <2>1. {s \in steps : s.at = path} = {s \in AllSteps : s.at = path}
    BY <1>1 DEF Passed
  <2>2. {s \in steps \cup more : s.at = path} = {s \in AllSteps : s.at = path}
    BY <2>1 DEF Passed
  <2>3. PICK step \in AllSteps : step.at = path /\ step.renames
    BY <1>1 DEF Passed, Renames
  <2>4. Converted(path, Converted(path, o, AllSteps), more) = Converted(path, o, AllSteps)
    BY <2>3, RenamedStays
  <2> QED
    BY <2>1, <2>2, <2>4, ConvertedBySteps
<1>2. CASE ~Renames(path, steps)
  <2> DEFINE values == ValuesOf(path)
             r == Rewritten(o, values, KeysOf(path, steps))
             both == Rewritten(o, values, KeysOf(path, steps \cup more))
  <2>1. ValuesAssumption(path)
    BY FormatOf
  <2>2. Rewritten(r, values, KeysOf(path, more)) = both
    BY <2>1, RewrittenTwice, KeysOfBoth
  <2>3. Renames(path, more) <=> Renames(path, steps \cup more)
    BY <1>2 DEF Renames
  <2>4. Converted(path, o, steps) = r
    BY <1>2 DEF Converted
  <2> HIDE DEF r, both
  <2>5. Converted(path, r, more) = IF Renames(path, more) THEN renameProperties(both, NamesOf(path)) ELSE both
    BY <2>2 DEF Converted
  <2>6. Converted(path, o, steps \cup more) =
          IF Renames(path, steps \cup more) THEN renameProperties(both, NamesOf(path)) ELSE both
    BY DEF Converted, both
  <2> QED
    BY <2>3, <2>4, <2>5, <2>6
<1> QED
  BY <1>1, <1>2

\* A section that a step refuses is refused by that step also when other steps
\* have converted it.
LEMMA StaysRefused ==
  ASSUME NEW step \in AllSteps, NEW o, NEW steps, IsObject(o),
         Passed(steps, step.at, o), Refuses(step, o)
  PROVE  Refuses(step, Converted(step.at, o, steps))
<1> DEFINE values == ValuesOf(step.at)
           names == NamesOf(step.at)
           keys == KeysOf(step.at, steps)
           r == Rewritten(o, values, keys)
<1>1. step \notin steps
  BY DEF Passed
<1>2. Converted(step.at, o, steps) = r
  BY <1>1 DEF Passed, Converted
<1>3. RefusalAssumption(step)
  BY FormatOf
<1>4. r = [k \in {n \in DOMAIN o : ~Removes(values, keys, n, o[n])} |-> FormOf(values, keys, k, o[k])]
  BY RewrittenIs
<1>5. /\ DOMAIN r = {n \in DOMAIN o : ~Removes(values, keys, n, o[n])}
      /\ \A k \in DOMAIN r : r[k] = FormOf(values, keys, k, o[k])
  BY <1>4
<1>6. ASSUME NEW k \in DOMAIN o, ~Given(values, k) \/ k \notin keys
      PROVE  k \in DOMAIN r /\ r[k] = o[k]
  <2>1. ~Writes(values, keys, k, o[k])
    BY <1>6 DEF Writes
  <2> HIDE DEF r
  <2> QED
    BY <1>5, <2>1 DEF Removes, FormOf
<1> HIDE DEF r
<1>7. Looked(step, r)
  BY <1>5 DEF Refuses, Looked, Given
<1>8. CASE o = NotObject
  <2>1. DOMAIN o = {"bad"} /\ ~Given(values, "bad")
    BY <1>3, <1>8 DEF NotObject, Field, RefusalAssumption
  <2>2. DOMAIN r = DOMAIN o /\ \A k \in DOMAIN o : r[k] = o[k]
    BY <1>5, <1>6, <2>1
  <2>3. r = [k \in DOMAIN o |-> o[k]]
    <3>1. IsObject(r)
      BY <1>4 DEF IsObject
    <3> QED
      BY <2>2, <3>1 DEF IsObject
  <2> QED
    BY <1>2, <1>7, <1>8, <2>3 DEF Refuses, IsObject
<1>9. CASE step.strings /\ \E k \in DOMAIN o : o[k] \notin MessageStrings
  <2>1. \A k : ~Given(values, k)
    BY <1>3, <1>9 DEF RefusalAssumption, EmptyObject, Given
  <2>2. \A k \in DOMAIN o : k \in DOMAIN r /\ r[k] = o[k]
    BY <1>6, <2>1
  <2> QED
    BY <1>2, <1>7, <1>9, <2>2 DEF Refuses
<1>10. CASE ~(step.required \subseteq DOMAIN o)
  BY <1>2, <1>5, <1>7, <1>10 DEF Refuses
<1>11. CASE \E k \in DOMAIN step.accepts \cap DOMAIN o : o[k] \notin step.accepts[k]
  <2>1. PICK k \in DOMAIN step.accepts \cap DOMAIN o : o[k] \notin step.accepts[k]
    BY <1>11
  <2>2. k \in DOMAIN r /\ r[k] \notin step.accepts[k]
    <3>1. CASE Writes(values, keys, k, o[k])
      <4>1. values[k][o[k]] \notin step.accepts[k] \cup {"removed"}
        BY <1>3, <2>1, <3>1 DEF RefusalAssumption, Writes, Given
      <4> QED
        BY <1>5, <2>1, <3>1, <4>1 DEF Removes, FormOf
    <3>2. CASE ~Writes(values, keys, k, o[k])
      BY <1>5, <2>1, <3>2 DEF Removes, FormOf
    <3> QED
      BY <3>1, <3>2
  <2> QED
    BY <1>2, <1>7, <2>1, <2>2 DEF Refuses
<1>12. CASE step.oneOf # {} /\ Cardinality({k \in step.oneOf : IsText(o, k)}) # 1
  <2>1. ASSUME NEW k \in step.oneOf
        PROVE  IsText(r, k) <=> IsText(o, k)
    <3>1. CASE k \notin DOMAIN o
      BY <1>5, <3>1 DEF IsText, Given
    <3>2. CASE k \in DOMAIN o /\ Writes(values, keys, k, o[k])
      <4>1. o[k] \in MessageText <=> values[k][o[k]] \in MessageText
        BY <1>3, <3>2 DEF RefusalAssumption, Writes, Given
      <4>2. "removed" \notin MessageText
        BY FormatAssumption
      <4> QED
        BY <1>5, <3>2, <4>1, <4>2 DEF IsText, Given, Removes, FormOf
    <3>3. CASE k \in DOMAIN o /\ ~Writes(values, keys, k, o[k])
      BY <1>5, <3>3 DEF IsText, Given, Removes, FormOf
    <3> QED
      BY <3>1, <3>2, <3>3
  <2>2. {k \in step.oneOf : IsText(r, k)} = {k \in step.oneOf : IsText(o, k)}
    BY <2>1
  <2> QED
    BY <1>2, <1>7, <1>12, <2>2 DEF Refuses
<1>13. CASE \E args \in DOMAIN step.texts \cap DOMAIN o : o[args] # "empty" /\ ~IsText(o, step.texts[args])
  <2>1. PICK args \in DOMAIN step.texts \cap DOMAIN o : o[args] # "empty" /\ ~IsText(o, step.texts[args])
    BY <1>13
  <2>2. step.texts[args] \in Range(step.texts)
    BY <2>1 DEF Range
  <2>3. ~Given(values, args) /\ ~Given(values, step.texts[args])
    BY <1>3, <2>1, <2>2 DEF RefusalAssumption, Given
  <2>4. args \in DOMAIN r /\ r[args] = o[args]
    BY <1>6, <2>1, <2>3
  <2>5. ~IsText(r, step.texts[args])
    BY <1>5, <1>6, <2>1, <2>3 DEF IsText, Given
  <2> QED
    BY <1>2, <1>7, <2>1, <2>4, <2>5 DEF Refuses
<1>14. CASE step.once /\ NamedTwice(o, names)
  <2>1. PICK k \in DOMAIN names \cap DOMAIN o : Given(o, names[k])
    BY <1>14 DEF NamedTwice
  <2>2. \A n \in step.keys : n \notin keys
    <3>1. \A s \in steps : s.at = step.at => s.keys \cap step.keys = {}
      BY <1>1, <1>3 DEF RefusalAssumption, Passed
    <3> QED
      BY <3>1 DEF KeysOf
  <2>3. \A n \in DOMAIN names \cup Range(names) : ~Given(values, n) \/ n \notin keys
    BY <1>3, <1>14, <2>2 DEF RefusalAssumption, Given
  <2>4. names[k] \in Range(names)
    BY <2>1 DEF Range
  <2>5. k \in DOMAIN r /\ names[k] \in DOMAIN r
    BY <1>6, <2>1, <2>3, <2>4 DEF Given
  <2> QED
    BY <1>2, <1>7, <1>14, <2>1, <2>5 DEF Refuses, NamedTwice, Given
<1> QED
  BY <1>8, <1>9, <1>10, <1>11, <1>12, <1>13, <1>14 DEF Refuses
\* validateMessage() refuses a message for one of its sections, or converts them all.
LEMMA ValidatedIs ==
  ASSUME NEW m, IsMessage(m)
  PROVE  LET v == validateMessage(m) IN
         /\ v.verdict \in {"ok", InvalidPayload}
         /\ Reached(m, v.message)
         /\ v.verdict = "ok" =>
              /\ \A step \in AllSteps : step.at \in DOMAIN m => ~Refuses(step, m[step.at])
              /\ v.message = [path \in DOMAIN m |-> Converted(path, m[path], AllSteps)]
         /\ v.verdict # "ok" => \E step \in AllSteps : step.at \in DOMAIN m /\ Refuses(step, m[step.at])
<1> DEFINE Refused(step) == step.at \in DOMAIN m /\ Refuses(step, m[step.at])
           refused == {i \in DOMAIN MessageSteps : Refused(MessageSteps[i])}
           Done == {i \in DOMAIN MessageSteps : \A r \in refused : i < r}
           done == {MessageSteps[i] : i \in Done}
           n == [path \in DOMAIN m |-> Converted(path, m[path], done)]
           v == validateMessage(m)
<1>1. v = [verdict |-> Require(refused = {}, InvalidPayload), message |-> n]
  BY DEF validateMessage
<1>2. DOMAIN MessageSteps \subseteq Nat
  BY FormatAssumption
<1>3. \A i \in DOMAIN MessageSteps : MessageSteps[i] \in AllSteps
  BY DEF AllSteps, Range
<1>4. \A step \in AllSteps : \E i \in DOMAIN MessageSteps : MessageSteps[i] = step
  BY DEF AllSteps, Range
<1>5. ASSUME NEW path \in DOMAIN m
      PROVE  Passed(done, path, m[path])
  <2>1. done \subseteq AllSteps
    BY <1>3
  <2>2. ASSUME NEW s \in done, s.at = path
        PROVE  ~Refuses(s, m[path])
    <3>1. PICK i \in Done : MessageSteps[i] = s
      BY <2>2
    <3>2. i \notin refused
      BY <1>2, <3>1
    <3> QED
      BY <2>2, <3>1, <3>2
  <2>3. ASSUME Renames(path, done), NEW s \in AllSteps, s.at = path
        PROVE  s \in done
    <3>1. PICK step \in done : step.at = path /\ step.renames
      BY <2>3 DEF Renames
    <3>2. PICK i \in Done : MessageSteps[i] = step
      BY <3>1
    <3>3. PICK j \in DOMAIN MessageSteps : MessageSteps[j] = s
      BY <1>4, <2>3
    <3>4. j <= i
      BY <2>3, <3>1, <3>2, <3>3, FormatAssumption DEF OrderAssumption
    <3>5. j \in Done
      BY <1>2, <3>2, <3>3, <3>4
    <3> QED
      BY <3>3, <3>5
  <2> HIDE DEF done
  <2> QED
    BY <2>1, <2>2, <2>3 DEF Passed
<1>6. \A path \in DOMAIN m : IsObject(n[path])
  BY ConvertedIsObject
<1>7. IsMessage(n) /\ DOMAIN n = DOMAIN m
  BY <1>6 DEF IsMessage, IsObject
<1>8. \A path \in DOMAIN m : n[path] = Converted(path, m[path], done)
  OBVIOUS
<1>9. ASSUME refused = {}
      PROVE  /\ done = AllSteps
             /\ \A step \in AllSteps : ~Refused(step)
  BY <1>3, <1>4, <1>9
<1>10. ASSUME refused # {}
       PROVE  \E step \in AllSteps : Refused(step)
  BY <1>3, <1>10
<1>11. v.message = n /\ v.verdict = Require(refused = {}, InvalidPayload)
  BY <1>1
<1>12. Reached(m, n)
  <2> HIDE DEF done, n
  <2> QED
    BY <1>5, <1>7, <1>8 DEF Reached
<1>13. refused = {} => v.verdict = "ok"
  BY <1>11 DEF Require
<1>14. refused # {} => v.verdict = "invalid-payload"
  BY <1>11 DEF Require, InvalidPayload
<1>15. ASSUME v.verdict = "ok"
       PROVE  /\ \A step \in AllSteps : step.at \in DOMAIN m => ~Refuses(step, m[step.at])
              /\ v.message = [path \in DOMAIN m |-> Converted(path, m[path], AllSteps)]
  <2>1. refused = {}
    <3> HIDE DEF refused, v
    <3> QED
      BY <1>14, <1>15
  <2> QED
    BY <1>9, <1>11, <2>1
<1>16. ASSUME v.verdict # "ok"
       PROVE  \E step \in AllSteps : step.at \in DOMAIN m /\ Refuses(step, m[step.at])
  <2>1. refused # {}
    <3> HIDE DEF refused, v
    <3> QED
      BY <1>13, <1>16
  <2> QED
    BY <1>10, <2>1
<1>17. v.verdict \in {"ok", InvalidPayload} /\ Reached(m, v.message)
  <2> HIDE DEF refused, v, n
  <2> QED
    BY <1>11, <1>12, <1>13, <1>14 DEF InvalidPayload
<1> HIDE DEF v
<1> QED
  BY <1>15, <1>16, <1>17 DEF v

LEMMA ReachedItself ==
  ASSUME NEW m, IsMessage(m)
  PROVE  Reached(m, m)
<1>1. \A path \in DOMAIN m : Passed({}, path, m[path]) /\ m[path] = Converted(path, m[path], {})
  BY ConvertedByNone DEF IsMessage, Passed, Renames
<1> QED
  BY <1>1 DEF Reached

\* What is converted by steps that let the section pass passes them as it was.
LEMMA PassedTwice ==
  ASSUME NEW path, NEW o, IsObject(o), NEW steps, NEW more,
         Passed(steps, path, o), Passed(more, path, Converted(path, o, steps))
  PROVE  /\ Passed(steps \cup more, path, o)
         /\ Converted(path, Converted(path, o, steps), more) = Converted(path, o, steps \cup more)
<1>1. \A s \in more : s.at = path => ~Refuses(s, o)
  BY StaysRefused DEF Passed
<1>2. Passed(steps \cup more, path, o)
  BY <1>1 DEF Passed, Renames
<1>3. CASE \E s \in AllSteps : s.at = path
  BY <1>2, <1>3, ConvertedTwice
<1>4. CASE ~\E s \in AllSteps : s.at = path
  <2>1. \A s \in AllSteps : s.at # path
    BY <1>4
  <2>2. \A x, some : IsObject(x) /\ some \subseteq AllSteps => Converted(path, x, some) = x
    <3> TAKE x, some
    <3> HAVE IsObject(x) /\ some \subseteq AllSteps
    <3>1. {s \in some : s.at = path} = {s \in {} : s.at = path}
      BY <2>1
    <3>2. Converted(path, x, some) = Converted(path, x, {})
      BY <3>1, ConvertedBySteps
    <3> QED
      BY <3>2, ConvertedByNone
  <2> QED
    BY <1>2, <2>2 DEF Passed
<1> QED
  BY <1>2, <1>3, <1>4

LEMMA ReachedTwice ==
  ASSUME NEW m, NEW n, NEW o, Reached(m, n), Reached(n, o)
  PROVE  Reached(m, o)
<1>1. ASSUME NEW path \in DOMAIN m
      PROVE  \E steps : Passed(steps, path, m[path]) /\ o[path] = Converted(path, m[path], steps)
  <2>1. PICK steps : Passed(steps, path, m[path]) /\ n[path] = Converted(path, m[path], steps)
    BY <1>1 DEF Reached
  <2>2. PICK more : Passed(more, path, n[path]) /\ o[path] = Converted(path, n[path], more)
    BY <1>1 DEF Reached
  <2>3. IsObject(m[path])
    BY <1>1 DEF Reached, IsMessage
  <2>4. /\ Passed(steps \cup more, path, m[path])
        /\ o[path] = Converted(path, m[path], steps \cup more)
    BY <2>1, <2>2, <2>3, PassedTwice
  <2> QED
    BY <2>4
<1> QED
  BY <1>1 DEF Reached

\* A message that is accepted once some of its sections were converted would have
\* been accepted, and been converted to the same message, as it was.
LEMMA ValidatedLate ==
  ASSUME NEW m, NEW n, Reached(m, n), validateMessage(n).verdict = "ok"
  PROVE  validateMessage(m).verdict = "ok" /\ validateMessage(n).message = validateMessage(m).message
<1>1. IsMessage(m) /\ IsMessage(n) /\ DOMAIN n = DOMAIN m
  BY DEF Reached
<1>2. ASSUME NEW step \in AllSteps, step.at \in DOMAIN m
      PROVE  ~Refuses(step, m[step.at])
  <2>1. PICK steps : Passed(steps, step.at, m[step.at]) /\ n[step.at] = Converted(step.at, m[step.at], steps)
    BY <1>2 DEF Reached
  <2>2. ~Refuses(step, n[step.at])
    BY <1>1, <1>2, ValidatedIs
  <2>3. IsObject(m[step.at])
    BY <1>1, <1>2 DEF IsMessage
  <2> QED
    BY <2>1, <2>2, <2>3, StaysRefused
<1>3. validateMessage(m).verdict = "ok"
  BY <1>1, <1>2, ValidatedIs
<1>4. ASSUME NEW path \in DOMAIN m
      PROVE  Converted(path, n[path], AllSteps) = Converted(path, m[path], AllSteps)
  <2>1. PICK steps : Passed(steps, path, m[path]) /\ n[path] = Converted(path, m[path], steps)
    BY <1>4 DEF Reached
  <2>2. Passed(AllSteps, path, n[path])
    BY <1>1, <1>4, ValidatedIs DEF Passed
  <2>3. IsObject(m[path])
    BY <1>1, <1>4 DEF IsMessage
  <2>4. Converted(path, n[path], AllSteps) = Converted(path, m[path], steps \cup AllSteps)
    BY <2>1, <2>2, <2>3, PassedTwice
  <2>5. steps \cup AllSteps = AllSteps
    BY <2>1 DEF Passed
  <2> QED
    BY <2>4, <2>5
<1>5. validateMessage(n).message = [path \in DOMAIN m |-> Converted(path, m[path], AllSteps)]
  BY <1>1, <1>4, ValidatedIs
<1> QED
  BY <1>1, <1>3, <1>5, ValidatedIs

\* An accepted message stays what it was converted to.
LEMMA AcceptedStays ==
  ASSUME NEW m, IsMessage(m), validateMessage(m).verdict = "ok",
         NEW n, Reached(validateMessage(m).message, n)
  PROVE  n = validateMessage(m).message
<1> DEFINE w == validateMessage(m).message
<1>1. w = [path \in DOMAIN m |-> Converted(path, m[path], AllSteps)] /\ DOMAIN w = DOMAIN m
  BY ValidatedIs DEF Reached
<1>2. ASSUME NEW path \in DOMAIN m
      PROVE  n[path] = w[path]
  <2>1. PICK more : Passed(more, path, w[path]) /\ n[path] = Converted(path, w[path], more)
    BY <1>1, <1>2 DEF Reached
  <2>2. w[path] = Converted(path, m[path], AllSteps)
    BY <1>1, <1>2
  <2>3. Passed(AllSteps, path, m[path]) /\ IsObject(m[path])
    BY <1>2, ValidatedIs DEF Passed, IsMessage
  <2>4. n[path] = Converted(path, m[path], AllSteps \cup more)
    BY <2>1, <2>2, <2>3, PassedTwice
  <2>5. AllSteps \cup more = AllSteps
    BY <2>1 DEF Passed
  <2> QED
    BY <2>2, <2>4, <2>5
<1>3. DOMAIN n = DOMAIN m /\ IsObject(n) /\ IsObject(w)
  BY <1>1 DEF Reached, IsMessage
<1> QED
  BY <1>1, <1>2, <1>3 DEF IsObject
-----------------------------------------------------------------------------
(* Messaging: what the calls hold of their messages                         *)

ItemOk(item) == DOMAIN item = {"own", "of"} /\ IsMessage(item.own) /\ item.of \in MsgObject \cup {NoObject}

HeapOk(heap) == heap = [o \in MsgObject |-> heap[o]] /\ \A o \in MsgObject : IsMessage(heap[o])

HeapReached(heap, after) == HeapOk(heap) /\ HeapOk(after) /\ \A o \in MsgObject : Reached(heap[o], after[o])

Plain(wanted) == wanted.object \notin Instance

\* A message of a call, and what the caller asked for: the call has it still as it
\* was then, but for steps of its conversion, and all of them once it is accepted.
Follows(item, result, wanted, heap, underWay) ==
  /\ ItemOk(item) /\ item.of = IF Plain(wanted) THEN NoObject ELSE wanted.object
  /\ DOMAIN wanted = {"object", "given", "validated", "edited"}
  /\ wanted.object \in MsgObject
  /\ IsMessage(wanted.given) /\ wanted.validated = validateMessage(wanted.given)
  /\ Plain(wanted) \/ ~wanted.edited =>
       /\ Reached(wanted.given, Content(item, heap))
       /\ underWay /\ result \notin {"copied", InvalidPayload} =>
            wanted.validated.verdict = "ok" /\ Content(item, heap) = wanted.validated.message
  /\ Plain(wanted) =>
       /\ result = "copied" => Content(item, heap) = wanted.given
       /\ result = InvalidPayload => wanted.validated.verdict # "ok"

UnderWay(call) == call.state \in {"path", "validating", "sending"}

Expected(call, wanted) == [message |-> wanted.validated.message, validate_only |-> call.dryRun = "yes"]

CallOk(c) ==
  LET call == msgCall[c] IN
  /\ DOMAIN call = {"state", "method", "dryRun", "items", "results"}
  /\ DOMAIN call.items = DOMAIN asked[c] /\ DOMAIN call.results = DOMAIN asked[c] /\ DOMAIN sent[c] = DOMAIN asked[c]
  /\ DOMAIN asked[c] \subseteq Nat
  /\ call.state = "sending" \/ call.method = "send" => \A i \in DOMAIN asked[c] : call.results[i] # "copied"
  /\ \A i \in DOMAIN asked[c] :
       /\ Follows(call.items[i], call.results[i], asked[c][i], caller, UnderWay(call))
       /\ Plain(asked[c][i]) \/ ~asked[c][i].edited => sent[c][i] \subseteq {Expected(call, asked[c][i])}

MessagesInv ==
  /\ DOMAIN msgCall = MsgCall /\ DOMAIN asked = MsgCall /\ DOMAIN sent = MsgCall
  /\ HeapOk(caller)
  /\ \A c \in MsgCall : CallOk(c)

LEMMA OverMessage ==
  ASSUME NEW m, NEW n, IsMessage(m), IsMessage(n)
  PROVE  /\ IsMessage(m ++ n) /\ DOMAIN (m ++ n) = DOMAIN m \cup DOMAIN n
         /\ \A path \in DOMAIN m : (m ++ n)[path] = m[path]
         /\ \A path \in DOMAIN n \ DOMAIN m : (m ++ n)[path] = n[path]
<1> DEFINE over == m ++ n
<1>1. over = [path \in DOMAIN m \cup DOMAIN n |-> IF path \in DOMAIN m THEN m[path] ELSE n[path]]
  BY OverIs
<1> HIDE DEF over
<1>2. DOMAIN over = DOMAIN m \cup DOMAIN n /\ IsObject(over)
  BY <1>1 DEF IsObject
<1>3. \A path \in DOMAIN m : over[path] = m[path]
  BY <1>1
<1>4. \A path \in DOMAIN n \ DOMAIN m : over[path] = n[path]
  BY <1>1
<1>5. \A path \in DOMAIN over : IsObject(over[path])
  BY <1>2, <1>3, <1>4 DEF IsMessage
<1> QED
  BY <1>2, <1>3, <1>4, <1>5 DEF IsMessage, over

LEMMA OverReached ==
  ASSUME NEW m, NEW n, NEW o, IsMessage(m), Reached(n, o)
  PROVE  Reached(m ++ n, m ++ o)
<1> DEFINE before == m ++ n
           after == m ++ o
<1>1. IsMessage(n) /\ IsMessage(o) /\ DOMAIN o = DOMAIN n /\ Reached(m, m)
  BY ReachedItself DEF Reached
<1>2. /\ IsMessage(before) /\ DOMAIN before = DOMAIN m \cup DOMAIN n
      /\ \A path \in DOMAIN m : before[path] = m[path]
      /\ \A path \in DOMAIN n \ DOMAIN m : before[path] = n[path]
  BY <1>1, OverMessage
<1>3. /\ IsMessage(after) /\ DOMAIN after = DOMAIN m \cup DOMAIN n
      /\ \A path \in DOMAIN m : after[path] = m[path]
      /\ \A path \in DOMAIN o \ DOMAIN m : after[path] = o[path]
  BY <1>1, OverMessage
<1> HIDE DEF before, after
<1>4. ASSUME NEW path \in DOMAIN before
      PROVE  \E steps : Passed(steps, path, before[path]) /\ after[path] = Converted(path, before[path], steps)
  <2>1. CASE path \in DOMAIN m
    BY <1>1, <1>2, <1>3, <2>1 DEF Reached
  <2>2. CASE path \notin DOMAIN m
    BY <1>1, <1>2, <1>3, <2>2 DEF Reached
  <2> QED
    BY <2>1, <2>2
<1> QED
  BY <1>2, <1>3, <1>4 DEF Reached, before, after

LEMMA ContentIsMessage ==
  ASSUME NEW item, NEW heap, ItemOk(item), HeapOk(heap)
  PROVE  IsMessage(Content(item, heap))
BY OverMessage DEF ItemOk, HeapOk, Content

LEMMA ContentReached ==
  ASSUME NEW item, NEW heap, NEW after, ItemOk(item), HeapReached(heap, after)
  PROVE  Reached(Content(item, heap), Content(item, after))
<1>1. CASE item.of = NoObject
  BY <1>1, ReachedItself DEF ItemOk, Content
<1>2. CASE item.of # NoObject
  BY <1>2, OverReached DEF ItemOk, Content, HeapReached
<1> QED
  BY <1>1, <1>2

\* The parts of a converted message make it up.
LEMMA PartsOfMessage ==
  ASSUME NEW item, NEW heap, ItemOk(item), HeapOk(heap), NEW message, Reached(Content(item, heap), message)
  PROVE  LET own == OwnPart(item, message)  after == SharedPart(item, message, heap) IN
         /\ ItemOk(own) /\ own.of = item.of
         /\ HeapReached(heap, after)
         /\ Content(own, after) = message
<1> DEFINE own == OwnPart(item, message)
           after == SharedPart(item, message, heap)
           kept == Only(message, DOMAIN item.own)
<1> USE DEF ItemOk
<1>1. IsMessage(message) /\ DOMAIN message = DOMAIN Content(item, heap)
  BY DEF Reached
<1>2. kept = [path \in DOMAIN message \cap DOMAIN item.own |-> message[path]]
  BY DEF Only, Restrict
<1>3. IsMessage(kept)
  BY <1>1, <1>2 DEF IsMessage, IsObject
<1>4. DOMAIN own = {"own", "of"} /\ own.own = kept /\ own.of = item.of
  BY DEF OwnPart
<1>5. CASE item.of = NoObject
  <2>1. Content(item, heap) = item.own /\ after = heap
    BY <1>5 DEF Content, SharedPart
  <2>2. kept = message
    BY <1>1, <1>2, <2>1 DEF IsMessage, IsObject
  <2>3. HeapReached(heap, after)
    BY <2>1, ReachedItself DEF HeapReached, HeapOk
  <2> HIDE DEF own, after, kept
  <2> QED
    BY <1>3, <1>4, <1>5, <2>2, <2>3 DEF Content, own, after
<1>6. CASE item.of # NoObject
  <2> DEFINE o == item.of
             held == heap[o]
             rest == Without(message, DOMAIN item.own)
  <2>1. o \in MsgObject /\ IsMessage(held) /\ IsMessage(item.own)
    BY <1>6 DEF HeapOk
  <2>2. Content(item, heap) = item.own ++ held
    BY <1>6 DEF Content
  <2>3. after = [heap EXCEPT ![o] = rest ++ held]
    BY <1>6 DEF SharedPart
  <2>4. rest = [path \in DOMAIN message \cap (DOMAIN message \ DOMAIN item.own) |-> message[path]]
    BY DEF Without, Restrict
  <2> HIDE DEF rest, held, kept, own, o
  <2>5. /\ DOMAIN message = DOMAIN item.own \cup DOMAIN held
        /\ \A path \in DOMAIN held \ DOMAIN item.own : (item.own ++ held)[path] = held[path]
    BY <1>1, <2>1, <2>2, OverMessage
  <2>6. /\ IsMessage(rest) /\ DOMAIN rest = DOMAIN held \ DOMAIN item.own
        /\ \A path \in DOMAIN rest : rest[path] = message[path]
    <3>1. DOMAIN rest = DOMAIN held \ DOMAIN item.own
      BY <2>5, <2>4
    <3>2. IsObject(rest) /\ \A path \in DOMAIN rest : rest[path] = message[path]
      BY <2>4 DEF IsObject
    <3> QED
      BY <1>1, <2>5, <3>1, <3>2 DEF IsMessage
  <2>7. /\ IsMessage(rest ++ held) /\ DOMAIN (rest ++ held) = DOMAIN held
        /\ \A path \in DOMAIN held \cap DOMAIN item.own : (rest ++ held)[path] = held[path]
        /\ \A path \in DOMAIN held \ DOMAIN item.own : (rest ++ held)[path] = message[path]
    <3>1. /\ IsMessage(rest ++ held) /\ DOMAIN (rest ++ held) = DOMAIN rest \cup DOMAIN held
          /\ \A path \in DOMAIN rest : (rest ++ held)[path] = rest[path]
          /\ \A path \in DOMAIN held \ DOMAIN rest : (rest ++ held)[path] = held[path]
      BY <2>1, <2>6, OverMessage
    <3> QED
      BY <2>6, <3>1
  <2>8. Reached(held, rest ++ held)
    <3>1. ASSUME NEW path \in DOMAIN held
          PROVE  \E steps : Passed(steps, path, held[path])
                            /\ (rest ++ held)[path] = Converted(path, held[path], steps)
      <4>1. CASE path \in DOMAIN item.own
        <5>1. Reached(held, held) /\ (rest ++ held)[path] = held[path]
          BY <2>1, <2>7, <3>1, <4>1, ReachedItself
        <5> QED
          BY <3>1, <5>1 DEF Reached
      <4>2. CASE path \notin DOMAIN item.own
        <5>1. (rest ++ held)[path] = message[path] /\ (item.own ++ held)[path] = held[path] /\ path \in DOMAIN message
          BY <2>5, <2>7, <3>1, <4>2
        <5> QED
          BY <2>2, <2>5, <5>1 DEF Reached
      <4> QED
        BY <4>1, <4>2
    <3> QED
      BY <2>1, <2>7, <3>1 DEF Reached
  <2>9. after[o] = rest ++ held /\ \A p \in MsgObject \ {o} : after[p] = heap[p]
    BY <2>1, <2>3 DEF HeapOk
  <2>10. HeapReached(heap, after)
    <3>1. \A p \in MsgObject : Reached(heap[p], after[p])
      BY <2>8, <2>9, ReachedItself DEF HeapOk, held
    <3>2. after = [p \in MsgObject |-> after[p]]
      BY <2>3 DEF HeapOk
    <3>3. HeapOk(after)
      BY <3>1, <3>2 DEF HeapOk, Reached
    <3> HIDE DEF after
    <3> QED
      BY <3>1, <3>3 DEF HeapReached
  <2>11. Content(own, after) = message
    <3>1. Content(own, after) = kept ++ (rest ++ held)
      BY <1>4, <1>6, <2>9 DEF Content, o
    <3>2. /\ IsMessage(kept ++ (rest ++ held)) /\ DOMAIN (kept ++ (rest ++ held)) = DOMAIN message
          /\ \A path \in DOMAIN message : (kept ++ (rest ++ held))[path] = message[path]
      <4> DEFINE shared == rest ++ held
      <4>1. DOMAIN kept = DOMAIN item.own /\ \A path \in DOMAIN kept : kept[path] = message[path]
        BY <1>2, <2>5
      <4>2. /\ IsMessage(shared) /\ DOMAIN shared = DOMAIN held
            /\ \A path \in DOMAIN held \ DOMAIN item.own : shared[path] = message[path]
        BY <2>7
      <4> HIDE DEF shared
      <4>3. /\ IsMessage(kept ++ shared) /\ DOMAIN (kept ++ shared) = DOMAIN kept \cup DOMAIN shared
            /\ \A path \in DOMAIN kept : (kept ++ shared)[path] = kept[path]
            /\ \A path \in DOMAIN shared \ DOMAIN kept : (kept ++ shared)[path] = shared[path]
        BY <1>3, <4>2, OverMessage
      <4>4. IsMessage(kept ++ shared) /\ DOMAIN (kept ++ shared) = DOMAIN message
        BY <2>5, <4>1, <4>2, <4>3
      <4>5. \A path \in DOMAIN message : (kept ++ shared)[path] = message[path]
        BY <2>5, <4>1, <4>2, <4>3
      <4> QED
        BY <4>4, <4>5 DEF shared
    <3> QED
      BY <1>1, <3>1, <3>2 DEF IsMessage, IsObject
  <2> HIDE DEF after
  <2> QED
    BY <1>3, <1>4, <2>10, <2>11 DEF after, own
<1> QED
  BY <1>5, <1>6
LEMMA FollowsHeap ==
  ASSUME NEW item, NEW result, NEW wanted, NEW heap, NEW after, NEW underWay,
         Follows(item, result, wanted, heap, underWay), HeapReached(heap, after)
  PROVE  Follows(item, result, wanted, after, underWay)
<1> DEFINE content == Content(item, heap)
           later == Content(item, after)
<1>1. Reached(content, later)
  BY ContentReached DEF Follows
<1>2. Plain(wanted) => later = content
  BY DEF Follows, Content
<1>3. ASSUME Plain(wanted) \/ ~wanted.edited
      PROVE  /\ Reached(wanted.given, later)
             /\ underWay /\ result \notin {"copied", InvalidPayload} =>
                  wanted.validated.verdict = "ok" /\ later = wanted.validated.message
  <2>1. Reached(wanted.given, content)
    BY <1>3 DEF Follows
  <2>2. Reached(wanted.given, later)
    BY <1>1, <2>1, ReachedTwice
  <2>3. ASSUME underWay, result \notin {"copied", InvalidPayload}
        PROVE  wanted.validated.verdict = "ok" /\ later = wanted.validated.message
    <3>1. /\ wanted.validated.verdict = "ok" /\ content = wanted.validated.message
          /\ IsMessage(wanted.given) /\ wanted.validated = validateMessage(wanted.given)
      BY <1>3, <2>3 DEF Follows
    <3> HIDE DEF content, later
    <3> QED
      BY <1>1, <3>1, AcceptedStays
  <2> QED
    BY <2>2, <2>3
<1> HIDE DEF content, later
<1> QED
  BY <1>2, <1>3 DEF Follows, content, later

LEMMA FollowsEdit ==
  ASSUME NEW item, NEW result, NEW wanted, NEW heap, NEW underWay,
         Follows(item, result, wanted, heap, underWay), HeapOk(heap),
         NEW o \in MsgObject, NEW body, NEW later, DOMAIN later = DOMAIN wanted,
         later.object = wanted.object, later.given = wanted.given, later.validated = wanted.validated,
         ~later.edited => ~wanted.edited /\ wanted.object # o
  PROVE  Follows(item, result, later, [heap EXCEPT ![o] = body], underWay)
<1> DEFINE after == [heap EXCEPT ![o] = body]
<1>1. ASSUME Plain(wanted) \/ wanted.object # o
      PROVE  Content(item, after) = Content(item, heap)
  <2>1. CASE item.of = NoObject
    BY <2>1 DEF Content
  <2>2. CASE item.of # NoObject
    <3>1. after[item.of] = heap[item.of]
      BY <1>1, <2>2 DEF Follows, HeapOk
    <3> QED
      BY <2>2, <3>1 DEF Content
  <2> QED
    BY <2>1, <2>2
<1> HIDE DEF after
<1>2. Follows(item, result, later, after, underWay)
  <2>1. CASE Plain(wanted) \/ wanted.object # o
    BY <1>1, <2>1 DEF Follows, Plain
  <2>2. CASE ~Plain(wanted) /\ wanted.object = o
    BY <2>2 DEF Follows, Plain
  <2> QED
    BY <2>1, <2>2
<1> QED
  BY <1>2 DEF after

LEMMA FollowsValidated ==
  ASSUME NEW item, NEW wanted, NEW heap, NEW before, NEW underWay, NEW result,
         Follows(item, "copied", wanted, heap, before), HeapOk(heap),
         LET v == validateMessage(Content(item, heap)) IN
         /\ underWay /\ result # InvalidPayload => v.verdict = "ok"
         /\ result = InvalidPayload => v.verdict # "ok"
         /\ result # "copied"
  PROVE  LET message == validateMessage(Content(item, heap)).message
             after == SharedPart(item, message, heap) IN
         /\ Follows(OwnPart(item, message), result, wanted, after, underWay)
         /\ HeapReached(heap, after)
<1> DEFINE content == Content(item, heap)
           v == validateMessage(content)
           own == OwnPart(item, v.message)
           after == SharedPart(item, v.message, heap)
<1>1. ItemOk(item) /\ IsMessage(content)
  BY ContentIsMessage DEF Follows
<1>2. Reached(content, v.message)
  <2> HIDE DEF content
  <2> QED
    BY <1>1, ValidatedIs
<1>3. ItemOk(own) /\ own.of = item.of /\ HeapReached(heap, after) /\ Content(own, after) = v.message
  <2> DEFINE message == v.message
  <2>1. Reached(Content(item, heap), message)
    BY <1>2
  <2> HIDE DEF message
  <2> QED
    BY <1>1, <2>1, PartsOfMessage DEF message
<1>4. /\ underWay /\ result # InvalidPayload => v.verdict = "ok"
      /\ result = InvalidPayload => v.verdict # "ok"
      /\ result # "copied"
  OBVIOUS
<1>5. Plain(wanted) => content = wanted.given
  BY DEF Follows
<1>6. Plain(wanted) \/ ~wanted.edited => Reached(wanted.given, content)
  BY DEF Follows
<1> HIDE DEF content, own, after
<1>7. ASSUME Plain(wanted) \/ ~wanted.edited
      PROVE  /\ Reached(wanted.given, v.message)
             /\ v.verdict = "ok" =>
                  validateMessage(wanted.given).verdict = "ok" /\ v.message = validateMessage(wanted.given).message
  BY <1>2, <1>6, <1>7, ReachedTwice, ValidatedLate
<1> HIDE DEF v
<1>8. Follows(own, result, wanted, after, underWay)
  BY <1>3, <1>4, <1>5, <1>7 DEF Follows, v
<1> QED
  BY <1>3, <1>8 DEF own, after, v, content
\* The calls but c are as they were, and the objects of the caller have been
\* converted at most.
LEMMA OneCall ==
  ASSUME MessagesInv, NEW c \in MsgCall, CallOk(c)', HeapReached(caller, caller'),
         DOMAIN msgCall' = MsgCall, DOMAIN asked' = MsgCall, DOMAIN sent' = MsgCall,
         \A d \in MsgCall \ {c} : msgCall'[d] = msgCall[d] /\ asked'[d] = asked[d] /\ sent'[d] = sent[d]
  PROVE  MessagesInv'
<1>1. HeapOk(caller')
  BY DEF HeapReached
<1>2. ASSUME NEW d \in MsgCall, d # c
      PROVE  CallOk(d)'
  <2>1. CallOk(d) /\ msgCall'[d] = msgCall[d] /\ asked'[d] = asked[d] /\ sent'[d] = sent[d]
    BY <1>2 DEF MessagesInv
  <2>2. \A i \in DOMAIN asked[d] :
          Follows(msgCall[d].items[i], msgCall[d].results[i], asked[d][i], caller', UnderWay(msgCall[d]))
    BY <2>1, FollowsHeap DEF CallOk
  <2> QED
    BY <2>1, <2>2 DEF CallOk, UnderWay, Plain, Expected
<1> QED
  BY <1>1, <1>2 DEF MessagesInv

LEMMA HeapReachedItself == ASSUME NEW heap, HeapOk(heap) PROVE HeapReached(heap, heap)
BY ReachedItself DEF HeapReached, HeapOk

LEMMA BeginStep ==
  ASSUME MessagesInv, NEW c \in MsgCall, NEW method, NEW dryRun, NEW items, NEW result, NEW state, NEW messages,
         Begin(c, method, dryRun, items, result, state), Remember(c, messages), DOMAIN messages = DOMAIN items,
         DOMAIN items \subseteq Nat, HeapReached(caller, caller'), state \in {"path", "refused"}, method = "send" => result # "copied",
         \A i \in DOMAIN items : Follows(items[i], result, messages[i], caller', state = "path")
  PROVE  MessagesInv'
<1> DEFINE call == [state |-> state, method |-> method, dryRun |-> dryRun, items |-> items,
                    results |-> [i \in DOMAIN items |-> result]]
           bodies == [i \in DOMAIN items |-> {}]
<1>1. /\ msgCall' = [msgCall EXCEPT ![c] = call] /\ sent' = [sent EXCEPT ![c] = bodies]
      /\ asked' = [asked EXCEPT ![c] = messages]
  BY DEF Begin, Remember
<1>2. /\ DOMAIN call = {"state", "method", "dryRun", "items", "results"}
      /\ call.state = state /\ call.method = method /\ call.items = items
      /\ DOMAIN call.results = DOMAIN items /\ \A i \in DOMAIN items : call.results[i] = result
      /\ DOMAIN bodies = DOMAIN items /\ \A i \in DOMAIN items : bodies[i] = {}
  OBVIOUS
<1> HIDE DEF call, bodies
<1>3. msgCall'[c] = call /\ sent'[c] = bodies /\ asked'[c] = messages
  BY <1>1 DEF MessagesInv
<1>4. UnderWay(call) = (state = "path")
  BY <1>2 DEF UnderWay
<1>5. CallOk(c)'
  BY <1>2, <1>3, <1>4 DEF CallOk
<1> QED
  BY <1>1, <1>5, OneCall DEF MessagesInv

\* What deepCopy() and the messages of a multicast hold at the call.
LEMMA ItemsFollow ==
  ASSUME MessagesInv, NEW o \in MsgObject, NEW item, NEW message, NEW underWay, ItemOk(item),
         item.of = IF o \in Instance THEN o ELSE NoObject, Content(item, caller) = message
  PROVE  Follows(item, "copied", Requested(o, message), caller, underWay)
<1> DEFINE wanted == Requested(o, message)
<1>1. /\ DOMAIN wanted = {"object", "given", "validated", "edited"}
      /\ wanted.object = o /\ wanted.given = message /\ wanted.validated = validateMessage(message)
  BY DEF Requested
<1>2. IsMessage(message) /\ Reached(message, message)
  BY ContentIsMessage, ReachedItself DEF MessagesInv
<1> HIDE DEF wanted
<1>3. Follows(item, "copied", wanted, caller, underWay)
  BY <1>1, <1>2 DEF Follows, Plain, InvalidPayload
<1> QED
  BY <1>3 DEF wanted

LEMMA CopiesFollow ==
  ASSUME MessagesInv, NEW o \in MsgObject, NEW underWay
  PROVE  Follows(deepCopy(o), "copied", Requested(o, caller[o]), caller, underWay)
<1> DEFINE item == deepCopy(o)
<1>1. IsMessage(caller[o]) /\ NoObject \notin MsgObject
  BY MessagesAssumption DEF MessagesInv, HeapOk
<1>2. CASE o \in Instance
  <2>1. DOMAIN item = {"own", "of"} /\ item.own = EmptyObject /\ item.of = o
    BY <1>2 DEF deepCopy, Shared
  <2>2. IsMessage(EmptyObject) /\ DOMAIN EmptyObject = {}
    BY DEF IsMessage, IsObject, EmptyObject
  <2> HIDE DEF item
  <2>3. Content(item, caller) = EmptyObject ++ caller[o]
    BY <1>1, <2>1 DEF Content
  <2> DEFINE none == EmptyObject
             held == caller[o]
  <2>4. IsMessage(none) /\ IsMessage(held) /\ DOMAIN none = {}
    BY <1>1, <2>2
  <2> HIDE DEF none, held
  <2>5. IsMessage(none ++ held) /\ DOMAIN (none ++ held) = DOMAIN held
    BY <2>4, OverMessage
  <2>6. \A path \in DOMAIN held : (none ++ held)[path] = held[path]
    <3>1. \A path \in DOMAIN held \ DOMAIN none : (none ++ held)[path] = held[path]
      BY <2>4, OverMessage
    <3> QED
      BY <2>4, <3>1
  <2>7. none ++ held = held
    BY <2>4, <2>5, <2>6 DEF IsMessage, IsObject
  <2>8. Content(item, caller) = caller[o]
    BY <2>3, <2>7 DEF none, held
  <2> QED
    BY <1>2, <2>1, <2>2, <2>8, ItemsFollow DEF ItemOk, item
<1>3. CASE o \notin Instance
  <2>1. DOMAIN item = {"own", "of"} /\ item.own = caller[o] /\ item.of = NoObject
    BY <1>3 DEF deepCopy, Owned
  <2> HIDE DEF item
  <2> QED
    BY <1>1, <1>3, <2>1, ItemsFollow DEF ItemOk, Content, item
<1> QED
  BY <1>2, <1>3

LEMMA SendStep ==
  ASSUME MessagesInv, NEW c \in MsgCall, NEW o \in MsgObject, NEW dryRun, send(c, o, dryRun)
  PROVE  MessagesInv'
<1> DEFINE item == deepCopy(o)
           validated == validateMessage(Content(item, caller))
           accepted == validated.verdict = "ok" /\ dryRun # "bad"
           own == OwnPart(item, validated.message)
           after == SharedPart(item, validated.message, caller)
           wanted == Requested(o, caller[o])
           state == IF accepted THEN "path" ELSE "refused"
<1>1. /\ Begin(c, "send", dryRun, <<own>>, "waiting", state) /\ Remember(c, <<wanted>>)
      /\ caller' = after
  BY DEF send
<1>2. Follows(item, "copied", wanted, caller, FALSE)
  BY CopiesFollow
<1>3. Follows(own, "waiting", wanted, after, state = "path") /\ HeapReached(caller, after)
  <2> DEFINE underWay == state = "path"
  <2>1. /\ underWay /\ "waiting" # InvalidPayload => validated.verdict = "ok"
        /\ "waiting" # InvalidPayload /\ "waiting" # "copied" /\ HeapOk(caller)
    BY DEF InvalidPayload, MessagesInv
  <2> HIDE DEF item, wanted, underWay
  <2>2. Follows(own, "waiting", wanted, after, underWay) /\ HeapReached(caller, after)
    BY <1>2, <2>1, FollowsValidated
  <2> QED
    BY <2>2 DEF underWay
<1> DEFINE items == <<own>>
           messages == <<wanted>>
<1>4. \A i \in DOMAIN items : Follows(items[i], "waiting", messages[i], caller', state = "path")
  BY <1>1, <1>3
<1>5. DOMAIN messages = DOMAIN items /\ DOMAIN items \subseteq Nat /\ "waiting" # "copied" /\ state \in {"path", "refused"}
  OBVIOUS
<1>6. Begin(c, "send", dryRun, items, "waiting", state) /\ Remember(c, messages) /\ HeapReached(caller, caller')
  BY <1>1, <1>3
<1> HIDE DEF items, messages, state
<1> QED
  BY <1>4, <1>5, <1>6, BeginStep
LEMMA EachStep ==
  ASSUME MessagesInv, NEW c \in MsgCall, NEW batch \in Batches, NEW dryRun, sendEach(c, batch, dryRun)
  PROVE  MessagesInv'
<1> DEFINE items == [i \in DOMAIN batch |-> deepCopy(batch[i])]
           messages == [i \in DOMAIN batch |-> Requested(batch[i], caller[batch[i]])]
           state == IF BatchAccepted(Len(batch), dryRun) THEN "path" ELSE "refused"
<1>1. Begin(c, "each", dryRun, items, "copied", state) /\ Remember(c, messages) /\ caller' = caller
  BY DEF sendEach
<1>2. \A i \in DOMAIN items : Follows(items[i], "copied", messages[i], caller', state = "path")
  <2>1. \A i \in DOMAIN batch : batch[i] \in MsgObject
    BY MessagesAssumption
  <2> HIDE DEF state
  <2>2. \A i \in DOMAIN batch :
          Follows(deepCopy(batch[i]), "copied", Requested(batch[i], caller[batch[i]]), caller, state = "path")
    BY <2>1, CopiesFollow
  <2> QED
    BY <1>1, <2>2
<1>3. DOMAIN messages = DOMAIN items /\ DOMAIN items \subseteq Nat /\ state \in {"path", "refused"} /\ "each" # "send"
  BY MessagesAssumption
<1>4. HeapReached(caller, caller')
  BY <1>1, HeapReachedItself DEF MessagesInv
<1> HIDE DEF items, messages, state
<1> QED
  BY <1>1, <1>2, <1>3, <1>4, BeginStep

LEMMA MulticastStep ==
  ASSUME MessagesInv, NEW c \in MsgCall, NEW o \in MsgObject, NEW tokens \in TokenLists, NEW dryRun,
         sendEachForMulticast(c, o, tokens, dryRun)
  PROVE  MessagesInv'
<1> DEFINE Target(token) == Field("target", Field("token", token))
           items == [i \in DOMAIN tokens |-> ForToken(o, tokens[i])]
           messages == [i \in DOMAIN tokens |-> Requested(o, Target(tokens[i]) ++ caller[o])]
           state == IF BatchAccepted(Len(tokens), dryRun) THEN "path" ELSE "refused"
<1>1. Begin(c, "each", dryRun, items, "copied", state) /\ Remember(c, messages) /\ caller' = caller
  BY DEF sendEachForMulticast
<1>2. ASSUME NEW token, NEW underWay
      PROVE  Follows(ForToken(o, token), "copied", Requested(o, Target(token) ++ caller[o]), caller, underWay)
  <2> DEFINE item == ForToken(o, token)
             target == Target(token)
  <2>1. IsMessage(target) /\ IsMessage(caller[o]) /\ NoObject \notin MsgObject
    BY MessagesAssumption DEF IsMessage, IsObject, Field, MessagesInv, HeapOk
  <2>2. IsMessage(target ++ caller[o])
    BY <2>1, OverMessage
  <2>3. CASE o \in Instance
    <3>1. DOMAIN item = {"own", "of"} /\ item.own = target /\ item.of = o
      BY <2>3 DEF ForToken, Shared
    <3> HIDE DEF item, target
    <3>2. Content(item, caller) = target ++ caller[o]
      BY <2>1, <3>1 DEF Content
    <3> QED
      BY <2>1, <2>3, <3>1, <3>2, ItemsFollow DEF ItemOk, item, target
  <2>4. CASE o \notin Instance
    <3>1. DOMAIN item = {"own", "of"} /\ item.own = target ++ caller[o] /\ item.of = NoObject
      BY <2>4 DEF ForToken, Owned
    <3> HIDE DEF item, target
    <3>2. Content(item, caller) = target ++ caller[o]
      BY <3>1 DEF Content
    <3> QED
      BY <2>2, <2>4, <3>1, <3>2, ItemsFollow DEF ItemOk, item, target
  <2> QED
    BY <2>3, <2>4
<1>3. \A i \in DOMAIN items : Follows(items[i], "copied", messages[i], caller', state = "path")
  <2> HIDE DEF Target, state
  <2> QED
    BY <1>1, <1>2
<1>4. DOMAIN messages = DOMAIN items /\ DOMAIN items \subseteq Nat /\ state \in {"path", "refused"} /\ "each" # "send"
  BY MessagesAssumption
<1>5. HeapReached(caller, caller')
  BY <1>1, HeapReachedItself DEF MessagesInv
<1> HIDE DEF items, messages, state
<1> QED
  BY <1>1, <1>3, <1>4, <1>5, BeginStep

\* What changes the state of a call only.
LEMMA StateStep ==
  ASSUME MessagesInv, NEW c \in MsgCall, NEW state,
         msgCall' = [msgCall EXCEPT ![c].state = state], UNCHANGED <<caller, asked, sent>>,
         state \in {"path", "validating", "sending"} => UnderWay(msgCall[c]),
         state = "sending" => msgCall[c].method = "send"
  PROVE  MessagesInv'
<1> DEFINE call == msgCall[c]
<1>1. CallOk(c) /\ DOMAIN msgCall = MsgCall /\ HeapReached(caller, caller')
  BY HeapReachedItself DEF MessagesInv
<1>2. /\ DOMAIN msgCall'[c] = DOMAIN call /\ msgCall'[c].state = state /\ msgCall'[c].items = call.items
      /\ msgCall'[c].results = call.results /\ msgCall'[c].dryRun = call.dryRun /\ msgCall'[c].method = call.method
  BY <1>1 DEF CallOk
<1>3. UnderWay(call)' => UnderWay(call)
  BY <1>2 DEF UnderWay
<1>4. CallOk(c)'
  <2>1. ASSUME NEW i \in DOMAIN asked[c]
        PROVE  Follows(call.items[i], call.results[i], asked[c][i], caller, UnderWay(call)')
    <3>1. Follows(call.items[i], call.results[i], asked[c][i], caller, UnderWay(call))
      BY <1>1 DEF CallOk
    <3> QED
      BY <1>3, <3>1 DEF Follows
  <2> QED
    BY <1>1, <1>2, <2>1 DEF CallOk, Plain, Expected
<1> QED
  BY <1>1, <1>4, OneCall DEF MessagesInv

LEMMA PathStep ==
  ASSUME MessagesInv, NEW c \in MsgCall, UrlPathFound(c) \/ UrlPathFails(c)
  PROVE  MessagesInv'
<1>1. msgCall[c].state = "path" /\ UNCHANGED <<caller, asked, sent>> /\ UnderWay(msgCall[c])
  BY DEF UrlPathFound, UrlPathFails, UnderWay
<1>2. CASE UrlPathFound(c)
  <2>1. CASE msgCall[c].method = "send"
    BY <1>1, <1>2, <2>1, StateStep DEF UrlPathFound
  <2>2. CASE msgCall[c].method # "send"
    BY <1>1, <1>2, <2>2, StateStep DEF UrlPathFound
  <2> QED
    BY <2>1, <2>2
<1>3. CASE UrlPathFails(c)
  BY <1>1, <1>3, StateStep DEF UrlPathFails
<1> QED
  BY <1>2, <1>3

LEMMA ValidateNextStep ==
  ASSUME MessagesInv, NEW c \in MsgCall, NEW i \in DOMAIN msgCall[c].items, ValidateNext(c, i)
  PROVE  MessagesInv'
<1> DEFINE call == msgCall[c]
           item == call.items[i]
           v == validateMessage(Content(item, caller))
           own == OwnPart(item, v.message)
           after == SharedPart(item, v.message, caller)
           result == IF v.verdict = "ok" THEN "waiting" ELSE v.verdict
           state == IF \E j \in DOMAIN call.items : j > i THEN call.state ELSE "sending"
<1>1. CallOk(c) /\ DOMAIN msgCall = MsgCall /\ HeapOk(caller) /\ i \in DOMAIN asked[c]
  BY DEF MessagesInv, CallOk
<1>2. /\ call.state = "validating" /\ call.results[i] = "copied"
      /\ \A j \in DOMAIN asked[c] : call.results[j] = "copied" <=> j >= i
      /\ asked' = asked /\ sent' = sent /\ caller' = after
      /\ msgCall' = [msgCall EXCEPT ![c].state = state, ![c].items[i] = own, ![c].results[i] = result]
  <2>1. i \in Nat /\ DOMAIN call.items = DOMAIN asked[c]
    BY <1>1 DEF CallOk
  <2>2. /\ call.state = "validating" /\ \A j \in DOMAIN asked[c] : call.results[j] = "copied" <=> j >= i
        /\ asked' = asked /\ sent' = sent /\ caller' = after
    BY <2>1 DEF ValidateNext
  <2>3. msgCall' = [msgCall EXCEPT ![c].state = state, ![c].items[i] = own, ![c].results[i] = result]
    BY DEF ValidateNext
  <2>4. call.results[i] = "copied"
    BY <1>1, <2>1, <2>2
  <2> QED
    BY <2>2, <2>3, <2>4
<1>3. v.verdict \in {"ok", InvalidPayload}
  <2>1. IsMessage(Content(item, caller))
    BY <1>1, ContentIsMessage DEF CallOk, Follows
  <2> DEFINE content == Content(item, caller)
  <2> HIDE DEF content
  <2> QED
    BY <2>1, ValidatedIs DEF content
<1>4. Follows(own, result, asked[c][i], after, TRUE) /\ HeapReached(caller, after)
  <2>1. Follows(item, "copied", asked[c][i], caller, TRUE)
    BY <1>1, <1>2 DEF CallOk, UnderWay
  <2>2. /\ result # InvalidPayload => v.verdict = "ok"
        /\ result = InvalidPayload => v.verdict # "ok"
        /\ result # "copied"
    <3> HIDE DEF v
    <3> QED
      BY <1>3 DEF InvalidPayload
  <2> DEFINE wanted == asked[c][i]
             underWay == TRUE
  <2>3. /\ Follows(item, "copied", wanted, caller, underWay) /\ HeapOk(caller)
        /\ underWay /\ result # InvalidPayload => v.verdict = "ok"
        /\ result = InvalidPayload => v.verdict # "ok"
        /\ result # "copied"
    BY <1>1, <2>1, <2>2
  <2> HIDE DEF item, result, wanted, underWay
  <2>4. Follows(own, result, wanted, after, underWay) /\ HeapReached(caller, after)
    BY <2>3, FollowsValidated
  <2> QED
    BY <2>4 DEF wanted, underWay
<1>5. result # "copied"
  <2> HIDE DEF v
  <2> QED
    BY <1>3 DEF InvalidPayload
<1> HIDE DEF own, after, result, state, v
<1>6. /\ DOMAIN msgCall'[c] = DOMAIN call /\ msgCall'[c].state = state
      /\ msgCall'[c].dryRun = call.dryRun /\ msgCall'[c].method = call.method
      /\ msgCall'[c].items = [call.items EXCEPT ![i] = own]
      /\ msgCall'[c].results = [call.results EXCEPT ![i] = result]
  BY <1>1, <1>2 DEF CallOk
<1>7. state \in {"validating", "sending"} /\ UnderWay(call) /\ UnderWay(call)'
  BY <1>2, <1>6 DEF state, UnderWay
<1>8. ASSUME NEW j \in DOMAIN asked[c]
      PROVE  Follows(call.items[j], call.results[j], asked[c][j], caller, TRUE)' 
  <2>1. CASE j = i
    BY <1>1, <1>2, <1>4, <1>6, <2>1 DEF CallOk
  <2>2. CASE j # i
    <3>1. Follows(call.items[j], call.results[j], asked[c][j], caller, TRUE)
      BY <1>1, <1>7 DEF CallOk
    <3>2. Follows(call.items[j], call.results[j], asked[c][j], after, TRUE)
      BY <1>4, <3>1, FollowsHeap
    <3>3. call.items'[j] = call.items[j] /\ call.results'[j] = call.results[j]
      BY <1>1, <1>6, <2>2 DEF CallOk
    <3> QED
      BY <1>2, <3>2, <3>3
  <2> QED
    BY <2>1, <2>2
<1>9. ASSUME state = "sending" \/ call.method = "send", NEW j \in DOMAIN asked[c]
      PROVE  call.results'[j] # "copied"
  <2>1. CASE j = i
    BY <1>1, <1>5, <1>6, <2>1 DEF CallOk
  <2>2. CASE j # i
    <3>1. call.results[j] # "copied"
      <4>1. CASE call.method = "send"
        BY <1>1, <4>1 DEF CallOk
      <4>2. CASE state = "sending"
        <5>1. ~(j > i)
          BY <1>1, <1>2, <4>2 DEF CallOk, state
        <5>2. j \in Nat /\ i \in Nat
          BY <1>1 DEF CallOk
        <5> QED
          BY <1>2, <2>2, <5>1, <5>2
      <4> QED
        BY <1>9, <4>1, <4>2
    <3> QED
      BY <1>1, <1>6, <2>2, <3>1 DEF CallOk
  <2> QED
    BY <2>1, <2>2
<1>10. CallOk(c)'
  BY <1>1, <1>2, <1>6, <1>7, <1>8, <1>9 DEF CallOk, Plain, Expected
<1> QED
  BY <1>1, <1>2, <1>4, <1>10, OneCall DEF MessagesInv
\* No error of a request is the one of a refused message.
LEMMA MessageCodes ==
  ASSUME NEW answer
  PROVE  /\ ResponseOfSend(answer) \notin {"copied", InvalidPayload}
         /\ SendResponse(answer) \notin {"copied", InvalidPayload}
<1>1. \A code \in DOMAIN ServerToClientCode : ServerToClientCode[code] \notin {"copied", "invalid-payload"}
  BY DEF ServerToClientCode
<1>2. fromServerError(answer.code) \notin {"copied", "invalid-payload"}
  BY <1>1 DEF fromServerError, At
<1>3. createFirebaseError(answer) \notin {"copied", "invalid-payload"}
  BY <1>2 DEF createFirebaseError
<1> QED
  BY <1>3 DEF ResponseOfSend, SendResponse, InvalidPayload

\* A message that is under way was accepted.
LEMMA SettleStep ==
  ASSUME MessagesInv, NEW c \in MsgCall, NEW i \in DOMAIN asked[c], NEW states, NEW result, NEW bodies,
         Waiting(c, i, states), InvalidPayload \notin states, result \notin {"copied", InvalidPayload},
         SettleMessage(c, i, result),
         sent' = [sent EXCEPT ![c][i] = bodies] \/ (sent' = sent /\ bodies = sent[c][i]),
         bodies \subseteq sent[c][i] \cup {[message |-> Content(msgCall[c].items[i], caller),
                                            validate_only |-> msgCall[c].dryRun = "yes"]}
  PROVE  MessagesInv'
<1> DEFINE call == msgCall[c]
<1>1. /\ CallOk(c) /\ DOMAIN msgCall = MsgCall /\ DOMAIN sent = MsgCall /\ HeapReached(caller, caller')
      /\ asked' = asked /\ caller' = caller /\ call.state = "sending"
      /\ msgCall' = [msgCall EXCEPT ![c].results[i] = result]
  BY HeapReachedItself DEF Waiting, SettleMessage, MessagesInv
<1>2. /\ DOMAIN msgCall'[c] = DOMAIN call /\ msgCall'[c].state = "sending" /\ msgCall'[c].items = call.items
      /\ msgCall'[c].results = [call.results EXCEPT ![i] = result] /\ msgCall'[c].dryRun = call.dryRun
      /\ DOMAIN sent' = MsgCall /\ DOMAIN sent'[c] = DOMAIN asked[c] /\ sent'[c][i] = bodies
      /\ \A j \in DOMAIN asked[c] : j # i => sent'[c][j] = sent[c][j]
      /\ \A d \in MsgCall : d # c => sent'[d] = sent[d]
  BY <1>1 DEF CallOk
<1>3. call.results[i] \notin {"copied", InvalidPayload} /\ UnderWay(call)
  BY <1>1 DEF Waiting, CallOk, UnderWay
<1>4. ASSUME NEW j \in DOMAIN asked[c]
      PROVE  /\ Follows(call.items[j], call.results'[j], asked[c][j], caller, UnderWay(call))
             /\ Plain(asked[c][j]) \/ ~asked[c][j].edited => sent'[c][j] \subseteq {Expected(call, asked[c][j])}
  <2> DEFINE wanted == asked[c][j]
  <2>1. /\ Follows(call.items[j], call.results[j], wanted, caller, UnderWay(call))
        /\ Plain(wanted) \/ ~wanted.edited => sent[c][j] \subseteq {Expected(call, wanted)}
    BY <1>1 DEF CallOk
  <2>2. CASE j # i
    BY <1>1, <1>2, <2>1, <2>2 DEF CallOk
  <2>3. CASE j = i
    <3>1. call.results'[j] = result
      BY <1>1, <1>2, <2>3 DEF CallOk
    <3>2. Follows(call.items[j], result, wanted, caller, UnderWay(call))
      BY <1>3, <2>1, <2>3 DEF Follows
    <3>3. ASSUME Plain(wanted) \/ ~wanted.edited
          PROVE  bodies \subseteq {Expected(call, wanted)}
      <4>1. Content(call.items[i], caller) = wanted.validated.message
        BY <1>3, <2>1, <2>3, <3>3 DEF Follows
      <4> QED
        BY <2>1, <2>3, <3>3, <4>1 DEF Expected
    <3> QED
      BY <1>2, <2>3, <3>1, <3>2, <3>3
  <2> QED
    BY <2>2, <2>3
<1>5. CallOk(c)'
  <2>1. \A j \in DOMAIN asked[c] : call.results'[j] # "copied"
    BY <1>1, <1>2 DEF CallOk
  <2>2. UnderWay(call)' /\ UnderWay(call)
    BY <1>2, <1>3 DEF UnderWay
  <2>3. \A j \in DOMAIN asked[c] : Expected(call, asked[c][j])' = Expected(call, asked[c][j])
    BY <1>1, <1>2 DEF Expected
  <2>4. \A j \in DOMAIN asked[c] : Follows(call.items[j], call.results[j], asked[c][j], caller, UnderWay(call))'
    BY <1>1, <1>2, <1>4, <2>2
  <2> QED
    BY <1>1, <1>2, <1>4, <2>1, <2>3, <2>4 DEF CallOk, Plain
<1> QED
  BY <1>1, <1>2, <1>5, OneCall DEF MessagesInv
LEMMA RequestStep ==
  ASSUME MessagesInv, NEW c \in MsgCall, NEW i \in DOMAIN msgCall[c].items,
         \/ Transmit(c, i) \/ RetryMessage(c, i) \/ MessageFails(c, i)
         \/ \E answer \in FcmAnswers : Answered(c, i, answer)
  PROVE  MessagesInv'
<1>1. /\ i \in DOMAIN asked[c]
      /\ sent[c][i] \subseteq sent[c][i] \cup {[message |-> Content(msgCall[c].items[i], caller),
                                                 validate_only |-> msgCall[c].dryRun = "yes"]}
  BY DEF MessagesInv, CallOk
<1>2. CASE Transmit(c, i)
  <2> DEFINE bodies == sent[c][i] \cup {[message |-> Content(msgCall[c].items[i], caller),
                                         validate_only |-> msgCall[c].dryRun = "yes"]}
             result == IF msgCall[c].results[i] = "waiting" THEN "sent" ELSE "resent"
             states == {"waiting", "retry"}
  <2>1. /\ Waiting(c, i, states) /\ sent' = [sent EXCEPT ![c][i] = bodies]
        /\ SettleMessage(c, i, result)
    BY <1>2 DEF Transmit
  <2>2. InvalidPayload \notin states /\ result \notin {"copied", InvalidPayload}
    BY DEF InvalidPayload
  <2>3. bodies \subseteq bodies
    OBVIOUS
  <2> HIDE DEF result, states
  <2> QED
    BY <1>1, <2>1, <2>2, <2>3, SettleStep
<1>3. CASE RetryMessage(c, i)
  <2> DEFINE states == {"sent"}
  <2>1. Waiting(c, i, states) /\ SettleMessage(c, i, "retry") /\ sent' = sent
    BY <1>3 DEF RetryMessage
  <2>2. InvalidPayload \notin states /\ "retry" \notin {"copied", InvalidPayload}
    BY DEF InvalidPayload
  <2> HIDE DEF states
  <2> QED
    BY <1>1, <2>1, <2>2, SettleStep
<1>4. CASE MessageFails(c, i)
  <2> DEFINE states == {"waiting", "resent"}
  <2>1. Waiting(c, i, states) /\ SettleMessage(c, i, "app-error") /\ sent' = sent
    BY <1>4 DEF MessageFails
  <2>2. InvalidPayload \notin states /\ "app-error" \notin {"copied", InvalidPayload}
    BY DEF InvalidPayload
  <2> HIDE DEF states
  <2> QED
    BY <1>1, <2>1, <2>2, SettleStep
<1>5. ASSUME NEW answer \in FcmAnswers, Answered(c, i, answer)
      PROVE  MessagesInv'
  <2> DEFINE states == {"sent", "resent"}
             result == IF msgCall[c].method = "send" THEN ResponseOfSend(answer) ELSE SendResponse(answer)
  <2>1. Waiting(c, i, states) /\ SettleMessage(c, i, result) /\ sent' = sent
    BY <1>5 DEF Answered
  <2>2. InvalidPayload \notin states /\ result \notin {"copied", InvalidPayload}
    BY MessageCodes DEF InvalidPayload
  <2> HIDE DEF states, result
  <2> QED
    BY <1>1, <2>1, <2>2, SettleStep
<1> QED
  BY <1>2, <1>3, <1>4, <1>5

LEMMA EditMessageStep ==
  ASSUME MessagesInv, NEW o \in MsgObject, NEW body \in Edits, CallerEdits(o, body)
  PROVE  MessagesInv'
<1> DEFINE after == [caller EXCEPT ![o] = body]
           later(c, i) == [asked[c][i] EXCEPT !.edited = @ \/ asked[c][i].object = o]
<1>1. /\ msgCall' = msgCall /\ sent' = sent /\ caller' = after /\ HeapOk(caller)
      /\ asked' = [c \in MsgCall |-> [i \in DOMAIN asked[c] |-> later(c, i)]]
  BY DEF CallerEdits, MessagesInv
<1>2. HeapOk(after)
  BY <1>1, MessagesAssumption DEF HeapOk
<1>3. ASSUME NEW c \in MsgCall
      PROVE  CallOk(c)'
  <2>1. CallOk(c) /\ DOMAIN asked'[c] = DOMAIN asked[c]
    BY <1>1 DEF MessagesInv
  <2>2. ASSUME NEW i \in DOMAIN asked[c]
        PROVE  /\ Follows(msgCall[c].items[i], msgCall[c].results[i], asked'[c][i], after, UnderWay(msgCall[c]))
               /\ Plain(asked'[c][i]) \/ ~asked'[c][i].edited =>
                    sent[c][i] \subseteq {Expected(msgCall[c], asked'[c][i])}
    <3> DEFINE wanted == asked[c][i]
    <3>1. /\ Follows(msgCall[c].items[i], msgCall[c].results[i], wanted, caller, UnderWay(msgCall[c]))
          /\ Plain(wanted) \/ ~wanted.edited => sent[c][i] \subseteq {Expected(msgCall[c], wanted)}
      BY <2>1 DEF CallOk
    <3>2. asked'[c][i] = [wanted EXCEPT !.edited = @ \/ wanted.object = o]
      BY <1>1
    <3>3. DOMAIN wanted = {"object", "given", "validated", "edited"}
      BY <3>1 DEF Follows
    <3>4. /\ DOMAIN asked'[c][i] = DOMAIN wanted /\ asked'[c][i].object = wanted.object
          /\ asked'[c][i].given = wanted.given /\ asked'[c][i].validated = wanted.validated
          /\ ~asked'[c][i].edited => ~wanted.edited /\ wanted.object # o
      BY <3>2, <3>3
    <3> HIDE DEF wanted
    <3>5. Follows(msgCall[c].items[i], msgCall[c].results[i], asked'[c][i], after, UnderWay(msgCall[c]))
      <4> DEFINE item == msgCall[c].items[i]
                 result == msgCall[c].results[i]
                 underWay == UnderWay(msgCall[c])
                 edited == asked'[c][i]
      <4>1. Follows(item, result, wanted, caller, underWay)
        BY <3>1
      <4>2. /\ DOMAIN edited = DOMAIN wanted /\ edited.object = wanted.object
            /\ edited.given = wanted.given /\ edited.validated = wanted.validated
            /\ ~edited.edited => ~wanted.edited /\ wanted.object # o
        BY <3>4
      <4> HIDE DEF item, result, underWay, edited
      <4>3. Follows(item, result, edited, after, underWay)
        BY <1>1, <4>1, <4>2, FollowsEdit
      <4> QED
        BY <4>3 DEF item, result, underWay, edited
    <3> QED
      BY <3>1, <3>4, <3>5 DEF Plain, Expected
  <2> HIDE DEF after
  <2> QED
    BY <1>1, <2>1, <2>2 DEF CallOk, Plain, Expected, UnderWay
<1> QED
  BY <1>1, <1>2, <1>3 DEF MessagesInv

\* What is no step of a call leaves what calls hold alone.
LEMMA OtherStep ==
  ASSUME MessagesInv, UNCHANGED <<caller, msgCall, asked, sent>>
  PROVE  MessagesInv'
BY DEF MessagesInv, CallOk, Plain, Expected, UnderWay

LEMMA MessagesNextInv ==
  ASSUME MessagesInv, [MessagesNext]_messageVars
  PROVE  MessagesInv'
<1>1. ASSUME NEW c \in MsgCall, NEW dryRun \in DryRun, NEW o \in MsgObject,
             send(c, o, dryRun) \/ \E tokens \in TokenLists : sendEachForMulticast(c, o, tokens, dryRun)
      PROVE  MessagesInv'
  BY <1>1, SendStep, MulticastStep
<1>2. ASSUME NEW c \in MsgCall, NEW dryRun \in DryRun, NEW batch \in Batches, sendEach(c, batch, dryRun)
      PROVE  MessagesInv'
  BY <1>2, EachStep
<1>3. ASSUME NEW c \in MsgCall, UrlPathFound(c) \/ UrlPathFails(c)
      PROVE  MessagesInv'
  BY <1>3, PathStep
<1>4. ASSUME NEW c \in MsgCall, NEW i \in DOMAIN msgCall[c].items,
             \/ ValidateNext(c, i)
             \/ Transmit(c, i) \/ RetryMessage(c, i) \/ MessageFails(c, i)
             \/ \E answer \in FcmAnswers : Answered(c, i, answer)
      PROVE  MessagesInv'
  BY <1>4, ValidateNextStep, RequestStep
<1>5. ASSUME NEW o \in MsgObject, NEW body \in Edits, CallerEdits(o, body)
      PROVE  MessagesInv'
  BY <1>5, EditMessageStep
<1>6. ASSUME NEW op, NEW tokens, NEW topic, sendTopicManagementRequest(op, tokens, topic)
      PROVE  MessagesInv'
  BY <1>6, OtherStep DEF sendTopicManagementRequest
<1>7. ASSUME (\E refused : TopicAnswered(refused)) \/ TopicFails
      PROVE  MessagesInv'
  BY <1>7, OtherStep DEF TopicAnswered, TopicFails
<1>8. CASE UNCHANGED messageVars
  BY <1>8, OtherStep DEF messageVars
<1> QED
  BY <1>1, <1>2, <1>3, <1>4, <1>5, <1>6, <1>7, <1>8 DEF MessagesNext, subscribeToTopic, unsubscribeFromTopic

\* Whatever becomes of a message the caller gave as a plain object, and as long as
\* the caller leaves one made of class instances alone, however many calls convert
\* it in place meanwhile, every attempt sends it as the API writes what it was when
\* the call was made, and it is refused when it was to be.  (messaging.ts:151 and
\* 196, the copies of the messages; deep-copy.ts:67, what they share)
THEOREM RequestsAreAsAsked == MessagesSpec => []EveryRequestIsWhatWasAsked
<1>1. MessagesInit => MessagesInv
  <2> SUFFICES ASSUME MessagesInit PROVE MessagesInv
    OBVIOUS
  <2>1. HeapOk(caller)
    BY MessagesAssumption DEF MessagesInit, HeapOk
  <2>2. \A c \in MsgCall : CallOk(c)
    BY DEF MessagesInit, CallOk, NoCall
  <2> QED
    BY <2>1, <2>2 DEF MessagesInit, MessagesInv
<1>2. MessagesInv => EveryRequestIsWhatWasAsked
  <2> SUFFICES ASSUME MessagesInv, NEW c \in MsgCall, NEW i \in DOMAIN asked[c],
                      Plain(asked[c][i]) \/ ~asked[c][i].edited
               PROVE  LET wanted == asked[c][i]  refused == msgCall[c].results[i] = InvalidPayload IN
                      /\ sent[c][i] \subseteq {Expected(msgCall[c], wanted)}
                      /\ msgCall[c].state = "sending" =>
                           /\ wanted.validated.verdict # "ok" => refused
                           /\ Plain(wanted) /\ refused => wanted.validated.verdict # "ok"
    BY DEF EveryRequestIsWhatWasAsked, Plain, Expected
  <2>1. CallOk(c)
    BY DEF MessagesInv
  <2>2. /\ Follows(msgCall[c].items[i], msgCall[c].results[i], asked[c][i], caller, UnderWay(msgCall[c]))
        /\ sent[c][i] \subseteq {Expected(msgCall[c], asked[c][i])}
        /\ msgCall[c].state = "sending" => msgCall[c].results[i] # "copied" /\ UnderWay(msgCall[c])
    BY <2>1 DEF CallOk, UnderWay
  <2> QED
    BY <2>2 DEF Follows
<1> QED
  BY <1>1, <1>2, MessagesNextInv, PTL DEF MessagesSpec
-----------------------------------------------------------------------------
\* The response to a subscription, whose tokens are a list.
TopicInv ==
  /\ DOMAIN topicCall = {"state", "op", "tokens", "to", "response", "refused"}
  /\ topicCall.tokens \in Seq(STRING)
  /\ TopicErrorsFindTheirTokens

\* An error for every place that failed, which it names, and a success for the others.
LEMMA CountsAddUp ==
  ASSUME NEW n \in Nat, NEW results, DOMAIN results = 1..n
  PROVE  LET response == TopicResponse(results) IN
         /\ response.successCount + response.failureCount = n
         /\ response.failureCount = Cardinality(response.errors)
<1> DEFINE all == 1..n
           failed == Failed(results)
           errorAt(i) == [index |-> i - 1, error |-> fromTopicServerError(results[i])]
           errors == {errorAt(i) : i \in failed}
           f == [i \in failed |-> errorAt(i)]
<1>1. /\ TopicResponse(results).successCount = Cardinality(all \ failed)
      /\ TopicResponse(results).failureCount = Cardinality(failed)
      /\ TopicResponse(results).errors = errors
  BY DEF TopicResponse
<1>2. failed \subseteq all
  BY DEF Failed
<1>3. IsFiniteSet(all) /\ Cardinality(all) = n
  BY FS_Interval
<1>4. IsFiniteSet(failed)
  BY <1>2, <1>3, FS_Subset
<1>5. Cardinality(all \ failed) = n - Cardinality(failed)
  <2>1. all \cap failed = failed
    BY <1>2
  <2> HIDE DEF all, failed
  <2>2. Cardinality(all \ failed) = Cardinality(all) - Cardinality(all \cap failed)
    BY <1>3, FS_Difference
  <2> QED
    BY <1>3, <2>1, <2>2
<1>6. Cardinality(failed) \in Nat
  BY <1>4, FS_CardinalityType
<1>7. Cardinality(errors) = Cardinality(failed)
  <2>1. \A i \in failed : errorAt(i).index = i - 1
    OBVIOUS
  <2>2. \A i, j \in failed : i - 1 = j - 1 => i = j
    BY <1>2
  <2>3. \A i, j \in failed : f[i] = f[j] => i = j
    <3> SUFFICES ASSUME NEW i \in failed, NEW j \in failed, f[i] = f[j] PROVE i = j
      OBVIOUS
    <3>1. errorAt(i).index = errorAt(j).index
      OBVIOUS
    <3> HIDE DEF f, errorAt
    <3> QED
      BY <2>1, <2>2, <3>1
  <2> HIDE DEF errorAt, failed
  <2>4. f \in Injection(failed, errors) /\ f \in Surjection(failed, errors)
    <3>1. f \in [failed -> errors]
      OBVIOUS
    <3>2. IsInjective(f)
      BY <2>3 DEF IsInjective
    <3>3. \A e \in errors : \E i \in failed : f[i] = e
      OBVIOUS
    <3> QED
      BY <3>1, <3>2, <3>3 DEF Injection, Surjection
  <2> HIDE DEF f, errors
  <2> QED
    BY <1>4, <2>4, FS_Surjection
<1> QED
  BY <1>1, <1>5, <1>6, <1>7

LEMMA ErrorsAtTheirPlaces ==
  ASSUME NEW results, DOMAIN results \subseteq Nat, NEW i \in DOMAIN results
  PROVE  {e.error : e \in {f \in TopicResponse(results).errors : f.index = i - 1}} =
           IF results[i] = "none" THEN {} ELSE {fromTopicServerError(results[i])}
<1> DEFINE errorAt(j) == [index |-> j - 1, error |-> fromTopicServerError(results[j])]
           errors == {errorAt(j) : j \in Failed(results)}
           here == {e \in errors : e.index = i - 1}
<1>1. TopicResponse(results).errors = errors
  BY DEF TopicResponse
<1>2. \A j : errorAt(j).index = j - 1 /\ errorAt(j).error = fromTopicServerError(results[j])
  OBVIOUS
<1>3. \A j \in Failed(results) : j - 1 = i - 1 => j = i
  BY DEF Failed
<1>4. i \in Failed(results) <=> results[i] # "none"
  BY DEF Failed
<1> HIDE DEF errorAt
<1>5. here = IF results[i] = "none" THEN {} ELSE {errorAt(i)}
  <2>1. CASE results[i] = "none"
    BY <1>2, <1>3, <1>4, <2>1
  <2>2. CASE results[i] # "none"
    BY <1>2, <1>3, <1>4, <2>2
  <2> QED
    BY <2>1, <2>2
<1>6. {e.error : e \in here} = IF results[i] = "none" THEN {} ELSE {fromTopicServerError(results[i])}
  <2> HIDE DEF here
  <2> QED
    BY <1>2, <1>5
<1> QED
  BY <1>1, <1>6

LEMMA TopicAnsweredStep ==
  ASSUME TopicInv, NEW tokens \in SUBSET Range(topicCall.tokens), NEW refused \in [tokens -> TopicRefusals],
         TopicAnswered(refused)
  PROVE  TopicInv'
<1> DEFINE list == topicCall.tokens
           results == [i \in DOMAIN list |-> At(refused, list[i], "none")]
           changed == {<<t, topicCall.to>> : t \in Range(list) \ DOMAIN refused}
           response == TopicResponse(results)
<1>1. /\ topicCall' = [topicCall EXCEPT !.state = "done", !.refused = refused, !.response = response]
      /\ subscribed' = IF topicCall.op = "batchAdd" THEN subscribed \cup changed ELSE subscribed \ changed
  BY DEF TopicAnswered
<1> HIDE DEF response
<1>2. /\ DOMAIN topicCall' = DOMAIN topicCall /\ topicCall'.response = response /\ topicCall'.refused = refused
      /\ topicCall'.tokens = list /\ topicCall'.to = topicCall.to /\ topicCall'.op = topicCall.op
  BY <1>1 DEF TopicInv
<1>3. Len(list) \in Nat /\ DOMAIN list = 1..Len(list)
  BY DEF TopicInv
<1>4. /\ response.successCount + response.failureCount = Len(list)
      /\ response.failureCount = Cardinality(response.errors)
  <2>1. DOMAIN results = 1..Len(list)
    BY <1>3
  <2> HIDE DEF results, list
  <2> QED
    BY <1>3, <2>1, CountsAddUp DEF response
<1>5. ASSUME NEW i \in DOMAIN list
      PROVE  LET errors == {e.error : e \in {f \in response.errors : f.index = i - 1}} IN
             IF Given(refused, list[i]) THEN errors = {fromTopicServerError(refused[list[i]])}
             ELSE errors = {} /\ (<<list[i], topicCall.to>> \in subscribed' <=> topicCall.op = "batchAdd")
  <2> DEFINE errors == {e.error : e \in {f \in response.errors : f.index = i - 1}}
  <2>1. DOMAIN results \subseteq Nat /\ i \in DOMAIN results /\ results[i] = At(refused, list[i], "none")
    BY <1>3
  <2>2. errors = IF results[i] = "none" THEN {} ELSE {fromTopicServerError(results[i])}
    <3> HIDE DEF results
    <3> QED
      BY <2>1, ErrorsAtTheirPlaces DEF response
  <2> HIDE DEF errors, results
  <2>3. CASE Given(refused, list[i])
    <3>1. results[i] = refused[list[i]] /\ refused[list[i]] # "none"
      BY <2>1, <2>3, MessagesAssumption DEF At, Given
    <3> QED
      BY <2>2, <2>3, <3>1 DEF errors
  <2>4. CASE ~Given(refused, list[i])
    <3>1. results[i] = "none"
      BY <2>1, <2>4 DEF At, Given
    <3>2. <<list[i], topicCall.to>> \in changed
      BY <2>4 DEF Given, Range
    <3>3. <<list[i], topicCall.to>> \in subscribed' <=> topicCall.op = "batchAdd"
      <4> HIDE DEF changed
      <4> QED
        BY <1>1, <3>2
    <3> QED
      BY <2>2, <2>4, <3>1, <3>3 DEF errors
  <2> QED
    BY <2>3, <2>4
<1> HIDE DEF list
<1>6. TopicErrorsFindTheirTokens'
  BY <1>2, <1>4, <1>5 DEF TopicErrorsFindTheirTokens
<1> QED
  BY <1>2, <1>6 DEF TopicInv, list

LEMMA TopicNextInv ==
  ASSUME TopicInv, [MessagesNext]_messageVars
  PROVE  TopicInv'
<1>1. CASE topicCall' = topicCall /\ subscribed' = subscribed
  BY <1>1 DEF TopicInv, TopicErrorsFindTheirTokens
<1>2. ASSUME NEW op, NEW tokens \in TokenLists, NEW topic, sendTopicManagementRequest(op, tokens, topic)
      PROVE  TopicInv'
  <2>1. topicCall'.state \in {"waiting", "refused"}
    BY <1>2 DEF sendTopicManagementRequest
  <2>2. topicCall'.tokens = tokens
    BY <1>2 DEF sendTopicManagementRequest
  <2>3. DOMAIN topicCall' = {"state", "op", "tokens", "to", "response", "refused"}
    BY <1>2 DEF sendTopicManagementRequest
  <2> QED
    BY <2>1, <2>2, <2>3, MessagesAssumption DEF TopicInv, TopicErrorsFindTheirTokens
<1>3. CASE TopicFails
  <2>1. topicCall' = [topicCall EXCEPT !.state = "failed"]
    BY <1>3 DEF TopicFails
  <2>2. DOMAIN topicCall' = DOMAIN topicCall /\ topicCall'.state = "failed" /\ topicCall'.tokens = topicCall.tokens
    BY <2>1 DEF TopicInv
  <2> QED
    BY <2>2 DEF TopicInv, TopicErrorsFindTheirTokens
<1>4. \A c, method, dryRun, items, result, state :
        Begin(c, method, dryRun, items, result, state) => topicCall' = topicCall /\ subscribed' = subscribed
  BY DEF Begin
<1>5. ASSUME NEW c \in MsgCall, NEW dryRun \in DryRun,
             \/ \E o \in MsgObject : send(c, o, dryRun)
             \/ \E batch \in Batches : sendEach(c, batch, dryRun)
             \/ \E o \in MsgObject, tokens \in TokenLists : sendEachForMulticast(c, o, tokens, dryRun)
      PROVE  TopicInv'
  BY <1>1, <1>4, <1>5 DEF send, sendEach, sendEachForMulticast
<1>6. ASSUME NEW c \in MsgCall,
             \/ UrlPathFound(c) \/ UrlPathFails(c)
             \/ \E i \in DOMAIN msgCall[c].items :
                  \/ ValidateNext(c, i)
                  \/ Transmit(c, i) \/ RetryMessage(c, i) \/ MessageFails(c, i)
                  \/ \E answer \in FcmAnswers : Answered(c, i, answer)
      PROVE  TopicInv'
  <2>1. topicCall' = topicCall /\ subscribed' = subscribed
    BY <1>6 DEF UrlPathFound, UrlPathFails, ValidateNext, Transmit, RetryMessage, MessageFails, Answered, SettleMessage
  <2> QED
    BY <1>1, <2>1
<1>7. ASSUME NEW o \in MsgObject, NEW body \in Edits, CallerEdits(o, body)
      PROVE  TopicInv'
  BY <1>1, <1>7 DEF CallerEdits
<1>8. CASE UNCHANGED messageVars
  BY <1>1, <1>8 DEF messageVars
<1> QED
  BY <1>2, <1>3, <1>5, <1>6, <1>7, <1>8, TopicAnsweredStep
     DEF MessagesNext, subscribeToTopic, unsubscribeFromTopic

\* The response to a finished subscription counts every token once, and its errors
\* name the tokens the service refused, by their places and with its codes, whichever
\* it refused and why; the others are subscribed, or no longer.  (messaging.ts:55)
THEOREM TopicErrorsAtTheirTokens == MessagesSpec => []TopicErrorsFindTheirTokens
<1>1. MessagesInit => TopicInv
  <2>1. << >> \in Seq(STRING)
    OBVIOUS
  <2> QED
    BY <2>1 DEF MessagesInit, NoTopicCall, TopicInv, TopicErrorsFindTheirTokens
<1>2. TopicInv => TopicErrorsFindTheirTokens
  BY DEF TopicInv
<1> QED
  BY <1>1, <1>2, TopicNextInv, PTL DEF MessagesSpec
=============================================================================
