---------------------------- MODULE RemoteConfig ----------------------------
(***************************************************************************)
(* Remote Config templates: clients read a template, edit it, validate and *)
(* publish it.  Every version the server keeps has an ETag; a publisher    *)
(* sends the one of the template it edited (If-Match), unless it forces.   *)
(* The HTTP client repeats a request whose answer was lost (see HttpSend). *)
(***************************************************************************)
EXTENDS Naturals, Sequences, FiniteSets

CONSTANTS
  Publisher,
  Flaws,          \* what may be wrong with a template given to publish
  ListOptions,    \* options of listVersions
  MaxVersions,    \* bound: versions the server stores
  MaxRcCalls,     \* bound: calls of the publishers
  MaxRcRetries    \* bound: retries of one request

ASSUME NoFlaw == "none" \in Flaws

VARIABLES
  versions,  \* the versions of the server, the last one active
  template,  \* the template each publisher holds
  request,   \* the call of each publisher
  rcOutcome, \* the code of its last call
  rcCalls    \* number of calls

rcVars == <<versions, template, request, rcOutcome, rcCalls>>

(* edits: the publishers whose changes a template holds; base: history, the *)
(* version the template of a publish was read from.                         *)
Version(edits, update, base) == [edits |-> edits, update |-> update, base |-> base]

(* The ETag of a version, and the one the server gives a validated          *)
(* template, which names no version.                                        *)
Etag(n) == <<"etag", n>>
ValidatedEtag == <<"etag-0", 0>>
AnyEtag == <<"*", 0>>

Template(etag, edits, from) == [etag |-> etag, edits |-> edits, from |-> from]
NoTemplate == Template(<<"", 0>>, {}, 0)
NoRequest == [op |-> "none"]

RcInit ==
  /\ versions = <<Version({}, "INCREMENTAL_UPDATE", 0)>>
  /\ template = [p \in Publisher |-> NoTemplate]
  /\ request = [p \in Publisher |-> NoRequest]
  /\ rcOutcome = [p \in Publisher |-> "none"]
  /\ rcCalls = 0

----------------------------------------------------------------------------
(* Calls *)

Send(p, r) ==
  /\ request[p] = NoRequest /\ rcCalls < MaxRcCalls
  /\ rcCalls' = rcCalls + 1
  /\ request' = [request EXCEPT ![p] = [phase |-> "sent", tries |-> 0, op |-> r.op, arg |-> r.arg]]
  /\ rcOutcome' = [rcOutcome EXCEPT ![p] = "none"]
  /\ UNCHANGED <<versions, template>>

Refuse(p) ==
  /\ request[p] = NoRequest
  /\ rcOutcome' = [rcOutcome EXCEPT ![p] = "invalid-argument"]
  /\ UNCHANGED <<versions, template, request, rcCalls>>

getTemplate(p) == Send(p, [op |-> "get", arg |-> 0])

(* Version 0 stands for a number that is no integer.                        *)
ByVersion(p, op) ==
  \E n \in 0..MaxVersions : IF n = 0 THEN Refuse(p) ELSE Send(p, [op |-> op, arg |-> n])

getTemplateAtVersion(p) == ByVersion(p, "get")

rollback(p) == ByVersion(p, "rollback")

(* The caller changes the template it holds, in place.  A call shares it: a *)
(* template the SDK made is an instance of a class, which deepCopy() does   *)
(* not copy, and every attempt writes the body anew; only the ETag is the   *)
(* one of the call.  (The version's description, which a call also resets   *)
(* in the caller's template, is left out.)                                  *)
EditTemplate(p) ==
  /\ template[p] # NoTemplate
  /\ template' = [template EXCEPT ![p].edits = @ \cup {p}]
  /\ request' = IF request[p].op \in {"validate", "publish", "force"}
                THEN [request EXCEPT ![p].arg.edits = @ \cup {p}] ELSE request
  /\ UNCHANGED <<versions, rcOutcome, rcCalls>>

(* The template must have an ETag, parameters, groups and conditions.       *)
validateInputRemoteConfigTemplate(t, flaw) == t.etag[1] # "" /\ flaw = "none"

Put(t, ifMatch, op) == [op |-> op, arg |-> [ifMatch |-> ifMatch, edits |-> t.edits, from |-> t.from]]

validateTemplate(p) ==
  \E flaw \in Flaws :
    IF validateInputRemoteConfigTemplate(template[p], flaw)
    THEN Send(p, Put(template[p], template[p].etag, "validate")) ELSE Refuse(p)

(* Faulty variant: giving options at all forces the update.                 *)
IfMatchOfOptions(t, options) == IF options = "none" THEN t.etag ELSE AnyEtag

IfMatch(t, options) == IF options = "force" THEN AnyEtag ELSE t.etag

publishTemplate(p) ==
  \E options \in {"none", "noforce", "force"}, flaw \in Flaws :
    IF validateInputRemoteConfigTemplate(template[p], flaw)
    THEN Send(p, Put(template[p], IfMatch(template[p], options),
                     IF options = "force" THEN "force" ELSE "publish"))
    ELSE Refuse(p)

(* Pages of at most 300 versions, from a token that is not empty.           *)
ListOptionsAccepted(o) == o.pageSize \in 1..300 /\ o.pageToken # "" /\ o.endVersionNumber # 0

listVersions(p) ==
  \E o \in ListOptions : IF ListOptionsAccepted(o) THEN Send(p, [op |-> "list", arg |-> 0]) ELSE Refuse(p)

----------------------------------------------------------------------------
(* The server (external) *)

Active == Len(versions)

RcAnswer(p, status, etag, edits, from) ==
  request' = [request EXCEPT ![p] =
    [op |-> @.op, arg |-> @.arg, tries |-> @.tries, phase |-> "answered",
     status |-> status, etag |-> etag, edits |-> edits, from |-> from]]

RcFail(p, status) == RcAnswer(p, status, <<"", 0>>, {}, 0) /\ UNCHANGED versions

ServeRead(p) ==
  LET n == IF request[p].arg = 0 THEN Active ELSE request[p].arg
  IN /\ request[p].op = "get"
     /\ IF n \in DOMAIN versions
        THEN RcAnswer(p, "OK", Etag(n), versions[n].edits, n) /\ UNCHANGED versions
        ELSE RcFail(p, "NOT_FOUND")

Matching(ifMatch) == ifMatch = AnyEtag \/ ifMatch = Etag(Active)

ServeValidate(p) ==
  LET r == request[p].arg
  IN /\ request[p].op = "validate"
     /\ IF Matching(r.ifMatch)
        THEN RcAnswer(p, "OK", ValidatedEtag, r.edits, r.from) /\ UNCHANGED versions
        ELSE RcFail(p, "FAILED_PRECONDITION")

StoreVersion(p, version) ==
  /\ Len(versions) < MaxVersions
  /\ versions' = Append(versions, version)
  /\ RcAnswer(p, "OK", Etag(Active + 1), version.edits, Active + 1)

ServePublish(p) ==
  LET r == request[p].arg
  IN /\ request[p].op \in {"publish", "force"}
     /\ IF Matching(r.ifMatch)
        THEN StoreVersion(p, Version(r.edits, IF request[p].op = "force" THEN "FORCED_UPDATE" ELSE "INCREMENTAL_UPDATE", r.from))
        ELSE RcFail(p, "FAILED_PRECONDITION")

ServeRollback(p) ==
  /\ request[p].op = "rollback"
  /\ IF request[p].arg \in DOMAIN versions
     THEN StoreVersion(p, Version(versions[request[p].arg].edits, "ROLLBACK", 0))
     ELSE RcFail(p, "NOT_FOUND")

ServeVersions(p) == request[p].op = "list" /\ RcAnswer(p, "OK", <<"", 0>>, {}, 0) /\ UNCHANGED versions

ServeRc(p) ==
  /\ request[p] # NoRequest /\ request[p].phase = "sent"
  /\ ServeRead(p) \/ ServeValidate(p) \/ ServePublish(p) \/ ServeRollback(p) \/ ServeVersions(p)
  /\ UNCHANGED <<template, rcOutcome, rcCalls>>

----------------------------------------------------------------------------
(* Answers *)

ErrorCode == [FAILED_PRECONDITION |-> "failed-precondition", NOT_FOUND |-> "not-found"]

Resolve(p, code) ==
  /\ request' = [request EXCEPT ![p] = NoRequest]
  /\ rcOutcome' = [rcOutcome EXCEPT ![p] = code]
  /\ UNCHANGED <<versions, rcCalls>>

RcAnswered(p) == request[p] # NoRequest /\ request[p].phase = "answered"

toFirebaseError(p) ==
  /\ RcAnswered(p) /\ request[p].status # "OK"
  /\ Resolve(p, ErrorCode[request[p].status])
  /\ UNCHANGED template

(* Faulty variant: the ETag of the validation is kept.                      *)
AnsweredEtag(p) == request[p].etag

(* A validated template gets back the ETag it came with.                    *)
ResultEtag(p) == IF request[p].op = "validate" THEN request[p].arg.ifMatch ELSE request[p].etag

(* The caller goes on with the template it gets.                            *)
toRemoteConfigTemplate(p) ==
  /\ RcAnswered(p) /\ request[p].status = "OK" /\ request[p].op # "list"
  /\ Resolve(p, "ok")
  /\ template' = [template EXCEPT ![p] = Template(ResultEtag(p), request[p].edits, request[p].from)]

ReturnVersions(p) ==
  /\ RcAnswered(p) /\ request[p].status = "OK" /\ request[p].op = "list"
  /\ Resolve(p, "ok") /\ UNCHANGED template

LoseRcAnswer(p) ==
  /\ RcAnswered(p)
  /\ IF request[p].tries < MaxRcRetries
     THEN /\ request' = [request EXCEPT ![p] =
                [phase |-> "sent", tries |-> @.tries + 1, op |-> @.op, arg |-> @.arg]]
          /\ UNCHANGED <<versions, rcOutcome, rcCalls>>
     ELSE Resolve(p, "network-error")
  /\ UNCHANGED template

RcNext ==
  \E p \in Publisher :
    \/ getTemplate(p) \/ getTemplateAtVersion(p) \/ rollback(p) \/ EditTemplate(p)
    \/ validateTemplate(p) \/ publishTemplate(p) \/ listVersions(p)
    \/ ServeRc(p) \/ toFirebaseError(p) \/ toRemoteConfigTemplate(p) \/ ReturnVersions(p) \/ LoseRcAnswer(p)

RcSpec == RcInit /\ [][RcNext]_rcVars

----------------------------------------------------------------------------
(* Properties *)

(* Whoever publishes between a publisher's read and its publish, nothing of *)
(* the active template is lost unless a publisher asked to force it, also   *)
(* when a lost answer makes the SDK send the template again: an incremental *)
(* update is made of the version it replaces                                *)
(* (remote-config-api-client-internal.ts:131).                              *)
NoLostUpdate ==
  \A n \in DOMAIN versions : n > 1 /\ versions[n].update = "INCREMENTAL_UPDATE" =>
    versions[n].base = n - 1 /\ versions[n - 1].edits \subseteq versions[n].edits

(* A publisher is told of a conflict only if there was one: the active      *)
(* version is not the one its template was read from, even after the        *)
(* template went through validateTemplate(), which answers with another     *)
(* ETag (remote-config-api-client-internal.ts:113).                         *)
RefusedOnlyIfChanged ==
  \A p \in Publisher : rcOutcome[p] = "failed-precondition" => template[p].from < Len(versions)
=============================================================================
