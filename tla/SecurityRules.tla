---------------------------- MODULE SecurityRules ----------------------------
(***************************************************************************)
(* Security rules: rulesets are made, and a release (of Firestore, or of a *)
(* Storage bucket) names the ruleset in force.  Releasing from source is a *)
(* chain of requests: make a ruleset, point the release at it, make the    *)
(* release if there is none.  Several callers do so at once, any answer    *)
(* may be lost, and the HTTP client then repeats the request.              *)
(***************************************************************************)
EXTENDS Naturals, FiniteSets

CONSTANTS
  RulesCaller,
  Bucket,             \* buckets with releases
  DefaultBucket,      \* options.storageBucket: one of Bucket, or ""
  MaxRulesets,        \* bound: rulesets made
  MaxRulesCalls,      \* bound: calls of all callers
  MaxRulesRetries     \* bound: repetitions of one request

ASSUME BucketsAreNames == "" \notin Bucket /\ "undefined" \notin Bucket /\ DefaultBucket \in Bucket \cup {""}

CLOUD_FIRESTORE == <<"cloud.firestore">>
FIREBASE_STORAGE(bucket) == <<"firebase.storage", bucket>>

VARIABLES
  rulesets,   \* the rulesets there are
  made,       \* number of rulesets made
  releases,   \* the ruleset of each release; no release has ruleset 0
  job,        \* what each caller is at
  rulesCalls  \* number of calls

rulesVars == <<rulesets, made, releases, job, rulesCalls>>

(* own: history, the rulesets that the call made; seen: history, what its   *)
(* release named while it was under way.                                    *)
Job(op, release, ruleset, source) ==
  [op |-> op, release |-> release, ruleset |-> ruleset, source |-> source,
   step |-> "none", phase |-> "done", tries |-> 0, status |-> "none", outcome |-> "none", own |-> {}, seen |-> {}]

NoJob == Job("none", << >>, 0, "")

RulesInit ==
  /\ rulesets = {} /\ made = 0
  /\ releases = [r \in {CLOUD_FIRESTORE} \cup {FIREBASE_STORAGE(b) : b \in Bucket} |-> 0]
  /\ job = [c \in RulesCaller |-> NoJob]
  /\ rulesCalls = 0

----------------------------------------------------------------------------
(* Calls *)

(* The first request of a call, or its refusal by the SDK.                  *)
Start(c, j, step, refused) ==
  /\ job[c].phase = "done" /\ rulesCalls < MaxRulesCalls
  /\ rulesCalls' = rulesCalls + 1
  /\ job' = [job EXCEPT ![c] =
       IF refused THEN [j EXCEPT !.outcome = "invalid-argument"]
       ELSE [j EXCEPT !.step = step, !.phase = "sent", !.seen = IF j.release = << >> THEN {} ELSE {releases[j.release]}]]
  /\ UNCHANGED <<rulesets, made, releases>>

(* A bucket that is not given, "undefined", is the one of the app.          *)
getBucketName(bucket) == IF bucket = "undefined" THEN DefaultBucket ELSE bucket

(* Ruleset 0 stands for a name that is empty or has a slash.                *)
IsRulesetName(ruleset) == ruleset # 0

BucketArgument == Bucket \cup {"undefined", ""}
RulesetArgument == 0..MaxRulesets

releaseFirestoreRuleset(c) ==
  \E ruleset \in RulesetArgument :
    Start(c, Job("release", CLOUD_FIRESTORE, ruleset, ""), "updateRelease", ~IsRulesetName(ruleset))

releaseStorageRuleset(c) ==
  \E ruleset \in RulesetArgument, bucket \in BucketArgument :
    LET name == getBucketName(bucket)
    IN IF name = "" THEN Start(c, NoJob, "none", TRUE)
       ELSE Start(c, Job("release", FIREBASE_STORAGE(name), ruleset, ""), "updateRelease", ~IsRulesetName(ruleset))

(* Rules with a mistake in them are refused by the backend only.            *)
Source == {"", "rules", "mistaken rules"}

createRulesFileFromSource(source) == source # ""

releaseFirestoreRulesetFromSource(c) ==
  \E source \in Source :
    Start(c, Job("fromSource", CLOUD_FIRESTORE, 0, source), "createRuleset", ~createRulesFileFromSource(source))

(* Faulty variant: the bucket is looked at when the ruleset is made.        *)
SourceCheckedOnly(bucket, source) == createRulesFileFromSource(source)

(* The bucket is needed last, but checked before a ruleset is made.         *)
StorageSourceAccepted(bucket, source) == getBucketName(bucket) # "" /\ createRulesFileFromSource(source)

releaseStorageRulesetFromSource(c) ==
  \E source \in Source, bucket \in BucketArgument :
    LET name == getBucketName(bucket)
        release == IF name = "" THEN << >> ELSE FIREBASE_STORAGE(name)
    IN Start(c, Job("fromSource", release, 0, source), "createRuleset", ~StorageSourceAccepted(bucket, source))

createRuleset(c) ==
  \E source \in Source :
    Start(c, Job("create", << >>, 0, source), "createRuleset", ~createRulesFileFromSource(source))

getFirestoreRuleset(c) == Start(c, Job("get", CLOUD_FIRESTORE, 0, ""), "getRelease", FALSE)

getStorageRuleset(c) ==
  \E bucket \in BucketArgument :
    LET name == getBucketName(bucket)
    IN IF name = "" THEN Start(c, NoJob, "none", TRUE)
       ELSE Start(c, Job("get", FIREBASE_STORAGE(name), 0, ""), "getRelease", FALSE)

getRuleset(c) ==
  \E ruleset \in RulesetArgument : Start(c, Job("get", << >>, ruleset, ""), "getRuleset", ~IsRulesetName(ruleset))

deleteRuleset(c) ==
  \E ruleset \in RulesetArgument : Start(c, Job("delete", << >>, ruleset, ""), "deleteRuleset", ~IsRulesetName(ruleset))

(* Pages of 1 to 100 rulesets, from a token that is not empty.              *)
listRulesetMetadata(c) ==
  \E pageSize \in {0, 1, 100, 101}, pageToken \in {"undefined", "", "token"} :
    Start(c, Job("list", << >>, 0, ""), "listRulesets", pageSize \notin 1..100 \/ pageToken = "")

----------------------------------------------------------------------------
(* The backend (external) *)

Asked(c, step) == job[c].phase = "sent" /\ job[c].step = step

Reply(c, j, status) == [job EXCEPT ![c] = [j EXCEPT !.phase = "answered", !.status = status]]

Refusing(c, status) == job' = Reply(c, job[c], status) /\ UNCHANGED <<rulesets, made, releases>>

ServeCreateRuleset(c) ==
  /\ Asked(c, "createRuleset")
  /\ IF job[c].source # "rules" THEN Refusing(c, "INVALID_ARGUMENT")
     ELSE /\ made < MaxRulesets
          /\ made' = made + 1
          /\ rulesets' = rulesets \cup {made'}
          /\ job' = Reply(c, [job[c] EXCEPT !.ruleset = made', !.own = @ \cup {made'}], "OK")
          /\ UNCHANGED releases

(* Callers that wait for the same release see its new ruleset.              *)
Point(c) ==
  LET j == job[c]
  IN /\ releases' = [releases EXCEPT ![j.release] = j.ruleset]
     /\ job' = [d \in RulesCaller |->
          LET k == IF d = c THEN [j EXCEPT !.phase = "answered", !.status = "OK"] ELSE job[d]
          IN IF k.release = j.release /\ k.phase # "done" THEN [k EXCEPT !.seen = @ \cup {j.ruleset}] ELSE k]
     /\ UNCHANGED <<rulesets, made>>

ServeUpdateRelease(c) ==
  /\ Asked(c, "updateRelease")
  /\ IF releases[job[c].release] = 0 \/ job[c].ruleset \notin rulesets THEN Refusing(c, "NOT_FOUND") ELSE Point(c)

ServeCreateRelease(c) ==
  /\ Asked(c, "createRelease")
  /\ IF job[c].ruleset \notin rulesets THEN Refusing(c, "NOT_FOUND")
     ELSE IF releases[job[c].release] # 0 THEN Refusing(c, "ALREADY_EXISTS") ELSE Point(c)

ServeGetRelease(c) ==
  /\ Asked(c, "getRelease")
  /\ IF releases[job[c].release] = 0 THEN Refusing(c, "NOT_FOUND")
     ELSE job' = Reply(c, [job[c] EXCEPT !.ruleset = releases[job[c].release]], "OK")
          /\ UNCHANGED <<rulesets, made, releases>>

ServeGetRuleset(c) ==
  /\ Asked(c, "getRuleset")
  /\ Refusing(c, IF job[c].ruleset \in rulesets THEN "OK" ELSE "NOT_FOUND")

IsReleased(ruleset) == \E r \in DOMAIN releases : releases[r] = ruleset

ServeDeleteRuleset(c) ==
  /\ Asked(c, "deleteRuleset")
  /\ IF job[c].ruleset \notin rulesets THEN Refusing(c, "NOT_FOUND")
     ELSE IF IsReleased(job[c].ruleset) THEN Refusing(c, "FAILED_PRECONDITION")
     ELSE rulesets' = rulesets \ {job[c].ruleset} /\ job' = Reply(c, job[c], "OK") /\ UNCHANGED <<made, releases>>

ServeListRulesets(c) == Asked(c, "listRulesets") /\ Refusing(c, "OK")

ServeRules(c) ==
  /\ \/ ServeCreateRuleset(c) \/ ServeUpdateRelease(c) \/ ServeCreateRelease(c) \/ ServeGetRelease(c)
     \/ ServeGetRuleset(c) \/ ServeDeleteRuleset(c) \/ ServeListRulesets(c)
  /\ UNCHANGED rulesCalls

----------------------------------------------------------------------------
(* Answers *)

Settle(c, outcome) == job' = [job EXCEPT ![c].phase = "done", ![c].outcome = outcome]

(* The next request of the chain.                                           *)
Proceed(c, step) == job' = [job EXCEPT ![c].phase = "sent", ![c].step = step, ![c].tries = 0]

RulesErrorCode == [INVALID_ARGUMENT |-> "invalid-argument", NOT_FOUND |-> "not-found"]

CodeOf(status) == IF status \in DOMAIN RulesErrorCode THEN RulesErrorCode[status] ELSE "unknown-error"

(* Faulty variant: a release that is not found is left alone.               *)
updateOrCreateReleaseOnlyUpdates(c) == Settle(c, IF job[c].status = "NOT_FOUND" THEN "ok" ELSE CodeOf(job[c].status))

(* A release that is not found is created.                                  *)
updateOrCreateRelease(c) ==
  IF job[c].status = "NOT_FOUND" THEN Proceed(c, "createRelease") ELSE Settle(c, CodeOf(job[c].status))

(* The bucket is looked at again before the release.                        *)
ReleaseMade(c) == IF job[c].release = << >> THEN Settle(c, "invalid-argument") ELSE Proceed(c, "updateRelease")

RulesAnswered(c) ==
  LET j == job[c]
  IN /\ j.phase = "answered"
     /\ IF j.status = "OK"
        THEN IF j.op = "fromSource" /\ j.step = "createRuleset" THEN ReleaseMade(c)
             ELSE IF j.step = "getRelease" THEN Proceed(c, "getRuleset")
             ELSE Settle(c, "ok")
        ELSE IF j.step = "updateRelease" THEN updateOrCreateRelease(c) ELSE Settle(c, CodeOf(j.status))
     /\ UNCHANGED <<rulesets, made, releases, rulesCalls>>

(* The answer is lost: the request is sent again, or the call fails.        *)
RulesAnswerLost(c) ==
  /\ job[c].phase = "answered"
  /\ IF job[c].tries < MaxRulesRetries
     THEN job' = [job EXCEPT ![c].phase = "sent", ![c].tries = @ + 1]
     ELSE job' = [job EXCEPT ![c].phase = "done", ![c].outcome = "network-error"]
  /\ UNCHANGED <<rulesets, made, releases, rulesCalls>>

RulesNext ==
  \E c \in RulesCaller :
    \/ releaseFirestoreRuleset(c) \/ releaseStorageRuleset(c)
    \/ releaseFirestoreRulesetFromSource(c) \/ releaseStorageRulesetFromSource(c)
    \/ createRuleset(c) \/ getFirestoreRuleset(c) \/ getStorageRuleset(c) \/ getRuleset(c)
    \/ deleteRuleset(c) \/ listRulesetMetadata(c)
    \/ ServeRules(c) \/ RulesAnswered(c) \/ RulesAnswerLost(c)

RulesSpec == RulesInit /\ [][RulesNext]_rulesVars

----------------------------------------------------------------------------
(* Properties *)

(* When releasing resolves, the ruleset was in force for its release at     *)
(* some time of the call, whoever else updates, creates or deletes and      *)
(* whichever answers are lost (security-rules-api-client-internal.ts:162).  *)
ResolvedIsReleased ==
  \A c \in RulesCaller : job[c].op \in {"release", "fromSource"} /\ job[c].outcome = "ok" =>
    job[c].ruleset \in job[c].seen

(* A call whose arguments the SDK or the backend refuses leaves no ruleset  *)
(* behind: what can be refused is refused before the first request          *)
(* (security-rules.ts:236).                                                 *)
RefusedLeavesNothing ==
  \A c \in RulesCaller : job[c].outcome = "invalid-argument" => job[c].own = {}
=============================================================================
