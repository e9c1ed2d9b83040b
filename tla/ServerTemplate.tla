--------------------------- MODULE ServerTemplate ---------------------------
(***************************************************************************)
(* The server template of Remote Config: load() fetches the active version *)
(* and caches it, set() caches a given one, evaluate() works out the       *)
(* config values for a context from what is cached, and                    *)
(* RemoteConfigFetchResponse answers a client that may have them already.  *)
(* Several loads may be under way; their answers come in any order.        *)
(***************************************************************************)
EXTENDS ConditionEvaluator

CONSTANTS
  Load,             \* the calls of load() under way (bound)
  Published,        \* the versions of the template, in the order they are published
  GivenTemplates,   \* templates given to set() or initServerTemplate()
  DefaultConfigs,   \* default configs given to initServerTemplate()
  Contexts,         \* contexts given to evaluate()
  Keys,             \* parameters asked for
  Truthy,           \* BOOLEAN_TRUTHY_VALUES
  Hash(_),          \* the 32 bits of processEtag()
  MaxEvaluations    \* bound: calls of evaluate()

VARIABLES
  active,      \* index of the active version on the server
  object,      \* the ServerTemplate: << >> or <<[default]>>
  cache,       \* its template: << >> or <<[data, version, asked]>>
  loads,       \* the load() in every slot
  evaluated,   \* the last evaluation: << >> or <<[template, default, context, result, config]>>
  fetched,     \* what a client holds: [etag: << >> or <<hash>>, config, status];
               \* meant: history, what it was to hold
  evaluations  \* number of evaluations

templateVars == <<active, object, cache, loads, evaluated, fetched, evaluations>>

----------------------------------------------------------------------------
(* Templates and versions as they are checked *)

(* A field of a version is absent from its domain if it is undefined.       *)
VersionTexts == {"updateOrigin", "updateType", "description", "rollbackSource"}

IsVersion(v) ==
  /\ "versionNumber" \in DOMAIN v => NumberOf(v.versionNumber) # << >>
  /\ \A f \in VersionTexts \cap DOMAIN v : v[f] # ""
  /\ "updateUser" \in DOMAIN v => v.updateUser = "object"
  /\ "isLegacy" \in DOMAIN v => v.isLegacy \in {"true", "false"}
  /\ "updateTime" \in DOMAIN v => v.updateTime # ""

(* malformed: the fields of a template that are given with a wrong type; a  *)
(* text that is no JSON is malformed as a whole.                            *)
ServerTemplateDataAccepts(t) ==
  /\ t.malformed = {} /\ t.etag # ""
  /\ t.version # << >> => IsVersion(t.version[1])

validateEtag(t) == t.etag # ""

(* What the types of the code require: conditions in a list, segments of a  *)
(* version that are numbers or none, a pattern that is matched or not read. *)
IsSegments(version) == version \in Seq(Seq(Int)) /\ \A i \in DOMAIN version : Len(version[i]) <= 1

ASSUME TemplatesAreTyped ==
  /\ Published \in Seq(Range(Published)) /\ Published # << >>
  /\ \A t \in Range(Published) \cup GivenTemplates :
       ServerTemplateDataAccepts(t) =>
         /\ t.conditions \in Seq(Range(t.conditions))
         /\ \A named \in Range(t.conditions) : named.condition \in Condition
  /\ \A d \in {c \in Condition : c.kind = "customSignal"} :
       /\ d.customSignalOperator \in STRING \X STRING
       /\ d.targetCustomSignalValues \in Seq(Range(d.targetCustomSignalValues))
       /\ \A context \in Contexts : d.customSignalKey \in DOMAIN context.signals =>
            \A target \in Range(d.targetCustomSignalValues) :
              LET actual == context.signals[d.customSignalKey]
              IN /\ Tests(actual, target) \in {"holds", "fails", "throws"}
                 /\ IsSegments(VersionOf(actual)) /\ IsSegments(VersionOf(target))

----------------------------------------------------------------------------
(* Values *)

Value(source, text) == [source |-> source, text |-> text]

(* Number() of a text that is none is zero, and a static value is not read. *)
View(value) ==
  LET number == IF value.source = "static" THEN << >> ELSE NumberOf(value.text)
  IN [source |-> value.source, asString |-> value.text,
      asBoolean |-> value.source # "static" /\ value.text \in Truthy,
      asNumber |-> IF number = << >> THEN 0 ELSE number[1]]

getValue(config, key) == IF key \in DOMAIN config THEN config[key] ELSE Value("static", "")

getAll(config) == [key \in DOMAIN config |-> config[key]]

----------------------------------------------------------------------------
(* Evaluation *)

(* Faulty variant: the last condition that holds gives the value.           *)
LastConditionalValue(parameter, results) ==
  LET given == {k \in DOMAIN results : results[k].result = "holds" /\ results[k].name \in DOMAIN parameter.conditional}
  IN IF given = {} THEN << >> ELSE <<parameter.conditional[results[Max(given)].name]>>

(* The value for the first condition that holds and has one.                *)
ConditionalValue(parameter, results) ==
  LET given == {k \in DOMAIN results : results[k].result = "holds" /\ results[k].name \in DOMAIN parameter.conditional}
  IN IF given = {} THEN << >> ELSE <<parameter.conditional[results[Min(given)].name]>>

ChosenValue(parameter, results) ==
  LET chosen == ConditionalValue(parameter, results)
  IN IF chosen # << >> THEN chosen ELSE parameter.default

(* The in-app default is the value that was there before.                   *)
ConfigValues(t, default, results) ==
  LET Chosen(key) == ChosenValue(t.parameters[key], results)
      remote == {key \in DOMAIN t.parameters : Chosen(key) # << >> /\ ~Chosen(key)[1].useInAppDefault}
  IN [key \in DOMAIN default \cup remote |->
        IF key \in remote THEN Value("remote", Chosen(key)[1].value) ELSE Value("default", default[key])]

Evaluation(t, default, context) ==
  LET results == evaluateConditions(t.conditions, context)
      config == ConfigValues(t, default, results)
  IN IF AnyThrows(t.conditions, context)
     THEN [result |-> "SyntaxError"]
     ELSE [result |-> "ok", values |-> getAll(config), views |-> [key \in Keys |-> View(getValue(config, key))]]

----------------------------------------------------------------------------
(* Operations *)

NoLoad == [phase |-> "none"]

TemplateInit ==
  /\ active = 1
  /\ object = << >> /\ cache = << >>
  /\ loads = [l \in Load |-> NoLoad]
  /\ evaluated = << >>
  /\ fetched = [status |-> 0, etag |-> << >>, config |-> << >>, meant |-> << >>]
  /\ evaluations = 0

Cached(t, version, asked) == <<[data |-> t, version |-> version, asked |-> asked]>>

(* A template that is refused leaves no object.                             *)
initServerTemplate ==
  /\ object = << >>
  /\ \E default \in DefaultConfigs, given \in {<< >>} \cup {<<t>> : t \in GivenTemplates} :
       /\ given # << >> => ServerTemplateDataAccepts(given[1])
       /\ object' = <<[default |-> default]>>
       /\ cache' = IF given = << >> THEN cache ELSE Cached(given[1], 0, 0)
  /\ UNCHANGED <<active, loads, evaluated, fetched, evaluations>>

(* The caller is refused a template and keeps what was cached.              *)
setServerTemplate ==
  /\ object # << >>
  /\ \E t \in GivenTemplates : ServerTemplateDataAccepts(t) /\ cache' = Cached(t, 0, 0)
  /\ UNCHANGED <<active, object, loads, evaluated, fetched, evaluations>>

(* Faulty variant: a load() under way is joined.                            *)
loadJoined(l) ==
  /\ object # << >> /\ loads[l] = NoLoad
  /\ \E joined \in {k \in Load : loads[k] # NoLoad} \cup {l} :
       /\ (\E k \in Load : loads[k] # NoLoad) => joined # l
       /\ loads' = [loads EXCEPT ![l] =
            IF joined = l THEN [phase |-> "sent", asked |-> active] ELSE [loads[joined] EXCEPT !.asked = active]]
  /\ UNCHANGED <<active, object, cache, evaluated, fetched, evaluations>>

(* asked: history, the version that is active when load() is called.        *)
load(l) ==
  /\ object # << >> /\ loads[l] = NoLoad
  /\ loads' = [loads EXCEPT ![l] = [phase |-> "sent", asked |-> active]]
  /\ UNCHANGED <<active, object, cache, evaluated, fetched, evaluations>>

(* An answer that is lost, refused or has no ETag rejects.                  *)
LoadRejected(l) ==
  /\ \/ loads[l].phase = "sent"
     \/ loads[l].phase = "answered" /\ ~(validateEtag(loads[l].data) /\ ServerTemplateDataAccepts(loads[l].data))
  /\ loads' = [loads EXCEPT ![l] = NoLoad]
  /\ UNCHANGED <<active, object, cache, evaluated, fetched, evaluations>>

LoadResolved(l) ==
  LET answer == loads[l]
  IN /\ answer.phase = "answered" /\ validateEtag(answer.data) /\ ServerTemplateDataAccepts(answer.data)
     /\ cache' = Cached(answer.data, answer.version, answer.asked)
     /\ loads' = [loads EXCEPT ![l] = NoLoad]
     /\ UNCHANGED <<active, object, evaluated, fetched, evaluations>>

(* Without a template evaluate() throws and changes nothing.                *)
evaluate ==
  /\ cache # << >> /\ evaluations < MaxEvaluations
  /\ \E context \in Contexts :
       evaluated' = <<[template |-> cache[1].data, default |-> object[1].default, context |-> context,
                       answer |-> Evaluation(cache[1].data, object[1].default, context)]>>
  /\ evaluations' = evaluations + 1
  /\ UNCHANGED <<active, object, cache, loads, fetched>>

Texts(config) == [key \in DOMAIN config |-> config[key].text]

(* Faulty variant: the ETag is that of the names.                           *)
EtagOfNames(config) == Hash([key \in DOMAIN config |-> ""])

processEtag(config) == Hash(config)

(* A client sends the ETag it holds and keeps its config if told so.        *)
RemoteConfigFetchResponse ==
  /\ evaluated # << >> /\ evaluated[1].answer.result = "ok"
  /\ LET config == Texts(evaluated[1].answer.values)
         etag == processEtag(config)
     IN fetched' = IF <<etag>> = fetched.etag THEN [fetched EXCEPT !.status = 304, !.meant = config]
                   ELSE [status |-> 200, etag |-> <<etag>>, config |-> config, meant |-> config]
  /\ UNCHANGED <<active, object, cache, loads, evaluated, evaluations>>

----------------------------------------------------------------------------
(* The server (external) *)

PublishServerTemplate ==
  /\ active < Len(Published)
  /\ active' = active + 1
  /\ UNCHANGED <<object, cache, loads, evaluated, fetched, evaluations>>

ServeLoad(l) ==
  /\ loads[l].phase = "sent"
  /\ loads' = [loads EXCEPT ![l] =
       [phase |-> "answered", asked |-> @.asked, version |-> active, data |-> Published[active]]]
  /\ UNCHANGED <<active, object, cache, evaluated, fetched, evaluations>>

TemplateNext ==
  \/ initServerTemplate \/ setServerTemplate \/ evaluate \/ RemoteConfigFetchResponse \/ PublishServerTemplate
  \/ \E l \in Load : load(l) \/ ServeLoad(l) \/ LoadResolved(l) \/ LoadRejected(l)

TemplateSpec == TemplateInit /\ [][TemplateNext]_templateVars

----------------------------------------------------------------------------
(* Properties *)

(* Of versions, compared as numbers with missing segments zero: one comes   *)
(* before the other, or is the same, if all the segments this depends on    *)
(* are numbers.                                                             *)
Digit(version, i) == IF i \in DOMAIN version THEN version[i] ELSE <<0>>
AgreeBefore(v, w, n) == \A i \in 1..(n - 1) : Digit(v, i) # << >> /\ Digit(v, i) = Digit(w, i)

Precedes(v, w) ==
  \E i \in 1..5 : /\ AgreeBefore(v, w, i)
                  /\ Digit(v, i) # << >> /\ Digit(w, i) # << >> /\ Digit(v, i)[1] < Digit(w, i)[1]

MeansVersion(comparison, v, w) ==
  /\ Len(v) <= 5 /\ Len(w) <= 5
  /\ \/ comparison \in {"LESS_THAN", "LESS_EQUAL", "NOT_EQUAL"} /\ Precedes(v, w)
     \/ comparison \in {"GREATER_THAN", "GREATER_EQUAL", "NOT_EQUAL"} /\ Precedes(w, v)
     \/ comparison \in {"LESS_EQUAL", "EQUAL", "GREATER_EQUAL"} /\ AgreeBefore(v, w, 6)

MeansSignal(c, context) ==
  IF c.customSignalOperator[1] = "SEMANTIC_VERSION"
  THEN /\ c.customSignalKey \in DOMAIN context.signals /\ c.targetCustomSignalValues # << >>
       /\ MeansVersion(c.customSignalOperator[2], VersionOf(context.signals[c.customSignalKey]),
                       VersionOf(c.targetCustomSignalValues[1]))
  ELSE evaluateCustomSignalCondition(c, context) = "holds"

(* What a condition says, given what those in its list say.                 *)
MeansWith(c, context, members) ==
  CASE c.kind = "or" -> \E i \in DOMAIN members : members[i]
    [] c.kind = "and" -> \A i \in DOMAIN members : members[i]
    [] c.kind = "true" -> TRUE
    [] c.kind = "customSignal" -> MeansSignal(c, context)
    [] c.kind = "percent" -> evaluatePercentCondition(c, context)
    [] OTHER -> FALSE

(* What it says in at most that many lists one in the other: what is deeper *)
(* is not met.  There is no order of evaluation.                            *)
Means(c, context, lists) ==
  LET within[p \in Condition \X (0..(lists + 1))] ==
        LET d == p[1]  n == p[2]
        IN n > 0 /\ MeansWith(d, context, [i \in DOMAIN d.conditions |-> within[<<d.conditions[i], n - 1>>]])
  IN within[<<c, lists + 1>>]

MaxLists == (MaxDepth - 1) \div 2

(* Every value a config answers, of whatever type it is asked for, is the   *)
(* one its template means in the context: of the first condition with a     *)
(* value for the parameter that is met, else the remote default, else the   *)
(* default of the application, else the static one.  A name stands for the  *)
(* last condition that has it.  An evaluation fails where some condition,   *)
(* its name given again or not, meets a pattern that is none, and only      *)
(* there (condition-evaluator-internal.ts:50).                              *)
ConfigMeetsTemplate ==
  evaluated # << >> =>
    LET e == evaluated[1]
        named == e.template.conditions
        holds == {named[i].name : i \in {j \in DOMAIN named :
                    /\ Means(named[j].condition, e.context, MaxLists)
                    /\ \A k \in DOMAIN named : k > j => named[k].name # named[j].name}}
        Met(i, key) == named[i].name \in holds \cap DOMAIN e.template.parameters[key].conditional
        Meant(key) ==
          IF key \notin DOMAIN e.template.parameters THEN << >>
          ELSE IF \E i \in DOMAIN named : Met(i, key)
          THEN LET i == CHOOSE i \in DOMAIN named : Met(i, key) /\ \A j \in 1..(i - 1) : ~Met(j, key)
               IN <<e.template.parameters[key].conditional[named[i].name]>>
          ELSE e.template.parameters[key].default
        IsRemote(key) == Meant(key) # << >> /\ ~Meant(key)[1].useInAppDefault
    IN /\ e.answer.result = "ok" <=>
            \A i \in DOMAIN named : evaluateCondition(named[i].condition, e.context, 0) # "throws"
       /\ e.answer.result = "ok" =>
            \A key \in Keys :
              e.answer.views[key] =
                View(IF IsRemote(key) THEN Value("remote", Meant(key)[1].value)
                     ELSE IF key \in DOMAIN e.default THEN Value("default", e.default[key])
                     ELSE Value("static", ""))

(* A client holds the config that was evaluated last for it, also when it   *)
(* was told that what it has is unchanged, unless the hashes of the two     *)
(* collide (remote-config.ts:645, 671).                                     *)
OnlyCollisionsMisleadClients ==
  fetched.config # fetched.meant => Hash(fetched.config) = Hash(fetched.meant)

(* A load() that is done left a template no older than the one active when  *)
(* it was called, however loads overlap: none is answered by what another   *)
(* one asked for (remote-config.ts:324).                                    *)
LoadIsFresh == cache # << >> => cache[1].version >= cache[1].asked
=============================================================================
