-------------------------- MODULE MCServerTemplate --------------------------
EXTENDS ServerTemplate, TLC

(* Percentiles of u1 and u2, with and without the seed.                     *)
MCSeeded(seed, id) == IF seed = "" THEN id ELSE seed \o "." \o id
MCPercentiles == [u1 |-> 10, u2 |-> 60] @@ ("s.u1" :> 60) @@ ("s.u2" :> 10)
MCPercentile(text) == MCPercentiles[text]

MCNumbers == ("1" :> 1) @@ ("2" :> 2) @@ ("10" :> 10) @@ ("" :> 0)
MCNumberOf(text) == IF text \in DOMAIN MCNumbers THEN <<MCNumbers[text]>> ELSE << >>

MCVersions ==
  ("1.9" :> <<<<1>>, <<9>>>>) @@ ("2" :> <<<<2>>>>) @@ ("2.0.0.0.1" :> <<<<2>>, <<0>>, <<0>>, <<0>>, <<1>>>>)
  @@ ("2.0" :> <<<<2>>, <<0>>>>) @@ ("2.beta" :> << <<2>>, << >> >>) @@ ("1.1.1.1.1.1" :> [i \in 1..6 |-> <<1>>]) @@ ("beta" :> << << >> >>)
MCVersionOf(text) == IF text \in DOMAIN MCVersions THEN MCVersions[text] ELSE << << >> >>

MCIncludes(actual, target) == actual = target \/ <<actual, target>> = <<"beta", "b">>
MCEquals(actual, target) == actual = target
MCTests(actual, target) == IF target = "(?i)b" THEN "throws" ELSE IF MCIncludes(actual, target) THEN "holds" ELSE "fails"

(* The hash of processEtag() over the JSON members of a config, with HashBits *)
(* bits in place of 32: few enough for configs of the run to collide.       *)
HashBits == 4
CharCodes ==
  ("flag" :> <<102, 108, 97, 103>>) @@ ("size" :> <<115, 105, 122, 101>>) @@ ("on" :> <<111, 110>>)
  @@ ("no" :> <<110, 111>>) @@ ("1" :> <<49>>) @@ ("2" :> <<50>>) @@ ("10" :> <<49, 48>>) @@ ("" :> << >>)
Json(config) ==
  LET Member(key) == <<34>> \o CharCodes[key] \o <<34, 58, 34>> \o CharCodes[config[key]] \o <<34, 44>>
  IN FlattenSeq([i \in 1..2 |-> IF <<"size", "flag">>[i] \in DOMAIN config THEN Member(<<"size", "flag">>[i]) ELSE << >>])
MCHash(config) == FoldLeft(LAMBDA hash, char : (31 * hash + char) % 2 ^ HashBits, 0, Json(config))

Percent(operator, limit, seed) ==
  [kind |-> "percent", percentOperator |-> operator, microPercent |-> limit, seed |-> seed,
   microPercentLowerBound |-> limit, microPercentUpperBound |-> 60]
Signal(key, family, comparison, targets) ==
  [kind |-> "customSignal", customSignalKey |-> key, customSignalOperator |-> <<family, comparison>>,
   targetCustomSignalValues |-> targets]
AllOf(cs) == [kind |-> "and", conditions |-> cs]
AnyOf(cs) == [kind |-> "or", conditions |-> cs]
True == [kind |-> "true"]
Deep == AnyOf(<<AllOf(<<AnyOf(<<AllOf(<<True>>)>>)>>)>>)

Named(name, c) == [name |-> name, condition |-> c]
Explicit(text) == <<[useInAppDefault |-> FALSE, value |-> text]>>
InApp == <<[useInAppDefault |-> TRUE]>>

ServerData(etag, conditions, parameters) ==
  [malformed |-> {}, etag |-> etag, version |-> <<[versionNumber |-> etag, updateType |-> "INCREMENTAL_UPDATE"]>>,
   conditions |-> conditions, parameters |-> parameters]

Parameter(default, conditional) == [default |-> default, conditional |-> conditional]

MCPublished ==
  <<ServerData("1", <<Named("new", Signal("app", "SEMANTIC_VERSION", "GREATER_THAN", <<"2.0">>)),
                      Named("half", Percent("LESS_OR_EQUAL", 10, ""))>>,
      [flag |-> Parameter(Explicit("no"), [new |-> Explicit("on")[1], half |-> Explicit("1")[1]]),
       size |-> Parameter(InApp, [half |-> Explicit("10")[1]])]),
    ServerData("2", <<Named("deep", Deep), Named("deeper", AllOf(<<Deep>>)),
                      Named("range", Percent("BETWEEN", 10, "s"))>>,
      [flag |-> Parameter(Explicit("2"), [deep |-> InApp[1], deeper |-> Explicit("on")[1]]),
       size |-> Parameter(<< >>, [range |-> Explicit("10")[1], deep |-> Explicit("on")[1]])]),
    ServerData("10", <<Named("mixed", AllOf(<<AnyOf(<<Signal("tag", "STRING", "CONTAINS", <<"x", "b">>),
                                                  Percent("GREATER_THAN", 10, "")>>),
                                           Signal("app", "SEMANTIC_VERSION", "LESS_EQUAL", <<"2">>)>>)),
                       Named("other", Signal("tag", "STRING", "DOES_NOT_CONTAIN", <<"b">>)),
                       Named("few", Signal("count", "NUMERIC", "LESS_THAN", <<"10">>))>>,
      [flag |-> Parameter(Explicit("on"), [few |-> Explicit("no")[1], other |-> Explicit("2")[1], mixed |-> Explicit("1")[1]])])>>

(* A name given twice, first with a pattern that JavaScript does not read,  *)
(* a template without ETag, one whose version is none, a text that is no    *)
(* JSON.                                                                    *)
MCGiven ==
  {ServerData("1", <<Named("exact", AnyOf(<<Signal("tag", "STRING", "CONTAINS_REGEX", <<"b", "(?i)b">>)>>)),
                     Named("pattern", Signal("tag", "STRING", "CONTAINS_REGEX", <<"b">>)),
                     Named("exact", AllOf(<<Signal("tag", "STRING", "EXACTLY_MATCHES", <<"beta">>),
                                            Signal("app", "SEMANTIC_VERSION", "LESS_THAN", <<"2.beta">>)>>))>>,
     [flag |-> Parameter(Explicit("no"), [pattern |-> Explicit("on")[1], exact |-> Explicit("2")[1]])]),
   ServerData("", << >>, << >>),
   ServerData("x", << >>, << >>),
   [ServerData("1", << >>, << >>) EXCEPT !.malformed = {"json"}]}

(* The conditions of the templates and those in their lists.                *)
WithMembers(S) == S \cup UNION {Range(d.conditions) : d \in {e \in S : e.kind \in {"or", "and"}}}

MCConditions ==
  WithMembers(WithMembers(WithMembers(WithMembers(WithMembers(
    UNION {{named.condition : named \in Range(t.conditions)} : t \in Range(MCPublished) \cup MCGiven})))))

(* One parameter with a default of the application, one without.            *)
MCDefaults == {[size |-> "1"]}

Context(id, signals) == [randomizationId |-> id, signals |-> signals]
MCContexts ==
  {Context("", [app |-> "1.1.1.1.1.1"]), Context("u1", [app |-> "2.0.0.0.1", tag |-> "beta", count |-> "2"]),
   Context("u2", [app |-> "1.9", tag |-> "beta", count |-> "beta"]), Context("u2", [app |-> "2", tag |-> "x", count |-> "10"])}
=============================================================================
