------------------------- MODULE ConditionEvaluator -------------------------
(***************************************************************************)
(* How the conditions of a Remote Config server template are evaluated.  A *)
(* condition is a record with its kind: or, and, true, false, percent,     *)
(* customSignal, or another one.  Texts are opaque; what the JavaScript    *)
(* functions say of them is given by constants.  A missing field is "".    *)
(***************************************************************************)
EXTENDS Integers, Sequences, SequencesExt, FiniteSetsExt

CONSTANTS
  Condition,           \* the conditions, those in the lists of others too
  Percentile(_),       \* hash of a seeded randomization id, as a micro percentile
  Seeded(_, _),        \* a randomization id with a seed before it
  NumberOf(_),         \* Number(text): <<n>>, or << >> for NaN
  VersionOf(_),        \* the segments of a version, each as by NumberOf
  Includes(_, _),      \* actual.includes(target)
  Equals(_, _),        \* equal but for blanks at the ends
  Tests(_, _),         \* new RegExp(target).test(actual): "holds", "fails", "throws"
  MaxDepth             \* MAX_CONDITION_RECURSION_DEPTH

ASSUME ConditionsAssumption ==
  /\ MaxDepth \in Nat \ {0}
  /\ \A d \in Condition : d.kind \in {"or", "and"} => d.conditions \in Seq(Condition)

----------------------------------------------------------------------------
(* Percentages *)

PercentConditionOperator == {"LESS_OR_EQUAL", "GREATER_THAN", "BETWEEN"}

evaluatePercentCondition(c, context) ==
  LET p == Percentile(Seeded(c.seed, context.randomizationId))
  IN /\ context.randomizationId # ""
     /\ c.percentOperator \in PercentConditionOperator
     /\ CASE c.percentOperator = "LESS_OR_EQUAL" -> p <= c.microPercent
          [] c.percentOperator = "GREATER_THAN" -> p > c.microPercent
          [] c.percentOperator = "BETWEEN" -> p > c.microPercentLowerBound /\ p <= c.microPercentUpperBound

----------------------------------------------------------------------------
(* Signals *)

(* A condition holds, fails, or throws where a pattern is none.             *)
Outcome(holds) == IF holds THEN "holds" ELSE "fails"

(* The first result that is not the neutral one decides.                    *)
Decide(results, neutral) ==
  LET decisive == {i \in DOMAIN results : results[i] # neutral}
  IN IF decisive = {} THEN neutral ELSE results[Min(decisive)]

compareStrings(targets, actual, comparison) ==
  \E i \in DOMAIN targets :
    IF comparison = "EXACTLY_MATCHES" THEN Equals(actual, targets[i]) ELSE Includes(actual, targets[i])

Sign(a, b) == IF a < b THEN -1 ELSE IF a > b THEN 1 ELSE 0

(* The signs the predicate is asked about: none for what is no number.      *)
compareNumbers(actual, target) ==
  LET a == NumberOf(actual)
      t == NumberOf(target)
  IN IF a = << >> \/ t = << >> THEN {} ELSE {Sign(a[1], t[1])}

MaxSegments == 5  \* MAX_LENGTH

(* The signs asked about, as above.  The first segment that is no number or *)
(* differs decides; missing ones are zero.                                  *)
compareSemanticVersions(actual, target) ==
  LET v == VersionOf(actual)
      w == VersionOf(target)
      Segment(s, i) == IF i <= Len(s) THEN s[i] ELSE <<0>>
      NoNumber(i) == Segment(v, i) = << >> \/ Segment(w, i) = << >>
      decisive == {i \in 1..MaxSegments : NoNumber(i) \/ Segment(v, i) # Segment(w, i)}
  IN IF Len(v) > MaxSegments \/ Len(w) > MaxSegments THEN {}
     ELSE IF decisive = {} THEN {0}
     ELSE LET i == Min(decisive)
          IN IF NoNumber(i) THEN {} ELSE {Sign(Segment(v, i)[1], Segment(w, i)[1])}

Comparisons == {"LESS_THAN", "LESS_EQUAL", "EQUAL", "NOT_EQUAL", "GREATER_THAN", "GREATER_EQUAL"}

Comparing(comparison, r) ==
  CASE comparison = "LESS_THAN" -> r < 0
    [] comparison = "LESS_EQUAL" -> r <= 0
    [] comparison = "EQUAL" -> r = 0
    [] comparison = "NOT_EQUAL" -> r # 0
    [] comparison = "GREATER_THAN" -> r > 0
    [] comparison = "GREATER_EQUAL" -> r >= 0

(* An operator is a family and a comparison.                                *)
CustomSignalOperator ==
  {<<"STRING", o>> : o \in {"CONTAINS", "DOES_NOT_CONTAIN", "EXACTLY_MATCHES", "CONTAINS_REGEX"}}
  \cup {<<f, o>> : f \in {"NUMERIC", "SEMANTIC_VERSION"}, o \in Comparisons}

(* A list of targets is for the strings, others look at the first.          *)
evaluateCustomSignalCondition(c, context) ==
  LET actual == context.signals[c.customSignalKey]
      targets == c.targetCustomSignalValues
      op == c.customSignalOperator
      Holds(signs) == Outcome(\E r \in signs : Comparing(op[2], r))
  IN IF ~(op \in CustomSignalOperator /\ targets # << >> /\ c.customSignalKey \in DOMAIN context.signals)
     THEN "fails"
     ELSE CASE op = <<"STRING", "CONTAINS">> -> Outcome(compareStrings(targets, actual, op[2]))
            [] op = <<"STRING", "DOES_NOT_CONTAIN">> -> Outcome(~compareStrings(targets, actual, op[2]))
            [] op = <<"STRING", "EXACTLY_MATCHES">> -> Outcome(compareStrings(targets, actual, op[2]))
            [] op = <<"STRING", "CONTAINS_REGEX">> -> Decide([i \in DOMAIN targets |-> Tests(actual, targets[i])], "fails")
            [] op[1] = "NUMERIC" -> Holds(compareNumbers(actual, targets[1]))
            [] op[1] = "SEMANTIC_VERSION" -> Holds(compareSemanticVersions(actual, targets[1]))

----------------------------------------------------------------------------
(* Conditions *)

(* What becomes of a condition at a level, given what becomes of those in   *)
(* its list.                                                                *)
ConditionAt(d, context, nestingLevel, members) ==
  IF nestingLevel >= MaxDepth THEN "fails"
  ELSE CASE d.kind = "or" -> Decide(members, "fails")
         [] d.kind = "and" -> Decide(members, "holds")
         [] d.kind = "true" -> "holds"
         [] d.kind = "percent" -> Outcome(evaluatePercentCondition(d, context))
         [] d.kind = "customSignal" -> evaluateCustomSignalCondition(d, context)
         [] OTHER -> "fails"

(* Entering a list counts twice: once for the list, once for its members.   *)
evaluateCondition(c, context, nestingLevel) ==
  LET at[p \in Condition \X Nat] ==
        LET d == p[1]  level == p[2]
        IN ConditionAt(d, context, level, [i \in DOMAIN d.conditions |-> at[<<d.conditions[i], level + 2>>]])
  IN at[<<c, nestingLevel>>]

(* Every condition is evaluated, whatever its name: any of them may throw.  *)
AnyThrows(named, context) ==
  \E i \in DOMAIN named : evaluateCondition(named[i].condition, context, 0) = "throws"

(* The results, where none throws, in the order of the conditions: of two   *)
(* with one name the first keeps its place and the last its result.         *)
evaluateConditions(named, context) ==
  LET IsFirst(i) == \A j \in 1..(i - 1) : named[j].name # named[i].name
      LastOf(name) == Max({i \in DOMAIN named : named[i].name = name})
  IN [k \in {i \in DOMAIN named : IsFirst(i)} |->
        [name |-> named[k].name,
         result |-> evaluateCondition(named[LastOf(named[k].name)].condition, context, 0)]]
=============================================================================
