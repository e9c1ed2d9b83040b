SPECIFICATION ServicesSpec
CONSTANTS
  Publisher = {p1, p2}
  Flaws = {"none", "conditions"}
  ListOptions <- MCListOptions
  MaxVersions = 3
  MaxRcCalls = 4
  MaxRcRetries = 1
  Load = {l1, l2}
  Published <- MCPublished
  GivenTemplates <- MCGiven
  DefaultConfigs <- MCDefaults
  Condition <- MCConditions
  Contexts <- MCContexts
  Keys = {"flag", "size", "gone"}
  Truthy = {"1", "true", "on"}
  Hash <- MCHash
  MaxEvaluations = 2
  Percentile <- MCPercentile
  Seeded <- MCSeeded
  NumberOf <- MCNumberOf
  VersionOf <- MCVersionOf
  Includes <- MCIncludes
  Equals <- MCEquals
  Tests <- MCTests
  MaxDepth = 10
  RulesCaller = {r1, r2}
  Bucket = {"bucket1"}
  DefaultBucket = ""
  MaxRulesets = 2
  MaxRulesCalls = 2
  MaxRulesRetries = 1
  MessageSteps <- FcmSteps
  ApiNames <- FcmNames
  ApiValues <- FcmValues
  Topics = {"news", "/topics/news"}
  TopicNames <- MCTopicNames
  MessageText = {"text", "t1", "t2", "news", "/topics/news", "two words", "/topics/two words"}
  MessageUrl = {"url"}
  Durations <- MCDurations
  Dates <- MCDates
  Rgb <- MCRgb
  Rgba <- MCRgba
  Words <- MCWords
  MsgCall = {1, 2}
  MsgObject = {o1, o2}
  Instance = {o2}
  Bodies <- MCBodies
  DryRun = {"yes", "bad"}
  Edits <- MCEdits
  Batches <- MCBatches
  TokenLists <- MCTokenLists
  BatchLimit = 2
  TokenLimit = 2
  FcmAnswers <- MCFcmAnswers
  TopicRefusals = {"NOT_FOUND", "TOO_MANY_TOPICS"}
  TopicGiven <- MCTopicGiven
  MaxEdits = 1
  NoObject = NoObject
INVARIANT NoLostUpdate
INVARIANT RefusedOnlyIfChanged
INVARIANT ConfigMeetsTemplate
INVARIANT LoadIsFresh
INVARIANT OnlyCollisionsMisleadClients
INVARIANT ResolvedIsReleased
INVARIANT RefusedLeavesNothing
INVARIANT EveryRequestIsWhatWasAsked
INVARIANT TopicErrorsFindTheirTokens
CHECK_DEADLOCK FALSE
