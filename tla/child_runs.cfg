CONSTANTS
  asker = asker
  reader = reader
  broker = broker
  ask = ask
  read = read
  again = again
  review = review
  s = s
  old = old
  a = a
  b = b
  out1 = out1
  out2 = out2
  out3 = out3
  out4 = out4
  p = p
  p2 = p2
  Definitions = {asker, reader, broker}
  RootDefinition = asker
  Tools = {ask, read, review, again}
  Names = {s, old, a, b, out1, out2, out3, out4}
  RunBy <- MCRunBy
  Offers <- MCOffers
  Providers = {p, p2}
  Retrieves <- MCRetrieves
  Steps <- MCSteps
  Read <- MCRead
  Output <- MCOutput
  Needs <- MCNeeds
  HostKeys = {}
  Foreign = {}
  RunScope = "run"
  Sessions <- MCSessions
  MaxInvalidations = 1
  MaxCancelled = 1
  Operations <- MCOperations
  CallIds <- MCOperations
  ChildRuns <- MCChildRuns
  AttemptIds = {}
  Classes = {"tool"}
  ClassLimit <- MCLimit
  Measurements = {}
  NoMeasurement = NoMeasurement
  ConcurrentOperations = 1
  ProviderAttempts = 0
  SubmittedQuestions = 0
  ChildDepth = 2
  ChildRunLimit = 3
  MaxQuestions = 1
  MaxDepth = 2
  MaxTime = 1
SPECIFICATION ComposedSpec
INVARIANT NewRecordsImported
INVARIANT FindingsFollowTheirSources
INVARIANT ReplacedStaysReplaced
INVARIANT LimitsHold
INVARIANT SomeRunCanGoOn
