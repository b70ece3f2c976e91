SPECIFICATION FairSpec
CONSTANTS
  p1 = p1
  p2 = p2
  t1 = t1
  t2 = t2
  j1 = j1
  c1 = c1
  s1 = s1
  Providers = {p1, p2}
  Tools = {t1, t2}
  Judgments = {j1, c1}
  Sources = {s1}
  Order <- GraphOrder
  DependsOn <- GraphDependsOn
  EvidenceOf <- GraphEvidence
  CandidatesOf <- OneChoice
  Conditional = {j1, c1}
  Policed = {c1}
  Required = {c1, t2}
  Subject <- ChoiceSubjects
  Investigable = TRUE
  ConcurrentOperations = 2
  InvestigationSteps = 2
  MaxVersion = 2
  MaxInvalidations = 1
  MayCancel = TRUE
  MayBeRefused = TRUE
INVARIANT NothingFromInactiveBranches
INVARIANT UsageAccounted
INVARIANT WorkEndsWithRun
PROPERTY CompletedIsCurrent
PROPERTY RunEnds
