SPECIFICATION FairSpec
CONSTANTS
  draft1 = draft1
  draft2 = draft2
  draft3 = draft3
  draft4 = draft4
  lint = lint
  style = style
  judge = judge
  Deterministic <- MCDeterministic
  Semantic <- MCSemantic
  Supports <- MCSupports
  Artifacts = {draft1, draft2, draft3, draft4}
  RequiredChecks = {lint, judge}
  RequiredFields = {"body"}
  MaxRevisions = 3
  MaxInvalidations = 1
INVARIANT ExactChecksFirst
PROPERTY AcceptedOnItsOwnEvidence
PROPERTY RecipeEnds
