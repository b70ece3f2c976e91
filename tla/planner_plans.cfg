SPECIFICATION FairSpec
CONSTANTS
  s1 = s1
  a = a
  b = b
  c = c
  chain = chain
  cycle = cycle
  pair = pair
  StepsOf <- MCSteps
  DependsOn <- MCDependsOn
  Uses <- MCUses
  Sources = {s1}
  Plans = {chain, cycle, pair}
  Admissible = {chain, cycle, pair}
  PlannerCalls = 3
  PlanRevisions = 2
  Deadline = 1
  MaxTime = 1
  MaxOthers = 1
  MaxInvalidations = 1
  MayCancel = TRUE
INVARIANT EveryRevisionIsNew
INVARIANT TurnsMeasured
PROPERTY StepsStartReady
PROPERTY PlannerLoopEnds
