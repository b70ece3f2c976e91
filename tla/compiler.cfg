SPECIFICATION MCSpec
CONSTANTS
  j1 = j1
  j2 = j2
  t1 = t1
  t2 = t2
  p1 = p1
  p2 = p2
  e1 = e1
  e2 = e2
  i1 = i1
  Judgments = {j1, j2}
  Tools = {t1, t2}
  Providers = {p1, p2}
  Evidence = {e1, e2}
  Inputs = {i1}
  Definitions = {}
  Requests <- MCRequests
  Snapshots <- MCSnapshots
  NoProvider = none
  MaxOptions = 2
  MaxLinks = 3
INVARIANT ProgramOrdered
INVARIANT ProgramIsWhatIsNeeded
INVARIANT CyclesAreReal
INVARIANT AgreesWithDirect
INVARIANT UndispatchableIsDiagnosed
INVARIANT RecompilationOnlyShortens
CHECK_DEADLOCK FALSE
