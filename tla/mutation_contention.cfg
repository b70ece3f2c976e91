SPECIFICATION FairSpec
CONSTANTS
  r1 = r1
  r2 = r2
  r3 = r3
  runtime1 = runtime1
  runtime2 = runtime2
  key1 = key1
  key2 = key2
  Runs = {r1, r2, r3}
  Runtimes = {runtime1, runtime2}
  Operations = {key1, key2}
  RuntimeOf <- TwoRuntimes
  OperationOf <- SharedKey
  HostChoices <- StorelessHosts
  ConcurrentOperations = 1
  ToolAttempts = 2
  WriteLimit = 1
  Deadline = 1
  MaxTime = 0
  MaxVersion = 0
  MaxCancels = 0
  StoreMayFail = FALSE
INVARIANT DispatchesAdmitted
INVARIANT OneDispatchPerOperation
PROPERTY RunsEnd
