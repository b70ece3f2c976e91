SPECIFICATION Spec
CONSTANTS
  r1 = r1
  r2 = r2
  r3 = r3
  runtime1 = runtime1
  runtime2 = runtime2
  key1 = key1
  key2 = key2
  Runs = {r1}
  Runtimes = {runtime1, runtime2}
  Operations = {key1, key2}
  RuntimeOf <- OneRuntime
  OperationOf <- OneKey
  HostChoices <- FullHost
  ConcurrentOperations = 1
  ToolAttempts = 1
  WriteLimit = 1
  Deadline = 2
  MaxTime = 2
  MaxVersion = 0
  MaxCancels = 1
  StoreMayFail = FALSE
INVARIANT UnreceiptedDispatchRecorded
