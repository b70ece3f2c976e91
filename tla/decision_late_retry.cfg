SPECIFICATION Spec
CONSTANTS
  d1 = d1
  d2 = d2
  s1 = s1
  s2 = s2
  InputsOf <- SharedInputs
  Decisions = {d1, d2}
  Sources = {s1, s2}
  MaxAttempts = 2
  Deadline = 2
  ConcurrentOperations = 2
  ProviderAttempts = 3
  SubmittedQuestions = 3
  MaxDelay = 1
  MaxTime = 4
INVARIANT RequestsWithinDeadline
