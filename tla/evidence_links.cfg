CONSTANTS
  e1 = e1
  e2 = e2
  e3 = e3
  alpha = alpha
  beta = beta
  Ids = {e1, e2, e3}
  Scopes = {alpha, beta}
  MaxTime = 1
  MaxReferences = 2
SPECIFICATION Spec
SYMMETRY Symmetry
INVARIANTS
  CurrencyIsSupport
  ViewIsComplete
  OrderMattersOnlyPastExecutions
PROPERTIES
  NoResurrection
  InvalidationReachesDerived
CHECK_DEADLOCK FALSE
