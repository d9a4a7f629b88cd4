SPECIFICATION Spec
CONSTANTS
  MaxCalls = 2
INVARIANT WorkHasPermit
PROPERTIES ResultIsOwn RunReturns
CHECK_DEADLOCK FALSE
