SPECIFICATION Spec
CONSTANTS
  MaxAmount = 15100
  MaxWhole = 1
  SomeDigits = {0, 1, 5, 9}
INVARIANTS
  FeeIsNearestHalfUp
  EveryAdmittedAmountIsPostable
  StoredTextIsExact
CHECK_DEADLOCK FALSE
