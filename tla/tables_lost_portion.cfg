\* No answer is incomplete, no write fails and the process lives on.
SPECIFICATION Spec
CONSTANTS
  Dishes <- TwoDishes
  AmountOf <- Sums
  MaxBills = 1
  MaxQuantity = 3
  MaxChanges = 3
  MaxGlitches = 0
  MaxCrashes = 0
INVARIANT IdsAreFresh
CHECK_DEADLOCK FALSE
