\* One table, two parties, two dishes; fewer incomplete answers than the threshold.
\* The POS stops changing at its bound and an idle round may change nothing.
SPECIFICATION FairSpec
CONSTANTS
  Dishes <- TwoDishes
  AmountOf <- Sums
  MaxBills = 2
  MaxQuantity = 2
  MaxChanges = 3
  MaxGlitches = 2
  MaxCrashes = 1
INVARIANTS TypeOK NoPhantom
PROPERTIES CancelIsReal CancelsInTheEnd
CHECK_DEADLOCK FALSE
