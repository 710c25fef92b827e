\* Two bills are listed, taken back and listed again over four changes, with a failure, a
\* crash and a reconciliation; after the morning the scraper rests.
SPECIFICATION FairSpec
CONSTANTS
  Bills = {b1, b2}
  Threshold = 2
  MaxChanges = 4
  MaxGlitches = 1
  MaxCrashes = 1
  MaxReconciles = 1
INVARIANTS TypeOK
PROPERTIES GivenUpIsReal MorningSettles
CHECK_DEADLOCK FALSE
