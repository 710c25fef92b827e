\* Two tablets, two holes for two cages each, three lines of one dish.
\* The system may stop: nobody has to send another call.
SPECIFICATION Spec
CONSTANTS
  Tablets = {t1, t2}
  Holes = {h1, h2}
  NoHole = NoHole
  NoCall = NoCall
  Capacity = 2
  Ordered <- MCOrdered
  MaxRows = 4
  MaxSteps = 4
  MaxNamed <- MCMaxNamed
  MaxCalls <- MCMaxCalls
  MaxChanges <- MCMaxChanges
INVARIANTS TypeOK KitchenIsSound PortionsAddUp CancelledCountsNothing
SYMMETRY Symmetry
CONSTRAINT Small
CHECK_DEADLOCK FALSE
