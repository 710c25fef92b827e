\* Three units; one task may end without a rollback, and the connection goes away twice.
\* The system may stop: every task has one unit.
SPECIFICATION FairSpec
CONSTANTS
  Tasks = {t1, t2, t3}
  NoTask = NoTask
  Size = 2
  Clumsy = {t2, t3}
  MaxBreaks = 2
INVARIANTS TypeOK SharedSafely
PROPERTIES UnitsAreAtomic EveryUnitEnds
CHECK_DEADLOCK FALSE
