\* Three jobs in a row: in a calm shop, and killed anywhere with the service saving at
\* any moment.  The system may stop: nobody has to start another update.
SPECIFICATION TreeSpec
CONSTANTS
  Releases = {v1, v2}
  NoCode = NoCode
  Items = {x1, x2}
  MaxSwitches = 3
INVARIANTS TreeTypeOK NothingLost SettledTree
PROPERTY AtomicSwitch
CHECK_DEADLOCK FALSE
