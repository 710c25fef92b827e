\* One employee, two months, two entries and two deductions.
SPECIFICATION LedgerSpec
CONSTANTS
  Employees = {ann}
  Entries = {e1, e2}
  Deductions = {d1, d2}
  Hours <- MCHours
  DayCounts = {1}
  Salaries = {5000}
  Credits <- MCCredits
  NoShift <- MCNoShift
  Hand = {2}
  LastMonth = 2
  None = None
INVARIANTS LedgerTypeOK PaidAsDecided
PROPERTY LeaveStands
CONSTRAINT Small
SYMMETRY Symmetry
CHECK_DEADLOCK FALSE
