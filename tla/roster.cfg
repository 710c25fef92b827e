\* Two employees, two shifts, two calls at a time, two requests; four calls in all.
INIT MCInit
NEXT Next
CONSTANTS
  Staff = {ann, ben}
  Shifts = {early, late}
  Rest = Rest
  NoRule = NoRule
  Calls = {c1, c2}
  Requests = {r1, r2}
  MaxCalls = 4
SYMMETRY Symmetry
INVARIANTS TypeOK RowsExplained ChecksHold
PROPERTIES ApprovalIsOneStep
CHECK_DEADLOCK FALSE
