\* Two updates in a row, cancelled at any step; the host may go down once.
\* The system may stop: nobody has to start another update.
SPECIFICATION Spec
CONSTANTS
  Tags = {v1, v2}
  NoTag = NoTag
  Appliers = {a1}
  Cancellers = {a2}
  MaxJobs = 2
  MaxOutages = 1
  Deployments = {"systemd", "docker"}
  Overlap = FALSE
  LateRestart = FALSE
INVARIANTS TypeOK RecordIsTrue
PROPERTY CancelsAreHonoured
SYMMETRY TagSymmetry
CHECK_DEADLOCK FALSE
