\* One update with every way to be stopped half-way.
\* The system may stop: nobody has to start another update.
SPECIFICATION FairSpec
CONSTANTS
  Tags = {v1, v2}
  NoTag = NoTag
  Appliers = {a1}
  Cancellers = {a2}
  MaxJobs = 1
  MaxOutages = 1
  Deployments = {"systemd", "docker"}
  Overlap = FALSE
  LateRestart = TRUE
PROPERTIES EndsByItself CancelEnds
CHECK_DEADLOCK FALSE
