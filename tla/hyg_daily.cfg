\* Two employees, one item; the process may die at any moment.
\* The system may stop: photos, versions and submissions are bounded.
SPECIFICATION FairSpec
CONSTANTS
  Items = {i1}
  Staff = {s1, s2}
  MaxPhotos = 3
  MaxVersions = 2
  MaxShots = 2
INVARIANTS TypeOK LossNeedsSharing FirstPassHonest
PROPERTIES EvidenceKept DiskSettles
CHECK_DEADLOCK FALSE
