\* Two versions, two names, two handlers that overlap, two uploads, one failed call.
SPECIFICATION MCSpec
SYMMETRY Alike
CHECK_DEADLOCK FALSE
CONSTANTS
  v1 = v1
  v2 = v2
  a = a
  b = b
  Versions = {v1, v2}
  Names = {a, b}
  Requests = {r1, r2}
  Decisions = {"APPROVED", "PENDING_APPROVAL"}
  Asks <- MCAsks
  MaxFiles = 2
  MaxFaults = 1
  None = None
INVARIANTS
  VersionsTypeOK
  ApprovedAsReviewed
  FileIsItsOwn
