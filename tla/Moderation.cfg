\* One user, two owners, two requests that overlap, two warnings; a job that may
\* fail and a process that may restart, once.
SPECIFICATION MCSpec
CONSTANTS
  player = player
  o1 = o1
  o2 = o2
  r2 = r2
  Users = {player, o1, o2}
  WarningIds = {w1, w2}
  Requests = {r1, r2}
  InitialRoles <- MCInitialRoles
  NewRoles <- MCNewRoles
  Threshold = 2
  Window = 0
  Span = 1
  MaxTime = 1
  MaxFaults = 1
  None = None
INVARIANTS
  ModerationTypeOK
  RecordExplainsStatus
PROPERTIES
  PermanentBanStands
  SweepSparesNewBans
  ExpiredBansAreLifted
