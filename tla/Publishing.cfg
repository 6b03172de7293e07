\* Four users in pages of two, three games, two handlers that overlap.
SPECIFICATION MCSpec
SYMMETRY Alike
CHECK_DEADLOCK FALSE
CONSTANTS
  UserCount = 4
  Batch = 2
  Weekends = {w1}
  News = {n1}
  Games = {g1, g2, g3}
  Requests = {r1, r2}
  MaxChanges = 1
  MaxIssued = 1
  None = None
INVARIANTS
  PublishingTypeOK
  PublicationIsTold
  
