\* Two posts, the first of any kind, two handlers that overlap, three uploads, one
\* failed call.  Attachments are limited to one.
SPECIFICATION MCSpec
SYMMETRY Alike
CHECK_DEADLOCK FALSE
CONSTANTS
  p1 = p1
  Users = {u}
  Posts = {p1, p2}
  Names = {plan}
  Requests = {r1, r2}
  MaxAttachments = 1
  MaxFiles = 3
  MaxFaults = 1
  None = None
INVARIANTS
  FilesTypeOK
  OwnFileIsServed
  NoFileIsLost
