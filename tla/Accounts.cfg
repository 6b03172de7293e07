\* One user with the second factor, and two users who sign up; two overlapping
\* requests of each kind.
SPECIFICATION AccountsSpec
SYMMETRY Alike
CONSTRAINTS
  Apart
  FewTokens
  SteamApart
CONSTANTS
  u1 = u1
  u2 = u2
  n1 = n1
  Users = {u1, u2}
  Secrets = {s1, s2, s3}
  Codes = {k1, k2, k3}
  Requests = {r1, r2}
  CodeCount = 1
  MaxAttempts = 2
  None = None
  Nicknames = {n1, n2}
  SteamIds = {p1, p2}
  Tokens = {k1, k2, k3}
  Tasks = {r1, r2}
INVARIANTS
  AttemptsAreLimited
  RecoveryCodeOpensOnce
  AccountsTypeOK
  ResetTokenSetsOnePassword
PROPERTIES
  ResetTokenStands
  SteamLinkStands
