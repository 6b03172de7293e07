\* One user signs in twice from one browser, or exchanges a token, or is banned
\* or deleted meanwhile; one day passes.
SPECIFICATION SingleSignOnSpec
CONSTANTS
  Users = {u1}
  SessionIds = {s1, s2}
  Browsers = {b1}
  Sockets = {}
  Requests = {r1}
  NoUser = NoUser
  NoSession = NoSession
  NoBrowser = NoBrowser
  SessionTtl = 1
  SessionMaxAge = 1
  MaxTime = 1
  MaxPassword = 0
  OverlapPerBrowser = FALSE
  GrantIds = {g1, g2}
  TokenIds = {t1, t2}
  Flows = {f1}
  Uses = {c1}
  NoGrant = NoGrant
  NoToken = NoToken
  MaxBusy = 2
SYMMETRY InterchangeableRows
VIEW WithoutHistory
CONSTRAINTS Bounded FewRows
INVARIANTS GrantKeepsItsSession
PROPERTY ImplementsAccess
