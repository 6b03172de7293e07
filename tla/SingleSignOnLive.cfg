\* The hourly job against sign-ins, logins and logouts that overlap it; without
\* bans and deletions, which no step of the job depends on or causes.
SPECIFICATION FairSingleSignOnSpec
CONSTANTS
  Users = {u1}
  SessionIds = {s1}
  Browsers = {b1}
  Sockets = {}
  Requests = {r1}
  NoUser = NoUser
  NoSession = NoSession
  NoBrowser = NoBrowser
  SessionTtl = 1
  SessionMaxAge = 1
  MaxTime = 2
  MaxPassword = 0
  OverlapPerBrowser = FALSE
  GrantIds = {g1}
  TokenIds = {t1}
  Flows = {f1}
  Uses = {}
  NoGrant = NoGrant
  NoToken = NoToken
  MaxBusy = 3
CONSTRAINT NoBans
PROPERTY OrphansAreRemoved
