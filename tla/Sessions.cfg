\* One user, two browsers, one socket, two handlers; the clock passes the maximum
\* age, so an expiry extended beyond it would show.
SPECIFICATION Spec
CONSTANTS
  Users = {u1}
  SessionIds = {s1, s2}
  Browsers = {b1, b2}
  Sockets = {k1}
  Requests = {r1, r2}
  NoUser = NoUser
  NoSession = NoSession
  NoBrowser = NoBrowser
  SessionTtl = 1
  SessionMaxAge = 2
  MaxTime = 2
  MaxPassword = 2
  OverlapPerBrowser = FALSE
SYMMETRY Interchangeable
INVARIANTS
  SessionAgeBound
  EndedSessionHasNoSocket
  NoLingeringSession
  OldPasswordSessionsEnd
CONSTRAINT LaterDays
