\* One user, two handlers, three seconds of two ticks.
SPECIFICATION Spec
CONSTANTS
  Users = {u1}
  Requests = {r1, r2}
  NoUser = NoUser
  TicksPerSecond = 2
  MaxTime = 4
  MaxTokens = 2
SYMMETRY Interchangeable
CONSTRAINT FewTokens
INVARIANTS RevokedTokensAreRefused OnlyNewLoginsSurvive
