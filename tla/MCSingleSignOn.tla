--------------------------- MODULE MCSingleSignOn ---------------------------
EXTENDS SingleSignOn, FiniteSets, TLC

CONSTANT MaxBusy

\* Rows are interchangeable; used for invariants and for the refinement, which
\* treats them alike.
InterchangeableRows ==
  Permutations(SessionIds) \union Permutations(GrantIds) \union Permutations(TokenIds)

\* Nothing here tells a temporary ban from none; a password change revokes as a
\* permanent ban does.
Relevant ==
  /\ \A u \in Users : account[u].status # "tempBanned"
  /\ \A r \in Requests : req[r].step \notin {"tempBan", "setPassword", "revoke"}

\* At most MaxBusy of the handlers of Sessions, sign-ins, calls and revocations
\* are under way at a time.
Busy ==
  Cardinality({r \in Requests : req[r].step \notin {"idle", "respond"}})
  + Cardinality({f \in Flows : flow[f] # NoFlow})
  + Cardinality({c \in Uses : use[c] # NoUse})
  + Cardinality(revocations)
Bounded == Relevant /\ Busy <= MaxBusy

\* No account has been banned or deleted.
NoBans ==
  /\ \A u \in Users : account[u].status = "active"
  /\ \A s \in SessionIds : session[s].state \notin {"revokedWithUser", "deleted"}
  /\ \A r \in Requests : req[r].step # "ban"

\* At most five rows at a time, and three where an account has been banned or
\* deleted: a session, a grant and a token, or two of one and one of another.
\* On the second day one less.
Rows ==
  Cardinality({s \in SessionIds : session[s].state # "free"})
  + Cardinality({g \in GrantIds : Created(g)})
  + Cardinality({t \in TokenIds : token[t].state # "free"})
FewRows == Rows <= (IF NoBans THEN 5 ELSE 3) - clock

\* Nothing here depends on the history variable of Sessions.
WithoutHistory == <<clock, account, session, cookie, socket, req, ssoVars>>
=============================================================================
