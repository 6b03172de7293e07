----------------------------- MODULE MCSessions -----------------------------
EXTENDS Sessions, FiniteSets, TLC

\* Sessions, sockets and handler slots are interchangeable; only invariants
\* are checked with this symmetry.
Interchangeable ==
  Permutations(SessionIds) \union Permutations(Requests) \union Permutations(Browsers)

\* All handlers overlap on the first day, fewer on each later one; the extensions
\* of expiries by late requests are in flight on every day.
LaterDays ==
  Cardinality({r \in Requests : req[r].step \notin {"idle", "touch"}}) <= MaxTime - clock
=============================================================================
