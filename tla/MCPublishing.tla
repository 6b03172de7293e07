---------------------------- MODULE MCPublishing ----------------------------
(***************************************************************************)
(* A weekend or a piece of news, users on two pages, the last of them the  *)
(* one who publishes, and two handlers.  Few users change while the others *)
(* are told, and none while games are created or deleted.                  *)
(***************************************************************************)
EXTENDS Publishing, TLC

CONSTANTS
  MaxChanges,  \* users that are not as they were at first
  MaxIssued    \* publications of a post

Changed(row) == row.status \in {"new", "banned", "gone"} \/ ~row.wants

Focus ==
  /\ Cardinality({u \in Users : Changed(user'[u])}) <= MaxChanges
  /\ \A p \in Posts : issued'[p] <= MaxIssued
  /\ \A p, q \in Posts : p # q => post'[p] = "none" \/ post'[q] = "none"
  /\ \A r \in Requests :
       /\ req'[r].actor \in {None, UserCount}
       /\ req'[r].op \in {"games", "delete", "addGame", "dropGame"} =>
            \A u \in Users : ~Changed(user'[u])
  /\ doubled = {}

MCInit == Init /\ Cardinality({u \in Users : user[u].status = "new"}) <= MaxChanges
MCNext == Next /\ Focus
MCSpec == MCInit /\ [][MCNext]_vars

Alike == Permutations(Requests) \union Permutations(Games)
=============================================================================
