------------------------------ MODULE MCSquads ------------------------------
EXTENDS Squads, TLC

\* Only the subleader has rights here; a recruit is one by a join request.
FewRoles == \A r \in Requests :
  /\ req[r].op = "setRole" => req[r].role \in {"member", "subleader"}
  /\ req[r].op = "invite" => req[r].role = "member"

Interchangeable ==
  Permutations(Users) \union Permutations(SquadIds) \union Permutations(OfferIds)
  \union Permutations(Requests)
=============================================================================
