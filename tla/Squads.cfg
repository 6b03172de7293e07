\* Two users and squads, two offers, two handlers that overlap.
SPECIFICATION Spec
CONSTANTS
  Users = {u1, u2}
  SquadIds = {q1, q2}
  OfferIds = {o1, o2}
  Requests = {r1, r2}
  NoUser = NoUser
  NoSquad = NoSquad
  NoOffer = NoOffer
SYMMETRY Interchangeable
CONSTRAINT FewRoles
INVARIANTS SquadsTypeOK FreshChecksSuffice OwnOfferMovesNobody
