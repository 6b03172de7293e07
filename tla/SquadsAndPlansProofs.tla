------------------------- MODULE SquadsAndPlansProofs -------------------------
(***************************************************************************)
(* Squads, for any number of users, squads, offers and requests: their     *)
(* invariants.  Headquarters plans, for any number of sides, squads,       *)
(* versions, players and requests: the commander of a plan was appointed   *)
(* as an officer of its HQ squad.  And, while organisers' requests do not  *)
(* overlap, he is of the sides and the mission of the game, the slots of   *)
(* the plans are those of the mission version, and no sync takes a squad   *)
(* from a slot.                                                            *)
(***************************************************************************)
EXTENDS Squads, Headquarters, FiniteSetTheorems, TLAPS

(* SQUADS *)

Accepting == {"acceptRequest", "acceptInvitation"}
Closers == {"dropInvitation", "reject"}
WithOffer == Accepting \union Closers

\* A handler names what its write needs, and the offer it accepts is still the
\* row it has read, in whatever status, unless it was deleted.
CallsAreComplete ==
  \A r \in Requests :
    /\ req[r].op \notin {"idle", "delete"} \union Closers => req[r].user \in Users
    /\ req[r].op \notin {"idle", "create"} \union Closers => req[r].squad \in SquadIds
    /\ req[r].op \notin {"idle", "create", "update", "delete"} \union Closers =>
         req[r].actor \in Users
    /\ req[r].op \in WithOffer => req[r].offer \in OfferIds
    /\ req[r].op \in Accepting /\ offer[req[r].offer] # NoRow =>
         /\ req[r].op = "acceptRequest" => offer[req[r].offer].user = req[r].user
         /\ offer[req[r].offer].squad = req[r].squad

SquadsInv ==
  SquadsTypeOK /\ CallsAreComplete /\ OwnOfferMovesNobody /\ FreshChecksSuffice

-----------------------------------------------------------------------------
LEMMA SquadsInvInit == ASSUME Init PROVE SquadsInv
<1> USE SquadsAssumption DEF Init
<1>1. SquadsTypeOK
  BY DEF SquadsTypeOK, Members, Outsider, Roles, NoRow, Calls, Ops, Idle, Exists
<1>2. CallsAreComplete /\ OwnOfferMovesNobody
  BY DEF CallsAreComplete, WithOffer, Accepting, Closers, OwnOfferMovesNobody, Idle
<1>3. FreshChecksSuffice
  BY DEF FreshChecksSuffice, LeadersAreMembers, OutsidersHaveNoRole, OffersAreUnique,
         Exists, Outsider, NoRow
<1> QED BY <1>1, <1>2, <1>3 DEF SquadsInv

-----------------------------------------------------------------------------
(* The steps that only start a handler. *)

\* What the checks leave in the row of the handler.
GoodCall(c) ==
  /\ c \in Calls
  /\ c.op \notin {"idle", "delete"} \union Closers => c.user \in Users
  /\ c.op \notin {"idle", "create"} \union Closers => c.squad \in SquadIds
  /\ c.op \notin {"idle", "create", "update", "delete"} \union Closers => c.actor \in Users
  /\ c.op \in WithOffer => c.offer \in OfferIds
  /\ c.op \in Accepting =>
       /\ offer[c.offer] # NoRow =>
            /\ c.op = "acceptRequest" => offer[c.offer].user = c.user
            /\ offer[c.offer].squad = c.squad
       /\ member[c.user].squad = NoSquad

LEMMA CallStarted ==
  ASSUME SquadsInv, NEW r \in Requests, NEW c, GoodCall(c), Start(r, c)
  PROVE  SquadsInv'
<1>1. /\ UNCHANGED <<leader, member, offer, stale>>
      /\ req \in [Requests -> Calls] /\ req' = [req EXCEPT ![r] = c]
  BY DEF SquadsInv, SquadsTypeOK, Start
<1>2. SquadsTypeOK'
  BY <1>1 DEF SquadsInv, SquadsTypeOK, GoodCall, Exists
<1>3. \A p \in Requests : p # r => req'[p] = req[p]
  BY <1>1
<1>4. req'[r] = c
  BY <1>1
<1>5. CallsAreComplete'
  BY <1>1, <1>3, <1>4 DEF SquadsInv, CallsAreComplete, GoodCall
<1>6. OwnOfferMovesNobody'
  BY <1>1, <1>3, <1>4 DEF SquadsInv, OwnOfferMovesNobody, GoodCall, Accepting
<1>7. FreshChecksSuffice'
  BY <1>1 DEF SquadsInv, FreshChecksSuffice, LeadersAreMembers, OutsidersHaveNoRole,
              OffersAreUnique, Exists
<1> QED BY <1>2, <1>5, <1>6, <1>7 DEF SquadsInv

\* A call about users and a squad.
LEMMA SimpleCall ==
  ASSUME NEW op \in Ops \ (WithOffer \union {"idle"}),
         NEW a \in Users \union {NoUser}, NEW u \in Users \union {NoUser},
         NEW q \in SquadIds \union {NoSquad}, NEW role \in Roles,
         op # "delete" => u \in Users,
         op # "create" => q \in SquadIds,
         op \notin {"create", "update", "delete"} => a \in Users
  PROVE  GoodCall([Call(op, a, u, q) EXCEPT !.role = role]) /\ GoodCall(Call(op, a, u, q))
BY SquadsAssumption DEF GoodCall, Call, Idle, Calls, WithOffer, Accepting, Closers, Roles

\* A call that accepts an offer, and one that closes it.
LEMMA AcceptingCall ==
  ASSUME SquadsInv, NEW op \in Accepting, NEW a \in Users, NEW u \in Users,
         NEW o \in OfferIds, offer[o] # NoRow, member[u].squad = NoSquad,
         op = "acceptRequest" => offer[o].user = u
  PROVE  GoodCall(Taking(op, a, u, o))
<1>1. offer[o] \in Offers
  BY DEF SquadsInv, SquadsTypeOK
<1>2. op \in Ops /\ op # "idle" /\ op # "create"
  BY DEF Accepting, Ops
<1> QED BY <1>1, <1>2 DEF GoodCall, Taking, Call, Idle, Calls, Offers

LEMMA ClosingCall ==
  ASSUME NEW op \in Closers, NEW o \in OfferIds
  PROVE  GoodCall(Closing(op, o))
BY DEF GoodCall, Closing, Idle, Calls, Ops, Roles, Closers, Accepting

LEMMA ChecksKeepInv ==
  ASSUME SquadsInv, NEW r \in Requests, Check(r)
  PROVE  SquadsInv'
<1> USE SquadsAssumption
<1>0. "member" \in Roles /\ InviteRoles \subseteq Roles
  BY DEF Roles, InviteRoles
<1>1. ASSUME NEW u \in Users, CreateCheck(r, u) PROVE SquadsInv'
  BY <1>1, <1>0, SimpleCall, CallStarted DEF CreateCheck, Ops, WithOffer, Accepting, Closers
<1>2. ASSUME NEW q \in SquadIds, DeleteCheck(r, q) PROVE SquadsInv'
  BY <1>2, <1>0, SimpleCall, CallStarted DEF DeleteCheck, Ops, WithOffer, Accepting, Closers
<1>3. ASSUME NEW q \in SquadIds, NEW u \in Users,
             UpdateByAdminCheck(r, q, u) \/ LeaveCheck(r, u, q) \/ RequestCheck(r, u, q)
      PROVE SquadsInv'
  BY <1>3, <1>0, SimpleCall, CallStarted
     DEF UpdateByAdminCheck, LeaveCheck, RequestCheck, Ops, WithOffer, Accepting, Closers
<1>4. ASSUME NEW q \in SquadIds, NEW a \in Users, NEW u \in Users,
             \/ TransferCheck(r, a, u, q) \/ KickCheck(r, a, u, q)
             \/ LeaderLeaveCheck(r, a, u, q)
      PROVE SquadsInv'
  BY <1>4, <1>0, SimpleCall, CallStarted
     DEF TransferCheck, KickCheck, LeaderLeaveCheck, Ops, WithOffer, Accepting, Closers
<1>5. ASSUME NEW q \in SquadIds, NEW a \in Users, NEW u \in Users, NEW role \in Roles,
             SetRoleCheck(r, a, u, q, role) \/ InviteCheck(r, a, u, q, role)
      PROVE SquadsInv'
  BY <1>5, SimpleCall, CallStarted DEF SetRoleCheck, InviteCheck, Ops, WithOffer, Accepting, Closers
<1>6. ASSUME NEW o \in OfferIds, NEW a \in Users,
             AcceptInvitationCheck(r, a, o) \/ AcceptRequestCheck(r, a, o)
      PROVE SquadsInv'
  <2>1. PICK op \in Accepting, u \in Users :
          /\ Start(r, Taking(op, a, u, o))
          /\ offer[o] # NoRow /\ member[u].squad = NoSquad
          /\ op = "acceptRequest" => offer[o].user = u
    <3>1. CASE AcceptInvitationCheck(r, a, o)
      BY <3>1 DEF AcceptInvitationCheck, CanAcceptInvitation, IsPending, NoRow, Accepting
    <3>2. CASE AcceptRequestCheck(r, a, o)
      <4>1. offer[o] # NoRow
        BY <3>2 DEF AcceptRequestCheck, CanAcceptRequest, IsPending, NoRow
      <4>2. offer[o].user \in Users
        BY <4>1 DEF SquadsInv, SquadsTypeOK, Offers
      <4> QED BY <3>2, <4>1, <4>2 DEF AcceptRequestCheck, CanAcceptRequest, Accepting
    <3> QED BY <1>6, <3>1, <3>2
  <2> QED BY <2>1, AcceptingCall, CallStarted
<1>7. ASSUME NEW o \in OfferIds, NEW a \in Users,
             \/ RejectInvitationCheck(r, o) \/ DropInvitationCheck(r, a, o)
             \/ RejectRequestCheck(r, a, o) \/ CancelInvitationCheck(r, a, o)
      PROVE SquadsInv'
  BY <1>7, ClosingCall, CallStarted
     DEF RejectInvitationCheck, DropInvitationCheck, RejectRequestCheck,
         CancelInvitationCheck, Closers
<1>8. ASSUME NEW o \in OfferIds, RejectInvitationCheck(r, o) PROVE SquadsInv'
  BY <1>8, ClosingCall, CallStarted DEF RejectInvitationCheck, Closers
<1> QED BY <1>0, <1>1, <1>2, <1>3, <1>4, <1>5, <1>6, <1>7, <1>8 DEF Check

-----------------------------------------------------------------------------
(* The steps that write. *)

LEMMA ThrowKeepsInv ==
  ASSUME SquadsInv, NEW r \in Requests, Throw(r)
  PROVE  SquadsInv'
<1>1. /\ UNCHANGED <<leader, member, offer, stale>>
      /\ req' = [req EXCEPT ![r] = Idle]
  BY DEF Throw, Return
<1>2. SquadsTypeOK'
  BY <1>1 DEF SquadsInv, SquadsTypeOK, Exists, Calls, Idle, Ops, Roles
<1>3. \A p \in Requests : req'[p] = req[p] \/ req'[p] = Idle
  BY <1>1 DEF SquadsInv, SquadsTypeOK
<1>4. CallsAreComplete'
  BY <1>1, <1>3 DEF SquadsInv, CallsAreComplete, Idle, WithOffer, Accepting, Closers
<1>5. OwnOfferMovesNobody'
  BY <1>1, <1>3 DEF SquadsInv, OwnOfferMovesNobody, Idle
<1>6. FreshChecksSuffice'
  BY <1>1 DEF SquadsInv, FreshChecksSuffice, LeadersAreMembers, OutsidersHaveNoRole,
              OffersAreUnique, Exists
<1> QED BY <1>2, <1>4, <1>5, <1>6 DEF SquadsInv

\* A row is left, deleted, closed, or inserted under an id nobody holds.
OfferStep(o) ==
  \/ offer'[o] = offer[o]
  \/ offer'[o] = NoRow
  \/ /\ offer[o] # NoRow /\ offer'[o] \in Offers
     /\ offer'[o].user = offer[o].user /\ offer'[o].squad = offer[o].squad
     /\ offer'[o].status # "pending"
  \/ \A p \in Requests : req[p].offer # o

\* A user is, or becomes, free or placed, was in a squad already, or has no
\* offer that is open.
MemberStep(u) ==
  \/ member'[u].squad = NoSquad
  \/ member'[u].placed
  \/ member[u].squad # NoSquad /\ ~member[u].placed
  \/ \A o \in OfferIds : offer'[o] # NoRow /\ offer'[o].status = "pending"
                           => offer'[o].user # u

\* What every write does to the rows the handlers hold.
LEMMA HeldRows ==
  ASSUME SquadsInv, NEW r \in Requests,
         req'[r] = Idle \/ /\ req'[r].op \in {"resetRole", "leave"}
                           /\ req'[r].user \in Users /\ req'[r].actor \in Users
                           /\ req'[r].squad \in SquadIds,
         \A p \in Requests : p # r => req'[p] = req[p],
         \A o \in OfferIds : OfferStep(o),
         \A u \in Users : MemberStep(u)
  PROVE  CallsAreComplete' /\ OwnOfferMovesNobody'
<1>1. CallsAreComplete'
  <2> SUFFICES ASSUME NEW p \in Requests
      PROVE (/\ req[p].op \notin {"idle", "delete"} \union Closers => req[p].user \in Users
             /\ req[p].op \notin {"idle", "create"} \union Closers => req[p].squad \in SquadIds
             /\ req[p].op \notin {"idle", "create", "update", "delete"} \union Closers =>
                  req[p].actor \in Users
             /\ req[p].op \in WithOffer => req[p].offer \in OfferIds
             /\ req[p].op \in Accepting /\ offer[req[p].offer] # NoRow =>
                  /\ req[p].op = "acceptRequest" => offer[req[p].offer].user = req[p].user
                  /\ offer[req[p].offer].squad = req[p].squad)'
    BY DEF CallsAreComplete
  <2>1. CASE p = r
    BY <2>1 DEF Idle, WithOffer, Accepting, Closers
  <2>2. CASE p # r
    <3>1. req'[p] = req[p]
      BY <2>2
    <3>2. CASE req[p].op \in WithOffer
      <4>1. req[p].offer \in OfferIds /\ OfferStep(req[p].offer)
        BY <3>2 DEF SquadsInv, CallsAreComplete
      <4> QED BY <3>1, <3>2, <4>1 DEF SquadsInv, CallsAreComplete, OfferStep, WithOffer, Closers
    <3> QED BY <3>1, <3>2 DEF SquadsInv, CallsAreComplete, WithOffer
  <2> QED BY <2>1, <2>2
<1>2. OwnOfferMovesNobody'
  <2> SUFFICES ASSUME NEW p \in Requests, req'[p].op \in Accepting,
                      offer'[req'[p].offer] # NoRow, offer'[req'[p].offer].status = "pending",
                      offer'[req'[p].offer].user = req'[p].user
               PROVE  member'[req'[p].user].squad = NoSquad \/ member'[req'[p].user].placed
    BY DEF OwnOfferMovesNobody, Accepting
  <2>1. p # r /\ req'[p] = req[p]
    BY DEF Idle, Accepting
  <2>2. /\ req[p].offer \in OfferIds /\ req[p].user \in Users
        /\ OfferStep(req[p].offer) /\ MemberStep(req[p].user)
    BY <2>1 DEF SquadsInv, CallsAreComplete, Accepting, WithOffer, Closers
  <2>3. offer'[req[p].offer] = offer[req[p].offer]
    BY <2>1, <2>2 DEF OfferStep
  <2>4. member[req[p].user].squad = NoSquad \/ member[req[p].user].placed
    BY <2>1, <2>3 DEF SquadsInv, OwnOfferMovesNobody, Accepting
  <2> QED BY <2>1, <2>2, <2>3, <2>4 DEF MemberStep
<1> QED BY <1>1, <1>2

LEMMA ReturnedRows ==
  ASSUME SquadsInv, NEW r \in Requests, Return(r)
  PROVE  /\ req' \in [Requests -> Calls] /\ req'[r] = Idle
         /\ \A p \in Requests : p # r => req'[p] = req[p]
BY DEF SquadsInv, SquadsTypeOK, Return, Calls, Idle, Ops, Roles

LEMMA CreateKeepsInv ==
  ASSUME SquadsInv, NEW r \in Requests, NEW q \in SquadIds, Create(r, q)
  PROVE  SquadsInv'
<1> USE SquadsAssumption
<1> DEFINE u == req[r].user
<1>1. u \in Users /\ req[r].op = "create"
  BY DEF SquadsInv, CallsAreComplete, Create, Closers
<1>2. CASE LeadsAnother(u, q)
  BY <1>1, <1>2, ThrowKeepsInv DEF Create
<1>3. CASE ~LeadsAnother(u, q)
  <2>1. /\ ~Exists(q)
        /\ leader' = [leader EXCEPT ![q] = u]
        /\ member' = [member EXCEPT ![u] = [squad |-> q, role |-> "member", placed |-> TRUE]]
        /\ stale' = (stale \/ ~CanAppoint(u))
        /\ Return(r) /\ offer' = offer
    BY <1>1, <1>3 DEF Create, FreshSquad, Join, Rests
  <2>2. /\ leader \in [SquadIds -> Users \union {NoUser}] /\ member \in [Users -> Members]
        /\ offer \in [OfferIds -> Offers \union {NoRow}] /\ stale \in BOOLEAN
    BY DEF SquadsInv, SquadsTypeOK
  <2>3. /\ leader'[q] = u /\ \A p \in SquadIds : p # q => leader'[p] = leader[p]
        /\ member'[u] = [squad |-> q, role |-> "member", placed |-> TRUE]
        /\ \A v \in Users : v # u => member'[v] = member[v]
    BY <1>1, <2>1, <2>2
  <2>4. SquadsTypeOK'
    <3>1. /\ leader' \in [SquadIds -> Users \union {NoUser}] /\ member' \in [Users -> Members]
          /\ stale' \in BOOLEAN
      BY <1>1, <2>1, <2>2 DEF Members, Roles
    <3>2. \A p, s \in SquadIds : Exists(p)' /\ leader'[p] = leader'[s] => p = s
      BY <1>1, <1>3, <2>1, <2>3 DEF SquadsInv, SquadsTypeOK, LeadsAnother, Leads, Exists
    <3>3. \A v \in Users : member'[v].squad # NoSquad => Exists(member[v].squad)'
      BY <1>1, <2>1, <2>2, <2>3 DEF SquadsInv, SquadsTypeOK, Exists, Members
    <3>4. \A o \in OfferIds : offer'[o] # NoRow => Exists(offer[o].squad)'
      BY <1>1, <2>1, <2>2, <2>3 DEF SquadsInv, SquadsTypeOK, Exists, Offers
    <3> QED BY <2>1, <2>2, <3>1, <3>2, <3>3, <3>4, ReturnedRows DEF SquadsTypeOK
  <2>5. CallsAreComplete' /\ OwnOfferMovesNobody'
    <3>1. \A o \in OfferIds : OfferStep(o)
      BY <2>1 DEF OfferStep
    <3>2. \A v \in Users : MemberStep(v)
      <4> SUFFICES ASSUME NEW v \in Users PROVE MemberStep(v)
        OBVIOUS
      <4> QED BY <2>1, <2>3 DEF MemberStep, SquadsInv, SquadsTypeOK
    <3> QED BY <2>1, <3>1, <3>2, ReturnedRows, HeldRows
  <2>6. FreshChecksSuffice'
    <3> SUFFICES ASSUME ~stale'
        PROVE LeadersAreMembers' /\ OutsidersHaveNoRole' /\ OffersAreUnique'
      BY DEF FreshChecksSuffice
    <3>1. CanAppoint(u) /\ LeadersAreMembers /\ OutsidersHaveNoRole /\ OffersAreUnique
      BY <2>1, <2>2 DEF SquadsInv, FreshChecksSuffice
    <3>2. LeadersAreMembers'
      BY <1>1, <2>2, <2>3, <3>1 DEF LeadersAreMembers, CanAppoint, Leads, Exists
    <3>3. OutsidersHaveNoRole' /\ OffersAreUnique'
      BY <2>1, <2>3, <3>1 DEF OutsidersHaveNoRole, OffersAreUnique
    <3> QED BY <3>2, <3>3
  <2> QED BY <2>4, <2>5, <2>6 DEF SquadsInv
<1> QED BY <1>2, <1>3

LEMMA UpdateByAdminKeepsInv ==
  ASSUME SquadsInv, NEW r \in Requests, UpdateByAdmin(r)
  PROVE  SquadsInv'
<1> USE SquadsAssumption
<1> DEFINE u == req[r].user
           q == req[r].squad
<1>1. u \in Users /\ q \in SquadIds
  BY DEF SquadsInv, CallsAreComplete, UpdateByAdmin, Closers
<1>2. CASE ~Exists(q) \/ LeadsAnother(u, q)
  BY <1>2, ThrowKeepsInv DEF UpdateByAdmin
<1>3. CASE Exists(q) /\ ~LeadsAnother(u, q)
  <2>1. /\ leader' = [leader EXCEPT ![q] = u]
        /\ member' = [member EXCEPT ![u] = [squad |-> q, role |-> "member", placed |-> TRUE]]
        /\ stale' = (stale \/ ~CanAppoint(u))
        /\ Return(r) /\ offer' = offer
    BY <1>3 DEF UpdateByAdmin, Join, Rests
  <2>2. /\ leader \in [SquadIds -> Users \union {NoUser}] /\ member \in [Users -> Members]
        /\ offer \in [OfferIds -> Offers \union {NoRow}] /\ stale \in BOOLEAN
    BY DEF SquadsInv, SquadsTypeOK
  <2>3. /\ leader'[q] = u /\ \A p \in SquadIds : p # q => leader'[p] = leader[p]
        /\ member'[u] = [squad |-> q, role |-> "member", placed |-> TRUE]
        /\ \A v \in Users : v # u => member'[v] = member[v]
    BY <1>1, <2>1, <2>2
  <2>4. SquadsTypeOK'
    <3>1. /\ leader' \in [SquadIds -> Users \union {NoUser}] /\ member' \in [Users -> Members]
          /\ stale' \in BOOLEAN
      BY <1>1, <2>1, <2>2 DEF Members, Roles
    <3>2. \A p, s \in SquadIds : Exists(p)' /\ leader'[p] = leader'[s] => p = s
      BY <1>1, <1>3, <2>3 DEF SquadsInv, SquadsTypeOK, LeadsAnother, Leads, Exists
    <3>3. \A v \in Users : member'[v].squad # NoSquad => Exists(member[v].squad)'
      BY <1>1, <2>2, <2>3 DEF SquadsInv, SquadsTypeOK, Exists, Members
    <3>4. \A o \in OfferIds : offer'[o] # NoRow => Exists(offer[o].squad)'
      BY <1>1, <2>1, <2>2, <2>3 DEF SquadsInv, SquadsTypeOK, Exists, Offers
    <3> QED BY <2>1, <2>2, <3>1, <3>2, <3>3, <3>4, ReturnedRows DEF SquadsTypeOK
  <2>5. CallsAreComplete' /\ OwnOfferMovesNobody'
    <3>1. \A o \in OfferIds : OfferStep(o)
      BY <2>1 DEF OfferStep
    <3>2. \A v \in Users : MemberStep(v)
      <4> SUFFICES ASSUME NEW v \in Users PROVE MemberStep(v)
        OBVIOUS
      <4> QED BY <2>1, <2>3 DEF MemberStep, SquadsInv, SquadsTypeOK
    <3> QED BY <2>1, <3>1, <3>2, ReturnedRows, HeldRows
  <2>6. FreshChecksSuffice'
    <3> SUFFICES ASSUME ~stale'
        PROVE LeadersAreMembers' /\ OutsidersHaveNoRole' /\ OffersAreUnique'
      BY DEF FreshChecksSuffice
    <3>1. CanAppoint(u) /\ LeadersAreMembers /\ OutsidersHaveNoRole /\ OffersAreUnique
      BY <2>1, <2>2 DEF SquadsInv, FreshChecksSuffice
    <3>2. LeadersAreMembers'
      BY <1>1, <2>2, <2>3, <3>1 DEF LeadersAreMembers, CanAppoint, Leads, Exists
    <3>3. OutsidersHaveNoRole' /\ OffersAreUnique'
      BY <2>1, <2>3, <3>1 DEF OutsidersHaveNoRole, OffersAreUnique
    <3> QED BY <3>2, <3>3
  <2> QED BY <2>4, <2>5, <2>6 DEF SquadsInv
<1> QED BY <1>2, <1>3

LEMMA DeleteKeepsInv ==
  ASSUME SquadsInv, NEW r \in Requests, Delete(r)
  PROVE  SquadsInv'
<1> USE SquadsAssumption
<1> DEFINE q == req[r].squad
<1>1. q \in SquadIds
  BY DEF SquadsInv, CallsAreComplete, Delete, Closers
<1>2. CASE ~Exists(q)
  BY <1>2, ThrowKeepsInv DEF Delete
<1>3. CASE Exists(q)
  <2>1. /\ leader' = [leader EXCEPT ![q] = NoUser]
        /\ member' = [v \in Users |-> IF member[v].squad = q THEN Outsider ELSE member[v]]
        /\ offer' = [o \in OfferIds |->
             IF offer[o] # NoRow /\ offer[o].squad = q THEN NoRow ELSE offer[o]]
        /\ Return(r) /\ stale' = stale
    BY <1>3 DEF Delete
  <2>2. /\ leader \in [SquadIds -> Users \union {NoUser}] /\ member \in [Users -> Members]
        /\ offer \in [OfferIds -> Offers \union {NoRow}] /\ stale \in BOOLEAN
    BY DEF SquadsInv, SquadsTypeOK
  <2>3. leader'[q] = NoUser /\ \A p \in SquadIds : p # q => leader'[p] = leader[p]
    BY <1>1, <2>1, <2>2
  <2>4. \A v \in Users : IF member[v].squad = q THEN member'[v] = Outsider
                                              ELSE member'[v] = member[v]
    BY <2>1
  <2>5. ASSUME NEW o \in OfferIds
        PROVE  offer'[o] = NoRow \/ (offer'[o] = offer[o] /\ offer[o].squad # q)
    <3>1. offer'[o] = IF offer[o] # NoRow /\ offer[o].squad = q THEN NoRow ELSE offer[o]
      BY <2>1
    <3>2. CASE offer[o] = NoRow
      BY <3>1, <3>2
    <3>3. CASE offer[o] # NoRow
      BY <3>1, <3>3
    <3> QED BY <3>2, <3>3
  <2>6. SquadsTypeOK'
    <3>1. /\ leader' \in [SquadIds -> Users \union {NoUser}] /\ member' \in [Users -> Members]
          /\ offer' \in [OfferIds -> Offers \union {NoRow}]
      BY <1>1, <2>1, <2>2 DEF Members, Roles, Outsider
    <3>2. \A p, s \in SquadIds : Exists(p)' /\ leader'[p] = leader'[s] => p = s
      BY <2>3 DEF SquadsInv, SquadsTypeOK, Exists
    <3>3. \A v \in Users : member'[v].squad # NoSquad => Exists(member[v].squad)'
      BY <2>2, <2>3, <2>4 DEF SquadsInv, SquadsTypeOK, Exists, Members, Outsider
    <3>4. \A o \in OfferIds : offer'[o] # NoRow => Exists(offer[o].squad)'
      BY <2>2, <2>3, <2>5 DEF SquadsInv, SquadsTypeOK, Exists, Offers
    <3> QED BY <2>1, <2>2, <3>1, <3>2, <3>3, <3>4, ReturnedRows DEF SquadsTypeOK
  <2>7. CallsAreComplete' /\ OwnOfferMovesNobody'
    <3>1. \A o \in OfferIds : OfferStep(o)
      BY <2>5 DEF OfferStep
    <3>2. \A v \in Users : MemberStep(v)
      BY <2>2, <2>4 DEF MemberStep, Outsider, Members
    <3> QED BY <2>1, <3>1, <3>2, ReturnedRows, HeldRows
  <2>8. FreshChecksSuffice'
    <3> SUFFICES ASSUME ~stale
        PROVE LeadersAreMembers' /\ OutsidersHaveNoRole' /\ OffersAreUnique'
      BY <2>1 DEF FreshChecksSuffice
    <3>1. LeadersAreMembers /\ OutsidersHaveNoRole /\ OffersAreUnique
      BY DEF SquadsInv, FreshChecksSuffice
    <3>2. LeadersAreMembers'
      BY <2>2, <2>3, <2>4, <3>1 DEF LeadersAreMembers, Exists
    <3>3. OutsidersHaveNoRole'
      BY <2>4, <3>1 DEF OutsidersHaveNoRole, Outsider
    <3>4. OffersAreUnique'
      BY <2>5, <3>1 DEF OffersAreUnique
    <3> QED BY <3>2, <3>3, <3>4
  <2> QED BY <2>6, <2>7, <2>8 DEF SquadsInv
<1> QED BY <1>2, <1>3

\* transferLeadership, and the first write of a leader that leaves: the squad q
\* gets the leader n.
LEMMA LeaderChanged ==
  ASSUME SquadsInv, NEW q \in SquadIds, NEW n \in Users, Exists(q), ~LeadsAnother(n, q),
         leader' = [leader EXCEPT ![q] = n], member' \in [Users -> Members],
         \A v \in Users : member'[v].squad = member[v].squad,
         req' \in [Requests -> Calls], stale' \in BOOLEAN, offer' = offer
  PROVE  SquadsTypeOK' /\ (LeadersAreMembers /\ member[n].squad = q => LeadersAreMembers')
<1>1. /\ leader \in [SquadIds -> Users \union {NoUser}] /\ member \in [Users -> Members]
      /\ offer \in [OfferIds -> Offers \union {NoRow}]
  BY DEF SquadsInv, SquadsTypeOK
<1>2. leader'[q] = n /\ \A p \in SquadIds : p # q => leader'[p] = leader[p]
  BY <1>1
<1>3. \A p, s \in SquadIds : Exists(p)' /\ leader'[p] = leader'[s] => p = s
  BY <1>2 DEF SquadsInv, SquadsTypeOK, LeadsAnother, Leads, Exists
<1>4. \A v \in Users : member'[v].squad # NoSquad => Exists(member[v].squad)'
  BY <1>1, <1>2, SquadsAssumption DEF SquadsInv, SquadsTypeOK, Exists, Members
<1>5. \A o \in OfferIds : offer'[o] # NoRow => Exists(offer[o].squad)'
  BY <1>1, <1>2, SquadsAssumption DEF SquadsInv, SquadsTypeOK, Exists, Offers
<1>6. SquadsTypeOK'
  BY <1>1, <1>3, <1>4, <1>5 DEF SquadsTypeOK
<1>7. ASSUME LeadersAreMembers, member[n].squad = q PROVE LeadersAreMembers'
  BY <1>1, <1>2, <1>7, SquadsAssumption DEF LeadersAreMembers, Exists
<1> QED BY <1>6, <1>7

\* A user keeps his squad, or gets out of it.
LEMMA MemberKept ==
  ASSUME SquadsInv, NEW v \in Users,
         \/ member'[v].squad = member[v].squad /\ member'[v].placed = member[v].placed
         \/ member'[v] = Outsider,
         offer' = offer
  PROVE  MemberStep(v)
<1>1. CASE member'[v] = Outsider
  BY <1>1 DEF MemberStep, Outsider
<1>2. CASE member'[v].squad = member[v].squad /\ member'[v].placed = member[v].placed
  BY <1>2 DEF MemberStep
<1> QED BY <1>1, <1>2

LEMMA TransferKeepsInv ==
  ASSUME SquadsInv, NEW r \in Requests, TransferLeadership(r)
  PROVE  SquadsInv'
<1> USE SquadsAssumption
<1> DEFINE a == req[r].actor
           u == req[r].user
           q == req[r].squad
<1>1. a \in Users /\ u \in Users /\ q \in SquadIds
  BY DEF SquadsInv, CallsAreComplete, TransferLeadership, Closers
<1>2. CASE ~Exists(q) \/ LeadsAnother(u, q)
  BY <1>2, ThrowKeepsInv DEF TransferLeadership
<1>3. CASE Exists(q) /\ ~LeadsAnother(u, q)
  <2>1. /\ leader' = [leader EXCEPT ![q] = u]
        /\ member' = [member EXCEPT ![a].role = "subleader", ![u].role = "member"]
        /\ stale' = (stale \/ ~CanTransfer(a, u, q))
        /\ Return(r) /\ offer' = offer
    BY <1>3 DEF TransferLeadership, Rests
  <2>2. member \in [Users -> Members] /\ stale \in BOOLEAN
    BY DEF SquadsInv, SquadsTypeOK
  <2>3. /\ member' \in [Users -> Members]
        /\ \A v \in Users : /\ member'[v].squad = member[v].squad
                            /\ member'[v].placed = member[v].placed
                            /\ v \notin {a, u} => member'[v] = member[v]
    BY <1>1, <2>1, <2>2 DEF Members, Roles
  <2>4. stale' \in BOOLEAN /\ req' \in [Requests -> Calls]
    BY <2>1, <2>2, ReturnedRows
  <2>5. SquadsTypeOK' /\ (LeadersAreMembers /\ member[u].squad = q => LeadersAreMembers')
    BY <1>1, <1>3, <2>1, <2>3, <2>4, LeaderChanged
  <2>6. CallsAreComplete' /\ OwnOfferMovesNobody'
    <3>1. \A o \in OfferIds : OfferStep(o)
      BY <2>1 DEF OfferStep
    <3>2. \A v \in Users : MemberStep(v)
      BY <2>1, <2>3, MemberKept
    <3> QED BY <2>1, <3>1, <3>2, ReturnedRows, HeldRows
  <2>7. FreshChecksSuffice'
    <3> SUFFICES ASSUME ~stale'
        PROVE LeadersAreMembers' /\ OutsidersHaveNoRole' /\ OffersAreUnique'
      BY DEF FreshChecksSuffice
    <3>1. CanTransfer(a, u, q) /\ LeadersAreMembers /\ OutsidersHaveNoRole /\ OffersAreUnique
      BY <2>1, <2>2 DEF SquadsInv, FreshChecksSuffice
    <3>2. member[u].squad = q /\ member[a].squad = q
      BY <1>1, <1>3, <3>1 DEF CanTransfer, Leads, LeadersAreMembers
    <3>3. OutsidersHaveNoRole'
      <4> SUFFICES ASSUME NEW v \in Users, member'[v].squad = NoSquad
                   PROVE  member'[v].role = "member"
        BY DEF OutsidersHaveNoRole
      <4>1. member[v].squad = NoSquad /\ member[v].role = "member"
        BY <2>3, <3>1 DEF OutsidersHaveNoRole
      <4>2. v # a /\ v # u
        BY <3>2, <4>1, <1>1
      <4> QED BY <2>3, <4>1, <4>2
    <3>4. OffersAreUnique'
      BY <2>1, <3>1 DEF OffersAreUnique
    <3> QED BY <2>5, <3>1, <3>2, <3>3, <3>4
  <2> QED BY <2>5, <2>6, <2>7 DEF SquadsInv
<1> QED BY <1>2, <1>3

LEMMA HandOverKeepsInv ==
  ASSUME SquadsInv, NEW r \in Requests, HandOver(r)
  PROVE  SquadsInv'
<1> USE SquadsAssumption
<1> DEFINE a == req[r].actor
           u == req[r].user
           q == req[r].squad
<1>1. a \in Users /\ u \in Users /\ q \in SquadIds
  BY DEF SquadsInv, CallsAreComplete, HandOver, Closers
<1>2. CASE ~Exists(q) \/ LeadsAnother(u, q)
  BY <1>2, ThrowKeepsInv DEF HandOver
<1>3. CASE Exists(q) /\ ~LeadsAnother(u, q)
  <2>1. /\ leader' = [leader EXCEPT ![q] = u]
        /\ stale' = (stale \/ ~CanHandOver(a, u, q))
        /\ req' = [req EXCEPT ![r].op = "resetRole"]
        /\ member' = member /\ offer' = offer
    BY <1>3 DEF HandOver, Rests
  <2>2. member \in [Users -> Members] /\ stale \in BOOLEAN /\ req \in [Requests -> Calls]
    BY DEF SquadsInv, SquadsTypeOK
  <2>3. stale' \in BOOLEAN /\ req' \in [Requests -> Calls]
    BY <2>1, <2>2 DEF Calls, Ops
  <2>4. /\ \A p \in Requests : p # r => req'[p] = req[p]
        /\ req'[r].op = "resetRole" /\ req'[r].user = u /\ req'[r].actor = a
        /\ req'[r].squad = q
    BY <2>1, <2>2 DEF Calls
  <2>5. SquadsTypeOK' /\ (LeadersAreMembers /\ member[u].squad = q => LeadersAreMembers')
    BY <1>1, <1>3, <2>1, <2>2, <2>3, LeaderChanged
  <2>6. CallsAreComplete' /\ OwnOfferMovesNobody'
    <3>1. \A o \in OfferIds : OfferStep(o)
      BY <2>1 DEF OfferStep
    <3>2. \A v \in Users : MemberStep(v)
      BY <2>1, MemberKept
    <3> QED BY <1>1, <2>4, <3>1, <3>2, HeldRows
  <2>7. FreshChecksSuffice'
    <3> SUFFICES ASSUME ~stale'
        PROVE LeadersAreMembers' /\ OutsidersHaveNoRole' /\ OffersAreUnique'
      BY DEF FreshChecksSuffice
    <3>1. CanHandOver(a, u, q) /\ LeadersAreMembers /\ OutsidersHaveNoRole /\ OffersAreUnique
      BY <2>1, <2>2 DEF SquadsInv, FreshChecksSuffice
    <3>2. OutsidersHaveNoRole' /\ OffersAreUnique'
      BY <2>1, <3>1 DEF OutsidersHaveNoRole, OffersAreUnique
    <3> QED BY <2>5, <3>1, <3>2 DEF CanHandOver
  <2> QED BY <2>5, <2>6, <2>7 DEF SquadsInv
<1> QED BY <1>2, <1>3

\* One user changes, leaders do not.
LEMMA MemberChanged ==
  ASSUME SquadsInv, NEW u \in Users, NEW m \in Members, member' = [member EXCEPT ![u] = m],
         m.squad # NoSquad => Exists(m.squad), leader' = leader,
         offer' \in [OfferIds -> Offers \union {NoRow}],
         \A o \in OfferIds : offer'[o] # NoRow => Exists(offer'[o].squad),
         req' \in [Requests -> Calls], stale' \in BOOLEAN
  PROVE  /\ SquadsTypeOK'
         /\ LeadersAreMembers /\ (m.squad = member[u].squad \/ CanAppoint(u)) => LeadersAreMembers'
         /\ OutsidersHaveNoRole /\ (m.squad = NoSquad => m.role = "member") => OutsidersHaveNoRole'
<1> USE SquadsAssumption
<1>1. /\ leader \in [SquadIds -> Users \union {NoUser}] /\ member \in [Users -> Members]
  BY DEF SquadsInv, SquadsTypeOK
<1>2. /\ member' \in [Users -> Members]
      /\ member'[u] = m /\ \A v \in Users : v # u => member'[v] = member[v]
  BY <1>1
<1>3. \A v \in Users : member'[v].squad # NoSquad => Exists(member[v].squad)'
  BY <1>2 DEF SquadsInv, SquadsTypeOK, Exists
<1>4. SquadsTypeOK'
  BY <1>1, <1>2, <1>3 DEF SquadsInv, SquadsTypeOK, Exists
<1>5. ASSUME LeadersAreMembers, m.squad = member[u].squad \/ CanAppoint(u)
      PROVE  LeadersAreMembers'
  BY <1>1, <1>2, <1>5 DEF LeadersAreMembers, CanAppoint, Leads, Exists
<1>6. ASSUME OutsidersHaveNoRole, m.squad = NoSquad => m.role = "member"
      PROVE  OutsidersHaveNoRole'
  BY <1>2, <1>6 DEF OutsidersHaveNoRole
<1> QED BY <1>4, <1>5, <1>6

LEMMA SetRoleKeepsInv ==
  ASSUME SquadsInv, NEW r \in Requests, UpdateMemberRole(r)
  PROVE  SquadsInv'
<1> USE SquadsAssumption
<1> DEFINE a == req[r].actor
           u == req[r].user
           q == req[r].squad
           m == [member[u] EXCEPT !.role = req[r].role]
<1>1. u \in Users /\ q \in SquadIds
  BY DEF SquadsInv, CallsAreComplete, UpdateMemberRole, Closers
<1>2. /\ member' = [member EXCEPT ![u] = m]
      /\ stale' = (stale \/ ~CanSetRole(a, u, q, req[r].role))
      /\ Return(r) /\ leader' = leader /\ offer' = offer
  <2>1. member' = [member EXCEPT ![u].role = req[r].role]
    BY DEF UpdateMemberRole
  <2> QED BY <2>1 DEF UpdateMemberRole, Rests
<1>3. /\ member \in [Users -> Members] /\ stale \in BOOLEAN
      /\ offer \in [OfferIds -> Offers \union {NoRow}] /\ req \in [Requests -> Calls]
      /\ \A o \in OfferIds : offer[o] # NoRow => Exists(offer[o].squad)
  BY DEF SquadsInv, SquadsTypeOK
<1>4. /\ m \in Members /\ m.squad = member[u].squad /\ m.placed = member[u].placed
      /\ m.squad # NoSquad => Exists(m.squad)
  BY <1>1, <1>3 DEF Members, Calls, SquadsInv, SquadsTypeOK
<1> HIDE DEF m
<1>5. /\ SquadsTypeOK'
      /\ LeadersAreMembers => LeadersAreMembers'
      /\ OutsidersHaveNoRole /\ (m.squad = NoSquad => m.role = "member") => OutsidersHaveNoRole'
  BY <1>1, <1>2, <1>3, <1>4, ReturnedRows, MemberChanged
<1>6. CallsAreComplete' /\ OwnOfferMovesNobody'
  <2>1. \A o \in OfferIds : OfferStep(o)
    BY <1>2 DEF OfferStep
  <2>2. \A v \in Users : MemberStep(v)
    <3>1. \A v \in Users : /\ member'[v].squad = member[v].squad
                           /\ member'[v].placed = member[v].placed
      BY <1>1, <1>2, <1>3, <1>4
    <3> QED BY <1>2, <3>1, MemberKept
  <2> QED BY <1>2, <2>1, <2>2, ReturnedRows, HeldRows
<1>7. FreshChecksSuffice'
  <2> SUFFICES ASSUME ~stale'
      PROVE LeadersAreMembers' /\ OutsidersHaveNoRole' /\ OffersAreUnique'
    BY DEF FreshChecksSuffice
  <2>1. /\ CanSetRole(a, u, q, req[r].role)
        /\ LeadersAreMembers /\ OutsidersHaveNoRole /\ OffersAreUnique
    BY <1>2, <1>3 DEF SquadsInv, FreshChecksSuffice
  <2>2. m.squad # NoSquad
    BY <1>1, <1>4, <2>1 DEF CanSetRole
  <2>3. OffersAreUnique'
    BY <1>2, <2>1 DEF OffersAreUnique
  <2> QED BY <1>5, <2>1, <2>2, <2>3
<1> QED BY <1>5, <1>6, <1>7 DEF SquadsInv

\* A member of a squad leads that one or none.
LEMMA SquadLedFromWithin ==
  ASSUME LeadersAreMembers, NEW u \in Users, NEW q, member[u].squad = q, ~Leads(u, q)
  PROVE  CanAppoint(u)
BY SquadsAssumption DEF LeadersAreMembers, CanAppoint, Leads, Exists

LEMMA OutsiderIsMember == Outsider \in Members /\ Outsider.squad = NoSquad /\ Outsider.role = "member"
BY DEF Outsider, Members, Roles

LEMMA KickKeepsInv ==
  ASSUME SquadsInv, NEW r \in Requests, KickFromSquad(r)
  PROVE  SquadsInv'
<1> USE SquadsAssumption
<1> DEFINE a == req[r].actor
           u == req[r].user
           q == req[r].squad
<1>1. a \in Users /\ u \in Users /\ q \in SquadIds
  BY DEF SquadsInv, CallsAreComplete, KickFromSquad, Closers
<1>2. /\ member' = [member EXCEPT ![u] = Outsider]
      /\ offer' = [o \in OfferIds |->
           IF offer[o].kind = "invitation" /\ offer[o].user = u /\ offer[o].squad = q
           THEN NoRow ELSE offer[o]]
      /\ stale' = (stale \/ ~CanKick(a, u, q))
      /\ Return(r) /\ leader' = leader
  BY DEF KickFromSquad, Rests
<1>3. /\ member \in [Users -> Members] /\ stale \in BOOLEAN
      /\ offer \in [OfferIds -> Offers \union {NoRow}]
  BY DEF SquadsInv, SquadsTypeOK
<1>4. \A o \in OfferIds : offer'[o] = NoRow \/ offer'[o] = offer[o]
  BY <1>2
<1>5. /\ offer' \in [OfferIds -> Offers \union {NoRow}]
      /\ \A o \in OfferIds : offer'[o] # NoRow => Exists(offer'[o].squad)
  <2>1. offer' \in [OfferIds -> Offers \union {NoRow}]
    BY <1>2, <1>3
  <2> QED BY <1>4, <2>1 DEF SquadsInv, SquadsTypeOK
<1>6. /\ SquadsTypeOK'
      /\ LeadersAreMembers /\ CanAppoint(u) => LeadersAreMembers'
      /\ OutsidersHaveNoRole => OutsidersHaveNoRole'
  BY <1>1, <1>2, <1>3, <1>5, ReturnedRows, MemberChanged, OutsiderIsMember
<1>7. CallsAreComplete' /\ OwnOfferMovesNobody'
  <2>1. \A o \in OfferIds : OfferStep(o)
    BY <1>4 DEF OfferStep
  <2>2. ASSUME NEW v \in Users PROVE MemberStep(v)
    <3>1. CASE v = u
      BY <1>1, <1>2, <1>3, <3>1 DEF MemberStep, Outsider
    <3>2. CASE v # u
      BY <1>1, <1>2, <1>3, <3>2 DEF MemberStep, Members
    <3> QED BY <3>1, <3>2
  <2> QED BY <1>2, <2>1, <2>2, ReturnedRows, HeldRows
<1>8. FreshChecksSuffice'
  <2> SUFFICES ASSUME ~stale'
      PROVE LeadersAreMembers' /\ OutsidersHaveNoRole' /\ OffersAreUnique'
    BY DEF FreshChecksSuffice
  <2>1. /\ CanKick(a, u, q)
        /\ LeadersAreMembers /\ OutsidersHaveNoRole /\ OffersAreUnique
    BY <1>2, <1>3 DEF SquadsInv, FreshChecksSuffice
  <2>2. CanAppoint(u)
    BY <1>1, <2>1, SquadLedFromWithin DEF CanKick
  <2>3. OffersAreUnique'
    BY <1>4, <2>1 DEF OffersAreUnique
  <2> QED BY <1>6, <2>1, <2>2, <2>3
<1> QED BY <1>6, <1>7, <1>8 DEF SquadsInv

LEMMA ResetRoleKeepsInv ==
  ASSUME SquadsInv, NEW r \in Requests, ResetRole(r)
  PROVE  SquadsInv'
<1> USE SquadsAssumption
<1> DEFINE u == req[r].user
           m == [member[u] EXCEPT !.role = "member"]
<1>1. u \in Users /\ req[r].actor \in Users /\ req[r].squad \in SquadIds
  BY DEF SquadsInv, CallsAreComplete, ResetRole, Closers
<1>2. /\ member' = [member EXCEPT ![u] = m]
      /\ req' = [req EXCEPT ![r].op = "leave", ![r].user = req[r].actor]
      /\ leader' = leader /\ offer' = offer /\ stale' = stale
  <2>1. member' = [member EXCEPT ![u].role = "member"]
    BY DEF ResetRole
  <2> QED BY <2>1 DEF ResetRole
<1>3. /\ member \in [Users -> Members] /\ stale \in BOOLEAN
      /\ offer \in [OfferIds -> Offers \union {NoRow}] /\ req \in [Requests -> Calls]
      /\ \A o \in OfferIds : offer[o] # NoRow => Exists(offer[o].squad)
  BY DEF SquadsInv, SquadsTypeOK
<1>4. /\ m \in Members /\ m.squad = member[u].squad /\ m.placed = member[u].placed
      /\ m.role = "member"
      /\ m.squad # NoSquad => Exists(m.squad)
  BY <1>1, <1>3 DEF Members, Roles, SquadsInv, SquadsTypeOK
<1> HIDE DEF m
<1>5. /\ req' \in [Requests -> Calls]
      /\ \A p \in Requests : p # r => req'[p] = req[p]
      /\ req'[r].op = "leave" /\ req'[r].user = req[r].actor /\ req'[r].actor = req[r].actor
      /\ req'[r].squad = req[r].squad
  BY <1>1, <1>2, <1>3 DEF Calls, Ops
<1>6. /\ SquadsTypeOK'
      /\ LeadersAreMembers => LeadersAreMembers'
      /\ OutsidersHaveNoRole => OutsidersHaveNoRole'
  BY <1>1, <1>2, <1>3, <1>4, <1>5, MemberChanged
<1>7. CallsAreComplete' /\ OwnOfferMovesNobody'
  <2>1. \A o \in OfferIds : OfferStep(o)
    BY <1>2 DEF OfferStep
  <2>2. \A v \in Users : MemberStep(v)
    <3>1. \A v \in Users : /\ member'[v].squad = member[v].squad
                           /\ member'[v].placed = member[v].placed
      BY <1>1, <1>2, <1>3, <1>4
    <3> QED BY <1>2, <3>1, MemberKept
  <2> QED BY <1>1, <1>5, <2>1, <2>2, HeldRows
<1>8. FreshChecksSuffice'
  BY <1>2, <1>6 DEF SquadsInv, FreshChecksSuffice, OffersAreUnique
<1> QED BY <1>6, <1>7, <1>8 DEF SquadsInv

LEMMA LeaveKeepsInv ==
  ASSUME SquadsInv, NEW r \in Requests, LeaveFromSquad(r)
  PROVE  SquadsInv'
<1> USE SquadsAssumption
<1> DEFINE u == req[r].user
           q == req[r].squad
<1>1. u \in Users /\ q \in SquadIds
  BY DEF SquadsInv, CallsAreComplete, LeaveFromSquad, Closers
<1>2. /\ member' = [member EXCEPT ![u] = Outsider]
      /\ stale' = (stale \/ ~CanLeave(u, q))
      /\ Return(r) /\ leader' = leader /\ offer' = offer
  BY DEF LeaveFromSquad, Rests
<1>3. /\ member \in [Users -> Members] /\ stale \in BOOLEAN
      /\ offer \in [OfferIds -> Offers \union {NoRow}]
      /\ \A o \in OfferIds : offer[o] # NoRow => Exists(offer[o].squad)
  BY DEF SquadsInv, SquadsTypeOK
<1>4. /\ SquadsTypeOK'
      /\ LeadersAreMembers /\ CanAppoint(u) => LeadersAreMembers'
      /\ OutsidersHaveNoRole => OutsidersHaveNoRole'
  BY <1>1, <1>2, <1>3, ReturnedRows, MemberChanged, OutsiderIsMember
<1>5. CallsAreComplete' /\ OwnOfferMovesNobody'
  <2>1. \A o \in OfferIds : OfferStep(o)
    BY <1>2 DEF OfferStep
  <2>2. \A v \in Users : MemberStep(v)
    <3>1. \A v \in Users : member'[v] = Outsider \/ member'[v] = member[v]
      BY <1>1, <1>2, <1>3
    <3> QED BY <1>2, <3>1, MemberKept
  <2> QED BY <1>2, <2>1, <2>2, ReturnedRows, HeldRows
<1>6. FreshChecksSuffice'
  <2> SUFFICES ASSUME ~stale'
      PROVE LeadersAreMembers' /\ OutsidersHaveNoRole' /\ OffersAreUnique'
    BY DEF FreshChecksSuffice
  <2>1. /\ CanLeave(u, q)
        /\ LeadersAreMembers /\ OutsidersHaveNoRole /\ OffersAreUnique
    BY <1>2, <1>3 DEF SquadsInv, FreshChecksSuffice
  <2>2. CanAppoint(u)
    BY <1>1, <2>1, SquadLedFromWithin DEF CanLeave
  <2>3. OffersAreUnique'
    BY <1>2, <2>1 DEF OffersAreUnique
  <2> QED BY <1>4, <2>1, <2>2, <2>3
<1> QED BY <1>4, <1>5, <1>6 DEF SquadsInv

-----------------------------------------------------------------------------
(* Offers. *)

\* Only offers change, and none becomes open.
LEMMA OffersClosed ==
  ASSUME SquadsInv, NEW r \in Requests, NEW o \in OfferIds, NEW row \in Offers \union {NoRow},
         offer' = [offer EXCEPT ![o] = row],
         row # NoRow => /\ offer[o] # NoRow /\ row.user = offer[o].user
                        /\ row.squad = offer[o].squad /\ row.status # "pending",
         Return(r), leader' = leader, member' = member, stale' \in BOOLEAN, stale => stale'
  PROVE  SquadsInv'
<1>1. /\ offer \in [OfferIds -> Offers \union {NoRow}]
      /\ leader \in [SquadIds -> Users \union {NoUser}] /\ member \in [Users -> Members]
  BY DEF SquadsInv, SquadsTypeOK
<1>2. /\ offer' \in [OfferIds -> Offers \union {NoRow}]
      /\ offer'[o] = row /\ \A p \in OfferIds : p # o => offer'[p] = offer[p]
  BY <1>1
<1>3. SquadsTypeOK'
  BY <1>1, <1>2, ReturnedRows DEF SquadsInv, SquadsTypeOK, Exists
<1>4. CallsAreComplete' /\ OwnOfferMovesNobody'
  <2>1. \A p \in OfferIds : OfferStep(p)
    BY <1>2 DEF OfferStep
  <2>2. \A v \in Users : MemberStep(v)
    BY DEF MemberStep
  <2> QED BY <2>1, <2>2, ReturnedRows, HeldRows
<1>5. FreshChecksSuffice'
  BY <1>2 DEF SquadsInv, FreshChecksSuffice, LeadersAreMembers, OutsidersHaveNoRole,
              OffersAreUnique, Exists
<1> QED BY <1>3, <1>4, <1>5 DEF SquadsInv

LEMMA DropKeepsInv ==
  ASSUME SquadsInv, NEW r \in Requests, DropInvitation(r)
  PROVE  SquadsInv'
<1>1. req[r].offer \in OfferIds /\ stale \in BOOLEAN
  BY DEF SquadsInv, SquadsTypeOK, CallsAreComplete, DropInvitation, WithOffer, Closers
<1> QED BY <1>1, OffersClosed DEF DropInvitation

LEMMA RejectKeepsInv ==
  ASSUME SquadsInv, NEW r \in Requests, Reject(r)
  PROVE  SquadsInv'
<1> DEFINE o == req[r].offer
           row == [offer[o] EXCEPT !.status = "rejected"]
<1>1. o \in OfferIds /\ stale \in BOOLEAN
  BY DEF SquadsInv, SquadsTypeOK, CallsAreComplete, Reject, WithOffer, Closers
<1>2. CASE offer[o] = NoRow
  BY <1>2, ThrowKeepsInv DEF Reject
<1>3. CASE offer[o] # NoRow
  <2>1. offer[o] \in Offers
    BY <1>1, <1>3 DEF SquadsInv, SquadsTypeOK
  <2>2. row \in Offers /\ row.user = offer[o].user /\ row.squad = offer[o].squad
        /\ row.status # "pending"
    BY <2>1 DEF Offers
  <2>3. /\ offer' = [offer EXCEPT ![o] = row] /\ Return(r)
        /\ leader' = leader /\ member' = member
        /\ stale' = (stale \/ ~(offer[o].status = "pending"))
    <3>1. offer' = [offer EXCEPT ![o].status = "rejected"]
      BY <1>3 DEF Reject
    <3> QED BY <1>3, <3>1 DEF Reject, Rests
  <2>4. stale' \in BOOLEAN /\ (stale => stale')
    BY <1>1, <2>3
  <2> HIDE DEF row
  <2> QED BY <1>1, <1>3, <2>2, <2>3, <2>4, OffersClosed
<1> QED BY <1>2, <1>3

\* requestToJoinSquad and inviteToSquad.
LEMMA NewOfferKeepsInv ==
  ASSUME SquadsInv, NEW r \in Requests, NEW o \in OfferIds, NEW kind \in {"request", "invitation"},
         NEW check \in BOOLEAN, NewOffer(r, o, kind, check),
         req[r].user \in Users, req[r].squad \in SquadIds,
         check => /\ member[req[r].user].squad = NoSquad
                  /\ \A p \in Pending(kind, req[r].user) : offer[p].squad # req[r].squad
  PROVE  SquadsInv'
<1> DEFINE u == req[r].user
           q == req[r].squad
           row == [kind |-> kind, user |-> u, squad |-> q, role |-> req[r].role,
                   status |-> "pending"]
<1>1. CASE ~Exists(q)
  BY <1>1, ThrowKeepsInv DEF NewOffer
<1>2. CASE Exists(q)
  <2>1. /\ offer[o] = NoRow /\ \A p \in Requests : req[p].offer # o
        /\ offer' = [offer EXCEPT ![o] = row] /\ Return(r)
        /\ stale' = (stale \/ ~check) /\ leader' = leader /\ member' = member
    BY <1>2 DEF NewOffer, FreshOffer, Rests
  <2>2. /\ offer \in [OfferIds -> Offers \union {NoRow}] /\ stale \in BOOLEAN
        /\ leader \in [SquadIds -> Users \union {NoUser}] /\ member \in [Users -> Members]
        /\ req[r].role \in Roles
    BY DEF SquadsInv, SquadsTypeOK, Calls
  <2>3. row \in Offers /\ row # NoRow /\ row.squad = q /\ row.user = u /\ row.kind = kind
    BY <2>2 DEF Offers, NoRow
  <2>4. /\ offer' \in [OfferIds -> Offers \union {NoRow}]
        /\ offer'[o] = row /\ \A p \in OfferIds : p # o => offer'[p] = offer[p]
    BY <2>1, <2>2, <2>3
  <2>5. SquadsTypeOK'
    <3>1. \A p \in OfferIds : offer'[p] # NoRow => Exists(offer'[p].squad)
      BY <1>2, <2>3, <2>4 DEF SquadsInv, SquadsTypeOK
    <3>2. stale' \in BOOLEAN
      BY <2>1, <2>2
    <3> QED BY <2>1, <2>4, <3>1, <3>2, ReturnedRows DEF SquadsInv, SquadsTypeOK, Exists
  <2>6. CallsAreComplete' /\ OwnOfferMovesNobody'
    <3>1. \A p \in OfferIds : OfferStep(p)
      BY <2>1, <2>4 DEF OfferStep
    <3>2. \A v \in Users : MemberStep(v)
      BY <2>1 DEF MemberStep
    <3> QED BY <2>1, <3>1, <3>2, ReturnedRows, HeldRows
  <2>7. FreshChecksSuffice'
    <3> SUFFICES ASSUME ~stale'
        PROVE LeadersAreMembers' /\ OutsidersHaveNoRole' /\ OffersAreUnique'
      BY DEF FreshChecksSuffice
    <3>1. check /\ LeadersAreMembers /\ OutsidersHaveNoRole /\ OffersAreUnique
      BY <2>1, <2>2 DEF SquadsInv, FreshChecksSuffice
    <3>2. LeadersAreMembers' /\ OutsidersHaveNoRole'
      BY <2>1, <3>1 DEF LeadersAreMembers, OutsidersHaveNoRole, Exists
    <3>3. \A p \in OfferIds : p # o /\ offer[p] # NoRow /\ offer[p].status = "pending"
            /\ offer[p].kind = kind /\ offer[p].user = u => offer[p].squad # q
      BY <3>1 DEF Pending
    <3>4. OffersAreUnique'
      BY <2>3, <2>4, <3>1, <3>3 DEF OffersAreUnique
    <3> QED BY <3>2, <3>4
  <2> QED BY <2>5, <2>6, <2>7 DEF SquadsInv
<1> QED BY <1>1, <1>2

LEMMA OffersMadeKeepInv ==
  ASSUME SquadsInv, NEW r \in Requests, NEW o \in OfferIds,
         RequestToJoinSquad(r, o) \/ InviteToSquad(r, o)
  PROVE  SquadsInv'
<1> DEFINE u == req[r].user
           q == req[r].squad
<1>1. u \in Users /\ q \in SquadIds
  BY DEF SquadsInv, CallsAreComplete, RequestToJoinSquad, InviteToSquad, Closers
<1>2. CASE RequestToJoinSquad(r, o)
  <2>1. CanRequest(u, q) \in BOOLEAN
    BY DEF CanRequest
  <2>2. CanRequest(u, q) => /\ member[u].squad = NoSquad
                            /\ \A p \in Pending("request", u) : offer[p].squad # q
    BY DEF CanRequest
  <2> QED BY <1>1, <1>2, <2>1, <2>2, NewOfferKeepsInv DEF RequestToJoinSquad
<1>3. CASE InviteToSquad(r, o)
  <2>1. CanInvite(req[r].actor, u, q) \in BOOLEAN
    BY DEF CanInvite
  <2>2. CanInvite(req[r].actor, u, q) =>
          /\ member[u].squad = NoSquad
          /\ \A p \in Pending("invitation", u) : offer[p].squad # q
    BY DEF CanInvite
  <2> QED BY <1>1, <1>3, <2>1, <2>2, NewOfferKeepsInv DEF InviteToSquad
<1> QED BY <1>2, <1>3

\* acceptJoinRequest and acceptInvitation.
LEMMA AcceptKeepsInv ==
  ASSUME SquadsInv, NEW r \in Requests, NEW role \in Roles, NEW check \in BOOLEAN,
         Accept(r, role, check),
         req[r].user \in Users, req[r].squad \in SquadIds, req[r].offer \in OfferIds,
         offer[req[r].offer] # NoRow => offer[req[r].offer].squad = req[r].squad,
         check => member[req[r].user].squad = NoSquad
  PROVE  SquadsInv'
<1> USE SquadsAssumption
<1> DEFINE o == req[r].offer
           u == req[r].user
           q == req[r].squad
           m == [squad |-> q, role |-> role, placed |-> FALSE]
<1>1. CASE offer[o] = NoRow
  BY <1>1, ThrowKeepsInv DEF Accept
<1>2. CASE offer[o] # NoRow
  <2>1. /\ member' = [member EXCEPT ![u] = m]
        /\ offer' = AcceptedOffers(u, o)
        /\ stale' = (stale \/ ~check)
        /\ Return(r) /\ leader' = leader
    BY <1>2 DEF Accept, Join, Rests
  <2>2. /\ member \in [Users -> Members] /\ stale \in BOOLEAN
        /\ offer \in [OfferIds -> Offers \union {NoRow}]
        /\ leader \in [SquadIds -> Users \union {NoUser}]
        /\ Exists(offer[o].squad)
    BY <1>2 DEF SquadsInv, SquadsTypeOK
  <2>3. m \in Members /\ m.squad = q /\ q # NoSquad /\ Exists(q)
    BY <1>2, <2>2 DEF Members
  <2> HIDE DEF m
  <2>4. /\ offer[o] \in Offers
        /\ offer'[o] = [offer[o] EXCEPT !.status = "accepted"]
        /\ \A p \in OfferIds : p # o =>
             IF offer[p] # NoRow /\ offer[p].user = u /\ offer[p].status = "pending"
             THEN offer'[p] = NoRow ELSE offer'[p] = offer[p]
    BY <1>2, <2>1, <2>2 DEF AcceptedOffers
  <2>5. /\ offer'[o] \in Offers /\ offer'[o].status = "accepted"
        /\ offer'[o].user = offer[o].user /\ offer'[o].squad = offer[o].squad
    BY <2>4 DEF Offers
  <2>6. /\ offer' \in [OfferIds -> Offers \union {NoRow}]
        /\ \A p \in OfferIds : offer'[p] # NoRow => Exists(offer'[p].squad)
    <3>1. \A p \in OfferIds : offer'[p] \in Offers \union {NoRow}
      BY <2>2, <2>4, <2>5
    <3>2. \E f : offer' = [p \in OfferIds |-> f[p]]
      <4>1. offer' = [p \in OfferIds |-> AcceptedOffers(u, o)[p]]
        BY <2>1 DEF AcceptedOffers
      <4> QED BY <4>1
    <3>3. offer' \in [OfferIds -> Offers \union {NoRow}]
      BY <3>1, <3>2
    <3>4. ASSUME NEW p \in OfferIds, offer'[p] # NoRow
          PROVE  Exists(offer'[p].squad)
      <4>1. CASE p = o
        BY <2>2, <2>5, <4>1
      <4>2. CASE p # o
        BY <2>4, <3>4, <4>2 DEF SquadsInv, SquadsTypeOK
      <4> QED BY <4>1, <4>2
    <3> QED BY <3>3, <3>4
  <2>7. /\ SquadsTypeOK'
        /\ LeadersAreMembers /\ CanAppoint(u) => LeadersAreMembers'
        /\ OutsidersHaveNoRole => OutsidersHaveNoRole'
    <3>1. stale' \in BOOLEAN
      BY <2>1, <2>2
    <3> QED BY <2>1, <2>3, <2>6, <3>1, ReturnedRows, MemberChanged
  <2>8. \A p \in OfferIds : offer'[p] # NoRow /\ offer'[p].status = "pending" =>
          p # o /\ offer'[p] = offer[p] /\ offer'[p].user # u
    BY <2>4, <2>5
  <2>9. CallsAreComplete' /\ OwnOfferMovesNobody'
    <3>1. ASSUME NEW p \in OfferIds PROVE OfferStep(p)
      <4>1. CASE p = o
        BY <1>2, <2>5, <4>1 DEF OfferStep
      <4>2. CASE p # o
        BY <2>4, <4>2 DEF OfferStep
      <4> QED BY <4>1, <4>2
    <3>2. ASSUME NEW v \in Users PROVE MemberStep(v)
      <4>1. CASE v = u
        BY <2>8, <4>1 DEF MemberStep
      <4>2. CASE v # u
        BY <2>1, <2>2, <4>2 DEF MemberStep, Members
      <4> QED BY <4>1, <4>2
    <3> QED BY <2>1, <3>1, <3>2, ReturnedRows, HeldRows
  <2>10. FreshChecksSuffice'
    <3> SUFFICES ASSUME ~stale'
        PROVE LeadersAreMembers' /\ OutsidersHaveNoRole' /\ OffersAreUnique'
      BY DEF FreshChecksSuffice
    <3>1. check /\ LeadersAreMembers /\ OutsidersHaveNoRole /\ OffersAreUnique
      BY <2>1, <2>2 DEF SquadsInv, FreshChecksSuffice
    <3>2. CanAppoint(u)
      BY <3>1 DEF LeadersAreMembers, CanAppoint, Leads, Exists
    <3>3. OffersAreUnique'
      BY <2>8, <3>1 DEF OffersAreUnique
    <3> QED BY <2>7, <3>1, <3>2, <3>3
  <2> QED BY <2>7, <2>9, <2>10 DEF SquadsInv
<1> QED BY <1>1, <1>2

LEMMA AcceptancesKeepInv ==
  ASSUME SquadsInv, NEW r \in Requests, AcceptJoinRequest(r) \/ AcceptInvitation(r)
  PROVE  SquadsInv'
<1> DEFINE o == req[r].offer
           u == req[r].user
<1>1. /\ u \in Users /\ req[r].squad \in SquadIds /\ o \in OfferIds
      /\ offer[o] # NoRow => /\ req[r].op = "acceptRequest" => offer[o].user = u
                             /\ offer[o].squad = req[r].squad
  BY DEF SquadsInv, CallsAreComplete, AcceptJoinRequest, AcceptInvitation, WithOffer,
         Accepting, Closers
<1>2. "recruit" \in Roles /\ req[r].role \in Roles
  BY DEF SquadsInv, SquadsTypeOK, Calls, Roles
<1>3. CASE AcceptJoinRequest(r)
  <2>1. CanAcceptRequest(req[r].actor, o) \in BOOLEAN
    BY DEF CanAcceptRequest
  <2>2. CanAcceptRequest(req[r].actor, o) => member[u].squad = NoSquad
    BY <1>1, <1>3 DEF CanAcceptRequest, IsPending, NoRow, AcceptJoinRequest
  <2> QED BY <1>1, <1>2, <1>3, <2>1, <2>2, AcceptKeepsInv DEF AcceptJoinRequest
<1>4. CASE AcceptInvitation(r)
  <2>1. CanAcceptInvitation(u, o) \in BOOLEAN
    BY DEF CanAcceptInvitation, IsPending
  <2>2. CanAcceptInvitation(u, o) => member[u].squad = NoSquad
    BY DEF CanAcceptInvitation
  <2> QED BY <1>1, <1>2, <1>4, <2>1, <2>2, AcceptKeepsInv DEF AcceptInvitation
<1> QED BY <1>3, <1>4

-----------------------------------------------------------------------------
LEMMA CrashKeepsInv == ASSUME SquadsInv, Crash PROVE SquadsInv'
<1>1. /\ UNCHANGED <<leader, member, offer, stale>>
      /\ \A p \in Requests : req'[p] = Idle
  BY DEF Crash
<1>2. SquadsTypeOK'
  <2>1. Idle \in Calls
    BY DEF Calls, Idle, Ops, Roles
  <2>2. req' \in [Requests -> Calls]
    BY <2>1 DEF Crash
  <2> QED BY <1>1, <2>2 DEF SquadsInv, SquadsTypeOK, Exists
<1>3. CallsAreComplete' /\ OwnOfferMovesNobody'
  BY <1>1 DEF CallsAreComplete, OwnOfferMovesNobody, Idle, WithOffer, Accepting, Closers
<1>4. FreshChecksSuffice'
  BY <1>1 DEF SquadsInv, FreshChecksSuffice, LeadersAreMembers, OutsidersHaveNoRole,
              OffersAreUnique, Exists
<1> QED BY <1>2, <1>3, <1>4 DEF SquadsInv

LEMMA WritesKeepInv ==
  ASSUME SquadsInv, NEW r \in Requests, Write(r)
  PROVE  SquadsInv'
BY CreateKeepsInv, UpdateByAdminKeepsInv, DeleteKeepsInv, TransferKeepsInv, SetRoleKeepsInv,
   KickKeepsInv, HandOverKeepsInv, ResetRoleKeepsInv, LeaveKeepsInv, OffersMadeKeepInv,
   AcceptancesKeepInv, DropKeepsInv, RejectKeepsInv DEF Write

LEMMA SquadsInvStep == SquadsInv /\ [Next]_vars => SquadsInv'
<1> SUFFICES ASSUME SquadsInv, [Next]_vars PROVE SquadsInv'
  OBVIOUS
<1>1. CASE \E r \in Requests : Check(r) \/ Write(r)
  BY <1>1, ChecksKeepInv, WritesKeepInv
<1>2. CASE Crash
  BY <1>2, CrashKeepsInv
<1>3. CASE UNCHANGED vars
  BY <1>3 DEF vars, SquadsInv, SquadsTypeOK, CallsAreComplete, OwnOfferMovesNobody,
              FreshChecksSuffice, LeadersAreMembers, OutsidersHaveNoRole, OffersAreUnique, Exists
<1> QED BY <1>1, <1>2, <1>3 DEF Next

\* The inductive invariant of squads.service.ts as modelled.
THEOREM SquadsInvariant == Spec => []SquadsInv
BY SquadsInvInit, SquadsInvStep, PTL DEF Spec

-----------------------------------------------------------------------------
\* Rows have their types, foreign keys name squads that exist, and no user
\* leads two squads, however the handlers of squads.service.ts overlap.
THEOREM SquadsTypeCorrect == Spec => []SquadsTypeOK
<1>1. SquadsInv => SquadsTypeOK
  BY DEF SquadsInv
<1> QED BY <1>1, SquadsInvariant, PTL

\* The checks that squads.service.ts makes before its writes are strong
\* enough, and each group of writes is: while every write rests on checks that
\* still hold, leaders are members of their squads, outsiders have no role and
\* open offers are unique, also after a crash inside leaveFromSquad.
THEOREM ChecksSuffice == Spec => []FreshChecksSuffice
<1>1. SquadsInv => FreshChecksSuffice
  BY DEF SquadsInv
<1> QED BY <1>1, SquadsInvariant, PTL

\* However stale the checks of acceptJoinRequest and acceptInvitation are, an
\* open offer to the user himself moves him out of no squad he joined by an
\* offer, his own or another user's invitation.
THEOREM OwnOffersMoveNobody == Spec => []OwnOfferMovesNobody
<1>1. SquadsInv => OwnOfferMovesNobody
  BY DEF SquadsInv
<1> QED BY <1>1, SquadsInvariant, PTL

-----------------------------------------------------------------------------
(* HEADQUARTERS *)

IsPlan(r) ==
  /\ DOMAIN r = {"exists", "hq", "commander", "from", "era", "detached"}
  /\ r.detached \in BOOLEAN

IsAsk(r) ==
  /\ DOMAIN r = {"step", "side", "user", "squad", "slot", "count", "era", "late"}
  /\ r.late \in BOOLEAN
  /\ r.step \in {"appoint", "takeHq", "dropHq", "dismiss"} => r.side \in PlanSides

\* Rows and requests have their fields.
Records ==
  /\ plan = [p \in PlanSides |-> plan[p]] /\ \A p \in PlanSides : IsPlan(plan[p])
  /\ ask = [a \in Asks |-> ask[a]] /\ \A a \in Asks : IsAsk(ask[a])

\* A commander has an HQ squad: the one he was appointed from.
Appointed ==
  \A p \in PlanSides :
    plan[p].commander # None /\ ~plan[p].detached => plan[p].from = plan[p].hq /\ plan[p].from # None

\* What a request has read of the HQ squad holds until it is marked late.
SeenIn(rows, r) ==
  /\ r.step \in {"appoint", "takeHq", "dropHq", "dismiss"} => rows[r.side].exists
  /\ r.step = "appoint" => r.squad # None /\ (~r.late => rows[r.side].hq = r.squad)
  /\ r.step = "takeHq" /\ ~r.late => rows[r.side].hq = None
Seen == \A a \in Asks : SeenIn(plan, ask[a])

CommandInv == Records /\ Appointed /\ Seen

-----------------------------------------------------------------------------
LEMMA CommandInvInit == ASSUME HeadquartersInit PROVE CommandInv
<1> USE DEF HeadquartersInit
<1>1. Records
  BY DEF Records, IsPlan, IsAsk, NoPlan, NoAsk
<1>2. Appointed /\ Seen
  BY DEF Appointed, Seen, SeenIn, NoPlan, NoAsk
<1> QED BY <1>1, <1>2 DEF CommandInv

LEMMA CommandInvImplies == ASSUME CommandInv PROVE CommanderIsFromHq
  BY DEF CommandInv, Appointed, CommanderIsFromHq

\* A step that neither writes a plan nor a request of a player.
LEMMA NothingWritten == ASSUME CommandInv, UNCHANGED <<plan, ask>> PROVE CommandInv'
<1>1. Records' /\ Appointed'
  BY DEF CommandInv, Records, Appointed
<1>2. Seen'
  BY DEF CommandInv, Seen
<1> QED BY <1>1, <1>2 DEF CommandInv

\* Marking the requests that an HQ squad overtakes keeps what they have seen.
LEMMA MarkedAsks ==
  ASSUME CommandInv, NEW a \in Asks,
         \A p \in PlanSides : plan[p].exists => plan'[p].exists
  PROVE  IsAsk(AsksAfter[a]) /\ SeenIn(plan', AsksAfter[a])
<1> DEFINE r == ask[a]
           overtaken == r.step \in {"appoint", "takeHq"} /\ plan'[r.side].hq # plan[r.side].hq
<1>1. IsAsk(r) /\ SeenIn(plan, r)
  BY DEF CommandInv, Records, Seen
<1>2. AsksAfter[a] = IF overtaken THEN [r EXCEPT !.late = TRUE] ELSE r
  BY DEF AsksAfter
<1>3. CASE overtaken
  <2>1. /\ DOMAIN AsksAfter[a] = DOMAIN r /\ AsksAfter[a].late = TRUE
        /\ AsksAfter[a].step = r.step /\ AsksAfter[a].side = r.side /\ AsksAfter[a].squad = r.squad
    BY <1>1, <1>2, <1>3 DEF IsAsk
  <2> QED BY <1>1, <2>1 DEF IsAsk, SeenIn
<1>4. CASE ~overtaken
  <2>1. AsksAfter[a] = r
    BY <1>2, <1>4
  <2>2. r.step \in {"appoint", "takeHq"} =>
          /\ r.side \in PlanSides /\ plan[r.side].exists /\ plan'[r.side].exists
          /\ plan'[r.side].hq = plan[r.side].hq
    BY <1>1, <1>4 DEF IsAsk, SeenIn
  <2>3. SeenIn(plan', r)
    BY <1>1, <2>2 DEF IsAsk, SeenIn
  <2> QED BY <1>1, <2>1, <2>3
<1> QED BY <1>3, <1>4

\* Nobody is overtaken by a step that leaves the HQ squads they read.
LEMMA NobodyMarked ==
  ASSUME Records,
         \A a \in Asks : ask[a].step \in {"appoint", "takeHq"} =>
           plan'[ask[a].side].hq = plan[ask[a].side].hq
  PROVE  AsksAfter = ask
<1>1. \A a \in Asks : AsksAfter[a] = ask[a]
  BY DEF AsksAfter
<1>2. AsksAfter = [a \in Asks |-> AsksAfter[a]]
  BY DEF AsksAfter
<1>3. ask = [a \in Asks |-> ask[a]]
  BY DEF Records
<1> QED BY <1>1, <1>2, <1>3, Zenon

\* Rows that keep their commanders to their HQ squads, with the requests marked.
LEMMA RowsWritten ==
  ASSUME CommandInv,
         plan' = [p \in PlanSides |-> plan'[p]],
         \A p \in PlanSides : IsPlan(plan'[p]) /\ (plan[p].exists => plan'[p].exists),
         Appointed',
         \/ ask' = AsksAfter
         \/ \E a \in Asks : ask' = [AsksAfter EXCEPT ![a] = NoAsk]
  PROVE  CommandInv'
<1>1. /\ ask' = [a \in Asks |-> ask'[a]]
      /\ \A a \in Asks : ask'[a] = AsksAfter[a] \/ ask'[a] = NoAsk
  BY DEF AsksAfter
<1>2. ASSUME NEW a \in Asks PROVE IsAsk(ask'[a]) /\ SeenIn(plan', ask'[a])
  <2>1. CASE ask'[a] = AsksAfter[a]
    BY <2>1, MarkedAsks
  <2>2. CASE ask'[a] = NoAsk
    BY <2>2 DEF NoAsk, IsAsk, SeenIn
  <2> QED BY <1>1, <2>1, <2>2
<1>3. Records'
  BY <1>1, <1>2 DEF Records
<1>4. Seen'
  BY <1>2 DEF Seen
<1> QED BY <1>3, <1>4 DEF CommandInv

-----------------------------------------------------------------------------
(* The steps that write a plan. *)

LEMMA CreatePlanKeeps ==
  ASSUME CommandInv, NEW j \in Jobs, NEW p \in PlanSides, CreatePlan(j, p) PROVE CommandInv'
<1> DEFINE hq == HqSquadOf(job[j].game, p)
<1>1. CASE hq \in disbanded
  BY <1>1, NothingWritten DEF CreatePlan
<1>2. CASE hq \notin disbanded
  <2>1. /\ plan' = [plan EXCEPT ![p] = [NoPlan EXCEPT !.exists = TRUE, !.hq = hq]]
        /\ ask' = ask /\ ~plan[p].exists
    BY <1>2 DEF CreatePlan
  <2>2. Records /\ Appointed /\ Seen
    BY DEF CommandInv
  <2>3. plan' = [q \in PlanSides |-> plan'[q]]
    BY <2>1, <2>2 DEF Records
  <2>4. plan'[p] = [NoPlan EXCEPT !.exists = TRUE, !.hq = hq]
    BY <2>1, <2>2 DEF Records
  <2>5. \A q \in PlanSides : q # p => plan'[q] = plan[q]
    BY <2>1, <2>2 DEF Records
  <2>6. \A q \in PlanSides : IsPlan(plan'[q]) /\ (plan[q].exists => plan'[q].exists)
    BY <2>1, <2>2, <2>4, <2>5 DEF Records, IsPlan, NoPlan
  <2>7. Appointed'
    BY <2>2, <2>4, <2>5 DEF Appointed, NoPlan
  <2>8. \A a \in Asks : ask[a].step \in {"appoint", "takeHq"} =>
          ask[a].side \in PlanSides /\ ask[a].side # p
    BY <2>1, <2>2 DEF Records, Seen, SeenIn, IsAsk
  <2>9. ask' = AsksAfter
    BY <2>1, <2>2, <2>5, <2>8, NobodyMarked
  <2> QED BY <2>3, <2>6, <2>7, <2>9, RowsWritten
<1> QED BY <1>1, <1>2

LEMMA ClearPlansKeeps ==
  ASSUME CommandInv, NEW j \in Jobs, ClearPlans(j) PROVE CommandInv'
<1>1. /\ plan' = [p \in PlanSides |-> [NoPlan EXCEPT !.exists = TRUE]]
      /\ ask' = AsksAfter
  BY DEF ClearPlans
<1>2. plan' = [p \in PlanSides |-> plan'[p]]
  BY <1>1
<1>3. \A p \in PlanSides : IsPlan(plan'[p]) /\ (plan[p].exists => plan'[p].exists)
  BY <1>1 DEF IsPlan, NoPlan
<1>4. Appointed'
  BY <1>1 DEF Appointed, NoPlan
<1> QED BY <1>1, <1>2, <1>3, <1>4, RowsWritten

\* A row that loses its commander.
LEMMA RowReset ==
  ASSUME CommandInv, NEW p \in PlanSides, NEW row, IsPlan(row), row.exists, row.commander = None,
         plan' = [plan EXCEPT ![p] = row],
         \/ ask' = AsksAfter
         \/ \E a \in Asks : ask' = [AsksAfter EXCEPT ![a] = NoAsk]
  PROVE  CommandInv'
<1>1. Records /\ Appointed
  BY DEF CommandInv
<1>2. plan' = [q \in PlanSides |-> plan'[q]]
  BY <1>1 DEF Records
<1>3. plan'[p] = row
  BY <1>1 DEF Records
<1>4. \A q \in PlanSides : q # p => plan'[q] = plan[q]
  BY <1>1 DEF Records
<1>5. \A q \in PlanSides : IsPlan(plan'[q]) /\ (plan[q].exists => plan'[q].exists)
  BY <1>1, <1>3, <1>4 DEF Records
<1>6. Appointed'
  BY <1>1, <1>3, <1>4 DEF Appointed
<1> QED BY <1>2, <1>5, <1>6, RowsWritten

\* Only that the plan is there, and perhaps its HQ squad.
LEMMA BareRow ==
  /\ LET row == [NoPlan EXCEPT !.exists = TRUE] IN
       IsPlan(row) /\ row.exists /\ row.commander = None /\ row.hq = None
  /\ \A hq : LET row == [NoPlan EXCEPT !.exists = TRUE, !.hq = hq] IN
       IsPlan(row) /\ row.exists /\ row.commander = None /\ row.hq = hq
  BY DEF IsPlan, NoPlan

LEMMA SetHqSquadKeeps ==
  ASSUME CommandInv, NEW j \in Jobs, NEW p \in PlanSides, SetHqSquad(j, p) PROVE CommandInv'
<1>1. CASE UNCHANGED <<plan, ask>>
  BY <1>1, NothingWritten
<1>2. CASE ~UNCHANGED <<plan, ask>>
  <2> DEFINE row == [NoPlan EXCEPT !.exists = TRUE, !.hq = HqSquadOf(job[j].game, p)]
  <2>1. plan' = [plan EXCEPT ![p] = row] /\ ask' = AsksAfter
    BY <1>2 DEF SetHqSquad
  <2>2. IsPlan(row) /\ row.exists /\ row.commander = None
    BY BareRow
  <2> HIDE DEF row
  <2> QED BY <2>1, <2>2, RowReset
<1> QED BY <1>1, <1>2

LEMMA UnassignHqSquadKeeps ==
  ASSUME CommandInv, NEW a \in Asks, UnassignHqSquad(a) PROVE CommandInv'
<1> DEFINE row == [NoPlan EXCEPT !.exists = TRUE]
<1>1. ask[a].side \in PlanSides
  BY DEF CommandInv, Records, IsAsk, UnassignHqSquad
<1>2. /\ plan' = [plan EXCEPT ![ask[a].side] = row]
      /\ ask' = [AsksAfter EXCEPT ![a] = NoAsk]
  BY DEF UnassignHqSquad
<1>3. IsPlan(row) /\ row.exists /\ row.commander = None
  BY BareRow
<1> HIDE DEF row
<1> QED BY <1>1, <1>2, <1>3, RowReset

LEMMA UnassignCommanderKeeps ==
  ASSUME CommandInv, NEW a \in Asks, UnassignCommander(a) PROVE CommandInv'
<1> DEFINE p == ask[a].side
           row == [NoPlan EXCEPT !.exists = TRUE, !.hq = plan[p].hq]
<1>1. Records /\ p \in PlanSides
  BY DEF CommandInv, Records, IsAsk, UnassignCommander
<1>2. plan' = [plan EXCEPT ![p] = row] /\ ask' = [ask EXCEPT ![a] = NoAsk]
  BY DEF UnassignCommander
<1>3. IsPlan(row) /\ row.exists /\ row.commander = None /\ row.hq = plan[p].hq
  BY BareRow
<1> HIDE DEF row
<1>4. \A q \in PlanSides : plan'[q].hq = plan[q].hq
  BY <1>1, <1>2, <1>3 DEF Records
<1>5. AsksAfter = ask
  BY <1>1, <1>4, NobodyMarked DEF Records, IsAsk
<1>6. ask' = [AsksAfter EXCEPT ![a] = NoAsk]
  BY <1>2, <1>5
<1> QED BY <1>1, <1>2, <1>3, <1>6, RowReset

LEMMA AssignHqSquadKeeps ==
  ASSUME CommandInv, NEW a \in Asks, AssignHqSquad(a) PROVE CommandInv'
<1> DEFINE p == ask[a].side
           old == plan[p]
           gap == \/ old.detached
                  \/ ask[a].late /\ old.commander # None
<1>1. Records /\ Appointed /\ Seen /\ p \in PlanSides /\ ask[a].step = "takeHq"
  BY DEF CommandInv, Records, IsAsk, AssignHqSquad
<1>2. ask' = [AsksAfter EXCEPT ![a] = NoAsk]
  BY DEF AssignHqSquad
<1>3. CASE ask[a].squad \in disbanded
  <2>1. plan' = plan
    BY <1>3 DEF AssignHqSquad
  <2>2. plan' = [q \in PlanSides |-> plan'[q]] /\ Appointed'
    BY <1>1, <2>1 DEF Records, Appointed
  <2>3. \A q \in PlanSides : IsPlan(plan'[q]) /\ (plan[q].exists => plan'[q].exists)
    BY <1>1, <2>1 DEF Records
  <2> QED BY <1>2, <2>2, <2>3, RowsWritten
<1>4. CASE ask[a].squad \notin disbanded
  <2>1. plan' = [plan EXCEPT ![p].hq = ask[a].squad, ![p].detached = gap]
    BY <1>4 DEF AssignHqSquad
  <2>2. plan' = [q \in PlanSides |-> plan'[q]]
    BY <1>1, <2>1 DEF Records
  <2>3. /\ DOMAIN plan'[p] = DOMAIN old /\ plan'[p].exists = old.exists
        /\ plan'[p].hq = ask[a].squad /\ plan'[p].commander = old.commander
        /\ plan'[p].from = old.from /\ plan'[p].detached = gap
    BY <1>1, <2>1 DEF Records, IsPlan
  <2>4. \A q \in PlanSides : q # p => plan'[q] = plan[q]
    BY <1>1, <2>1 DEF Records
  <2>5. gap \in BOOLEAN /\ IsPlan(old)
    BY <1>1 DEF Records, IsPlan, IsAsk
  <2>6. IsPlan(plan'[p])
    BY <2>3, <2>5 DEF IsPlan
  <2>7. \A q \in PlanSides : IsPlan(plan'[q]) /\ (plan[q].exists => plan'[q].exists)
    BY <1>1, <2>3, <2>4, <2>6 DEF Records
  <2>8. old.commander # None => gap
    BY <1>1 DEF Appointed, Seen, SeenIn
  <2>9. Appointed'
    BY <1>1, <2>3, <2>4, <2>8 DEF Appointed
  <2> QED BY <1>2, <2>2, <2>7, <2>9, RowsWritten
<1> QED BY <1>3, <1>4

LEMMA AssignCommanderKeeps ==
  ASSUME CommandInv, NEW a \in Asks, AssignCommander(a) PROVE CommandInv'
<1> DEFINE p == ask[a].side
           old == plan[p]
<1>1. Records /\ Appointed /\ Seen /\ p \in PlanSides /\ ask[a].step = "appoint"
  BY DEF CommandInv, Records, IsAsk, AssignCommander
<1>2. /\ plan' = [plan EXCEPT ![p].commander = ask[a].user, ![p].from = ask[a].squad,
                              ![p].era = ask[a].era, ![p].detached = ask[a].late]
      /\ ask' = [ask EXCEPT ![a] = NoAsk]
  BY DEF AssignCommander
<1>3. plan' = [q \in PlanSides |-> plan'[q]]
  BY <1>1, <1>2 DEF Records
<1>4. /\ DOMAIN plan'[p] = DOMAIN old /\ plan'[p].exists = old.exists
      /\ plan'[p].hq = old.hq /\ plan'[p].commander = ask[a].user
      /\ plan'[p].from = ask[a].squad /\ plan'[p].detached = ask[a].late
  BY <1>1, <1>2 DEF Records, IsPlan
<1>5. \A q \in PlanSides : q # p => plan'[q] = plan[q]
  BY <1>1, <1>2 DEF Records
<1>6. IsPlan(plan'[p])
  BY <1>1, <1>4 DEF Records, IsAsk, IsPlan
<1>7. \A q \in PlanSides : IsPlan(plan'[q]) /\ (plan[q].exists => plan'[q].exists)
  BY <1>1, <1>4, <1>5, <1>6 DEF Records
<1>8. ask[a].squad # None /\ (~ask[a].late => old.hq = ask[a].squad)
  BY <1>1 DEF Seen, SeenIn
<1>9. Appointed'
  BY <1>1, <1>4, <1>5, <1>8 DEF Appointed
<1>10. AsksAfter = ask
  BY <1>1, <1>4, <1>5, NobodyMarked DEF Records, IsAsk
<1> QED BY <1>2, <1>3, <1>7, <1>9, <1>10, RowsWritten

LEMMA DeleteSquadKeeps ==
  ASSUME CommandInv, NEW q \in Squads, DeleteSquad(q) PROVE CommandInv'
<1> DEFINE gap(p) == plan[p].detached \/ plan[p].commander # None
<1>1. Records /\ Appointed
  BY DEF CommandInv
<1>2. /\ plan' = [p \in PlanSides |->
           IF plan[p].hq # q THEN plan[p]
           ELSE [plan[p] EXCEPT !.hq = None, !.detached = gap(p)]]
      /\ ask' = AsksAfter
  BY DEF DeleteSquad
<1>3. plan' = [p \in PlanSides |-> plan'[p]]
  BY <1>2
<1>4. ASSUME NEW p \in PlanSides
      PROVE  /\ IsPlan(plan'[p]) /\ (plan[p].exists => plan'[p].exists)
             /\ plan'[p].commander # None /\ ~plan'[p].detached
                => plan'[p].from = plan'[p].hq /\ plan'[p].from # None
  <2>1. CASE plan[p].hq # q
    BY <1>1, <1>2, <2>1 DEF Records, Appointed
  <2>2. CASE plan[p].hq = q
    <3>1. /\ DOMAIN plan'[p] = DOMAIN plan[p] /\ plan'[p].exists = plan[p].exists
          /\ plan'[p].commander = plan[p].commander /\ plan'[p].detached = gap(p)
      BY <1>1, <1>2, <2>2 DEF Records, IsPlan
    <3>2. gap(p) \in BOOLEAN /\ IsPlan(plan[p])
      BY <1>1 DEF Records, IsPlan
    <3> QED BY <3>1, <3>2 DEF IsPlan
  <2> QED BY <2>1, <2>2
<1>5. Appointed'
  BY <1>4 DEF Appointed
<1> QED BY <1>2, <1>3, <1>4, <1>5, RowsWritten

LEMMA DeleteGameKeeps ==
  ASSUME CommandInv, DeleteGame PROVE CommandInv'
<1>1. plan' = [p \in PlanSides |-> NoPlan] /\ ask' = [a \in Asks |-> NoAsk]
  BY DEF DeleteGame
<1>2. Records'
  BY <1>1 DEF Records, IsPlan, IsAsk, NoPlan, NoAsk
<1>3. Appointed' /\ Seen'
  BY <1>1 DEF Appointed, Seen, SeenIn, NoPlan, NoAsk
<1> QED BY <1>2, <1>3 DEF CommandInv

-----------------------------------------------------------------------------
(* The steps that start or end a request of a player, and all the others. *)

LEMMA AskWritten ==
  ASSUME CommandInv, NEW a \in Asks, NEW r, IsAsk(r), SeenIn(plan, r),
         ask' = [ask EXCEPT ![a] = r], plan' = plan
  PROVE  CommandInv'
<1>1. Records /\ Appointed /\ Seen
  BY DEF CommandInv
<1>2. /\ ask' = [b \in Asks |-> ask'[b]]
      /\ \A b \in Asks : ask'[b] = IF b = a THEN r ELSE ask[b]
  BY <1>1 DEF Records
<1>3. Records' /\ Appointed'
  BY <1>1, <1>2 DEF Records, Appointed
<1>4. Seen'
  BY <1>1, <1>2 DEF Seen
<1> QED BY <1>3, <1>4 DEF CommandInv

LEMMA AskStartKeeps ==
  ASSUME CommandInv, NEW a \in Asks, AskStart(a) PROVE CommandInv'
<1>1. ASSUME NEW r, StartAsk(a, r), IsAsk(r), SeenIn(plan, r) PROVE CommandInv'
  BY <1>1, AskWritten DEF StartAsk
<1>2. ASSUME NEW p \in PlanSides, NEW u \in Players, AssignHqSquadCheck(a, p, u)
      PROVE  CommandInv'
  <2> DEFINE r == [NoAsk EXCEPT !.step = "takeHq", !.side = p, !.squad = officer[u]]
  <2>1. StartAsk(a, r)
    BY <1>2 DEF AssignHqSquadCheck
  <2>2. IsAsk(r) /\ SeenIn(plan, r)
    BY <1>2 DEF AssignHqSquadCheck, AskMayStart, NoAsk, IsAsk, SeenIn
  <2> HIDE DEF r
  <2> QED BY <1>1, <2>1, <2>2
<1>3. ASSUME NEW p \in PlanSides, NEW u \in Players, AssignCommanderCheck(a, p, u)
      PROVE  CommandInv'
  <2> DEFINE r == [NoAsk EXCEPT !.step = "appoint", !.side = p, !.user = u,
                                !.squad = officer[u], !.era = Era]
  <2>1. StartAsk(a, r)
    BY <1>3 DEF AssignCommanderCheck
  <2>2. IsAsk(r) /\ SeenIn(plan, r)
    BY <1>3 DEF AssignCommanderCheck, AskMayStart, MayAccess, NoAsk, IsAsk, SeenIn
  <2> HIDE DEF r
  <2> QED BY <1>1, <2>1, <2>2
<1>4. ASSUME NEW p \in PlanSides, UnassignHqSquadCheck(a, p)
      PROVE  CommandInv'
  <2> DEFINE r == [NoAsk EXCEPT !.step = "dropHq", !.side = p]
  <2>1. StartAsk(a, r)
    BY <1>4 DEF UnassignHqSquadCheck
  <2>2. IsAsk(r) /\ SeenIn(plan, r)
    BY <1>4 DEF UnassignHqSquadCheck, AskMayStart, NoAsk, IsAsk, SeenIn
  <2> HIDE DEF r
  <2> QED BY <1>1, <2>1, <2>2
<1>5. ASSUME NEW p \in PlanSides, UnassignCommanderCheck(a, p)
      PROVE  CommandInv'
  <2> DEFINE r == [NoAsk EXCEPT !.step = "dismiss", !.side = p]
  <2>1. StartAsk(a, r)
    BY <1>5 DEF UnassignCommanderCheck
  <2>2. IsAsk(r) /\ SeenIn(plan, r)
    BY <1>5 DEF UnassignCommanderCheck, AskMayStart, NoAsk, IsAsk, SeenIn
  <2> HIDE DEF r
  <2> QED BY <1>1, <2>1, <2>2
<1>6. ASSUME NEW u \in Players, NEW s \in slots, NEW q \in Squads, AssignSquadCheck(a, u, s, q)
      PROVE  CommandInv'
  <2> DEFINE r == [NoAsk EXCEPT !.step = "place", !.side = s.side, !.squad = q, !.slot = Id(s)]
  <2>1. StartAsk(a, r)
    BY <1>6 DEF AssignSquadCheck
  <2>2. IsAsk(r) /\ SeenIn(plan, r)
    BY <1>6 DEF NoAsk, IsAsk, SeenIn
  <2> HIDE DEF r
  <2> QED BY <1>1, <2>1, <2>2
<1>7. ASSUME NEW u \in Players, NEW s \in slots, NEW q \in Squads, UnassignSquadCheck(a, u, s, q)
      PROVE  CommandInv'
  <2> DEFINE r == [NoAsk EXCEPT !.step = "remove", !.side = s.side, !.squad = q, !.slot = Id(s)]
  <2>1. StartAsk(a, r)
    BY <1>7 DEF UnassignSquadCheck
  <2>2. IsAsk(r) /\ SeenIn(plan, r)
    BY <1>7 DEF NoAsk, IsAsk, SeenIn
  <2> HIDE DEF r
  <2> QED BY <1>1, <2>1, <2>2
<1>8. ASSUME NEW u \in Players, NEW s \in slots, NEW n \in Counts, UpdateSlotCheck(a, u, s, n)
      PROVE  CommandInv'
  <2> DEFINE r == [NoAsk EXCEPT !.step = "edit", !.side = s.side, !.slot = Id(s), !.count = n]
  <2>1. StartAsk(a, r)
    BY <1>8 DEF UpdateSlotCheck
  <2>2. IsAsk(r) /\ SeenIn(plan, r)
    BY <1>8 DEF NoAsk, IsAsk, SeenIn
  <2> HIDE DEF r
  <2> QED BY <1>1, <2>1, <2>2
<1>9. ASSUME NEW u \in Players, NEW s \in slots, WantSlotCheck(a, u, s) PROVE CommandInv'
  <2> DEFINE r == [NoAsk EXCEPT !.step = "want", !.side = s.side, !.squad = officer[u], !.slot = Id(s)]
  <2>1. StartAsk(a, r)
    BY <1>9 DEF WantSlotCheck
  <2>2. IsAsk(r) /\ SeenIn(plan, r)
    BY <1>9 DEF NoAsk, IsAsk, SeenIn
  <2> HIDE DEF r
  <2> QED BY <1>1, <2>1, <2>2
<1>10. ASSUME NEW u \in Players, NEW s \in slots, UnwantSlotCheck(a, u, s) PROVE CommandInv'
  <2> DEFINE r == [NoAsk EXCEPT !.step = "unwant", !.side = s.side, !.squad = officer[u], !.slot = Id(s)]
  <2>1. StartAsk(a, r)
    BY <1>10 DEF UnwantSlotCheck
  <2>2. IsAsk(r) /\ SeenIn(plan, r)
    BY <1>10 DEF NoAsk, IsAsk, SeenIn
  <2> HIDE DEF r
  <2> QED BY <1>1, <2>1, <2>2
<1> QED BY <1>2, <1>3, <1>4, <1>5, <1>6, <1>7, <1>8, <1>9, <1>10 DEF AskStart

LEMMA NoAskIsFine == IsAsk(NoAsk) /\ SeenIn(plan, NoAsk)
  BY DEF IsAsk, SeenIn, NoAsk

LEMMA AskStepKeeps ==
  ASSUME CommandInv, NEW a \in Asks, AskStep(a) PROVE CommandInv'
<1>1. CASE UpdateSlot(a)
  <2>1. ask' = [ask EXCEPT ![a] = NoAsk] /\ plan' = plan
    BY <1>1 DEF UpdateSlot
  <2> QED BY <2>1, NoAskIsFine, AskWritten
<1> QED BY <1>1, AssignHqSquadKeeps, AssignCommanderKeeps, UnassignHqSquadKeeps,
           UnassignCommanderKeeps DEF AskStep

LEMMA JobStepKeeps ==
  ASSUME CommandInv, NEW j \in Jobs, JobStep(j) PROVE CommandInv'
<1>1. CASE \/ SaveGame(j) \/ SaveVersion(j) \/ LoadGame(j) \/ PlansEnsured(j)
           \/ ReadHqSquads(j) \/ ReadPlans(j) \/ DropFriendlySlots(j)
  <2>1. UNCHANGED <<plan, ask>>
    BY <1>1 DEF SaveGame, SaveVersion, LoadGame, PlansEnsured, ReadHqSquads, ReadPlans,
                DropFriendlySlots
  <2> QED BY <2>1, NothingWritten
<1>2. ASSUME NEW p \in PlanSides,
             \/ FillPlan(j, p) \/ RebuildSlots(j, p) \/ AddFriendlySlots(j, p) \/ SyncSlots(j, p)
      PROVE  CommandInv'
  <2>1. UNCHANGED <<plan, ask>>
    BY <1>2 DEF FillPlan, RebuildSlots, AddFriendlySlots, SyncSlots
  <2> QED BY <2>1, NothingWritten
<1> QED BY <1>1, <1>2, CreatePlanKeeps, ClearPlansKeeps, SetHqSquadKeeps DEF JobStep

LEMMA CommandInvNext == ASSUME CommandInv, [HeadquartersNext]_planVars PROVE CommandInv'
<1>1. ASSUME NEW j \in Jobs, JobStart(j) PROVE CommandInv'
  <2>1. UNCHANGED <<plan, ask>>
    BY <1>1 DEF JobStart, CreateGame, UpdateGameCheck, UpdateVersionCheck
  <2> QED BY <2>1, NothingWritten
<1>2. ASSUME NEW u \in Players, NEW q \in Squads \union {None}, MoveOfficer(u, q) PROVE CommandInv'
  <2>1. UNCHANGED <<plan, ask>>
    BY <1>2 DEF MoveOfficer
  <2> QED BY <2>1, NothingWritten
<1>3. CASE CrashJobs
  <2>1. plan' = plan /\ ask' = [a \in Asks |-> NoAsk]
    BY <1>3 DEF CrashJobs
  <2>2. Records' /\ Appointed'
    BY <2>1 DEF CommandInv, Records, Appointed, IsAsk, NoAsk
  <2>3. Seen'
    BY <2>1 DEF Seen, SeenIn, NoAsk
  <2> QED BY <2>2, <2>3 DEF CommandInv
<1>4. CASE UNCHANGED planVars
  BY <1>4, NothingWritten DEF planVars
<1> QED BY <1>1, <1>2, <1>3, <1>4, JobStepKeeps, AskStepKeeps, AskStartKeeps,
           DeleteSquadKeeps, DeleteGameKeeps DEF HeadquartersNext

\* Whatever requests overlap and whoever changes squads meanwhile: a commander
\* who is not of the HQ squad was appointed, or the squad chosen, on a stale
\* read of the HQ squad, or his squad was deleted.
THEOREM CommanderFromHq == HeadquartersSpec => []CommanderIsFromHq
<1>1. HeadquartersInit => CommandInv
  BY CommandInvInit
<1>2. CommandInv /\ [HeadquartersNext]_planVars => CommandInv'
  BY CommandInvNext
<1>3. CommandInv => CommanderIsFromHq
  BY CommandInvImplies
<1> QED BY <1>1, <1>2, <1>3, PTL DEF HeadquartersSpec

-----------------------------------------------------------------------------
(* What the state is made of. *)

JobFields == {"step", "route", "edit", "todo", "version", "game", "content", "counts",
              "friendly", "previous", "hq", "rows"}

Saving == {"idle", "saveGame", "saveVersion"}
Loaded == {"ensure", "fill", "rebuild", "clear", "readPlans", "dropFriendly", "addFriendly", "sync"}
Ensured == {"rebuild", "clear", "readPlans", "dropFriendly", "addFriendly", "sync"}
Syncing == {"readPlans", "dropFriendly", "addFriendly", "sync"}

\* A request of an organiser fits the game and the plans there are.
JobFitsIn(g, rows, r) ==
  /\ DOMAIN r = JobFields
  /\ r.step \in Saving \union Loaded \union {"load", "readHq", "setHq"}
  /\ r.step = "saveGame" => r.edit \in Edits /\ r.route \in {"none", "hq", "sync", "reset"}
  /\ r.step = "saveVersion" => r.version \in Versions /\ ContentOK(r.content) /\ r.route = "sync"
  /\ r.step \notin {"idle", "saveVersion"} => g # None
  /\ r.step \in Loaded \union {"setHq"} => r.game \in GameRows
  /\ r.step \in Loaded => ContentOK(r.content)
  /\ r.step \in {"load", "ensure", "fill"} => r.route \in {"create", "reset", "sync"}
  /\ r.step \in Syncing => r.route = "sync"
  /\ r.todo \subseteq PlanSides
  /\ r.step = "fill" => \E p \in PlanSides : r.todo = {p} /\ rows[p].exists
  /\ r.step \in Ensured => \A p \in PlanSides : rows[p].exists

IsSlotIn(rows, gone, s) ==
  /\ DOMAIN s = {"side", "callsign", "type", "copy", "count", "squads", "wanted"}
  /\ SlotIdType(s) /\ rows[s.side].exists
  /\ s.squads \union s.wanted \subseteq Squads \ gone

GameFits == game # None =>
  game \in GameRows /\ {game.attackHq, game.defenseHq} \intersect disbanded = {}
VersionsFit == version = [v \in Versions |-> version[v]] /\ \A v \in Versions : ContentOK(version[v])
PlansFit == \A p \in PlanSides :
  /\ plan[p].hq \in MaybeOf(Squads \ disbanded) /\ plan[p].commander \in MaybeOf(Players)
  /\ ~plan[p].exists => plan[p] = NoPlan
SlotsFit ==
  /\ IsFiniteSet(slots) /\ \A s \in slots : IsSlotIn(plan, disbanded, s)
  /\ \A s, t \in slots : Id(s) = Id(t) => s = t
OfficersFit == officer \in [Players -> MaybeOf(Squads \ disbanded)]
AskFits(r) ==
  /\ r.step \in {"takeHq", "place", "want"} => r.squad \in Squads
  /\ r.step = "appoint" => r.user \in Players
AsksFit == \A a \in Asks : AskFits(ask[a])
RowsOfJobs == UNION {job[j].rows : j \in Jobs}
JobsFit ==
  /\ job = [j \in Jobs |-> job[j]] /\ \A j \in Jobs : JobFitsIn(game, plan, job[j])
  /\ IsFiniteSet(RowsOfJobs)

TypesInv ==
  /\ CommandInv /\ disbanded \subseteq Squads /\ lapsed \subseteq {"slots", "plans", "overlap"}
  /\ GameFits /\ VersionsFit /\ PlansFit /\ SlotsFit /\ OfficersFit /\ AsksFit /\ JobsFit

-----------------------------------------------------------------------------
(* The rows that a version asks for, and the slots made of them. *)

LEMMA FiniteImage ==
  ASSUME NEW S, IsFiniteSet(S), NEW f PROVE IsFiniteSet({f[x] : x \in S})
<1> DEFINE T == {f[x] : x \in S}
           g == [x \in S |-> f[x]]
<1>1. g \in Surjection(S, T)
  BY DEF Surjection
<1> QED BY <1>1, FS_Surjection

LEMMA SlotRowTypes ==
  ASSUME NEW g \in GameRows, NEW c, ContentOK(c), NEW p, NEW d \in SlotRows(g, c, p)
  PROVE  /\ d = Row(d.callsign, d.type, d.count)
         /\ \/ d.type = PrimaryType(g, c, p)
            \/ d.type = c.friendlyType /\ c.friendlyType # None /\ PrimaryType(g, c, p) # None
         /\ d.type \in MaybeOf(Types)
<1>1. PrimaryType(g, c, p) \in MaybeOf(Types) /\ c.friendlyType \in MaybeOf(Types)
  BY DEF PrimaryType, ContentOK, MaybeOf
<1>2. /\ d = Row(d.callsign, d.type, d.count)
      /\ \/ d.type = PrimaryType(g, c, p)
         \/ d.type = c.friendlyType /\ c.friendlyType # None /\ PrimaryType(g, c, p) # None
  BY DEF SlotRows, Row
<1> QED BY <1>1, <1>2

LEMMA SlotRowKeys ==
  ASSUME NEW g \in GameRows, NEW c, ContentOK(c), NEW p,
         NEW d \in SlotRows(g, c, p), NEW e \in SlotRows(g, c, p), Key(d) = Key(e)
  PROVE  d = e
<1> DEFINE type == PrimaryType(g, c, p)
           primary == PrimarySlots(g, c, p)
           default == IF primary = {} THEN DefaultCallsigns ELSE {}
           friendly == IF type # None /\ c.friendlyType # None /\ c.friendlyTo = type
                       THEN c.friendlySlots ELSE {}
<1>1. \A x \in SlotRows(g, c, p) :
        \/ \E s \in primary : x = Row(s[1], type, s[2])
        \/ primary = {} /\ \E n \in default : x = Row(n, type, 0)
        \/ type # None /\ c.friendlyType # None
           /\ \E s \in friendly : x = Row(s[1], c.friendlyType, s[2])
  BY DEF SlotRows
<1>2. type # None => c.friendlyType # type
  BY DEF PrimaryType, ContentOK
<1>3. \A s, t \in primary : s[1] = t[1] => s = t
  BY DEF PrimarySlots, ContentOK
<1>4. \A s, t \in friendly : s[1] = t[1] => s = t
  BY DEF ContentOK
<1>5. d.callsign = e.callsign /\ d.type = e.type
  BY DEF Key
<1> HIDE DEF type, primary, default, friendly
<1> QED BY <1>1, <1>2, <1>3, <1>4, <1>5 DEF Row

LEMMA SlotRowsFinite ==
  ASSUME NEW g \in GameRows, NEW c, ContentOK(c), NEW p PROVE IsFiniteSet(SlotRows(g, c, p))
<1> DEFINE type == PrimaryType(g, c, p)
           primary == PrimarySlots(g, c, p)
           default == IF primary = {} THEN DefaultCallsigns ELSE {}
           friendly == IF type # None /\ c.friendlyType # None /\ c.friendlyTo = type
                       THEN c.friendlySlots ELSE {}
<1>1. IsFiniteSet(primary) /\ IsFiniteSet(default) /\ IsFiniteSet(friendly)
  BY HeadquartersAssumption, FS_EmptySet DEF PrimarySlots, ContentOK
<1>2. /\ SlotRows(g, c, p) = {Row(s[1], type, s[2]) : s \in primary}
                             \union {Row(n, type, 0) : n \in default}
                             \union {Row(s[1], c.friendlyType, s[2]) : s \in friendly}
  BY DEF SlotRows
<1> HIDE DEF type, primary, default, friendly
<1>3. IsFiniteSet({Row(s[1], type, s[2]) : s \in primary})
  <2> DEFINE f == [s \in primary |-> Row(s[1], type, s[2])]
  <2>1. {Row(s[1], type, s[2]) : s \in primary} = {f[s] : s \in primary}
    OBVIOUS
  <2> HIDE DEF f
  <2> QED BY <1>1, <2>1, FiniteImage
<1>4. IsFiniteSet({Row(n, type, 0) : n \in default})
  <2> DEFINE f == [n \in default |-> Row(n, type, 0)]
  <2>1. {Row(n, type, 0) : n \in default} = {f[n] : n \in default}
    OBVIOUS
  <2> HIDE DEF f
  <2> QED BY <1>1, <2>1, FiniteImage
<1>5. IsFiniteSet({Row(s[1], c.friendlyType, s[2]) : s \in friendly})
  <2> DEFINE f == [s \in friendly |-> Row(s[1], c.friendlyType, s[2])]
  <2>1. {Row(s[1], c.friendlyType, s[2]) : s \in friendly} = {f[s] : s \in friendly}
    OBVIOUS
  <2> HIDE DEF f
  <2> QED BY <1>1, <2>1, FiniteImage
<1> QED BY <1>2, <1>3, <1>4, <1>5, FS_Union

LEMMA TakenIdsFinite == ASSUME SlotsFit, JobsFit PROVE IsFiniteSet(TakenIds)
<1> DEFINE f == [s \in slots |-> Id(s)]
           g == [a \in Asks |-> ask[a].slot]
           h == [s \in RowsOfJobs |-> Id(s)]
<1>1. IsFiniteSet({f[s] : s \in slots})
  <2> HIDE DEF f
  <2> QED BY FiniteImage DEF SlotsFit
<1>2. IsFiniteSet({g[a] : a \in Asks})
  <2> HIDE DEF g
  <2> QED BY FiniteImage, HeadquartersAssumption
<1>3. IsFiniteSet({h[s] : s \in RowsOfJobs})
  <2> HIDE DEF h
  <2> QED BY FiniteImage DEF JobsFit
<1>4. TakenIds \subseteq {f[s] : s \in slots} \union {g[a] : a \in Asks} \union {h[s] : s \in RowsOfJobs}
  <2>1. {Id(s) : s \in slots} = {f[s] : s \in slots} /\ {ask[a].slot : a \in Asks} = {g[a] : a \in Asks}
    OBVIOUS
  <2>2. ASSUME NEW i \in UNION {{Id(s) : s \in {t \in job[j].rows : t.type \notin FriendlyTypes(j)}} : j \in Jobs}
        PROVE  i \in {h[s] : s \in RowsOfJobs}
    <3>1. PICK j \in Jobs : i \in {Id(s) : s \in {t \in job[j].rows : t.type \notin FriendlyTypes(j)}}
      OBVIOUS
    <3>2. PICK s \in job[j].rows : i = Id(s)
      BY <3>1
    <3>3. s \in RowsOfJobs
      BY <3>2 DEF RowsOfJobs
    <3> QED BY <3>2, <3>3
  <2> QED BY <2>1, <2>2 DEF TakenIds
<1> HIDE DEF f, g, h
<1> QED BY <1>1, <1>2, <1>3, <1>4, FS_Union, FS_Subset

\* There is always a copy that is not taken.
LEMMA NewCopyIsNew ==
  ASSUME SlotsFit, JobsFit, NEW p, NEW d
  PROVE  /\ NewCopy(p, d) \in Nat
         /\ [side |-> p, callsign |-> d.callsign, type |-> d.type, copy |-> NewCopy(p, d)] \notin TakenIds
<1> DEFINE n == Cardinality(TakenIds)
           i(k) == [side |-> p, callsign |-> d.callsign, type |-> d.type, copy |-> k]
<1>1. IsFiniteSet(TakenIds) /\ n \in Nat
  BY TakenIdsFinite, FS_CardinalityType
<1>2. \E k \in 0 .. n : i(k) \notin TakenIds
  <2> SUFFICES ASSUME \A k \in 0 .. n : i(k) \in TakenIds PROVE FALSE
    OBVIOUS
  <2> DEFINE f == [k \in 0 .. n |-> i(k)]
  <2>1. f \in [0 .. n -> TakenIds]
    OBVIOUS
  <2>2. IsFiniteSet(0 .. n) /\ Cardinality(0 .. n) = n + 1
    BY <1>1, FS_Interval
  <2>3. \A x, y \in 0 .. n : f[x] = f[y] => x = y
    <3>1. \A x \in 0 .. n : f[x].copy = x
      OBVIOUS
    <3> HIDE DEF f
    <3> QED BY <3>1
  <2> HIDE DEF f
  <2>4. Cardinality(TakenIds) < Cardinality(0 .. n)
    BY <1>1, <2>2
  <2>5. \E x, y \in 0 .. n : x # y /\ f[x] = f[y]
    BY <1>1, <2>1, <2>2, <2>4, FS_PigeonHole
  <2> QED BY <2>3, <2>5
<1>3. NewCopy(p, d) \in 0 .. n /\ i(NewCopy(p, d)) \notin TakenIds
  BY <1>2 DEF NewCopy
<1> QED BY <1>1, <1>3

\* Slots made of rows of one key each: one for each row, with ids of their own.
MadeOf(p, rows, new) ==
  /\ IsFiniteSet(new)
  /\ \A s \in new :
       /\ DOMAIN s = {"side", "callsign", "type", "copy", "count", "squads", "wanted"}
       /\ s.side = p /\ s.copy \in Nat /\ s.squads = {} /\ s.wanted = {} /\ Id(s) \notin TakenIds
       /\ \E d \in rows : Key(d) = Key(s)
  /\ \A d \in rows : \E s \in new : Key(s) = Key(d)
  /\ \A s, t \in new : Key(s) = Key(t) => s = t

LEMMA NewSlotsMade ==
  ASSUME SlotsFit, JobsFit, NEW p, NEW rows, IsFiniteSet(rows),
         \A d, e \in rows : Key(d) = Key(e) => d = e
  PROVE  MadeOf(p, rows, NewSlots(p, rows))
<1> DEFINE slot(d) == [side |-> p, callsign |-> d.callsign, type |-> d.type,
                       copy |-> NewCopy(p, d), count |-> d.count, squads |-> {}, wanted |-> {}]
           f == [d \in rows |-> slot(d)]
<1>1. NewSlots(p, rows) = {slot(d) : d \in rows}
  BY DEF NewSlots
<1>2. IsFiniteSet(NewSlots(p, rows))
  <2>1. {slot(d) : d \in rows} = {f[d] : d \in rows}
    OBVIOUS
  <2> HIDE DEF f
  <2>2. IsFiniteSet({f[d] : d \in rows})
    BY FiniteImage
  <2> QED BY <1>1, <2>1, <2>2, Zenon
<1>3. ASSUME NEW d \in rows
      PROVE  /\ DOMAIN slot(d) = {"side", "callsign", "type", "copy", "count", "squads", "wanted"}
             /\ slot(d).side = p /\ slot(d).copy \in Nat
             /\ slot(d).squads = {} /\ slot(d).wanted = {}
             /\ Id(slot(d)) \notin TakenIds /\ Key(slot(d)) = Key(d)
  <2>1. Id(slot(d)) = [side |-> p, callsign |-> d.callsign, type |-> d.type, copy |-> NewCopy(p, d)]
    BY DEF Id
  <2>2. NewCopy(p, d) \in Nat /\ Id(slot(d)) \notin TakenIds
    BY <2>1, NewCopyIsNew
  <2> QED BY <2>2 DEF Key
<1> HIDE DEF slot
<1>4. \A s \in NewSlots(p, rows) : \E d \in rows : s = slot(d)
  BY <1>1
<1>5. \A d \in rows : slot(d) \in NewSlots(p, rows)
  BY <1>1
<1> QED BY <1>2, <1>3, <1>4, <1>5 DEF MadeOf

-----------------------------------------------------------------------------
(* What the writes of a request do to it. *)

Others(j) == job' = [k \in Jobs |-> job'[k]] /\ \A k \in Jobs : k # j => job'[k] = job[k]

\* All but the step and what is left to do.
Keeps(r, q) ==
  /\ DOMAIN r = JobFields
  /\ r.route = q.route /\ r.edit = q.edit /\ r.version = q.version /\ r.game = q.game
  /\ r.content = q.content /\ r.counts = q.counts /\ r.friendly = q.friendly
  /\ r.previous = q.previous /\ r.hq = q.hq /\ r.rows = q.rows

LEMMA Continued ==
  ASSUME JobsFit, NEW j \in Jobs, NEW step, Continue(j, step)
  PROVE  /\ Others(j) /\ Keeps(job'[j], job[j])
         /\ job'[j].step = step /\ job'[j].todo = job[j].todo
<1>1. DOMAIN job[j] = JobFields /\ job = [k \in Jobs |-> job[k]]
  BY DEF JobsFit, JobFitsIn
<1>2. job' = [job EXCEPT ![j].step = step]
  BY DEF Continue
<1>3. Others(j)
  BY <1>1, <1>2 DEF Others
<1>4. job'[j] = [job[j] EXCEPT !.step = step]
  BY <1>1, <1>2
<1> QED BY <1>1, <1>3, <1>4 DEF Keeps, JobFields

LEMMA ContinuedFor ==
  ASSUME JobsFit, NEW j \in Jobs, NEW step, NEW todo, ContinueFor(j, step, todo)
  PROVE  /\ Others(j) /\ Keeps(job'[j], job[j])
         /\ job'[j].step = step /\ job'[j].todo = todo
<1>1. DOMAIN job[j] = JobFields /\ job = [k \in Jobs |-> job[k]]
  BY DEF JobsFit, JobFitsIn
<1>2. job' = [job EXCEPT ![j].step = step, ![j].todo = todo]
  BY DEF ContinueFor
<1>3. Others(j)
  BY <1>1, <1>2 DEF Others
<1>4. job'[j] = [job[j] EXCEPT !.step = step, !.todo = todo]
  BY <1>1, <1>2
<1> QED BY <1>1, <1>3, <1>4 DEF Keeps, JobFields

LEMMA Ended ==
  ASSUME JobsFit, NEW j \in Jobs, EndJob(j) PROVE Others(j) /\ job'[j] = IdleJob
<1>1. job = [k \in Jobs |-> job[k]] /\ job' = [job EXCEPT ![j] = IdleJob]
  BY DEF JobsFit, EndJob
<1> QED BY <1>1 DEF Others

LEMMA Started ==
  ASSUME JobsFit, NEW j \in Jobs, NEW call, StartJob(j, call)
  PROVE  Others(j) /\ job'[j] = call /\ job[j] = IdleJob
<1>1. job = [k \in Jobs |-> job[k]] /\ job' = [job EXCEPT ![j] = call] /\ job[j] = IdleJob
  BY DEF JobsFit, StartJob
<1> QED BY <1>1 DEF Others

LEMMA Loads ==
  ASSUME JobsFit, NEW j \in Jobs, LoadGame(j)
  PROVE  LET r == job'[j]  q == job[j] IN
         /\ Others(j) /\ DOMAIN r = JobFields
         /\ r.step = "ensure" /\ r.game = game /\ r.content = version[game.version]
         /\ r.route = q.route /\ r.edit = q.edit /\ r.version = q.version /\ r.counts = q.counts
         /\ r.friendly = q.friendly /\ r.previous = q.previous /\ r.hq = q.hq /\ r.rows = q.rows
         /\ r.todo = q.todo
<1>1. DOMAIN job[j] = JobFields /\ job = [k \in Jobs |-> job[k]]
  BY DEF JobsFit, JobFitsIn
<1>2. job' = [job EXCEPT ![j].step = "ensure", ![j].game = game,
                         ![j].content = version[game.version]]
  BY DEF LoadGame
<1>3. Others(j)
  BY <1>1, <1>2 DEF Others
<1>4. job'[j] = [job[j] EXCEPT !.step = "ensure", !.game = game, !.content = version[game.version]]
  BY <1>1, <1>2
<1> QED BY <1>1, <1>3, <1>4 DEF JobFields

LEMMA ReadsHq ==
  ASSUME JobsFit, NEW j \in Jobs, ReadHqSquads(j)
  PROVE  /\ Others(j)
         /\ \/ job'[j] = IdleJob
            \/ LET r == job'[j]  q == job[j] IN
               /\ DOMAIN r = JobFields /\ r.step = "setHq" /\ r.game = game /\ r.todo \subseteq PlanSides
               /\ r.route = q.route /\ r.edit = q.edit /\ r.version = q.version
               /\ r.content = q.content /\ r.counts = q.counts
               /\ r.friendly = q.friendly /\ r.previous = q.previous /\ r.hq = q.hq /\ r.rows = q.rows
<1> DEFINE todo == {p \in PlanSides : plan[p].exists /\ plan[p].hq # HqSquadOf(game, p)}
<1>1. DOMAIN job[j] = JobFields /\ job = [k \in Jobs |-> job[k]]
  BY DEF JobsFit, JobFitsIn
<1>2. CASE EndJob(j)
  BY <1>2, Ended
<1>3. CASE job' = [job EXCEPT ![j].step = "setHq", ![j].game = game, ![j].todo = todo]
  <2>1. Others(j)
    BY <1>1, <1>3 DEF Others
  <2>2. job'[j] = [job[j] EXCEPT !.step = "setHq", !.game = game, !.todo = todo]
    BY <1>1, <1>3
  <2>3. todo \subseteq PlanSides
    OBVIOUS
  <2> HIDE DEF todo
  <2> QED BY <1>1, <2>1, <2>2, <2>3 DEF JobFields
<1> QED BY <1>2, <1>3 DEF ReadHqSquads

\* A row as syncGamePlanSlotsForGame keeps it.
Bare(s) == [s EXCEPT !.squads = {}, !.wanted = {}]

LEMMA ReadsPlans ==
  ASSUME JobsFit, NEW j \in Jobs, ReadPlans(j)
  PROVE  LET r == job'[j]  q == job[j] IN
         /\ Others(j) /\ DOMAIN r = JobFields
         /\ r.step = IF FriendlyTypes(j) # {} THEN "dropFriendly" ELSE "sync"
         /\ r.rows = {Bare(s) : s \in slots} /\ r.todo = PlanSides
         /\ r.route = q.route /\ r.edit = q.edit /\ r.version = q.version /\ r.game = q.game
         /\ r.content = q.content /\ r.counts = q.counts
         /\ r.friendly = q.friendly /\ r.previous = q.previous /\ r.hq = q.hq
<1> DEFINE step == IF FriendlyTypes(j) # {} THEN "dropFriendly" ELSE "sync"
           rows == {Bare(s) : s \in slots}
<1>1. DOMAIN job[j] = JobFields /\ job = [k \in Jobs |-> job[k]]
  BY DEF JobsFit, JobFitsIn
<1>2. job' = [job EXCEPT ![j].step = step, ![j].rows = rows, ![j].todo = PlanSides]
  BY DEF ReadPlans, Bare
<1> HIDE DEF step, rows
<1>3. Others(j)
  BY <1>1, <1>2 DEF Others
<1>4. job'[j] = [job[j] EXCEPT !.step = step, !.rows = rows, !.todo = PlanSides]
  BY <1>1, <1>2
<1>5. /\ Others(j) /\ DOMAIN job'[j] = JobFields
      /\ job'[j].step = step /\ job'[j].rows = rows /\ job'[j].todo = PlanSides
      /\ job'[j].route = job[j].route /\ job'[j].edit = job[j].edit
      /\ job'[j].version = job[j].version /\ job'[j].game = job[j].game
      /\ job'[j].content = job[j].content /\ job'[j].counts = job[j].counts
      /\ job'[j].friendly = job[j].friendly /\ job'[j].previous = job[j].previous
      /\ job'[j].hq = job[j].hq
  BY <1>1, <1>3, <1>4 DEF JobFields
<1> QED BY <1>5 DEF step, rows

LEMMA IdleJobFits == \A g, rows : JobFitsIn(g, rows, IdleJob)
  BY DEF JobFitsIn, IdleJob, JobFields, Saving, Loaded, Ensured, Syncing

\* The game and the plans stay, whatever else a step does to them.
Stay == (game # None => game' # None) /\ \A p \in PlanSides : plan[p].exists => plan'[p].exists

LEMMA FitsStill ==
  ASSUME Stay, NEW r, JobFitsIn(game, plan, r) PROVE JobFitsIn(game', plan', r)
  BY DEF Stay, JobFitsIn

LEMMA JobWritten ==
  ASSUME JobsFit, Stay, NEW j \in Jobs, Others(j), JobFitsIn(game', plan', job'[j]),
         IsFiniteSet(job'[j].rows)
  PROVE  JobsFit'
<1>1. \A k \in Jobs : JobFitsIn(game, plan, job[k])
  BY DEF JobsFit
<1>2. \A k \in Jobs : JobFitsIn(game', plan', job[k])
  BY <1>1, FitsStill
<1>3. job' = [k \in Jobs |-> job'[k]] /\ \A k \in Jobs : JobFitsIn(game', plan', job'[k])
  BY <1>2 DEF Others
<1>4. RowsOfJobs' \subseteq RowsOfJobs \union job'[j].rows
  BY DEF RowsOfJobs, Others
<1>5. IsFiniteSet(RowsOfJobs')
  BY <1>4, FS_Union, FS_Subset DEF JobsFit
<1> QED BY <1>3, <1>5 DEF JobsFit

LEMMA JobsStill == ASSUME JobsFit, Stay, job' = job PROVE JobsFit'
<1>1. \A k \in Jobs : JobFitsIn(game', plan', job[k])
  BY FitsStill DEF JobsFit
<1> QED BY <1>1 DEF JobsFit, RowsOfJobs

LEMMA RowsAreFinite == ASSUME JobsFit, NEW j \in Jobs PROVE IsFiniteSet(job[j].rows)
<1>1. job[j].rows \in SUBSET RowsOfJobs
  BY DEF RowsOfJobs
<1> QED BY <1>1, FS_Subset DEF JobsFit

\* A request that goes on, or ends.
LEMMA JobGoesOn ==
  ASSUME JobsFit, Stay, NEW j \in Jobs, Others(j),
         (Keeps(job'[j], job[j]) /\ JobFitsIn(game', plan', job'[j])) \/ job'[j] = IdleJob
  PROVE  JobsFit'
<1>1. IsFiniteSet(job'[j].rows)
  BY RowsAreFinite, FS_EmptySet DEF Keeps, IdleJob
<1>2. JobFitsIn(game', plan', job'[j])
  BY IdleJobFits
<1> QED BY <1>1, <1>2, JobWritten

-----------------------------------------------------------------------------
(* What the steps keep of the other rows. *)

LEMMA SlotsStill ==
  ASSUME SlotsFit, Stay, UNCHANGED <<slots, disbanded>> PROVE SlotsFit'
<1>1. \A s \in slots : IsSlotIn(plan', disbanded', s)
  BY DEF SlotsFit, IsSlotIn, Stay, SlotIdType
<1> QED BY <1>1 DEF SlotsFit

\* Slots that stay, each with its id, and new ones.
LEMMA SlotsAdded ==
  ASSUME SlotsFit, Stay, NEW left, NEW new, NEW p \in PlanSides, NEW rows,
         slots' = left \union new, IsFiniteSet(left),
         \A s \in left : IsSlotIn(plan', disbanded', s) /\ \E t \in slots : Id(t) = Id(s),
         \A s, t \in left : Id(s) = Id(t) => s = t,
         MadeOf(p, rows, new), plan'[p].exists,
         \A d \in rows : d.type \in MaybeOf(Types)
  PROVE  SlotsFit'
<1>1. IsFiniteSet(slots')
  BY FS_Union DEF MadeOf
<1>2. ASSUME NEW s \in new PROVE IsSlotIn(plan', disbanded', s)
  <2>1. PICK d \in rows : Key(d) = Key(s)
    BY DEF MadeOf
  <2>2. s.type \in MaybeOf(Types)
    BY <2>1 DEF Key
  <2> QED BY <2>2 DEF MadeOf, IsSlotIn, SlotIdType
<1>3. \A s \in new : Id(s) \notin TakenIds
  BY DEF MadeOf
<1>4. \A s \in left : Id(s) \in TakenIds
  BY DEF TakenIds
<1>5. \A s, t \in new : Id(s) = Id(t) => s = t
  <2>1. \A s, t \in new : Id(s) = Id(t) => Key(s) = Key(t)
    BY DEF Id, Key
  <2> QED BY <2>1 DEF MadeOf
<1>6. \A s, t \in slots' : Id(s) = Id(t) => s = t
  BY <1>3, <1>4, <1>5
<1>7. \A s \in slots' : IsSlotIn(plan', disbanded', s)
  BY <1>2
<1> QED BY <1>1, <1>6, <1>7 DEF SlotsFit

\* Slots that change without their ids, or go.
LEMMA SlotsChanged ==
  ASSUME SlotsFit, Stay, NEW f, NEW left, left \subseteq slots,
         slots' = {f[s] : s \in left},
         \A s \in left : IsSlotIn(plan', disbanded', f[s]) /\ Id(f[s]) = Id(s)
  PROVE  SlotsFit'
<1>1. IsFiniteSet(slots')
  BY FS_Subset, FiniteImage DEF SlotsFit
<1>2. \A s, t \in slots' : Id(s) = Id(t) => s = t
  BY DEF SlotsFit
<1> QED BY <1>1, <1>2 DEF SlotsFit

LEMMA AsksStill ==
  ASSUME Records, AsksFit,
         \/ ask' = ask \/ ask' = AsksAfter
         \/ \E a \in Asks : ask' = [AsksAfter EXCEPT ![a] = NoAsk] \/ ask' = [ask EXCEPT ![a] = NoAsk]
  PROVE  AsksFit'
<1>1. ASSUME NEW a \in Asks PROVE AskFits(AsksAfter[a])
  <2>1. /\ AsksAfter[a].step = ask[a].step /\ AsksAfter[a].squad = ask[a].squad
        /\ AsksAfter[a].user = ask[a].user
    BY DEF AsksAfter, Records, IsAsk
  <2> QED BY <2>1 DEF AsksFit, AskFits
<1>2. AskFits(NoAsk)
  BY DEF AskFits, NoAsk
<1>3. \A a \in Asks : ask'[a] \in {ask[a], AsksAfter[a], NoAsk}
  BY DEF AsksAfter, Records
<1> QED BY <1>1, <1>2, <1>3 DEF AsksFit

LEMMA PlansStill == ASSUME PlansFit, UNCHANGED <<plan, disbanded>> PROVE PlansFit'
  BY DEF PlansFit

\* A plan that there is gets another row.
LEMMA PlanWritten ==
  ASSUME CommandInv, PlansFit, NEW p \in PlanSides, NEW row, plan' = [plan EXCEPT ![p] = row],
         row.exists, row.hq \in MaybeOf(Squads \ disbanded'), row.commander \in MaybeOf(Players),
         disbanded' = disbanded
  PROVE  PlansFit' /\ \A q \in PlanSides : plan[q].exists => plan'[q].exists
<1>1. \A q \in PlanSides : plan'[q] = IF q = p THEN row ELSE plan[q]
  BY DEF CommandInv, Records
<1> QED BY <1>1 DEF PlansFit

\* A squad that HqSquadOf names is one, or none.
LEMMA HqSquadType ==
  ASSUME NEW g \in GameRows, NEW p, disbanded \subseteq Squads, HqSquadOf(g, p) \notin disbanded
  PROVE  HqSquadOf(g, p) \in MaybeOf(Squads \ disbanded)
  BY DEF HqSquadOf, GameRows, MaybeOf

LEMMA NoneDisbanded == ASSUME disbanded \subseteq Squads PROVE None \notin disbanded
  BY HeadquartersAssumption

Still == UNCHANGED <<game, version, plan, slots, disbanded, officer, ask>>

\* Only the request moves.
LEMMA TypesStill ==
  ASSUME TypesInv, Still, JobsFit', lapsed' \subseteq {"slots", "plans", "overlap"} PROVE TypesInv'
<1>1. CommandInv'
  BY NothingWritten DEF TypesInv, Still
<1>2. Stay
  BY DEF Stay, Still
<1>3. SlotsFit' /\ AsksFit' /\ PlansFit'
  BY <1>2, SlotsStill, PlansStill, AsksStill DEF TypesInv, CommandInv, Still
<1>4. GameFits' /\ VersionsFit' /\ OfficersFit' /\ disbanded' \subseteq Squads
  BY DEF TypesInv, Still, GameFits, VersionsFit, OfficersFit
<1> QED BY <1>1, <1>3, <1>4 DEF TypesInv

\* Only the slots change, and the request.
LEMMA TypesWithSlots ==
  ASSUME TypesInv, UNCHANGED <<game, version, plan, disbanded, officer, ask>>,
         SlotsFit', JobsFit', lapsed' \subseteq {"slots", "plans", "overlap"}
  PROVE  TypesInv'
<1>1. CommandInv'
  BY NothingWritten DEF TypesInv
<1>2. AsksFit' /\ PlansFit'
  BY PlansStill, AsksStill DEF TypesInv, CommandInv
<1>3. GameFits' /\ VersionsFit' /\ OfficersFit' /\ disbanded' \subseteq Squads
  BY DEF TypesInv, GameFits, VersionsFit, OfficersFit
<1> QED BY <1>1, <1>2, <1>3 DEF TypesInv

\* Only plans change, the requests of players and that of the organiser.
LEMMA TypesWithPlans ==
  ASSUME TypesInv, UNCHANGED <<game, version, slots, disbanded, officer>>, CommandInv',
         PlansFit', AsksFit', JobsFit', Stay, lapsed' \subseteq {"slots", "plans", "overlap"}
  PROVE  TypesInv'
<1>1. SlotsFit'
  BY SlotsStill DEF TypesInv
<1>2. GameFits' /\ VersionsFit' /\ OfficersFit' /\ disbanded' \subseteq Squads
  BY DEF TypesInv, GameFits, VersionsFit, OfficersFit
<1> QED BY <1>1, <1>2 DEF TypesInv

-----------------------------------------------------------------------------
(* Types: the requests of organisers. *)

LEMMA InitTypes == ASSUME HeadquartersInit PROVE TypesInv
<1>1. CommandInv
  BY CommandInvInit
<1>2. GameFits /\ VersionsFit /\ PlansFit /\ OfficersFit /\ AsksFit
  BY HeadquartersAssumption
     DEF HeadquartersInit, GameFits, VersionsFit, PlansFit, OfficersFit, AsksFit, AskFits, NoPlan, NoAsk, MaybeOf
<1>3. SlotsFit
  BY FS_EmptySet DEF HeadquartersInit, SlotsFit
<1>4. JobsFit
  <2>1. job = [j \in Jobs |-> IdleJob]
    BY DEF HeadquartersInit
  <2>2. RowsOfJobs = {}
    BY <2>1 DEF RowsOfJobs, IdleJob
  <2>3. \A j \in Jobs : job[j] = IdleJob
    BY <2>1
  <2>4. \A j \in Jobs : JobFitsIn(game, plan, job[j])
    BY <2>3, IdleJobFits
  <2> QED BY <2>1, <2>2, <2>4, FS_EmptySet DEF JobsFit
<1> QED BY <1>1, <1>2, <1>3, <1>4 DEF HeadquartersInit, TypesInv

\* A game as an update leaves it.
LEMMA EditedGame ==
  ASSUME GameFits, game # None, NEW e \in Edits, {e.attackHq, e.defenseHq} \intersect disbanded = {}
  PROVE  /\ Edited(e) \in GameRows
         /\ {Edited(e).attackHq, Edited(e).defenseHq} \intersect disbanded = {}
<1>1. e \in [version : MayKeep(Versions), attack : MayKeep(Sides), defense : MayKeep(Sides),
             attackHq : MayKeep(MaybeOf(Squads)), defenseHq : MayKeep(MaybeOf(Squads))]
  BY HeadquartersAssumption
<1>2. game \in GameRows /\ {game.attackHq, game.defenseHq} \intersect disbanded = {}
  BY DEF GameFits
<1>3. Edited(e) = [version |-> IF e.version = Keep THEN game.version ELSE e.version,
                   attack |-> IF e.attack = Keep THEN game.attack ELSE e.attack,
                   defense |-> IF e.defense = Keep THEN game.defense ELSE e.defense,
                   attackHq |-> IF e.attackHq = Keep THEN game.attackHq ELSE e.attackHq,
                   defenseHq |-> IF e.defenseHq = Keep THEN game.defenseHq ELSE e.defenseHq]
  <2>1. DOMAIN e = {"version", "attack", "defense", "attackHq", "defenseHq"}
    BY <1>1
  <2> QED BY <2>1 DEF Edited
<1> QED BY <1>1, <1>2, <1>3 DEF GameRows, MayKeep, MaybeOf

LEMMA StepSets ==
  /\ Saving = {"idle", "saveGame", "saveVersion"}
  /\ Loaded = {"ensure", "fill", "rebuild", "clear", "readPlans", "dropFriendly", "addFriendly", "sync"}
  /\ Ensured = {"rebuild", "clear", "readPlans", "dropFriendly", "addFriendly", "sync"}
  /\ Syncing = {"readPlans", "dropFriendly", "addFriendly", "sync"}
  BY DEF Saving, Loaded, Ensured, Syncing

LEMMA CreateGameTypes ==
  ASSUME TypesInv, NEW j \in Jobs, NEW g \in Games, CreateGame(j, g) PROVE TypesInv'
<1> DEFINE call == [IdleJob EXCEPT !.step = "load", !.route = "create"]
<1>1. /\ game' = g /\ StartJob(j, call)
      /\ UNCHANGED <<version, plan, slots, disbanded, officer, ask>>
  BY DEF CreateGame
<1>2. g \in GameRows /\ g # None
  BY HeadquartersAssumption
<1>3. Stay
  BY <1>1, <1>2 DEF Stay
<1>4. GameFits'
  <2>1. {g.attackHq, g.defenseHq} \intersect disbanded = {}
    BY <1>2, NoneDisbanded DEF CreateGame, ValidHqSquads, GameRows, MaybeOf, TypesInv
  <2> QED BY <1>1, <1>2, <2>1 DEF GameFits
<1>5. JobsFit'
  <2>1. Others(j) /\ job'[j] = call
    BY <1>1, Started DEF TypesInv
  <2>2. JobFitsIn(game', plan', call) /\ call.rows = {}
    BY <1>1, <1>2 DEF IdleJob, JobFitsIn, JobFields, Saving, Loaded, Ensured, Syncing
  <2> HIDE DEF call
  <2> QED BY <1>3, <2>1, <2>2, JobWritten, FS_EmptySet DEF TypesInv
<1>6. CommandInv'
  BY <1>1, NothingWritten DEF TypesInv
<1>7. SlotsFit' /\ AsksFit' /\ PlansFit'
  BY <1>1, <1>3, SlotsStill, PlansStill, AsksStill DEF TypesInv, CommandInv
<1>8. VersionsFit' /\ OfficersFit' /\ disbanded' \subseteq Squads
  BY <1>1 DEF TypesInv, VersionsFit, OfficersFit
<1>9. lapsed' \subseteq {"slots", "plans", "overlap"}
  BY <1>1 DEF StartJob, TypesInv
<1> QED BY <1>4, <1>5, <1>6, <1>7, <1>8, <1>9 DEF TypesInv

LEMMA ChecksTypes ==
  ASSUME TypesInv, NEW j \in Jobs,
         \/ \E e \in Edits : UpdateGameCheck(j, e)
         \/ \E v \in Versions, c \in Contents, file \in BOOLEAN : UpdateVersionCheck(j, v, c, file)
  PROVE  TypesInv'
<1>1. ASSUME NEW call, StartJob(j, call), JobFitsIn(game, plan, call), call.rows = {}, Still
      PROVE  TypesInv'
  <2>1. Stay /\ Others(j) /\ job'[j] = call
    BY <1>1, Started DEF TypesInv, Stay, Still
  <2>2. JobFitsIn(game', plan', call)
    BY <1>1 DEF Still
  <2>3. JobsFit'
    BY <1>1, <2>1, <2>2, JobWritten, FS_EmptySet DEF TypesInv
  <2>4. lapsed' \subseteq {"slots", "plans", "overlap"}
    BY <1>1 DEF StartJob, TypesInv
  <2> QED BY <1>1, <2>3, <2>4, TypesStill
<1>2. ASSUME NEW e \in Edits, UpdateGameCheck(j, e) PROVE TypesInv'
  <2>1. PICK call : StartJob(j, call) /\ JobFitsIn(game, plan, call) /\ call.rows = {}
    <3>1. ASSUME NEW route \in {"none", "hq", "sync", "reset"},
                 NEW hq, NEW previous, NEW friendly,
                 StartJob(j, [IdleJob EXCEPT !.step = "saveGame", !.edit = e, !.hq = hq,
                   !.route = route, !.counts = TRUE, !.previous = previous, !.friendly = friendly])
          PROVE  \E call : StartJob(j, call) /\ JobFitsIn(game, plan, call) /\ call.rows = {}
      <4> DEFINE call == [IdleJob EXCEPT !.step = "saveGame", !.edit = e, !.hq = hq,
                   !.route = route, !.counts = TRUE, !.previous = previous, !.friendly = friendly]
      <4>1. JobFitsIn(game, plan, call) /\ call.rows = {}
        BY <1>2, StepSets DEF UpdateGameCheck, IdleJob, JobFitsIn, JobFields
      <4> HIDE DEF call
      <4>2. StartJob(j, call)
        BY <3>1 DEF call
      <4> QED BY <4>1, <4>2
    <3> QED BY <1>2, <3>1 DEF UpdateGameCheck
  <2>2. Still
    BY <1>2 DEF UpdateGameCheck, Still
  <2> QED BY <1>1, <2>1, <2>2
<1>3. ASSUME NEW v \in Versions, NEW c \in Contents, NEW file \in BOOLEAN,
             UpdateVersionCheck(j, v, c, file)
      PROVE  TypesInv'
  <2> DEFINE old == version[v]
             slotless == [c EXCEPT !.attackSlots = old.attackSlots, !.defenseSlots = old.defenseSlots,
                            !.friendlySlots = IF c.friendlyType = None THEN {} ELSE old.friendlySlots]
             new == IF file THEN c ELSE slotless
             friendly == old.friendlyTo # new.friendlyTo \/ old.friendlyType # new.friendlyType
             call == [IdleJob EXCEPT
                        !.step = "saveVersion", !.route = "sync", !.version = v, !.content = new,
                        !.counts = file, !.previous = old.friendlyType, !.friendly = friendly]
  <2>1. StartJob(j, call) /\ Still
    BY <1>3 DEF UpdateVersionCheck, Still
  <2>2. ContentOK(c) /\ ContentOK(old)
    BY HeadquartersAssumption DEF TypesInv, VersionsFit
  <2>3. ContentOK(slotless)
    <3>1. /\ DOMAIN slotless = DOMAIN c /\ slotless.attackType = c.attackType
          /\ slotless.defenseType = c.defenseType /\ slotless.friendlyType = c.friendlyType
          /\ slotless.friendlyTo = c.friendlyTo
          /\ slotless.attackSlots = old.attackSlots /\ slotless.defenseSlots = old.defenseSlots
          /\ slotless.friendlySlots \in {{}, old.friendlySlots}
      BY <2>2 DEF ContentOK
    <3> HIDE DEF slotless, old
    <3>2. \A list \in {slotless.attackSlots, slotless.defenseSlots, slotless.friendlySlots} :
            IsFiniteSet(list) /\ \A s, t \in list : s[1] = t[1] => s = t
      <4> DEFINE Fine(list) == IsFiniteSet(list) /\ \A s, t \in list : s[1] = t[1] => s = t
      <4>1. Fine(old.attackSlots) /\ Fine(old.defenseSlots) /\ Fine(old.friendlySlots)
        BY <2>2 DEF ContentOK
      <4>2. Fine({})
        BY FS_EmptySet
      <4> HIDE DEF Fine
      <4>3. Fine(slotless.attackSlots) /\ Fine(slotless.defenseSlots) /\ Fine(slotless.friendlySlots)
        BY <3>1, <4>1, <4>2
      <4> QED BY <4>3 DEF Fine
    <3> QED BY <2>2, <3>1, <3>2 DEF ContentOK
  <2>4. ContentOK(new)
    BY <2>2, <2>3
  <2> HIDE DEF new, friendly, old
  <2>5. JobFitsIn(game, plan, call) /\ call.rows = {}
    BY <2>4, StepSets DEF IdleJob, JobFitsIn, JobFields
  <2> HIDE DEF call
  <2> QED BY <1>1, <2>1, <2>5
<1> QED BY <1>2, <1>3

LEMMA SaveGameTypes ==
  ASSUME TypesInv, NEW j \in Jobs, SaveGame(j) PROVE TypesInv'
<1> DEFINE e == job[j].edit
<1>1. /\ JobsFit /\ JobFitsIn(game, plan, job[j]) /\ job[j].step = "saveGame"
      /\ UNCHANGED <<version, plan, slots, disbanded, officer, ask, lapsed>>
  BY DEF TypesInv, JobsFit, SaveGame
<1>2. /\ e \in Edits /\ game # None /\ job[j].todo \subseteq PlanSides
      /\ job[j].route \in {"none", "hq", "sync", "reset"}
  BY <1>1 DEF JobFitsIn
<1>3. Stay /\ GameFits'
  <2>1. CASE game' = game
    BY <1>1, <2>1 DEF Stay, TypesInv, GameFits
  <2>2. CASE {e.attackHq, e.defenseHq} \intersect disbanded = {} /\ game' = Edited(e)
    <3>1. /\ Edited(e) \in GameRows
          /\ {Edited(e).attackHq, Edited(e).defenseHq} \intersect disbanded = {}
      BY <1>2, <2>2, EditedGame DEF TypesInv
    <3>2. Edited(e) # None
      BY <3>1, HeadquartersAssumption
    <3> QED BY <1>1, <2>2, <3>1, <3>2 DEF Stay, GameFits
  <2> QED BY <2>1, <2>2 DEF SaveGame
<1>4. JobsFit'
  <2>1. CASE EndJob(j)
    BY <1>1, <1>3, <2>1, Ended, JobGoesOn
  <2>2. CASE Continue(j, "readHq")
    <3>1. /\ Others(j) /\ Keeps(job'[j], job[j])
          /\ job'[j].step = "readHq" /\ job'[j].todo = job[j].todo
      BY <1>1, <2>2, Continued
    <3>2. JobFitsIn(game', plan', job'[j])
      BY <1>2, <1>3, <3>1, StepSets DEF JobFitsIn, Keeps, Stay
    <3> QED BY <1>1, <1>3, <3>1, <3>2, JobGoesOn
  <2>3. CASE Continue(j, "load") /\ job[j].route \in {"sync", "reset"}
    <3>1. /\ Others(j) /\ Keeps(job'[j], job[j])
          /\ job'[j].step = "load" /\ job'[j].todo = job[j].todo
      BY <1>1, <2>3, Continued
    <3>2. JobFitsIn(game', plan', job'[j])
      BY <1>2, <1>3, <2>3, <3>1, StepSets DEF JobFitsIn, Keeps, Stay
    <3> QED BY <1>1, <1>3, <3>1, <3>2, JobGoesOn
  <2>4. \/ EndJob(j) \/ Continue(j, "readHq")
        \/ (Continue(j, "load") /\ job[j].route \in {"sync", "reset"})
    BY <1>2 DEF SaveGame
  <2> QED BY <2>1, <2>2, <2>3, <2>4
<1>5. CommandInv' /\ SlotsFit' /\ AsksFit' /\ PlansFit'
  BY <1>1, <1>3, NothingWritten, SlotsStill, PlansStill, AsksStill DEF TypesInv, CommandInv
<1>6. VersionsFit' /\ OfficersFit' /\ disbanded' \subseteq Squads /\ lapsed' \subseteq {"slots", "plans", "overlap"}
  BY <1>1 DEF TypesInv, VersionsFit, OfficersFit
<1> QED BY <1>3, <1>4, <1>5, <1>6 DEF TypesInv

LEMMA LeftUndoneType == \A j \in Jobs : LeftUndone(j) \subseteq {"slots", "plans"}
  BY DEF LeftUndone

LEMMA SaveVersionTypes ==
  ASSUME TypesInv, NEW j \in Jobs, SaveVersion(j) PROVE TypesInv'
<1>1. /\ JobsFit /\ JobFitsIn(game, plan, job[j]) /\ job[j].step = "saveVersion"
      /\ version' = [version EXCEPT ![job[j].version] = job[j].content]
      /\ UNCHANGED <<game, plan, slots, disbanded, officer, ask>>
  BY DEF TypesInv, JobsFit, SaveVersion
<1>2. /\ job[j].version \in Versions /\ ContentOK(job[j].content) /\ job[j].route = "sync"
      /\ job[j].todo \subseteq PlanSides
  BY <1>1, StepSets DEF JobFitsIn
<1>3. Stay
  BY <1>1 DEF Stay
<1>4. VersionsFit'
  <2>1. \A v \in Versions : version'[v] \in {version[v], job[j].content}
    BY <1>1 DEF TypesInv, VersionsFit
  <2>2. version' = [v \in Versions |-> version'[v]]
    BY <1>1 DEF TypesInv, VersionsFit
  <2>3. \A v \in Versions : ContentOK(version'[v])
    BY <1>2, <2>1 DEF TypesInv, VersionsFit
  <2> QED BY <2>2, <2>3 DEF VersionsFit
<1>5. JobsFit'
  <2>1. CASE EndJob(j)
    BY <1>1, <1>3, <2>1, Ended, JobGoesOn
  <2>2. CASE Continue(j, "load") /\ game # None
    <3>1. /\ Others(j) /\ Keeps(job'[j], job[j])
          /\ job'[j].step = "load" /\ job'[j].todo = job[j].todo
      BY <1>1, <2>2, Continued
    <3>2. JobFitsIn(game', plan', job'[j])
      BY <1>1, <1>2, <2>2, <3>1, StepSets DEF JobFitsIn, Keeps
    <3> QED BY <1>1, <1>3, <3>1, <3>2, JobGoesOn
  <2> QED BY <2>1, <2>2 DEF SaveVersion, Uses
<1>6. CommandInv' /\ SlotsFit' /\ AsksFit' /\ PlansFit'
  BY <1>1, <1>3, NothingWritten, SlotsStill, PlansStill, AsksStill DEF TypesInv, CommandInv
<1>7. GameFits' /\ OfficersFit' /\ disbanded' \subseteq Squads
  BY <1>1 DEF TypesInv, GameFits, OfficersFit
<1>8. lapsed' \subseteq {"slots", "plans", "overlap"}
  BY DEF TypesInv, SaveVersion
<1> QED BY <1>4, <1>5, <1>6, <1>7, <1>8 DEF TypesInv

LEMMA ReadsTypes ==
  ASSUME TypesInv, NEW j \in Jobs,
         LoadGame(j) \/ PlansEnsured(j) \/ ReadHqSquads(j) \/ ReadPlans(j)
  PROVE  TypesInv'
<1>1. JobsFit /\ JobFitsIn(game, plan, job[j]) /\ Still /\ UNCHANGED lapsed
  BY DEF TypesInv, JobsFit, LoadGame, PlansEnsured, ReadHqSquads, ReadPlans, Still
<1>2. Stay
  BY <1>1 DEF Stay, Still
<1>3. CASE LoadGame(j)
  <2>1. job[j].step = "load" /\ game # None /\ game \in GameRows /\ ContentOK(version[game.version])
    BY <1>1, <1>3, StepSets DEF LoadGame, JobFitsIn, TypesInv, GameFits, VersionsFit, GameRows
  <2>2. /\ Others(j) /\ DOMAIN job'[j] = JobFields
        /\ job'[j].step = "ensure" /\ job'[j].game = game /\ job'[j].content = version[game.version]
        /\ job'[j].route = job[j].route /\ job'[j].rows = job[j].rows /\ job'[j].todo = job[j].todo
    BY <1>1, <1>3, Loads
  <2>3. JobFitsIn(game', plan', job'[j])
    BY <1>1, <2>1, <2>2, StepSets DEF JobFitsIn, Still
  <2>4. JobsFit'
    BY <1>1, <1>2, <2>2, <2>3, JobWritten, RowsAreFinite
  <2> QED BY <1>1, <2>4, TypesStill DEF TypesInv
<1>4. CASE PlansEnsured(j)
  <2>1. /\ job[j].step = "ensure" /\ game # None /\ job[j].game \in GameRows /\ ContentOK(job[j].content)
        /\ job[j].route \in {"create", "reset", "sync"} /\ \A p \in PlanSides : plan[p].exists
        /\ job[j].todo \subseteq PlanSides
    BY <1>1, <1>4, StepSets DEF PlansEnsured, JobFitsIn
  <2>2. \/ EndJob(j) \/ ContinueFor(j, "rebuild", PlanSides)
        \/ (Continue(j, "readPlans") /\ job[j].route = "sync")
    BY <1>4, <2>1 DEF PlansEnsured
  <2>3. CASE EndJob(j)
    <3>1. JobsFit'
      BY <1>1, <1>2, <2>3, Ended, JobGoesOn
    <3> QED BY <1>1, <3>1, TypesStill DEF TypesInv
  <2>4. CASE ContinueFor(j, "rebuild", PlanSides)
    <3>1. /\ Others(j) /\ Keeps(job'[j], job[j])
          /\ job'[j].step = "rebuild" /\ job'[j].todo = PlanSides
      BY <1>1, <2>4, ContinuedFor
    <3>2. JobFitsIn(game', plan', job'[j])
      BY <1>1, <2>1, <3>1, StepSets DEF JobFitsIn, Keeps, Still
    <3>3. JobsFit'
      BY <1>1, <1>2, <3>1, <3>2, JobGoesOn
    <3> QED BY <1>1, <3>3, TypesStill DEF TypesInv
  <2>5. CASE Continue(j, "readPlans") /\ job[j].route = "sync"
    <3>1. /\ Others(j) /\ Keeps(job'[j], job[j])
          /\ job'[j].step = "readPlans" /\ job'[j].todo = job[j].todo
      BY <1>1, <2>5, Continued
    <3>2. JobFitsIn(game', plan', job'[j])
      BY <1>1, <2>1, <2>5, <3>1, StepSets DEF JobFitsIn, Keeps, Still
    <3>3. JobsFit'
      BY <1>1, <1>2, <3>1, <3>2, JobGoesOn
    <3> QED BY <1>1, <3>3, TypesStill DEF TypesInv
  <2> QED BY <2>2, <2>3, <2>4, <2>5
<1>5. CASE ReadHqSquads(j)
  <2>1. game # None /\ game \in GameRows
    BY <1>1, <1>5, StepSets DEF ReadHqSquads, JobFitsIn, TypesInv, GameFits
  <2>2. /\ Others(j)
        /\ \/ job'[j] = IdleJob
           \/ /\ DOMAIN job'[j] = JobFields /\ job'[j].step = "setHq" /\ job'[j].game = game
              /\ job'[j].todo \subseteq PlanSides /\ job'[j].rows = job[j].rows
    BY <1>1, <1>5, ReadsHq
  <2>3. JobFitsIn(game', plan', job'[j])
    BY <1>1, <2>1, <2>2, IdleJobFits, StepSets DEF JobFitsIn, Still
  <2>4. IsFiniteSet(job'[j].rows)
    BY <1>1, <2>2, RowsAreFinite, FS_EmptySet DEF IdleJob
  <2>5. JobsFit'
    BY <1>1, <1>2, <2>2, <2>3, <2>4, JobWritten
  <2> QED BY <1>1, <2>5, TypesStill DEF TypesInv
<1>6. CASE ReadPlans(j)
  <2>1. /\ game # None /\ job[j].game \in GameRows /\ ContentOK(job[j].content)
        /\ job[j].route = "sync" /\ \A p \in PlanSides : plan[p].exists
    BY <1>1, <1>6, StepSets DEF ReadPlans, JobFitsIn
  <2>2. /\ Others(j) /\ DOMAIN job'[j] = JobFields /\ job'[j].step \in {"dropFriendly", "sync"}
        /\ job'[j].rows = {Bare(s) : s \in slots} /\ job'[j].todo = PlanSides
        /\ job'[j].route = job[j].route /\ job'[j].game = job[j].game
        /\ job'[j].content = job[j].content
    BY <1>1, <1>6, ReadsPlans
  <2>3. JobFitsIn(game', plan', job'[j])
    BY <1>1, <2>1, <2>2, StepSets DEF JobFitsIn, Still
  <2>4. IsFiniteSet(job'[j].rows)
    <3> DEFINE f == [s \in slots |-> Bare(s)]
    <3>1. {Bare(s) : s \in slots} = {f[s] : s \in slots}
      OBVIOUS
    <3> HIDE DEF f
    <3>2. IsFiniteSet({f[s] : s \in slots})
      BY FiniteImage DEF TypesInv, SlotsFit
    <3> QED BY <2>2, <3>1, <3>2
  <2>5. JobsFit'
    BY <1>1, <1>2, <2>2, <2>3, <2>4, JobWritten
  <2> QED BY <1>1, <2>5, TypesStill DEF TypesInv
<1> QED BY <1>3, <1>4, <1>5, <1>6

LEMMA CreatePlanTypes ==
  ASSUME TypesInv, NEW j \in Jobs, NEW p \in PlanSides, CreatePlan(j, p) PROVE TypesInv'
<1> DEFINE hq == HqSquadOf(job[j].game, p)
           row == [NoPlan EXCEPT !.exists = TRUE, !.hq = hq]
<1>1. /\ JobsFit /\ JobFitsIn(game, plan, job[j]) /\ job[j].step = "ensure"
      /\ UNCHANGED <<game, version, slots, disbanded, officer, ask>>
      /\ lapsed' \subseteq lapsed \union LeftUndone(j)
  BY DEF TypesInv, JobsFit, CreatePlan
<1>2. /\ game # None /\ job[j].game \in GameRows /\ ContentOK(job[j].content)
      /\ job[j].route \in {"create", "reset", "sync"} /\ job[j].todo \subseteq PlanSides
  BY <1>1, StepSets DEF JobFitsIn
<1>3. CommandInv'
  BY CreatePlanKeeps DEF TypesInv
<1>4. lapsed' \subseteq {"slots", "plans", "overlap"}
  BY <1>1, LeftUndoneType DEF TypesInv
<1>5. AsksFit'
  BY <1>1, AsksStill DEF TypesInv, CommandInv
<1>6. CASE hq \in disbanded
  <2>1. UNCHANGED plan /\ EndJob(j)
    BY <1>6 DEF CreatePlan
  <2>2. Stay
    BY <1>1, <2>1 DEF Stay
  <2>3. JobsFit'
    BY <1>1, <2>1, <2>2, Ended, JobGoesOn
  <2> QED BY <1>1, <1>4, <2>1, <2>3, TypesStill DEF Still
<1>7. CASE hq \notin disbanded
  <2>1. plan' = [plan EXCEPT ![p] = row] /\ ContinueFor(j, "fill", {p})
    BY <1>7 DEF CreatePlan
  <2>2. row.exists /\ row.hq = hq /\ row.commander = None
    BY BareRow
  <2>3. hq \in MaybeOf(Squads \ disbanded)
    BY <1>2, <1>7, HqSquadType DEF TypesInv
  <2> HIDE DEF row, hq
  <2>4. PlansFit' /\ \A q \in PlanSides : plan[q].exists => plan'[q].exists
    BY <1>1, <2>1, <2>2, <2>3, PlanWritten DEF TypesInv, MaybeOf
  <2>5. Stay
    BY <1>1, <2>4 DEF Stay
  <2>6. plan'[p].exists
    BY <2>1, <2>2 DEF TypesInv, CommandInv, Records
  <2>7. /\ Others(j) /\ Keeps(job'[j], job[j])
        /\ job'[j].step = "fill" /\ job'[j].todo = {p}
    BY <1>1, <2>1, ContinuedFor
  <2>8. JobFitsIn(game', plan', job'[j])
    BY <1>1, <1>2, <2>6, <2>7, StepSets DEF JobFitsIn, Keeps
  <2>9. JobsFit'
    BY <1>1, <2>5, <2>7, <2>8, JobGoesOn
  <2> QED BY <1>1, <1>3, <1>4, <1>5, <2>4, <2>5, <2>9, TypesWithPlans
<1> QED BY <1>6, <1>7

LEMMA ClearPlansTypes ==
  ASSUME TypesInv, NEW j \in Jobs, ClearPlans(j) PROVE TypesInv'
<1>1. /\ JobsFit /\ JobFitsIn(game, plan, job[j]) /\ job[j].step = "clear"
      /\ UNCHANGED <<game, version, slots, disbanded, officer>> /\ lapsed' \subseteq lapsed
      /\ plan' = [p \in PlanSides |-> [NoPlan EXCEPT !.exists = TRUE]]
      /\ ask' = AsksAfter /\ Continue(j, "readHq")
  BY DEF TypesInv, JobsFit, ClearPlans
<1>2. game # None /\ job[j].todo \subseteq PlanSides
  BY <1>1, StepSets DEF JobFitsIn
<1>3. \A p \in PlanSides : plan'[p].exists /\ plan'[p].hq = None /\ plan'[p].commander = None
  BY <1>1, BareRow
<1>4. PlansFit' /\ Stay
  BY <1>1, <1>3 DEF PlansFit, Stay, MaybeOf
<1>5. CommandInv' /\ AsksFit'
  BY <1>1, ClearPlansKeeps, AsksStill DEF TypesInv, CommandInv
<1>6. /\ Others(j) /\ Keeps(job'[j], job[j])
      /\ job'[j].step = "readHq" /\ job'[j].todo = job[j].todo
  BY <1>1, Continued
<1>7. JobFitsIn(game', plan', job'[j])
  BY <1>1, <1>2, <1>6, StepSets DEF JobFitsIn, Keeps
<1>8. JobsFit'
  BY <1>1, <1>4, <1>6, <1>7, JobGoesOn
<1> QED BY <1>1, <1>4, <1>5, <1>8, TypesWithPlans DEF TypesInv

LEMMA SetHqSquadTypes ==
  ASSUME TypesInv, NEW j \in Jobs, NEW p \in PlanSides, SetHqSquad(j, p) PROVE TypesInv'
<1> DEFINE hq == HqSquadOf(job[j].game, p)
           row == [NoPlan EXCEPT !.exists = TRUE, !.hq = hq]
<1>1. /\ JobsFit /\ JobFitsIn(game, plan, job[j]) /\ job[j].step = "setHq"
      /\ UNCHANGED <<game, version, slots, disbanded, officer, lapsed>>
  BY DEF TypesInv, JobsFit, SetHqSquad
<1>2. game # None /\ job[j].game \in GameRows /\ job[j].todo \subseteq PlanSides
  BY <1>1, StepSets DEF JobFitsIn
<1>3. CommandInv'
  BY SetHqSquadKeeps DEF TypesInv
<1>4. CASE hq \in disbanded
  <2>1. UNCHANGED <<plan, ask>> /\ EndJob(j)
    BY <1>4 DEF SetHqSquad
  <2>2. Stay
    BY <1>1, <2>1 DEF Stay
  <2>3. JobsFit'
    BY <1>1, <2>1, <2>2, Ended, JobGoesOn
  <2> QED BY <1>1, <2>1, <2>3, TypesStill DEF Still, TypesInv
<1>5. CASE hq \notin disbanded
  <2>1. /\ plan' = [plan EXCEPT ![p] = row] /\ ask' = AsksAfter
        /\ EndJob(j) \/ ContinueFor(j, "setHq", job[j].todo \ {p})
    BY <1>5 DEF SetHqSquad
  <2>2. row.exists /\ row.hq = hq /\ row.commander = None
    BY BareRow
  <2>3. hq \in MaybeOf(Squads \ disbanded)
    BY <1>2, <1>5, HqSquadType DEF TypesInv
  <2> HIDE DEF row, hq
  <2>4. PlansFit' /\ \A q \in PlanSides : plan[q].exists => plan'[q].exists
    BY <1>1, <2>1, <2>2, <2>3, PlanWritten DEF TypesInv, MaybeOf
  <2>5. Stay /\ AsksFit'
    BY <1>1, <2>1, <2>4, AsksStill DEF Stay, TypesInv, CommandInv
  <2>6. CASE EndJob(j)
    <3>1. JobsFit'
      BY <1>1, <2>5, <2>6, Ended, JobGoesOn
    <3> QED BY <1>1, <1>3, <2>4, <2>5, <3>1, TypesWithPlans DEF TypesInv
  <2>7. CASE ContinueFor(j, "setHq", job[j].todo \ {p})
    <3>1. /\ Others(j) /\ Keeps(job'[j], job[j])
          /\ job'[j].step = "setHq" /\ job'[j].todo = job[j].todo \ {p}
      BY <1>1, <2>7, ContinuedFor
    <3>2. JobFitsIn(game', plan', job'[j])
      BY <1>1, <1>2, <3>1, StepSets DEF JobFitsIn, Keeps
    <3>3. JobsFit'
      BY <1>1, <2>5, <3>1, <3>2, JobGoesOn
    <3> QED BY <1>1, <1>3, <2>4, <2>5, <3>3, TypesWithPlans DEF TypesInv
  <2> QED BY <2>1, <2>6, <2>7
<1> QED BY <1>4, <1>5

LEMMA SomeRowsMade ==
  ASSUME SlotsFit, JobsFit, NEW g \in GameRows, NEW c, ContentOK(c), NEW p, NEW rows,
         rows \subseteq SlotRows(g, c, p)
  PROVE  MadeOf(p, rows, NewSlots(p, rows)) /\ \A d \in rows : d.type \in MaybeOf(Types)
<1>1. IsFiniteSet(rows)
  BY SlotRowsFinite, FS_Subset
<1>2. \A d, e \in rows : Key(d) = Key(e) => d = e
  BY SlotRowKeys
<1>3. \A d \in rows : d.type \in MaybeOf(Types)
  BY SlotRowTypes
<1> QED BY <1>1, <1>2, <1>3, NewSlotsMade

\* Types, for a step of syncGamePlanSlotsForGame or the like on one plan.
LEMMA SlotsWritten ==
  ASSUME TypesInv, NEW j \in Jobs, NEW p \in PlanSides, NEW left, NEW rows,
         UNCHANGED <<game, version, plan, disbanded, officer, ask>>,
         job[j].step \in Loaded, plan[p].exists,
         rows \subseteq SlotRows(job[j].game, job[j].content, p),
         slots' = left \union NewSlots(p, rows), IsFiniteSet(left),
         \A s \in left : IsSlotIn(plan, disbanded, s) /\ \E t \in slots : Id(t) = Id(s),
         \A s, t \in left : Id(s) = Id(t) => s = t
  PROVE  SlotsFit'
<1>1. SlotsFit /\ JobsFit /\ job[j].game \in GameRows /\ ContentOK(job[j].content)
  BY StepSets DEF TypesInv, JobsFit, JobFitsIn
<1>2. MadeOf(p, rows, NewSlots(p, rows)) /\ \A d \in rows : d.type \in MaybeOf(Types)
  BY <1>1, SomeRowsMade
<1>3. Stay /\ plan'[p].exists
  BY DEF Stay
<1>4. \A s \in left : IsSlotIn(plan', disbanded', s) /\ \E t \in slots : Id(t) = Id(s)
  OBVIOUS
<1> HIDE DEF MaybeOf
<1> QED BY <1>1, <1>2, <1>3, <1>4, SlotsAdded

LEMMA FillPlanTypes ==
  ASSUME TypesInv, NEW j \in Jobs, NEW p \in PlanSides, FillPlan(j, p) PROVE TypesInv'
<1>1. /\ JobsFit /\ JobFitsIn(game, plan, job[j]) /\ job[j].step = "fill" /\ p \in job[j].todo
      /\ UNCHANGED <<game, version, plan, disbanded, officer, ask, lapsed>>
      /\ slots' = slots \union NewSlots(p, SlotRows(job[j].game, job[j].content, p))
      /\ ContinueFor(j, "ensure", {})
  BY DEF TypesInv, JobsFit, FillPlan
<1>2. /\ game # None /\ job[j].game \in GameRows /\ ContentOK(job[j].content)
      /\ job[j].route \in {"create", "reset", "sync"} /\ plan[p].exists
  BY <1>1, StepSets DEF JobFitsIn
<1>3. SlotsFit'
  BY <1>1, <1>2, SlotsWritten, StepSets DEF TypesInv, SlotsFit
<1>4. /\ Others(j) /\ Keeps(job'[j], job[j])
      /\ job'[j].step = "ensure" /\ job'[j].todo = {}
  BY <1>1, ContinuedFor
<1>5. JobFitsIn(game', plan', job'[j])
  BY <1>1, <1>2, <1>4, StepSets DEF JobFitsIn, Keeps
<1>6. JobsFit'
  BY <1>1, <1>4, <1>5, JobGoesOn DEF Stay
<1> QED BY <1>1, <1>3, <1>6, TypesWithSlots DEF TypesInv

LEMMA RebuildSlotsTypes ==
  ASSUME TypesInv, NEW j \in Jobs, NEW p \in PlanSides, RebuildSlots(j, p) PROVE TypesInv'
<1> DEFINE left == {s \in slots : s.side # p}
<1>1. /\ JobsFit /\ JobFitsIn(game, plan, job[j]) /\ job[j].step = "rebuild" /\ p \in job[j].todo
      /\ UNCHANGED <<game, version, plan, disbanded, officer, ask, lapsed>>
      /\ slots' = left \union NewSlots(p, SlotRows(job[j].game, job[j].content, p))
      /\ ContinueFor(j, "clear", {}) \/ ContinueFor(j, "rebuild", job[j].todo \ {p})
  BY DEF TypesInv, JobsFit, RebuildSlots
<1>2. /\ game # None /\ job[j].game \in GameRows /\ ContentOK(job[j].content)
      /\ job[j].todo \subseteq PlanSides /\ \A q \in PlanSides : plan[q].exists
  BY <1>1, StepSets DEF JobFitsIn
<1>3. IsFiniteSet(left)
  BY FS_Subset DEF TypesInv, SlotsFit
<1>4. SlotsFit'
  <2>1. \A s \in left : IsSlotIn(plan, disbanded, s) /\ \E t \in slots : Id(t) = Id(s)
    BY DEF TypesInv, SlotsFit
  <2>2. \A s, t \in left : Id(s) = Id(t) => s = t
    BY DEF TypesInv, SlotsFit
  <2> HIDE DEF left
  <2> QED BY <1>1, <1>2, <1>3, <2>1, <2>2, SlotsWritten, StepSets
<1>5. JobsFit'
  <2>1. ASSUME NEW step \in {"clear", "rebuild"}, NEW todo, todo \subseteq PlanSides,
               ContinueFor(j, step, todo)
        PROVE  JobsFit'
    <3>1. Others(j) /\ Keeps(job'[j], job[j]) /\ job'[j].step = step /\ job'[j].todo = todo
      BY <1>1, <2>1, ContinuedFor
    <3>2. JobFitsIn(game', plan', job'[j])
      BY <1>1, <1>2, <2>1, <3>1, StepSets DEF JobFitsIn, Keeps
    <3> QED BY <1>1, <3>1, <3>2, JobGoesOn DEF Stay
  <2> QED BY <1>1, <1>2, <2>1
<1> QED BY <1>1, <1>4, <1>5, TypesWithSlots DEF TypesInv

LEMMA DropFriendlySlotsTypes ==
  ASSUME TypesInv, NEW j \in Jobs, DropFriendlySlots(j) PROVE TypesInv'
<1>1. /\ JobsFit /\ JobFitsIn(game, plan, job[j]) /\ job[j].step = "dropFriendly"
      /\ UNCHANGED <<game, version, plan, disbanded, officer, ask>>
      /\ lapsed' \subseteq lapsed \union {"slots"}
      /\ slots' \subseteq slots
      /\ Continue(j, "addFriendly")
  BY DEF TypesInv, JobsFit, DropFriendlySlots
<1>2. /\ game # None /\ job[j].game \in GameRows /\ ContentOK(job[j].content)
      /\ job[j].route = "sync" /\ job[j].todo \subseteq PlanSides /\ \A q \in PlanSides : plan[q].exists
  BY <1>1, StepSets DEF JobFitsIn
<1>3. SlotsFit'
  BY <1>1, FS_Subset DEF TypesInv, SlotsFit
<1>4. /\ Others(j) /\ Keeps(job'[j], job[j])
      /\ job'[j].step = "addFriendly" /\ job'[j].todo = job[j].todo
  BY <1>1, Continued
<1>5. JobFitsIn(game', plan', job'[j])
  BY <1>1, <1>2, <1>4, StepSets DEF JobFitsIn, Keeps
<1>6. JobsFit'
  BY <1>1, <1>4, <1>5, JobGoesOn DEF Stay
<1>7. lapsed' \subseteq {"slots", "plans", "overlap"}
  BY <1>1 DEF TypesInv
<1> QED BY <1>1, <1>3, <1>6, <1>7, TypesWithSlots

\* A step of syncGamePlanSlotsForGame goes on to another of its steps, or ends.
LEMMA SyncGoesOn ==
  ASSUME TypesInv, NEW j \in Jobs, job[j].step \in {"addFriendly", "sync"},
         UNCHANGED <<game, version, plan, disbanded, officer, ask>>,
         \/ EndJob(j) \/ Continue(j, "readHq")
         \/ \E step \in {"addFriendly", "sync"}, todo \in SUBSET PlanSides : ContinueFor(j, step, todo)
  PROVE  JobsFit'
<1>1. JobsFit /\ JobFitsIn(game, plan, job[j]) /\ Stay
  BY DEF TypesInv, JobsFit, Stay
<1>2. /\ game # None /\ job[j].game \in GameRows /\ ContentOK(job[j].content)
      /\ job[j].route = "sync" /\ job[j].todo \subseteq PlanSides /\ \A q \in PlanSides : plan[q].exists
  BY <1>1, StepSets DEF JobFitsIn
<1>3. CASE EndJob(j)
  BY <1>1, <1>3, Ended, JobGoesOn
<1>4. CASE Continue(j, "readHq")
  <2>1. /\ Others(j) /\ Keeps(job'[j], job[j])
        /\ job'[j].step = "readHq" /\ job'[j].todo = job[j].todo
    BY <1>1, <1>4, Continued
  <2>2. JobFitsIn(game', plan', job'[j])
    BY <1>1, <1>2, <2>1, StepSets DEF JobFitsIn, Keeps
  <2> QED BY <1>1, <2>1, <2>2, JobGoesOn
<1>5. ASSUME NEW step \in {"addFriendly", "sync"}, NEW todo \in SUBSET PlanSides,
             ContinueFor(j, step, todo)
      PROVE  JobsFit'
  <2>1. Others(j) /\ Keeps(job'[j], job[j]) /\ job'[j].step = step /\ job'[j].todo = todo
    BY <1>1, <1>5, ContinuedFor
  <2>2. JobFitsIn(game', plan', job'[j])
    BY <1>1, <1>2, <1>5, <2>1, StepSets DEF JobFitsIn, Keeps
  <2> QED BY <1>1, <2>1, <2>2, JobGoesOn
<1> QED BY <1>3, <1>4, <1>5

LEMMA AddFriendlySlotsTypes ==
  ASSUME TypesInv, NEW j \in Jobs, NEW p \in PlanSides, AddFriendlySlots(j, p) PROVE TypesInv'
<1> DEFINE rows == {d \in SlotRows(job[j].game, job[j].content, p) :
                      d.type # None /\ d.type = job[j].content.friendlyType}
<1>1. /\ JobsFit /\ JobFitsIn(game, plan, job[j]) /\ job[j].step = "addFriendly" /\ p \in job[j].todo
      /\ UNCHANGED <<game, version, plan, disbanded, officer, ask, lapsed>>
      /\ slots' = slots \union NewSlots(p, rows)
      /\ \/ EndJob(j) \/ ContinueFor(j, "addFriendly", job[j].todo \ {p})
         \/ ContinueFor(j, "sync", PlanSides)
  BY DEF TypesInv, JobsFit, AddFriendlySlots
<1>2. job[j].todo \subseteq PlanSides /\ plan[p].exists
  BY <1>1, StepSets DEF JobFitsIn
<1>3. rows \subseteq SlotRows(job[j].game, job[j].content, p)
  OBVIOUS
<1> HIDE DEF rows
<1>4. SlotsFit'
  BY <1>1, <1>2, <1>3, SlotsWritten, StepSets DEF TypesInv, SlotsFit
<1>5. JobsFit'
  BY <1>1, <1>2, SyncGoesOn
<1> QED BY <1>1, <1>4, <1>5, TypesWithSlots DEF TypesInv

-----------------------------------------------------------------------------
(* syncSlotsForPlan: what it compares, and what it writes. *)

OldRows(j, p) == {s \in job[j].rows : s.side = p /\ s.type \notin FriendlyTypes(j)}
NewRows(j, p) ==
  {d \in SlotRows(job[j].game, job[j].content, p) : d.type \notin FriendlyTypes(j)}
KeysOf(rows) == {Key(d) : d \in rows}
CommonKeys(j, p) == KeysOf(OldRows(j, p)) \intersect KeysOf(NewRows(j, p))
Missing(j, p) == {d \in NewRows(j, p) : Key(d) \notin CommonKeys(j, p)}

Paired(j, p, kept) ==
  /\ kept \subseteq {s \in OldRows(j, p) : Key(s) \in CommonKeys(j, p)}
  /\ \A k \in CommonKeys(j, p) : \E s \in kept : Key(s) = k
Left(j, p, kept) == {s \in slots : Id(s) \notin {Id(t) : t \in OldRows(j, p) \ kept}}

\* Slots that keep all but, perhaps, their counts.
Recounted(left, f) ==
  \A s \in left :
    /\ DOMAIN f[s] = DOMAIN s /\ Id(f[s]) = Id(s) /\ f[s].side = s.side /\ f[s].type = s.type
    /\ f[s].copy = s.copy /\ f[s].squads = s.squads /\ f[s].wanted = s.wanted
    /\ Key(f[s]) = Key(s)

SyncWrites(j, p) ==
  \E kept, left, f :
    /\ Paired(j, p, kept) /\ left = Left(j, p, kept) /\ Recounted(left, f)
    /\ slots' = {f[s] : s \in left} \union NewSlots(p, Missing(j, p))

LEMMA Recounting ==
  ASSUME NEW s, NEW n, DOMAIN s = {"side", "callsign", "type", "copy", "count", "squads", "wanted"}
  PROVE  LET t == [s EXCEPT !.count = n] IN
         /\ DOMAIN t = DOMAIN s /\ Id(t) = Id(s) /\ t.side = s.side /\ t.type = s.type
         /\ t.copy = s.copy /\ t.squads = s.squads /\ t.wanted = s.wanted /\ Key(t) = Key(s)
  BY DEF Id, Key

LEMMA SyncEffect ==
  ASSUME SlotsFit, NEW j \in Jobs, NEW p \in PlanSides, SyncSlots(j, p)
  PROVE  \/ UNCHANGED slots /\ EndJob(j) /\ lapsed' = lapsed \union LeftUndone(j)
         \/ /\ SyncWrites(j, p)
            /\ IF job[j].todo # {p} THEN ContinueFor(j, "sync", job[j].todo \ {p})
               ELSE IF job[j].hq THEN Continue(j, "readHq") ELSE EndJob(j)
            /\ lapsed' = IF job[j].todo = {p} /\ ~Promoted(j) THEN lapsed \ {"slots"} ELSE lapsed
<1> DEFINE Count(k) == (CHOOSE d \in NewRows(j, p) : Key(d) = k).count
           Dropped(kept) == {Id(s) : s \in OldRows(j, p) \ kept}
           Changed(kept) == {Id(s) : s \in {t \in kept : t.count # Count(Key(t))}}
           Rest(kept) == {s \in slots : Id(s) \notin Dropped(kept)}
           Written(kept) == {IF Id(s) \in Changed(kept) THEN [s EXCEPT !.count = Count(Key(s))]
                                                       ELSE s : s \in Rest(kept)}
           Goes == /\ IF job[j].todo # {p} THEN ContinueFor(j, "sync", job[j].todo \ {p})
                      ELSE IF job[j].hq THEN Continue(j, "readHq") ELSE EndJob(j)
                   /\ lapsed' = IF job[j].todo = {p} /\ ~Promoted(j) THEN lapsed \ {"slots"} ELSE lapsed
           Fails == UNCHANGED slots /\ EndJob(j) /\ lapsed' = lapsed \union LeftUndone(j)
<1>1. PICK kept \in SUBSET {s \in OldRows(j, p) : Key(s) \in CommonKeys(j, p)} :
        /\ \A k \in CommonKeys(j, p) : \E s \in kept : Key(s) = k
        /\ \/ Fails
           \/ slots' = Written(kept) \union NewSlots(p, Missing(j, p)) /\ Goes
  BY DEF SyncSlots, WithCount, OldRows, NewRows, KeysOf, CommonKeys, Missing
<1>2. Paired(j, p, kept)
  BY <1>1 DEF Paired
<1>3. ASSUME slots' = Written(kept) \union NewSlots(p, Missing(j, p)) PROVE SyncWrites(j, p)
  <2> DEFINE left == Left(j, p, kept)
             f == [s \in left |-> IF Id(s) \in Changed(kept)
                                  THEN [s EXCEPT !.count = Count(Key(s))] ELSE s]
  <2>1. Rest(kept) = left
    BY DEF Left
  <2>2. Written(kept) = {f[s] : s \in left}
    BY <2>1
  <2>3. Recounted(left, f)
    <3>1. \A s \in left : DOMAIN s = {"side", "callsign", "type", "copy", "count", "squads", "wanted"}
      BY DEF Left, SlotsFit, IsSlotIn
    <3>2. \A s \in left : f[s] = s \/ f[s] = [s EXCEPT !.count = Count(Key(s))]
      OBVIOUS
    <3> HIDE DEF f, left, Count
    <3>3. ASSUME NEW s \in left
          PROVE  /\ DOMAIN f[s] = DOMAIN s /\ Id(f[s]) = Id(s) /\ f[s].side = s.side
                 /\ f[s].type = s.type /\ f[s].copy = s.copy /\ f[s].squads = s.squads
                 /\ f[s].wanted = s.wanted /\ Key(f[s]) = Key(s)
      <4>1. CASE f[s] = s
        BY <4>1
      <4>2. CASE f[s] = [s EXCEPT !.count = Count(Key(s))]
        <5> DEFINE n == Count(Key(s))
        <5> HIDE DEF n
        <5>1. f[s] = [s EXCEPT !.count = n]
          BY <4>2 DEF n
        <5> QED BY <3>1, <5>1, Recounting
      <4> QED BY <3>2, <4>1, <4>2
    <3> QED BY <3>3 DEF Recounted
  <2>4. slots' = {f[s] : s \in left} \union NewSlots(p, Missing(j, p))
    BY <1>3, <2>2
  <2> HIDE DEF f, left, Written
  <2>5. left = Left(j, p, kept)
    BY DEF left
  <2> QED BY <1>2, <2>3, <2>4, <2>5 DEF SyncWrites
<1> QED BY <1>1, <1>3

LEMMA SyncSlotsTypes ==
  ASSUME TypesInv, NEW j \in Jobs, NEW p \in PlanSides, SyncSlots(j, p) PROVE TypesInv'
<1>1. /\ JobsFit /\ JobFitsIn(game, plan, job[j]) /\ job[j].step = "sync" /\ p \in job[j].todo
      /\ UNCHANGED <<game, version, plan, disbanded, officer, ask>>
      /\ SlotsFit
  BY DEF TypesInv, JobsFit, SyncSlots
<1>2. job[j].todo \subseteq PlanSides /\ plan[p].exists
  BY <1>1, StepSets DEF JobFitsIn
<1>3. CASE UNCHANGED slots /\ EndJob(j) /\ lapsed' = lapsed \union LeftUndone(j)
  <2>1. JobsFit'
    BY <1>1, <1>3, Ended, JobGoesOn DEF Stay
  <2>2. lapsed' \subseteq {"slots", "plans", "overlap"}
    BY <1>3, LeftUndoneType DEF TypesInv
  <2> QED BY <1>1, <1>3, <2>1, <2>2, TypesStill DEF Still
<1>4. CASE /\ SyncWrites(j, p)
           /\ IF job[j].todo # {p} THEN ContinueFor(j, "sync", job[j].todo \ {p})
              ELSE IF job[j].hq THEN Continue(j, "readHq") ELSE EndJob(j)
           /\ lapsed' = IF job[j].todo = {p} /\ ~Promoted(j) THEN lapsed \ {"slots"} ELSE lapsed
  <2>1. PICK kept, left, f :
          /\ Paired(j, p, kept) /\ left = Left(j, p, kept) /\ Recounted(left, f)
          /\ slots' = {f[s] : s \in left} \union NewSlots(p, Missing(j, p))
    BY <1>4 DEF SyncWrites
  <2>2. left \subseteq slots
    BY <2>1 DEF Left
  <2>3. IsFiniteSet({f[s] : s \in left})
    <3>1. IsFiniteSet(left)
      BY <1>1, <2>2, FS_Subset DEF SlotsFit
    <3> QED BY <3>1, FiniteImage
  <2>4. \A s \in {f[t] : t \in left} :
          IsSlotIn(plan, disbanded, s) /\ \E t \in slots : Id(t) = Id(s)
    BY <1>1, <2>1, <2>2 DEF SlotsFit, IsSlotIn, Recounted, SlotIdType
  <2>5. \A s, t \in {f[u] : u \in left} : Id(s) = Id(t) => s = t
    BY <1>1, <2>1, <2>2 DEF SlotsFit, Recounted
  <2>6. Missing(j, p) \subseteq SlotRows(job[j].game, job[j].content, p)
    BY DEF Missing, NewRows
  <2>7. SlotsFit'
    <3> DEFINE rest == {f[s] : s \in left}
    <3>1. /\ slots' = rest \union NewSlots(p, Missing(j, p)) /\ IsFiniteSet(rest)
          /\ \A s \in rest : IsSlotIn(plan, disbanded, s) /\ \E t \in slots : Id(t) = Id(s)
          /\ \A s, t \in rest : Id(s) = Id(t) => s = t
      BY <2>1, <2>3, <2>4, <2>5
    <3> HIDE DEF rest
    <3> QED BY <1>1, <1>2, <2>6, <3>1, SlotsWritten, StepSets
  <2>8. JobsFit'
    BY <1>1, <1>2, <1>4, SyncGoesOn
  <2>9. lapsed' \subseteq {"slots", "plans", "overlap"}
    BY <1>4 DEF TypesInv
  <2> QED BY <1>1, <2>7, <2>8, <2>9, TypesWithSlots
<1> QED BY <1>1, <1>3, <1>4, SyncEffect

-----------------------------------------------------------------------------
(* Types: the requests of players, and what happens around. *)

LEMMA AskStarted ==
  ASSUME OfficersFit, NEW a \in Asks, AskStart(a)
  PROVE  \E r : StartAsk(a, r) /\ AskFits(r) /\ (r.step = "appoint" => r.era = Era)
<1>1. \A u \in Players : \A p : MayAccess(u, p) => officer[u] \in Squads
  BY DEF MayAccess, OfficersFit, MaybeOf
<1>2. ASSUME NEW p \in PlanSides, NEW u \in Players, AssignHqSquadCheck(a, p, u)
      PROVE  \E r : StartAsk(a, r) /\ AskFits(r) /\ (r.step = "appoint" => r.era = Era)
  <2> DEFINE r == [NoAsk EXCEPT !.step = "takeHq", !.side = p, !.squad = officer[u]]
  <2>1. StartAsk(a, r)
    BY <1>2 DEF AssignHqSquadCheck
  <2>2. AskFits(r) /\ r.step # "appoint"
    BY <1>1, <1>2 DEF AssignHqSquadCheck, NoAsk, AskFits
  <2> HIDE DEF r
  <2> QED BY <2>1, <2>2
<1>3. ASSUME NEW p \in PlanSides, NEW u \in Players, AssignCommanderCheck(a, p, u)
      PROVE  \E r : StartAsk(a, r) /\ AskFits(r) /\ (r.step = "appoint" => r.era = Era)
  <2> DEFINE r == [NoAsk EXCEPT !.step = "appoint", !.side = p, !.user = u,
                                !.squad = officer[u], !.era = Era]
  <2>1. StartAsk(a, r)
    BY <1>3 DEF AssignCommanderCheck
  <2>2. AskFits(r) /\ r.era = Era
    BY DEF NoAsk, AskFits
  <2> HIDE DEF r
  <2> QED BY <2>1, <2>2
<1>4. ASSUME NEW step \in {"dropHq", "dismiss"}, NEW p \in PlanSides,
             StartAsk(a, [NoAsk EXCEPT !.step = step, !.side = p])
      PROVE  \E r : StartAsk(a, r) /\ AskFits(r) /\ (r.step = "appoint" => r.era = Era)
  <2> DEFINE r == [NoAsk EXCEPT !.step = step, !.side = p]
  <2>1. AskFits(r) /\ r.step # "appoint"
    BY DEF NoAsk, AskFits
  <2> QED BY <1>4, <2>1
<1>5. ASSUME NEW step \in {"place", "remove", "want", "unwant"}, NEW s \in slots, NEW q \in Squads,
             StartAsk(a, [NoAsk EXCEPT !.step = step, !.side = s.side, !.squad = q, !.slot = Id(s)])
      PROVE  \E r : StartAsk(a, r) /\ AskFits(r) /\ (r.step = "appoint" => r.era = Era)
  <2> DEFINE r == [NoAsk EXCEPT !.step = step, !.side = s.side, !.squad = q, !.slot = Id(s)]
  <2>1. AskFits(r) /\ r.step # "appoint"
    BY DEF NoAsk, AskFits
  <2> QED BY <1>5, <2>1
<1>6. ASSUME NEW s \in slots, NEW n,
             StartAsk(a, [NoAsk EXCEPT !.step = "edit", !.side = s.side, !.slot = Id(s), !.count = n])
      PROVE  \E r : StartAsk(a, r) /\ AskFits(r) /\ (r.step = "appoint" => r.era = Era)
  <2> DEFINE r == [NoAsk EXCEPT !.step = "edit", !.side = s.side, !.slot = Id(s), !.count = n]
  <2>1. AskFits(r) /\ r.step # "appoint"
    BY DEF NoAsk, AskFits
  <2> QED BY <1>6, <2>1
<1>7. \A p \in PlanSides : UnassignHqSquadCheck(a, p) \/ UnassignCommanderCheck(a, p) =>
        \E r : StartAsk(a, r) /\ AskFits(r) /\ (r.step = "appoint" => r.era = Era)
  BY <1>4 DEF UnassignHqSquadCheck, UnassignCommanderCheck
<1>8. \A u \in Players, s \in slots, q \in Squads :
        AssignSquadCheck(a, u, s, q) \/ UnassignSquadCheck(a, u, s, q) =>
          \E r : StartAsk(a, r) /\ AskFits(r) /\ (r.step = "appoint" => r.era = Era)
  BY <1>5 DEF AssignSquadCheck, UnassignSquadCheck
<1>9. \A u \in Players, s \in slots : WantSlotCheck(a, u, s) \/ UnwantSlotCheck(a, u, s) =>
        \E r : StartAsk(a, r) /\ AskFits(r) /\ (r.step = "appoint" => r.era = Era)
  <2>1. \A u \in Players, s \in slots : WantSlotCheck(a, u, s) \/ UnwantSlotCheck(a, u, s) =>
          /\ officer[u] \in Squads
          /\ \E step \in {"want", "unwant"} :
               StartAsk(a, [NoAsk EXCEPT !.step = step, !.side = s.side, !.squad = officer[u], !.slot = Id(s)])
    BY <1>1 DEF WantSlotCheck, UnwantSlotCheck
  <2> QED BY <1>5, <2>1
<1>10. \A u \in Players, s \in slots, n \in Counts : UpdateSlotCheck(a, u, s, n) =>
        \E r : StartAsk(a, r) /\ AskFits(r) /\ (r.step = "appoint" => r.era = Era)
  BY <1>6 DEF UpdateSlotCheck
<1> QED BY <1>2, <1>3, <1>7, <1>8, <1>9, <1>10 DEF AskStart

LEMMA AskStartTypes ==
  ASSUME TypesInv, NEW a \in Asks, AskStart(a) PROVE TypesInv'
<1>1. PICK r : StartAsk(a, r) /\ AskFits(r)
  BY AskStarted DEF TypesInv
<1>2. /\ ask' = [ask EXCEPT ![a] = r]
      /\ UNCHANGED <<game, version, plan, slots, disbanded, officer, job, lapsed>>
  BY <1>1 DEF StartAsk
<1>3. CommandInv'
  BY AskStartKeeps DEF TypesInv
<1>4. Stay
  BY <1>2 DEF Stay
<1>5. \A b \in Asks : ask'[b] \in {ask[b], r}
  BY <1>2 DEF TypesInv, CommandInv, Records
<1>6. AsksFit'
  BY <1>1, <1>5 DEF TypesInv, AsksFit
<1>7. JobsFit' /\ SlotsFit' /\ PlansFit'
  BY <1>2, <1>4, JobsStill, SlotsStill, PlansStill DEF TypesInv
<1> QED BY <1>2, <1>3, <1>6, <1>7 DEF TypesInv, GameFits, VersionsFit, OfficersFit

\* What a player's request does to the slots: one loses or gets a squad, or gets a count.
SlotUpdated(a, f) ==
  \A s \in slots :
    /\ DOMAIN f[s] = DOMAIN s /\ Id(f[s]) = Id(s) /\ f[s].side = s.side
    /\ f[s].type = s.type /\ f[s].copy = s.copy
    /\ f[s].squads \union f[s].wanted
         \subseteq s.squads \union s.wanted
                   \union (IF ask[a].step \in {"place", "want"} THEN {ask[a].squad} \ disbanded ELSE {})
    /\ s.squads \ f[s].squads
         \subseteq IF ask[a].step = "remove" /\ ask[a].slot = Id(s) THEN {ask[a].squad} ELSE {}
    /\ s.wanted \ f[s].wanted
         \subseteq IF ask[a].step = "unwant" /\ ask[a].slot = Id(s) THEN {ask[a].squad} ELSE {}

LEMMA SlotUpdates ==
  ASSUME SlotsFit, NEW a \in Asks, UpdateSlot(a)
  PROVE  \E f : slots' = {f[s] : s \in slots} /\ SlotUpdated(a, f)
<1> DEFINE Written(s) ==
             CASE ask[a].step = "place" -> [s EXCEPT !.squads = @ \union ({ask[a].squad} \ disbanded)]
               [] ask[a].step = "remove" -> [s EXCEPT !.squads = @ \ {ask[a].squad}]
               [] ask[a].step = "want" -> [s EXCEPT !.wanted = @ \union ({ask[a].squad} \ disbanded)]
               [] ask[a].step = "unwant" -> [s EXCEPT !.wanted = @ \ {ask[a].squad}]
               [] ask[a].step = "edit" -> [s EXCEPT !.count = ask[a].count]
           f == [s \in slots |-> IF Id(s) = ask[a].slot THEN Written(s) ELSE s]
<1>1. /\ ask[a].step \in {"place", "remove", "want", "unwant", "edit"}
      /\ slots' = {IF Id(s) = ask[a].slot THEN Written(s) ELSE s : s \in slots}
  BY DEF UpdateSlot
<1>2. slots' = {f[s] : s \in slots}
  BY <1>1
<1>3. ASSUME NEW s \in slots
      PROVE  /\ DOMAIN f[s] = DOMAIN s /\ Id(f[s]) = Id(s) /\ f[s].side = s.side
             /\ f[s].type = s.type /\ f[s].copy = s.copy
             /\ f[s].squads \union f[s].wanted
                  \subseteq s.squads \union s.wanted
                            \union (IF ask[a].step \in {"place", "want"}
                                    THEN {ask[a].squad} \ disbanded ELSE {})
             /\ s.squads \ f[s].squads
                  \subseteq IF ask[a].step = "remove" /\ ask[a].slot = Id(s) THEN {ask[a].squad} ELSE {}
             /\ s.wanted \ f[s].wanted
                  \subseteq IF ask[a].step = "unwant" /\ ask[a].slot = Id(s) THEN {ask[a].squad} ELSE {}
  <2>1. DOMAIN s = {"side", "callsign", "type", "copy", "count", "squads", "wanted"}
    BY DEF SlotsFit, IsSlotIn
  <2>2. CASE Id(s) # ask[a].slot
    <3>1. f[s] = s
      BY <2>2
    <3> HIDE DEF f
    <3> QED BY <3>1
  <2>3. CASE Id(s) = ask[a].slot
    <3>1. f[s] = Written(s)
      BY <2>3
    <3> HIDE DEF f
    <3>2. CASE ask[a].step = "place"
      <4>1. f[s] = [s EXCEPT !.squads = @ \union ({ask[a].squad} \ disbanded)]
        BY <3>1, <3>2
      <4> QED BY <2>1, <3>2, <4>1 DEF Id
    <3>3. CASE ask[a].step = "remove"
      <4>1. f[s] = [s EXCEPT !.squads = @ \ {ask[a].squad}]
        BY <3>1, <3>3
      <4> QED BY <2>1, <2>3, <3>3, <4>1 DEF Id
    <3>4. CASE ask[a].step = "want"
      <4>1. f[s] = [s EXCEPT !.wanted = @ \union ({ask[a].squad} \ disbanded)]
        BY <3>1, <3>4
      <4> QED BY <2>1, <3>4, <4>1 DEF Id
    <3>5. CASE ask[a].step = "unwant"
      <4>1. f[s] = [s EXCEPT !.wanted = @ \ {ask[a].squad}]
        BY <3>1, <3>5
      <4> QED BY <2>1, <2>3, <3>5, <4>1 DEF Id
    <3>6. CASE ask[a].step = "edit"
      <4>1. f[s] = [s EXCEPT !.count = ask[a].count]
        BY <3>1, <3>6
      <4> QED BY <2>1, <3>6, <4>1 DEF Id
    <3> QED BY <1>1, <3>2, <3>3, <3>4, <3>5, <3>6
  <2> QED BY <2>2, <2>3
<1> HIDE DEF f
<1>4. SlotUpdated(a, f)
  BY <1>3 DEF SlotUpdated
<1> QED BY <1>2, <1>4

LEMMA UpdateSlotTypes ==
  ASSUME TypesInv, NEW a \in Asks, UpdateSlot(a) PROVE TypesInv'
<1>1. /\ ask' = [ask EXCEPT ![a] = NoAsk]
      /\ UNCHANGED <<game, version, plan, disbanded, officer, job, lapsed>>
  BY DEF UpdateSlot
<1>2. SlotsFit /\ JobsFit /\ AskFits(ask[a])
  BY DEF TypesInv, AsksFit
<1>3. PICK f : slots' = {f[s] : s \in slots} /\ SlotUpdated(a, f)
  BY <1>2, SlotUpdates
<1>4. Stay
  BY <1>1 DEF Stay
<1>5. \A s \in slots : IsSlotIn(plan', disbanded', f[s]) /\ Id(f[s]) = Id(s)
  <2>1. ASSUME NEW s \in slots PROVE IsSlotIn(plan, disbanded, f[s]) /\ Id(f[s]) = Id(s)
    <3>1. IsSlotIn(plan, disbanded, s)
      BY <1>2 DEF SlotsFit
    <3> QED BY <1>2, <1>3, <3>1 DEF SlotUpdated, IsSlotIn, SlotIdType, AskFits
  <2> QED BY <1>1, <2>1
<1>6. SlotsFit'
  BY <1>2, <1>3, <1>4, <1>5, SlotsChanged
<1>7. CommandInv'
  BY AskStepKeeps DEF TypesInv, AskStep
<1>8. JobsFit' /\ PlansFit' /\ AsksFit'
  BY <1>1, <1>4, JobsStill, PlansStill, AsksStill DEF TypesInv, CommandInv
<1> QED BY <1>1, <1>6, <1>7, <1>8 DEF TypesInv, GameFits, VersionsFit, OfficersFit

LEMMA AskStepTypes ==
  ASSUME TypesInv, NEW a \in Asks, AskStep(a), ~UpdateSlot(a) PROVE TypesInv'
<1>1. /\ UNCHANGED <<game, version, slots, disbanded, officer, job, lapsed>>
      /\ ask' = [AsksAfter EXCEPT ![a] = NoAsk] \/ ask' = [ask EXCEPT ![a] = NoAsk]
      /\ ask[a].step \in {"takeHq", "appoint", "dropHq", "dismiss"}
  BY DEF AskStep, AssignHqSquad, AssignCommander, UnassignHqSquad, UnassignCommander
<1>2. Records /\ Seen /\ PlansFit /\ AskFits(ask[a])
  BY DEF TypesInv, CommandInv, AsksFit
<1> DEFINE p == ask[a].side
<1>3. p \in PlanSides
  BY <1>1, <1>2 DEF Records, IsAsk
<1>4. plan = [q \in PlanSides |-> plan[q]] /\ IsPlan(plan[p])
  BY <1>2, <1>3 DEF Records
<1>5. \A q \in PlanSides : q # p => plan'[q] = plan[q]
  BY <1>2, <1>3, <1>4
     DEF AskStep, AssignHqSquad, AssignCommander, UnassignHqSquad, UnassignCommander
<1>6. CASE AssignHqSquad(a)
  <2>1. CASE plan' = plan
    <3>1. PlansFit' /\ Stay
      BY <1>1, <1>2, <2>1, PlansStill DEF Stay
    <3>2. CommandInv' /\ AsksFit' /\ JobsFit'
      BY <1>1, <3>1, AskStepKeeps, AsksStill, JobsStill DEF TypesInv, CommandInv
    <3> QED BY <1>1, <3>1, <3>2, TypesWithPlans DEF TypesInv
  <2>2. CASE ask[a].squad \notin disbanded
    <3>1. plan[p].exists
      BY <1>2, <1>6 DEF AssignHqSquad, Seen, SeenIn
    <3>2. /\ plan'[p].hq = ask[a].squad /\ plan'[p].commander = plan[p].commander
          /\ plan'[p].exists = plan[p].exists
      BY <1>3, <1>4, <1>6, <2>2 DEF AssignHqSquad, IsPlan
    <3>3. ask[a].squad \in Squads
      BY <1>2, <1>6 DEF AssignHqSquad, AskFits
    <3>4. PlansFit' /\ Stay
      BY <1>1, <1>2, <1>5, <2>2, <3>1, <3>2, <3>3 DEF PlansFit, Stay, MaybeOf
    <3>5. CommandInv' /\ AsksFit' /\ JobsFit'
      BY <1>1, <3>4, AskStepKeeps, AsksStill, JobsStill DEF TypesInv, CommandInv
    <3> QED BY <1>1, <3>4, <3>5, TypesWithPlans DEF TypesInv
  <2> QED BY <1>6, <2>1, <2>2 DEF AssignHqSquad
<1>7. CASE AssignCommander(a)
  <2>1. plan[p].exists
    BY <1>2, <1>7 DEF AssignCommander, Seen, SeenIn
  <2>2. /\ plan'[p].hq = plan[p].hq /\ plan'[p].commander = ask[a].user
        /\ plan'[p].exists = plan[p].exists
    BY <1>3, <1>4, <1>7 DEF AssignCommander, IsPlan
  <2>3. ask[a].user \in Players
    BY <1>2, <1>7 DEF AssignCommander, AskFits
  <2>4. PlansFit' /\ Stay
    BY <1>1, <1>2, <1>5, <2>1, <2>2, <2>3 DEF PlansFit, Stay, MaybeOf
  <2>5. CommandInv' /\ AsksFit' /\ JobsFit'
    BY <1>1, <2>4, AskStepKeeps, AsksStill, JobsStill DEF TypesInv, CommandInv
  <2> QED BY <1>1, <2>4, <2>5, TypesWithPlans DEF TypesInv
<1>8. CASE UnassignHqSquad(a) \/ UnassignCommander(a)
  <2>1. plan'[p].exists /\ plan'[p].hq \in {None, plan[p].hq} /\ plan'[p].commander = None
    <3>1. CASE UnassignHqSquad(a)
      BY <1>3, <1>4, <3>1, BareRow DEF UnassignHqSquad
    <3>2. CASE UnassignCommander(a)
      <4> DEFINE row == [NoPlan EXCEPT !.exists = TRUE, !.hq = plan[p].hq]
      <4>1. row.exists /\ row.commander = None /\ row.hq = plan[p].hq
        BY BareRow
      <4>2. plan' = [plan EXCEPT ![p] = row]
        BY <3>2 DEF UnassignCommander
      <4> HIDE DEF row
      <4> QED BY <1>3, <1>4, <4>1, <4>2
    <3> QED BY <1>8, <3>1, <3>2
  <2>2. PlansFit' /\ Stay
    BY <1>1, <1>2, <1>5, <2>1 DEF PlansFit, Stay, MaybeOf
  <2>3. CommandInv' /\ AsksFit' /\ JobsFit'
    BY <1>1, <2>2, AskStepKeeps, AsksStill, JobsStill DEF TypesInv, CommandInv
  <2> QED BY <1>1, <2>2, <2>3, TypesWithPlans DEF TypesInv
<1> QED BY <1>6, <1>7, <1>8 DEF AskStep

LEMMA DeleteGameTypes == ASSUME TypesInv, DeleteGame PROVE TypesInv'
<1>1. /\ game' = None /\ plan' = [p \in PlanSides |-> NoPlan] /\ slots' = {}
      /\ job' = [j \in Jobs |-> IF job[j].step = "saveVersion" THEN job[j] ELSE IdleJob]
      /\ ask' = [a \in Asks |-> NoAsk] /\ lapsed' \subseteq lapsed
      /\ UNCHANGED <<version, disbanded, officer>>
  BY DEF DeleteGame
<1>2. CommandInv'
  BY DeleteGameKeeps DEF TypesInv
<1>3. GameFits' /\ SlotsFit'
  BY <1>1, FS_EmptySet DEF GameFits, SlotsFit
<1>4. PlansFit' /\ AsksFit'
  BY <1>1 DEF PlansFit, AsksFit, AskFits, NoPlan, NoAsk, MaybeOf
<1>5. VersionsFit' /\ OfficersFit'
  BY <1>1 DEF TypesInv, VersionsFit, OfficersFit
<1>6. JobsFit'
  <2>1. ASSUME NEW j \in Jobs, job[j].step = "saveVersion" PROVE JobFitsIn(game', plan', job[j])
    <3>1. JobFitsIn(game, plan, job[j])
      BY DEF TypesInv, JobsFit
    <3> QED BY <2>1, <3>1, StepSets DEF JobFitsIn
  <2>2. \A j \in Jobs : JobFitsIn(game', plan', job'[j])
    BY <1>1, <2>1, IdleJobFits
  <2>3. RowsOfJobs' \in SUBSET RowsOfJobs
    BY <1>1 DEF RowsOfJobs, IdleJob
  <2>4. IsFiniteSet(RowsOfJobs')
    BY <2>3, FS_Subset DEF TypesInv, JobsFit
  <2>5. job' = [j \in Jobs |-> job'[j]]
    BY <1>1
  <2> QED BY <2>2, <2>4, <2>5 DEF JobsFit
<1> QED BY <1>1, <1>2, <1>3, <1>4, <1>5, <1>6 DEF TypesInv

LEMMA MoveOfficerTypes ==
  ASSUME TypesInv, NEW u \in Players, NEW q \in Squads \union {None}, MoveOfficer(u, q) PROVE TypesInv'
<1>1. /\ q \in MaybeOf(Squads \ disbanded) /\ officer' = [officer EXCEPT ![u] = q]
      /\ UNCHANGED <<game, version, plan, slots, disbanded, job, ask, lapsed>>
  BY DEF MoveOfficer, MaybeOf
<1>2. CommandInv' /\ Stay
  BY <1>1, NothingWritten DEF TypesInv, Stay
<1>3. SlotsFit' /\ PlansFit' /\ AsksFit' /\ JobsFit'
  BY <1>1, <1>2, SlotsStill, PlansStill, AsksStill, JobsStill DEF TypesInv, CommandInv
<1>4. OfficersFit'
  BY <1>1 DEF TypesInv, OfficersFit
<1> QED BY <1>1, <1>2, <1>3, <1>4 DEF TypesInv, GameFits, VersionsFit

LEMMA DeleteSquadSlots ==
  ASSUME SlotsFit, NEW q \in Squads, DeleteSquad(q)
  PROVE  \E f : /\ slots' = {f[s] : s \in slots}
                /\ \A s \in slots :
                     /\ DOMAIN f[s] = DOMAIN s /\ Id(f[s]) = Id(s) /\ f[s].side = s.side
                     /\ f[s].type = s.type /\ f[s].copy = s.copy
                     /\ f[s].squads = s.squads \ {q} /\ f[s].wanted = s.wanted \ {q}
<1> DEFINE f == [s \in slots |-> [s EXCEPT !.squads = @ \ {q}, !.wanted = @ \ {q}]]
<1>1. slots' = {f[s] : s \in slots}
  BY DEF DeleteSquad
<1>2. ASSUME NEW s \in slots
      PROVE  /\ DOMAIN f[s] = DOMAIN s /\ Id(f[s]) = Id(s) /\ f[s].side = s.side
             /\ f[s].type = s.type /\ f[s].copy = s.copy
             /\ f[s].squads = s.squads \ {q} /\ f[s].wanted = s.wanted \ {q}
  <2>1. DOMAIN s = {"side", "callsign", "type", "copy", "count", "squads", "wanted"}
    BY DEF SlotsFit, IsSlotIn
  <2>2. f[s] = [s EXCEPT !.squads = @ \ {q}, !.wanted = @ \ {q}]
    OBVIOUS
  <2> HIDE DEF f
  <2> QED BY <2>1, <2>2 DEF Id
<1> HIDE DEF f
<1> QED BY <1>1, <1>2

LEMMA DeleteSquadTypes ==
  ASSUME TypesInv, NEW q \in Squads, DeleteSquad(q) PROVE TypesInv'
<1>1. /\ disbanded' = disbanded \union {q} /\ UNCHANGED <<version, job, lapsed>>
      /\ ask' = AsksAfter
      /\ game' = IF game = None THEN None
                 ELSE [game EXCEPT !.attackHq = IF @ = q THEN None ELSE @,
                                   !.defenseHq = IF @ = q THEN None ELSE @]
  BY DEF DeleteSquad
<1>2. CommandInv'
  BY DeleteSquadKeeps DEF TypesInv
<1>3. Stay /\ PlansFit'
  <2>1. ASSUME NEW p \in PlanSides
        PROVE  /\ plan'[p].exists = plan[p].exists /\ plan'[p].commander = plan[p].commander
               /\ plan'[p].hq = IF plan[p].hq = q THEN None ELSE plan[p].hq
               /\ plan[p].hq # q => plan'[p] = plan[p]
    <3>1. IsPlan(plan[p])
      BY DEF TypesInv, CommandInv, Records
    <3> QED BY <3>1 DEF DeleteSquad, IsPlan
  <2>2. \A p \in PlanSides : ~plan[p].exists => plan[p] = NoPlan /\ plan[p].hq # q
    <3>1. NoPlan.hq = None /\ None # q
      BY HeadquartersAssumption DEF NoPlan
    <3> QED BY <3>1 DEF TypesInv, PlansFit
  <2>3. PlansFit'
    BY <1>1, <2>1, <2>2 DEF TypesInv, PlansFit, MaybeOf
  <2>4. game # None => game' \in GameRows /\ {game'.attackHq, game'.defenseHq} \intersect disbanded' = {}
    <3>1. game # None => game \in GameRows /\ {game.attackHq, game.defenseHq} \intersect disbanded = {}
      BY DEF TypesInv, GameFits
    <3>2. None # q
      BY HeadquartersAssumption
    <3> QED BY <1>1, <3>1, <3>2, NoneDisbanded DEF GameRows, MaybeOf, TypesInv
  <2>5. game # None => game' # None
    BY <2>4, HeadquartersAssumption
  <2> QED BY <2>1, <2>3, <2>5 DEF Stay
<1>4. GameFits'
  <2>1. CASE game = None
    BY <1>1, <2>1 DEF GameFits
  <2>2. CASE game # None
    <3>1. game \in GameRows /\ {game.attackHq, game.defenseHq} \intersect disbanded = {}
      BY <2>2 DEF TypesInv, GameFits
    <3>2. None # q /\ None \notin disbanded
      BY HeadquartersAssumption, NoneDisbanded DEF TypesInv
    <3> QED BY <1>1, <2>2, <3>1, <3>2 DEF GameFits, GameRows, MaybeOf
  <2> QED BY <2>1, <2>2
<1>5. OfficersFit'
  BY <1>1 DEF DeleteSquad, TypesInv, OfficersFit, MaybeOf
<1>6. SlotsFit'
  <2>1. SlotsFit
    BY DEF TypesInv
  <2>2. PICK f : /\ slots' = {f[s] : s \in slots}
                 /\ \A s \in slots :
                      /\ DOMAIN f[s] = DOMAIN s /\ Id(f[s]) = Id(s) /\ f[s].side = s.side
                      /\ f[s].type = s.type /\ f[s].copy = s.copy
                      /\ f[s].squads = s.squads \ {q} /\ f[s].wanted = s.wanted \ {q}
    BY <2>1, DeleteSquadSlots
  <2>3. ASSUME NEW s \in slots PROVE IsSlotIn(plan', disbanded', f[s]) /\ Id(f[s]) = Id(s)
    <3>1. IsSlotIn(plan, disbanded, s)
      BY <2>1 DEF SlotsFit
    <3>2. SlotIdType(f[s]) /\ plan'[f[s].side].exists
      BY <1>3, <2>2, <3>1 DEF IsSlotIn, SlotIdType, Stay
    <3>3. f[s].squads \union f[s].wanted \subseteq Squads \ disbanded'
      BY <1>1, <2>2, <3>1 DEF IsSlotIn
    <3> QED BY <2>2, <3>1, <3>2, <3>3 DEF IsSlotIn
  <2> QED BY <1>3, <2>1, <2>2, <2>3, SlotsChanged
<1>7. AsksFit' /\ JobsFit'
  BY <1>1, <1>3, AsksStill, JobsStill DEF TypesInv, CommandInv
<1> QED BY <1>1, <1>2, <1>3, <1>4, <1>5, <1>6, <1>7 DEF TypesInv, VersionsFit

LEMMA CrashTypes == ASSUME TypesInv, CrashJobs PROVE TypesInv'
<1>1. /\ job' = [j \in Jobs |-> IdleJob] /\ ask' = [a \in Asks |-> NoAsk]
      /\ UNCHANGED <<game, version, plan, slots, disbanded, officer>>
      /\ lapsed' = lapsed \union UNION {LeftUndone(j) : j \in Jobs}
  BY DEF CrashJobs
<1>2. CommandInv'
  <2>1. [HeadquartersNext]_planVars
    BY DEF HeadquartersNext
  <2> QED BY <2>1, CommandInvNext DEF TypesInv
<1>3. AsksFit'
  BY <1>1 DEF AsksFit, AskFits, NoAsk
<1>4. Stay
  BY <1>1 DEF Stay
<1>5. SlotsFit' /\ PlansFit'
  BY <1>1, <1>4, SlotsStill, PlansStill DEF TypesInv
<1>6. JobsFit'
  <2>1. \A j \in Jobs : JobFitsIn(game', plan', job'[j])
    BY <1>1, IdleJobFits
  <2>2. RowsOfJobs' = {}
    BY <1>1 DEF RowsOfJobs, IdleJob
  <2>3. job' = [j \in Jobs |-> job'[j]]
    BY <1>1
  <2> QED BY <2>1, <2>2, <2>3, FS_EmptySet DEF JobsFit
<1>7. lapsed' \subseteq {"slots", "plans", "overlap"}
  BY <1>1, LeftUndoneType DEF TypesInv
<1> QED BY <1>1, <1>2, <1>3, <1>5, <1>6, <1>7 DEF TypesInv, GameFits, VersionsFit, OfficersFit

LEMMA TypesNext == ASSUME TypesInv, [HeadquartersNext]_planVars PROVE TypesInv'
<1>1. ASSUME NEW j \in Jobs, JobStep(j) PROVE TypesInv'
  BY <1>1, SaveGameTypes, SaveVersionTypes, ReadsTypes, ClearPlansTypes, DropFriendlySlotsTypes,
     CreatePlanTypes, FillPlanTypes, RebuildSlotsTypes, SetHqSquadTypes, AddFriendlySlotsTypes,
     SyncSlotsTypes DEF JobStep
<1>2. ASSUME NEW j \in Jobs, JobStart(j) PROVE TypesInv'
  BY <1>2, CreateGameTypes, ChecksTypes DEF JobStart
<1>3. ASSUME NEW a \in Asks, AskStep(a) \/ AskStart(a) PROVE TypesInv'
  BY <1>3, UpdateSlotTypes, AskStepTypes, AskStartTypes
<1>4. CASE UNCHANGED planVars
  <2>1. CommandInv' /\ Stay
    BY <1>4, NothingWritten DEF TypesInv, Stay, planVars
  <2>2. SlotsFit' /\ PlansFit' /\ AsksFit' /\ JobsFit'
    BY <1>4, <2>1, SlotsStill, PlansStill, AsksStill, JobsStill DEF TypesInv, CommandInv, planVars
  <2> QED BY <1>4, <2>1, <2>2 DEF TypesInv, GameFits, VersionsFit, OfficersFit, planVars
<1> QED BY <1>1, <1>2, <1>3, <1>4, DeleteGameTypes, MoveOfficerTypes, DeleteSquadTypes,
           CrashTypes DEF HeadquartersNext

LEMMA TypesImply == ASSUME TypesInv PROVE HeadquartersTypeOK
<1>1. game # None =>
        /\ game.version \in Versions /\ game.attack \in Sides /\ game.defense \in Sides
        /\ game.attackHq \in MaybeOf(Squads \ disbanded)
        /\ game.defenseHq \in MaybeOf(Squads \ disbanded)
  BY DEF TypesInv, GameFits, GameRows, MaybeOf
<1>2. \A s \in slots : SlotIdType(s) /\ plan[s.side].exists
                       /\ s.squads \union s.wanted \subseteq Squads \ disbanded
  BY DEF TypesInv, SlotsFit, IsSlotIn
<1> QED BY <1>1, <1>2 DEF TypesInv, PlansFit, SlotsFit, OfficersFit, HeadquartersTypeOK

LEMMA TypesHold == HeadquartersSpec => []TypesInv
<1>1. HeadquartersInit => TypesInv
  BY InitTypes
<1>2. TypesInv /\ [HeadquartersNext]_planVars => TypesInv'
  BY TypesNext
<1> QED BY <1>1, <1>2, PTL DEF HeadquartersSpec

\* Whatever organisers and players do at once: no plan, slot or game refers to a squad
\* that is gone, no slot is without its plan, and no two slots share an id.
THEOREM HeadquartersTypes == HeadquartersSpec => []HeadquartersTypeOK
<1>1. TypesInv => HeadquartersTypeOK
  BY TypesImply
<1> QED BY <1>1, TypesHold, PTL

-----------------------------------------------------------------------------
(* Without a game there is nothing else. *)

NoGame == game = None =>
  (\A p \in PlanSides : ~plan[p].exists) /\ (\A a \in Asks : ask[a] = NoAsk)

LEMMA JobHasGame ==
  ASSUME TypesInv, NEW j \in Jobs, JobStep(j) PROVE SaveVersion(j) \/ game # None
<1>1. JobFitsIn(game, plan, job[j])
  BY DEF TypesInv, JobsFit
<1>2. job[j].step \notin {"idle", "saveVersion"} => game # None
  BY <1>1, StepSets DEF JobFitsIn
<1> QED BY <1>2 DEF JobStep, SaveGame, LoadGame, PlansEnsured, ClearPlans, ReadHqSquads, ReadPlans,
       DropFriendlySlots, CreatePlan, FillPlan, RebuildSlots, SetHqSquad, AddFriendlySlots, SyncSlots

LEMMA NoGameNext == ASSUME TypesInv, NoGame, [HeadquartersNext]_planVars PROVE NoGame'
<1>1. ASSUME NEW j \in Jobs, JobStep(j) \/ JobStart(j) PROVE NoGame'
  <2>1. CASE UNCHANGED <<game, plan, ask>>
    BY <2>1 DEF NoGame
  <2>2. CASE game # None /\ Stay
    BY <2>2 DEF NoGame, Stay
  <2>3. CASE \E g \in Games : CreateGame(j, g)
    BY <2>3, HeadquartersAssumption DEF CreateGame, NoGame
  <2>4. JobStart(j) => UNCHANGED <<game, plan, ask>> \/ \E g \in Games : CreateGame(j, g)
    BY DEF JobStart, UpdateGameCheck, UpdateVersionCheck
  <2>5. SaveVersion(j) => UNCHANGED <<game, plan, ask>>
    BY DEF SaveVersion
  <2>6. ASSUME JobStep(j), game # None PROVE NoGame'
    <3>1. game' # None
      <4>1. CASE game' = game
        BY <2>6, <4>1
      <4>2. CASE SaveGame(j) /\ game' # game
        <5>1. JobFitsIn(game, plan, job[j]) /\ GameFits
          BY DEF TypesInv, JobsFit
        <5>2. job[j].edit \in Edits
          BY <4>2, <5>1 DEF SaveGame, JobFitsIn
        <5>3. /\ {job[j].edit.attackHq, job[j].edit.defenseHq} \intersect disbanded = {}
              /\ game' = Edited(job[j].edit)
          BY <4>2 DEF SaveGame
        <5>4. game' \in GameRows
          BY <2>6, <5>1, <5>2, <5>3, EditedGame
        <5> QED BY <5>4, HeadquartersAssumption
      <4>3. SaveGame(j) \/ game' = game
        BY <2>6 DEF JobStep, SaveVersion, LoadGame, PlansEnsured, ClearPlans, ReadHqSquads, ReadPlans,
             DropFriendlySlots, CreatePlan, FillPlan, RebuildSlots, SetHqSquad, AddFriendlySlots, SyncSlots
      <4> QED BY <4>1, <4>2, <4>3
    <3> QED BY <3>1 DEF NoGame
  <2> QED BY <1>1, <2>1, <2>3, <2>4, <2>5, <2>6, JobHasGame
<1>2. ASSUME NEW a \in Asks, AskStep(a) PROVE NoGame'
  <2>1. game' = game /\ ask[a] # NoAsk
    BY <1>2 DEF AskStep, AssignHqSquad, AssignCommander, UnassignHqSquad, UnassignCommander,
                UpdateSlot, NoAsk
  <2> QED BY <2>1 DEF NoGame
<1>3. ASSUME NEW a \in Asks, AskStart(a) PROVE NoGame'
  <2>1. game' = game
    BY <1>3, AskStarted DEF StartAsk, TypesInv
  <2>2. ASSUME game = None PROVE FALSE
    <3>1. \A p \in PlanSides : ~AskMayStart(a, p)
      BY <2>2 DEF NoGame, AskMayStart
    <3>2. \A s \in slots : s.side \in PlanSides
      BY DEF TypesInv, SlotsFit, IsSlotIn, SlotIdType
    <3> QED BY <1>3, <3>1, <3>2
         DEF AskStart, AssignHqSquadCheck, AssignCommanderCheck, UnassignHqSquadCheck,
             UnassignCommanderCheck, AssignSquadCheck, UnassignSquadCheck, UpdateSlotCheck,
             WantSlotCheck, UnwantSlotCheck
  <2> QED BY <2>1, <2>2 DEF NoGame
<1>4. CASE DeleteGame
  BY <1>4 DEF DeleteGame, NoGame, NoPlan
<1>5. CASE UNCHANGED planVars \/ \E u \in Players, q \in Squads \union {None} : MoveOfficer(u, q)
  BY <1>5 DEF planVars, MoveOfficer, NoGame
<1>6. CASE CrashJobs
  BY <1>6 DEF CrashJobs, NoGame
<1>7. ASSUME NEW q \in Squads, DeleteSquad(q) PROVE NoGame'
  <2>1. CASE game # None
    <3>1. game \in GameRows
      BY <2>1 DEF TypesInv, GameFits
    <3>2. game' \in GameRows
      BY <1>7, <2>1, <3>1 DEF DeleteSquad, GameRows, MaybeOf
    <3> QED BY <3>2, HeadquartersAssumption DEF NoGame
  <2>2. CASE game = None
    <3>1. \A p \in PlanSides : plan[p] = NoPlan
      BY <2>2 DEF NoGame, TypesInv, PlansFit
    <3>2. None # q
      BY HeadquartersAssumption
    <3>3. \A p \in PlanSides : plan'[p] = plan[p]
      <4>1. \A p \in PlanSides : plan[p].hq # q
        BY <3>1, <3>2 DEF NoPlan
      <4> QED BY <1>7, <4>1 DEF DeleteSquad
    <3>4. \A a \in Asks : ask'[a] = ask[a]
      <4>1. \A a \in Asks : ask[a].step \notin {"appoint", "takeHq"}
        BY <2>2 DEF NoGame, NoAsk
      <4> QED BY <1>7, <4>1 DEF DeleteSquad, AsksAfter
    <3> QED BY <2>2, <3>3, <3>4 DEF NoGame
  <2> QED BY <2>1, <2>2
<1> QED BY <1>1, <1>2, <1>3, <1>4, <1>5, <1>6, <1>7 DEF HeadquartersNext

-----------------------------------------------------------------------------
(* What holds as long as organisers' requests do not overlap. *)

Alone == "overlap" \notin lapsed

OneJob == \A j, k \in Jobs : job[j] # IdleJob /\ job[k] # IdleJob => j = k

\* What an update of the game has been decided on is still so.
DecidedOn(r) == r.step = "saveGame" =>
  LET next == Edited(r.edit) IN
  /\ r.counts /\ r.route \in {"none", "hq", "sync", "reset"}
  /\ r.route # "reset" => /\ next.attack = game.attack /\ next.defense = game.defense
                          /\ MissionOf[next.version] = MissionOf[game.version]
  /\ r.route \in {"none", "hq"} => next.version = game.version

Resetting(r) == r.route = "reset" /\ r.step \in {"load", "ensure", "fill", "rebuild", "clear"}

\* Commanders, and those who will be, are of the game as it is, but for a reset.
OfThisGame ==
  "plans" \notin lapsed /\ (\A j \in Jobs : ~Resetting(job[j])) =>
    /\ \A p \in PlanSides : plan[p].commander # None /\ ~plan[p].detached => plan[p].era = Era
    /\ \A a \in Asks : ask[a].step = "appoint" /\ ~ask[a].late => ask[a].era = Era

EraInv == Alone => OneJob /\ (\A j \in Jobs : DecidedOn(job[j])) /\ OfThisGame

LEMMA JobStepOthers ==
  ASSUME TypesInv, NEW j \in Jobs, JobStep(j) PROVE Others(j) /\ job[j].step # "idle"
<1>1. JobsFit /\ SlotsFit
  BY DEF TypesInv
<1>2. job[j].step # "idle"
  BY DEF JobStep, SaveGame, SaveVersion, LoadGame, PlansEnsured, ClearPlans, ReadHqSquads, ReadPlans,
         DropFriendlySlots, CreatePlan, FillPlan, RebuildSlots, SetHqSquad, AddFriendlySlots, SyncSlots
<1>3. \A step : Continue(j, step) => Others(j)
  BY <1>1, Continued
<1>4. \A step, todo : ContinueFor(j, step, todo) => Others(j)
  BY <1>1, ContinuedFor
<1>5. EndJob(j) => Others(j)
  BY <1>1, Ended
<1>6. SaveGame(j) \/ SaveVersion(j) \/ PlansEnsured(j) \/ ClearPlans(j) \/ DropFriendlySlots(j) => Others(j)
  <2>1. PlansEnsured(j) => EndJob(j) \/ (\E step, todo : Continue(j, step) \/ ContinueFor(j, step, todo))
    <3>1. JobFitsIn(game, plan, job[j])
      BY <1>1 DEF JobsFit
    <3>2. PlansEnsured(j) => job[j].route \in {"create", "reset", "sync"}
      BY <3>1, StepSets DEF JobFitsIn, PlansEnsured
    <3> QED BY <3>2 DEF PlansEnsured
  <2>2. SaveGame(j) => EndJob(j) \/ Continue(j, "readHq") \/ Continue(j, "load")
    BY DEF SaveGame
  <2> QED BY <1>3, <1>4, <1>5, <2>1, <2>2 DEF SaveVersion, ClearPlans, DropFriendlySlots
<1>7. LoadGame(j) \/ ReadHqSquads(j) \/ ReadPlans(j) => Others(j)
  BY <1>1, Loads, ReadsHq, ReadsPlans
<1>8. ASSUME NEW p \in PlanSides
      PROVE  CreatePlan(j, p) \/ FillPlan(j, p) \/ RebuildSlots(j, p) \/ SetHqSquad(j, p)
             \/ AddFriendlySlots(j, p) => Others(j)
  BY <1>4, <1>5 DEF CreatePlan, FillPlan, RebuildSlots, SetHqSquad, AddFriendlySlots
<1>9. ASSUME NEW p \in PlanSides PROVE SyncSlots(j, p) => Others(j)
  BY <1>1, <1>3, <1>4, <1>5, SyncEffect
<1> QED BY <1>2, <1>6, <1>7, <1>8, <1>9 DEF JobStep

\* That requests have overlapped is not forgotten.
LEMMA OverlapStays == ASSUME TypesInv, [HeadquartersNext]_planVars, Alone' PROVE Alone
<1>1. ASSUME NEW j \in Jobs, JobStep(j) PROVE Alone
  <2>1. "overlap" \in lapsed => "overlap" \in lapsed'
    <3>1. SlotsFit
      BY DEF TypesInv
    <3>2. ASSUME NEW p \in PlanSides, SyncSlots(j, p), "overlap" \in lapsed PROVE "overlap" \in lapsed'
      BY <3>1, <3>2, SyncEffect
    <3>4. SaveGame(j) \/ SaveVersion(j) \/ LoadGame(j) \/ PlansEnsured(j) \/ ClearPlans(j)
            \/ ReadHqSquads(j) \/ ReadPlans(j) \/ DropFriendlySlots(j) =>
            ("overlap" \in lapsed => "overlap" \in lapsed')
      BY DEF SaveGame, SaveVersion, LoadGame, PlansEnsured, ClearPlans, ReadHqSquads, ReadPlans,
             DropFriendlySlots
    <3>5. ASSUME NEW p \in PlanSides,
                 CreatePlan(j, p) \/ FillPlan(j, p) \/ RebuildSlots(j, p) \/ SetHqSquad(j, p)
                 \/ AddFriendlySlots(j, p)
          PROVE  "overlap" \in lapsed => "overlap" \in lapsed'
      BY <3>5 DEF CreatePlan, FillPlan, RebuildSlots, SetHqSquad, AddFriendlySlots
    <3> QED BY <1>1, <3>2, <3>4, <3>5 DEF JobStep
  <2> QED BY <2>1 DEF Alone
<1>2. ASSUME NEW j \in Jobs, JobStart(j) PROVE Alone
  BY <1>2 DEF JobStart, CreateGame, UpdateGameCheck, UpdateVersionCheck, StartJob, Alone
<1>3. ASSUME NEW a \in Asks, AskStep(a) PROVE Alone
  BY <1>3 DEF AskStep, AssignHqSquad, AssignCommander, UnassignHqSquad, UnassignCommander,
              UpdateSlot, Alone
<1>4. ASSUME NEW a \in Asks, AskStart(a) PROVE Alone
  <2>1. lapsed' = lapsed
    BY <1>4, AskStarted DEF StartAsk, TypesInv
  <2> QED BY <2>1 DEF Alone
<1>5. DeleteGame \/ CrashJobs \/ UNCHANGED planVars => Alone
  BY DEF DeleteGame, CrashJobs, planVars, Alone
<1>6. (\E u \in Players, q \in Squads \union {None} : MoveOfficer(u, q))
      \/ (\E q \in Squads : DeleteSquad(q)) => Alone
  BY DEF MoveOfficer, DeleteSquad, Alone
<1> QED BY <1>1, <1>2, <1>3, <1>4, <1>5, <1>6 DEF HeadquartersNext

\* What a request of an organiser leaves: no other is under way.
LEMMA OthersIdle ==
  ASSUME TypesInv, OneJob, NEW j \in Jobs, JobStep(j)
  PROVE  \A k \in Jobs : k # j => job[k] = IdleJob /\ job'[k] = IdleJob
<1>1. Others(j) /\ job[j] # IdleJob
  BY JobStepOthers DEF IdleJob
<1> QED BY <1>1 DEF OneJob, Others

LEMMA OneJobNext ==
  ASSUME TypesInv, Alone => OneJob, [HeadquartersNext]_planVars, Alone' PROVE OneJob'
<1>1. Alone /\ OneJob
  BY OverlapStays
<1>2. ASSUME NEW j \in Jobs, JobStep(j) PROVE OneJob'
  BY <1>1, <1>2, OthersIdle DEF OneJob
<1>3. ASSUME NEW j \in Jobs, JobStart(j) PROVE OneJob'
  <2>1. PICK call : StartJob(j, call)
    <3>1. (\E g \in Games : CreateGame(j, g)) => \E call : StartJob(j, call)
      BY DEF CreateGame
    <3>2. (\E e \in Edits : UpdateGameCheck(j, e)) => \E call : StartJob(j, call)
      BY DEF UpdateGameCheck
    <3>3. (\E v \in Versions, c \in Contents, file \in BOOLEAN : UpdateVersionCheck(j, v, c, file))
          => \E call : StartJob(j, call)
      BY DEF UpdateVersionCheck
    <3> QED BY <1>3, <3>1, <3>2, <3>3 DEF JobStart
  <2>2. Others(j) /\ \A k \in Jobs : job[k] = IdleJob
    BY <2>1, Started DEF TypesInv, StartJob, Alone
  <2> QED BY <2>2 DEF OneJob, Others
<1>4. job' = job => OneJob'
  BY <1>1 DEF OneJob
<1>5. ASSUME NEW a \in Asks, AskStep(a) \/ AskStart(a) PROVE OneJob'
  <2>1. AskStep(a) => job' = job
    BY DEF AskStep, AssignHqSquad, AssignCommander, UnassignHqSquad, UnassignCommander, UpdateSlot
  <2>2. AskStart(a) => job' = job
    BY AskStarted DEF StartAsk, TypesInv
  <2> QED BY <1>4, <1>5, <2>1, <2>2
<1>6. DeleteGame \/ CrashJobs => OneJob'
  BY <1>1 DEF DeleteGame, CrashJobs, OneJob
<1>7. UNCHANGED planVars \/ (\E u \in Players, q \in Squads \union {None} : MoveOfficer(u, q))
      \/ (\E q \in Squads : DeleteSquad(q)) => OneJob'
  BY <1>4 DEF planVars, MoveOfficer, DeleteSquad
<1> QED BY <1>2, <1>3, <1>5, <1>6, <1>7 DEF HeadquartersNext

-----------------------------------------------------------------------------
(* Commanders are of the game as it is. *)

SameGame ==
  /\ game = None <=> game' = None
  /\ game # None => /\ game'.version = game.version /\ game'.attack = game.attack
                    /\ game'.defense = game.defense

LEMMA EraStays == ASSUME SameGame PROVE Era' = Era
  BY DEF SameGame, Era

LEMMA EditedFields ==
  ASSUME NEW e \in Edits
  PROVE  /\ Edited(e).version = IF e.version = Keep THEN game.version ELSE e.version
         /\ Edited(e).attack = IF e.attack = Keep THEN game.attack ELSE e.attack
         /\ Edited(e).defense = IF e.defense = Keep THEN game.defense ELSE e.defense
<1>1. DOMAIN e = {"version", "attack", "defense", "attackHq", "defenseHq"}
  BY HeadquartersAssumption
<1> QED BY <1>1 DEF Edited

LEMMA EditedFieldsNext ==
  ASSUME NEW e \in Edits
  PROVE  /\ Edited(e)'.version = IF e.version = Keep THEN game'.version ELSE e.version
         /\ Edited(e)'.attack = IF e.attack = Keep THEN game'.attack ELSE e.attack
         /\ Edited(e)'.defense = IF e.defense = Keep THEN game'.defense ELSE e.defense
<1>1. DOMAIN e = {"version", "attack", "defense", "attackHq", "defenseHq"}
  BY HeadquartersAssumption
<1> QED BY <1>1 DEF Edited

LEMMA DeleteSquadGame == ASSUME TypesInv, NEW q \in Squads, DeleteSquad(q) PROVE SameGame
<1>1. CASE game = None
  BY <1>1 DEF DeleteSquad, SameGame
<1>2. CASE game # None
  <2>1. game \in GameRows
    BY <1>2 DEF TypesInv, GameFits
  <2>2. /\ game' \in GameRows /\ game'.version = game.version /\ game'.attack = game.attack
        /\ game'.defense = game.defense
    BY <1>2, <2>1 DEF DeleteSquad, GameRows, MaybeOf
  <2> QED BY <1>2, <2>2, HeadquartersAssumption DEF SameGame
<1> QED BY <1>1, <1>2

\* A step of a request never is its first.
LEMMA JobStepGoesOn ==
  ASSUME TypesInv, NEW j \in Jobs, JobStep(j) PROVE job'[j].step \notin {"saveGame", "saveVersion"}
<1>1. JobsFit /\ SlotsFit
  BY DEF TypesInv
<1>2. \A step : Continue(j, step) => job'[j].step = step
  BY <1>1, Continued
<1>3. \A step, todo : ContinueFor(j, step, todo) => job'[j].step = step
  BY <1>1, ContinuedFor
<1>4. EndJob(j) => job'[j].step = "idle"
  BY <1>1, Ended DEF IdleJob
<1>5. SaveGame(j) \/ SaveVersion(j) \/ PlansEnsured(j) \/ ClearPlans(j) \/ DropFriendlySlots(j)
      => job'[j].step \notin {"saveGame", "saveVersion"}
  <2>1. PlansEnsured(j) => EndJob(j) \/ ContinueFor(j, "rebuild", PlanSides) \/ Continue(j, "readPlans")
    <3>1. JobFitsIn(game, plan, job[j])
      BY <1>1 DEF JobsFit
    <3>2. PlansEnsured(j) => job[j].route \in {"create", "reset", "sync"}
      BY <3>1, StepSets DEF JobFitsIn, PlansEnsured
    <3> QED BY <3>2 DEF PlansEnsured
  <2>2. SaveGame(j) => EndJob(j) \/ Continue(j, "readHq") \/ Continue(j, "load")
    BY DEF SaveGame
  <2> QED BY <1>2, <1>3, <1>4, <2>1, <2>2 DEF SaveVersion, ClearPlans, DropFriendlySlots
<1>6. LoadGame(j) \/ ReadHqSquads(j) \/ ReadPlans(j) => job'[j].step \notin {"saveGame", "saveVersion"}
  <2>1. LoadGame(j) => job'[j].step = "ensure"
    BY <1>1, Loads
  <2>2. ReadHqSquads(j) => job'[j].step = "setHq" \/ job'[j] = IdleJob
    BY <1>1, ReadsHq
  <2>3. ReadPlans(j) => job'[j].step = "dropFriendly" \/ job'[j].step = "sync"
    BY <1>1, ReadsPlans
  <2> QED BY <2>1, <2>2, <2>3 DEF IdleJob
<1>7. ASSUME NEW p \in PlanSides
      PROVE  CreatePlan(j, p) \/ FillPlan(j, p) \/ RebuildSlots(j, p) \/ SetHqSquad(j, p)
             \/ AddFriendlySlots(j, p) => job'[j].step \notin {"saveGame", "saveVersion"}
  BY <1>3, <1>4 DEF CreatePlan, FillPlan, RebuildSlots, SetHqSquad, AddFriendlySlots
<1>8. ASSUME NEW p \in PlanSides
      PROVE  SyncSlots(j, p) => job'[j].step \notin {"saveGame", "saveVersion"}
  BY <1>1, <1>2, <1>3, <1>4, SyncEffect
<1> QED BY <1>5, <1>6, <1>7, <1>8 DEF JobStep

\* What an update of the game was decided on stays so while nothing else changes the game.
LEMMA DecidedStill ==
  ASSUME TypesInv, SameGame, NEW j \in Jobs, DecidedOn(job[j]), job'[j] = job[j]
  PROVE  DecidedOn(job[j])'
<1>1. CASE job[j].step = "saveGame"
  <2>1. job[j].edit \in Edits /\ game # None
    BY <1>1, StepSets DEF TypesInv, JobsFit, JobFitsIn
  <2>2. game'.version = game.version /\ game'.attack = game.attack /\ game'.defense = game.defense
    BY <2>1 DEF SameGame
  <2>3. PICK e \in Edits : e = job[j].edit
    BY <2>1
  <2>4. /\ Edited(e)'.version = Edited(e).version /\ Edited(e)'.attack = Edited(e).attack
        /\ Edited(e)'.defense = Edited(e).defense
    BY <2>2, EditedFields, EditedFieldsNext
  <2>5. Edited(job[j].edit) = Edited(e) /\ Edited(job[j].edit)' = Edited(e)'
    BY <2>3 DEF Edited
  <2>6. LET next == Edited(job[j].edit)' IN
        /\ job'[j].counts /\ job'[j].route \in {"none", "hq", "sync", "reset"}
        /\ job'[j].route # "reset" =>
             /\ next.attack = game'.attack /\ next.defense = game'.defense
             /\ MissionOf[next.version] = MissionOf[game'.version]
        /\ job'[j].route \in {"none", "hq"} => next.version = game'.version
    BY <1>1, <2>2, <2>4, <2>5 DEF DecidedOn
  <2> QED BY <2>6 DEF DecidedOn
<1>2. CASE job[j].step # "saveGame"
  BY <1>2 DEF DecidedOn
<1> QED BY <1>1, <1>2

LEMMA UpdateGameDecides ==
  ASSUME TypesInv, NEW j \in Jobs, NEW e \in Edits, UpdateGameCheck(j, e) PROVE DecidedOn(job[j])'
<1> DEFINE next == Edited(e)
           reset == \/ next.attack # game.attack \/ next.defense # game.defense
                    \/ MissionOf[next.version] # MissionOf[game.version]
           hq == next.attackHq # game.attackHq \/ next.defenseHq # game.defenseHq
           route == IF reset THEN "reset"
                    ELSE IF next.version # game.version THEN "sync"
                    ELSE IF hq THEN "hq" ELSE "none"
           old == version[game.version]
           new == version[next.version]
           friendly == old.friendlyTo # new.friendlyTo \/ old.friendlyType # new.friendlyType
           call == [IdleJob EXCEPT !.step = "saveGame", !.edit = e, !.hq = hq, !.route = route,
                      !.counts = TRUE, !.previous = old.friendlyType, !.friendly = friendly]
<1>1. StartJob(j, call) /\ game' = game
  BY DEF UpdateGameCheck
<1>2. job'[j] = call
  BY <1>1, Started DEF TypesInv
<1>3. call.route = route /\ call.edit = e /\ call.counts = TRUE
  <2> HIDE DEF route, hq, friendly, old
  <2> QED BY DEF IdleJob
<1>4. /\ route \in {"none", "hq", "sync", "reset"}
      /\ route # "reset" => /\ next.attack = game.attack /\ next.defense = game.defense
                            /\ MissionOf[next.version] = MissionOf[game.version]
      /\ route \in {"none", "hq"} => next.version = game.version
  <2> HIDE DEF next, hq
  <2> QED OBVIOUS
<1> HIDE DEF call, route
<1>5. Edited(job[j].edit)' = next
  BY <1>1, <1>2, <1>3 DEF Edited
<1> HIDE DEF next
<1>6. LET after == Edited(job[j].edit)' IN
      /\ job'[j].counts /\ job'[j].route \in {"none", "hq", "sync", "reset"}
      /\ job'[j].route # "reset" =>
           /\ after.attack = game'.attack /\ after.defense = game'.defense
           /\ MissionOf[after.version] = MissionOf[game'.version]
      /\ job'[j].route \in {"none", "hq"} => after.version = game'.version
  BY <1>1, <1>2, <1>3, <1>4, <1>5
<1> QED BY <1>6 DEF DecidedOn

LEMMA DecidedNext ==
  ASSUME TypesInv, OneJob, \A j \in Jobs : DecidedOn(job[j]), [HeadquartersNext]_planVars, Alone'
  PROVE  \A j \in Jobs : DecidedOn(job[j])'
<1>1. \A j \in Jobs : job'[j].step # "saveGame" => DecidedOn(job[j])'
  BY DEF DecidedOn
<1>2. SameGame /\ job' = job => \A j \in Jobs : DecidedOn(job[j])'
  BY DecidedStill
<1>3. UNCHANGED <<game, job>> => \A j \in Jobs : DecidedOn(job[j])'
  BY <1>2 DEF SameGame
<1>4. ASSUME NEW j \in Jobs, JobStep(j) PROVE \A k \in Jobs : DecidedOn(job[k])'
  <2>1. \A k \in Jobs : job'[k].step # "saveGame"
    BY <1>4, OthersIdle, JobStepGoesOn DEF IdleJob
  <2> QED BY <1>1, <2>1
<1>5. ASSUME NEW j \in Jobs, JobStart(j) PROVE \A k \in Jobs : DecidedOn(job[k])'
  <2>1. ASSUME NEW call, StartJob(j, call)
        PROVE  Others(j) /\ job'[j] = call /\ \A k \in Jobs : job[k] = IdleJob
    BY <2>1, Started DEF TypesInv, StartJob, Alone
  <2>2. ASSUME NEW call, StartJob(j, call), call.step # "saveGame"
        PROVE  \A k \in Jobs : DecidedOn(job[k])'
    <3>1. \A k \in Jobs : job'[k].step # "saveGame"
      BY <2>1, <2>2 DEF Others, IdleJob
    <3> QED BY <1>1, <3>1
  <2>3. ASSUME NEW g \in Games, CreateGame(j, g) PROVE \A k \in Jobs : DecidedOn(job[k])'
    <3> DEFINE call == [IdleJob EXCEPT !.step = "load", !.route = "create"]
    <3>1. StartJob(j, call)
      BY <2>3 DEF CreateGame
    <3>2. call.step = "load"
      BY DEF IdleJob
    <3> HIDE DEF call
    <3> QED BY <2>2, <3>1, <3>2
  <2>4. ASSUME NEW e \in Edits, UpdateGameCheck(j, e) PROVE \A k \in Jobs : DecidedOn(job[k])'
    <3>1. \E call : StartJob(j, call)
      BY <2>4 DEF UpdateGameCheck
    <3>2. \A k \in Jobs : k # j => job'[k] = IdleJob
      BY <2>1, <3>1 DEF Others
    <3>3. \A k \in Jobs : k # j => DecidedOn(job[k])'
      BY <1>1, <3>2 DEF IdleJob
    <3>4. DecidedOn(job[j])'
      BY <2>4, UpdateGameDecides
    <3> QED BY <3>3, <3>4
  <2>5. ASSUME NEW v \in Versions, NEW c \in Contents, NEW file \in BOOLEAN,
               UpdateVersionCheck(j, v, c, file)
        PROVE  \A k \in Jobs : DecidedOn(job[k])'
    <3>1. \E new, previous, friendly :
            StartJob(j, [IdleJob EXCEPT
                        !.step = "saveVersion", !.route = "sync", !.version = v, !.content = new,
                        !.counts = file, !.previous = previous, !.friendly = friendly])
      BY <2>5 DEF UpdateVersionCheck
    <3>2. PICK new, previous, friendly :
            StartJob(j, [IdleJob EXCEPT
                        !.step = "saveVersion", !.route = "sync", !.version = v, !.content = new,
                        !.counts = file, !.previous = previous, !.friendly = friendly])
      BY <3>1
    <3> DEFINE call == [IdleJob EXCEPT
                        !.step = "saveVersion", !.route = "sync", !.version = v, !.content = new,
                        !.counts = file, !.previous = previous, !.friendly = friendly]
    <3>3. call.step = "saveVersion"
      BY DEF IdleJob
    <3>4. StartJob(j, call)
      BY <3>2
    <3> HIDE DEF call
    <3> QED BY <2>2, <3>3, <3>4
  <2> QED BY <1>5, <2>3, <2>4, <2>5 DEF JobStart
<1>6. ASSUME NEW a \in Asks, AskStep(a) \/ AskStart(a) PROVE \A k \in Jobs : DecidedOn(job[k])'
  <2>1. AskStep(a) => UNCHANGED <<game, job>>
    BY DEF AskStep, AssignHqSquad, AssignCommander, UnassignHqSquad, UnassignCommander, UpdateSlot
  <2>2. AskStart(a) => UNCHANGED <<game, job>>
    BY AskStarted DEF StartAsk, TypesInv
  <2> QED BY <1>3, <1>6, <2>1, <2>2
<1>7. DeleteGame \/ CrashJobs => \A k \in Jobs : job'[k].step # "saveGame"
  BY DEF DeleteGame, CrashJobs, IdleJob
<1>8. UNCHANGED planVars \/ (\E u \in Players, q \in Squads \union {None} : MoveOfficer(u, q))
      => UNCHANGED <<game, job>>
  BY DEF planVars, MoveOfficer
<1>9. ASSUME NEW q \in Squads, DeleteSquad(q) PROVE SameGame /\ job' = job
  BY <1>9, DeleteSquadGame DEF DeleteSquad
<1> QED BY <1>1, <1>2, <1>3, <1>4, <1>5, <1>6, <1>7, <1>8, <1>9 DEF HeadquartersNext

\* Nothing is left of a reset, and none is under way.
NoReset == "plans" \notin lapsed /\ \A j \in Jobs : ~Resetting(job[j])

\* Commanders that stay, or are appointed by who asked to; requests that stay,
\* are marked or made for the game as it is.
RowsOfGame == \A p \in PlanSides :
  \/ plan'[p].commander = None \/ plan'[p].detached
  \/ plan'[p].commander = plan[p].commander /\ plan'[p].era = plan[p].era /\ ~plan[p].detached
  \/ \E a \in Asks : ask[a].step = "appoint" /\ ~ask[a].late /\ plan'[p].era = ask[a].era
AsksOfGame == \A a \in Asks :
  \/ ask'[a].step # "appoint" \/ ask'[a].late \/ ask'[a].era = Era
  \/ ask[a].step = "appoint" /\ ~ask[a].late /\ ask'[a].era = ask[a].era

LEMMA OfGameStill ==
  ASSUME OfThisGame, Era' = Era, NoReset' => NoReset, RowsOfGame, AsksOfGame PROVE OfThisGame'
<1> SUFFICES ASSUME NoReset'
             PROVE  /\ \A p \in PlanSides :
                         plan'[p].commander # None /\ ~plan'[p].detached => plan'[p].era = Era
                    /\ \A a \in Asks :
                         ask'[a].step = "appoint" /\ ~ask'[a].late => ask'[a].era = Era
  BY DEF OfThisGame, NoReset
<1>1. /\ \A p \in PlanSides : plan[p].commander # None /\ ~plan[p].detached => plan[p].era = Era
      /\ \A a \in Asks : ask[a].step = "appoint" /\ ~ask[a].late => ask[a].era = Era
  BY DEF OfThisGame, NoReset
<1> QED BY <1>1 DEF RowsOfGame, AsksOfGame

LEMMA SameRowsOfGame == ASSUME Records, plan' = plan PROVE RowsOfGame
  BY DEF Records, IsPlan, RowsOfGame

LEMMA SameAsksOfGame ==
  ASSUME Records, \A a \in Asks : ask'[a] \in {ask[a], AsksAfter[a], NoAsk} PROVE AsksOfGame
<1>1. ASSUME NEW a \in Asks
      PROVE  /\ AsksAfter[a].step = ask[a].step /\ AsksAfter[a].era = ask[a].era
             /\ AsksAfter[a].late \/ AsksAfter[a].late = ask[a].late
    BY DEF AsksAfter, Records, IsAsk
<1>2. NoAsk.step # "appoint"
  BY DEF NoAsk
<1>3. \A a \in Asks : ask[a].late \in BOOLEAN
  BY DEF Records, IsAsk
<1> QED BY <1>1, <1>2, <1>3 DEF AsksOfGame

\* A reset goes on until the commanders are cleared, or is known to be left undone.
LEMMA ResetGoesOn ==
  ASSUME TypesInv, NEW j \in Jobs, JobStep(j), ~ClearPlans(j)
  PROVE  /\ Resetting(job[j]) => Resetting(job'[j]) \/ "plans" \in lapsed'
         /\ "plans" \in lapsed => "plans" \in lapsed'
<1>1. JobsFit /\ SlotsFit
  BY DEF TypesInv
<1>2. JobFitsIn(game, plan, job[j])
  BY <1>1 DEF JobsFit
<1>3. \A step : Continue(j, step) => job'[j].step = step /\ job'[j].route = job[j].route
  BY <1>1, Continued DEF Keeps
<1>4. \A step, todo : ContinueFor(j, step, todo) => job'[j].step = step /\ job'[j].route = job[j].route
  BY <1>1, ContinuedFor DEF Keeps
<1>5. CASE LoadGame(j)
  <2>1. job'[j].step = "ensure" /\ job'[j].route = job[j].route
    BY <1>1, <1>5, Loads
  <2> QED BY <1>5, <2>1 DEF LoadGame, Resetting
<1>6. CASE PlansEnsured(j)
  BY <1>3, <1>4, <1>6 DEF PlansEnsured, Resetting
<1>7. CASE SaveGame(j) \/ SaveVersion(j) \/ ReadHqSquads(j) \/ ReadPlans(j) \/ DropFriendlySlots(j)
  <2>1. job[j].step \in {"saveGame", "saveVersion", "readHq", "readPlans", "dropFriendly"}
    BY <1>7 DEF SaveGame, SaveVersion, ReadHqSquads, ReadPlans, DropFriendlySlots
  <2>2. "plans" \in lapsed => "plans" \in lapsed'
    BY <1>7 DEF SaveGame, SaveVersion, ReadHqSquads, ReadPlans, DropFriendlySlots
  <2> QED BY <2>1, <2>2 DEF Resetting
<1>8. ASSUME NEW p \in PlanSides, CreatePlan(j, p) PROVE
        /\ Resetting(job[j]) => Resetting(job'[j]) \/ "plans" \in lapsed'
        /\ "plans" \in lapsed => "plans" \in lapsed'
  <2>1. CASE ContinueFor(j, "fill", {p}) /\ UNCHANGED lapsed
    BY <1>4, <2>1 DEF Resetting
  <2>2. CASE lapsed' = lapsed \union LeftUndone(j) /\ job[j].step = "ensure"
    BY <2>2 DEF LeftUndone, Resetting
  <2> QED BY <1>8, <2>1, <2>2 DEF CreatePlan
<1>9. ASSUME NEW p \in PlanSides, FillPlan(j, p) \/ RebuildSlots(j, p) PROVE
        /\ Resetting(job[j]) => Resetting(job'[j]) \/ "plans" \in lapsed'
        /\ "plans" \in lapsed => "plans" \in lapsed'
  <2>1. /\ lapsed' = lapsed /\ job'[j].route = job[j].route
        /\ job'[j].step \in {"ensure", "clear", "rebuild"}
    BY <1>4, <1>9 DEF FillPlan, RebuildSlots
  <2> QED BY <2>1 DEF Resetting
<1>10. ASSUME NEW p \in PlanSides, SetHqSquad(j, p) \/ AddFriendlySlots(j, p) \/ SyncSlots(j, p)
       PROVE  /\ ~Resetting(job[j])
              /\ "plans" \in lapsed => "plans" \in lapsed'
  <2>1. job[j].step \in {"setHq", "addFriendly", "sync"}
    BY <1>10 DEF SetHqSquad, AddFriendlySlots, SyncSlots
  <2>2. "plans" \in lapsed => "plans" \in lapsed'
    <3>1. SyncSlots(j, p) => ("plans" \in lapsed => "plans" \in lapsed')
      BY <1>1, SyncEffect
    <3> QED BY <1>10, <3>1 DEF SetHqSquad, AddFriendlySlots
  <2> QED BY <2>1, <2>2 DEF Resetting
<1> QED BY <1>5, <1>6, <1>7, <1>8, <1>9, <1>10 DEF JobStep

LEMMA ClearPlansOfGame ==
  ASSUME TypesInv, NEW j \in Jobs, ClearPlans(j) PROVE OfThisGame'
<1>1. /\ \A p \in PlanSides : plan'[p] = [NoPlan EXCEPT !.exists = TRUE]
      /\ ask' = AsksAfter
  BY DEF ClearPlans
<1>2. \A p \in PlanSides : plan'[p].commander = None /\ plan'[p].hq = None
  BY <1>1 DEF NoPlan
<1>3. ASSUME NEW a \in Asks, ask'[a].step = "appoint", ~ask'[a].late PROVE FALSE
  <2>1. IsAsk(ask[a]) /\ SeenIn(plan, ask[a])
    BY DEF TypesInv, CommandInv, Records, Seen
  <2>2. ask'[a] = AsksAfter[a]
    BY <1>1
  <2>3. ask[a].step = "appoint"
    BY <1>3, <2>1, <2>2 DEF AsksAfter, IsAsk
  <2>4. ask[a].side \in PlanSides
    BY <2>1, <2>3 DEF IsAsk
  <2>5. CASE plan'[ask[a].side].hq # plan[ask[a].side].hq
    BY <1>3, <2>1, <2>2, <2>3, <2>5 DEF AsksAfter, IsAsk
  <2>6. CASE plan'[ask[a].side].hq = plan[ask[a].side].hq
    <3>1. AsksAfter[a] = ask[a]
      BY <2>6 DEF AsksAfter
    <3>2. plan[ask[a].side].hq = ask[a].squad /\ ask[a].squad # None
      BY <1>3, <2>1, <2>2, <2>3, <3>1 DEF SeenIn
    <3> QED BY <1>2, <2>4, <2>6, <3>2
  <2> QED BY <2>5, <2>6
<1> QED BY <1>2, <1>3 DEF OfThisGame

\* A change of the game that is no reset keeps its sides and its mission.
LEMMA SaveGameEra ==
  ASSUME TypesInv, NEW j \in Jobs, SaveGame(j), DecidedOn(job[j])
  PROVE  Era' = Era \/ Resetting(job'[j])
<1>1. JobsFit /\ job[j].step = "saveGame"
  BY DEF TypesInv, SaveGame
<1>2. job[j].edit \in Edits /\ game # None
  BY <1>1, StepSets DEF JobsFit, JobFitsIn
<1>3. CASE game' = game
  BY <1>3 DEF Era
<1>4. CASE /\ {job[j].edit.attackHq, job[j].edit.defenseHq} \intersect disbanded = {}
           /\ game' = Edited(job[j].edit)
  <2>1. CASE job[j].route = "reset"
    <3>1. Continue(j, "load")
      BY <1>4, <2>1 DEF SaveGame
    <3> QED BY <1>1, <2>1, <3>1, Continued DEF Keeps, Resetting
  <2>2. CASE job[j].route # "reset"
    <3>1. /\ game'.attack = game.attack /\ game'.defense = game.defense
          /\ MissionOf[game'.version] = MissionOf[game.version]
      BY <1>1, <1>4, <2>2 DEF DecidedOn
    <3>2. game' # None
      <4>1. game' \in GameRows
        BY <1>2, <1>4, EditedGame DEF TypesInv
      <4> QED BY <4>1, HeadquartersAssumption
    <3> QED BY <1>2, <3>1, <3>2 DEF Era
  <2> QED BY <2>1, <2>2
<1> QED BY <1>3, <1>4 DEF SaveGame

LEMMA JobStepRows ==
  ASSUME TypesInv, NEW j \in Jobs, JobStep(j), ~ClearPlans(j)
  PROVE  RowsOfGame /\ AsksOfGame
<1>1. Records
  BY DEF TypesInv, CommandInv
<1>2. UNCHANGED <<plan, ask>> => RowsOfGame /\ AsksOfGame
  BY <1>1, SameRowsOfGame, SameAsksOfGame
<1>3. ASSUME NEW p \in PlanSides, NEW hq, plan' = [plan EXCEPT ![p] = [NoPlan EXCEPT !.exists = TRUE, !.hq = hq]],
             ask' = ask \/ ask' = AsksAfter
      PROVE  RowsOfGame /\ AsksOfGame
  <2>1. \A q \in PlanSides : plan'[q].commander = None \/ plan'[q] = plan[q]
    BY <1>1, <1>3 DEF Records, NoPlan
  <2>2. RowsOfGame
    BY <1>1, <2>1 DEF RowsOfGame, Records, IsPlan
  <2> QED BY <1>1, <1>3, <2>2, SameAsksOfGame
<1>4. ASSUME NEW p \in PlanSides, CreatePlan(j, p) \/ SetHqSquad(j, p) PROVE RowsOfGame /\ AsksOfGame
  BY <1>2, <1>3, <1>4 DEF CreatePlan, SetHqSquad
<1>5. ASSUME NEW p \in PlanSides,
             FillPlan(j, p) \/ RebuildSlots(j, p) \/ AddFriendlySlots(j, p) \/ SyncSlots(j, p)
      PROVE  UNCHANGED <<plan, ask>>
  BY <1>5 DEF FillPlan, RebuildSlots, AddFriendlySlots, SyncSlots
<1>6. SaveGame(j) \/ SaveVersion(j) \/ LoadGame(j) \/ PlansEnsured(j) \/ ReadHqSquads(j)
      \/ ReadPlans(j) \/ DropFriendlySlots(j) => UNCHANGED <<plan, ask>>
  BY DEF SaveGame, SaveVersion, LoadGame, PlansEnsured, ReadHqSquads, ReadPlans, DropFriendlySlots
<1> QED BY <1>2, <1>4, <1>5, <1>6 DEF JobStep

LEMMA JobStepOfGame ==
  ASSUME TypesInv, OneJob, OfThisGame, NEW j \in Jobs, DecidedOn(job[j]), JobStep(j)
  PROVE  OfThisGame'
<1>1. CASE ClearPlans(j)
  BY <1>1, ClearPlansOfGame
<1>2. CASE ~ClearPlans(j)
  <2>1. NoReset' => NoReset
    <3>1. \A k \in Jobs : k # j => ~Resetting(job[k])
      BY OthersIdle DEF Resetting, IdleJob
    <3> QED BY <1>2, <3>1, ResetGoesOn DEF NoReset, Resetting
  <2>2. RowsOfGame /\ AsksOfGame
    BY <1>2, JobStepRows
  <2>3. Era' = Era \/ ~NoReset'
    <3>1. SaveGame(j) => Era' = Era \/ ~NoReset'
      BY SaveGameEra DEF NoReset, Resetting
    <3>2. game' = game => Era' = Era
      BY DEF Era
    <3>3. SaveGame(j) \/ game' = game
      BY DEF JobStep, SaveVersion, LoadGame, PlansEnsured, ClearPlans, ReadHqSquads, ReadPlans,
             DropFriendlySlots, CreatePlan, FillPlan, RebuildSlots, SetHqSquad, AddFriendlySlots, SyncSlots
    <3> QED BY <3>1, <3>2, <3>3
  <2>4. ~NoReset' => OfThisGame'
    BY DEF NoReset, OfThisGame
  <2> QED BY <2>1, <2>2, <2>3, <2>4, OfGameStill
<1> QED BY <1>1, <1>2

LEMMA AskStepOfGame ==
  ASSUME TypesInv, OfThisGame, NEW a \in Asks, AskStep(a) PROVE OfThisGame'
<1>1. ask[a].step \in {"appoint", "takeHq", "dropHq", "dismiss"} => ask[a].side \in PlanSides
  BY DEF TypesInv, CommandInv, Records, IsAsk
<1>2. UNCHANGED <<game, job, lapsed>>
  BY DEF AskStep, AssignHqSquad, AssignCommander, UnassignHqSquad, UnassignCommander, UpdateSlot
<1>3. \A b \in Asks : ask'[b] \in {ask[b], AsksAfter[b], NoAsk}
  <2>1. ask' = [AsksAfter EXCEPT ![a] = NoAsk] \/ ask' = [ask EXCEPT ![a] = NoAsk]
    BY DEF AskStep, AssignHqSquad, AssignCommander, UnassignHqSquad, UnassignCommander, UpdateSlot
  <2>2. ask = [b \in Asks |-> ask[b]] /\ AsksAfter = [b \in Asks |-> AsksAfter[b]]
    <3>1. ask = [b \in Asks |-> ask[b]]
      BY DEF TypesInv, CommandInv, Records
    <3> QED BY <3>1 DEF AsksAfter
  <2> QED BY <2>1, <2>2
<1>4. RowsOfGame
  <2>1. Records
    BY DEF TypesInv, CommandInv
  <2>2. \A p \in PlanSides : plan'[p] = plan[p] =>
          \/ plan'[p].detached
          \/ /\ plan'[p].commander = plan[p].commander /\ plan'[p].era = plan[p].era
             /\ ~plan[p].detached
    BY <2>1 DEF Records, IsPlan
  <2>3. CASE AssignHqSquad(a)
    <3> DEFINE p == ask[a].side
    <3>1. CASE plan' = plan
      BY <2>1, <3>1, SameRowsOfGame
    <3>2. CASE plan' = [plan EXCEPT ![p].hq = ask[a].squad,
                                    ![p].detached = \/ plan[p].detached
                                                    \/ ask[a].late /\ plan[p].commander # None]
      <4>1. p \in PlanSides
        BY <1>1, <2>3 DEF AssignHqSquad
      <4>2. \A q \in PlanSides : q # p => plan'[q] = plan[q]
        BY <2>1, <3>2 DEF Records
      <4>3. /\ plan'[p].commander = plan[p].commander /\ plan'[p].era = plan[p].era
            /\ plan[p].detached => plan'[p].detached
        BY <2>1, <3>2, <4>1 DEF Records, IsPlan
      <4>4. plan'[p].detached \/ ~plan[p].detached
        BY <4>3
      <4> QED BY <2>2, <4>2, <4>3, <4>4 DEF RowsOfGame
    <3> QED BY <2>3, <3>1, <3>2 DEF AssignHqSquad
  <2>4. CASE AssignCommander(a)
    <3> DEFINE p == ask[a].side
    <3>1. p \in PlanSides /\ ask[a].step = "appoint"
      BY <1>1, <2>4 DEF AssignCommander
    <3>2. plan' = [plan EXCEPT ![p].commander = ask[a].user, ![p].from = ask[a].squad,
                               ![p].era = ask[a].era, ![p].detached = ask[a].late]
      BY <2>4 DEF AssignCommander
    <3>3. \A q \in PlanSides : q # p => plan'[q] = plan[q]
      BY <2>1, <3>2 DEF Records
    <3>4. plan'[p].era = ask[a].era /\ plan'[p].detached = ask[a].late
      BY <2>1, <3>1, <3>2 DEF Records, IsPlan
    <3>5. plan'[p].detached \/ (ask[a].step = "appoint" /\ ~ask[a].late /\ plan'[p].era = ask[a].era)
      BY <3>1, <3>4
    <3> QED BY <2>2, <3>3, <3>5 DEF RowsOfGame
  <2>5. CASE \/ plan' = [plan EXCEPT ![ask[a].side] = [NoPlan EXCEPT !.exists = TRUE]]
             \/ plan' = [plan EXCEPT ![ask[a].side] =
                           [NoPlan EXCEPT !.exists = TRUE, !.hq = plan[ask[a].side].hq]]
    <3>1. \A q \in PlanSides : plan'[q].commander = None \/ plan'[q] = plan[q]
      BY <2>1, <2>5 DEF Records, NoPlan
    <3> QED BY <2>2, <3>1 DEF RowsOfGame
  <2>6. CASE UpdateSlot(a)
    BY <2>1, <2>6, SameRowsOfGame DEF UpdateSlot
  <2>7. UnassignHqSquad(a) \/ UnassignCommander(a) =>
          \/ plan' = [plan EXCEPT ![ask[a].side] = [NoPlan EXCEPT !.exists = TRUE]]
          \/ plan' = [plan EXCEPT ![ask[a].side] =
                        [NoPlan EXCEPT !.exists = TRUE, !.hq = plan[ask[a].side].hq]]
    BY DEF UnassignHqSquad, UnassignCommander
  <2> QED BY <2>3, <2>4, <2>5, <2>6, <2>7 DEF AskStep
<1>5. AsksOfGame
  BY <1>3, SameAsksOfGame DEF TypesInv, CommandInv
<1>6. Era' = Era /\ (NoReset' => NoReset)
  BY <1>2 DEF Era, NoReset, Resetting
<1> QED BY <1>4, <1>5, <1>6, OfGameStill

LEMMA AskStartOfGame ==
  ASSUME TypesInv, OfThisGame, NEW a \in Asks, AskStart(a) PROVE OfThisGame'
<1>1. Records
  BY DEF TypesInv, CommandInv
<1>2. PICK r : StartAsk(a, r) /\ AskFits(r) /\ (r.step = "appoint" => r.era = Era)
  BY AskStarted DEF TypesInv
<1>3. UNCHANGED <<game, plan, job, lapsed>> /\ ask' = [ask EXCEPT ![a] = r]
  BY <1>2 DEF StartAsk
<1>4. RowsOfGame
  BY <1>1, <1>3, SameRowsOfGame
<1>5. AsksOfGame
  <2>1. \A b \in Asks : ask'[b] = r \/ ask'[b] = ask[b]
    BY <1>1, <1>3 DEF Records
  <2>2. \A b \in Asks : ask[b].late \in BOOLEAN
    BY <1>1 DEF Records, IsAsk
  <2> QED BY <1>2, <2>1, <2>2 DEF AsksOfGame
<1>6. Era' = Era /\ (NoReset' => NoReset)
  BY <1>3 DEF Era, NoReset, Resetting
<1> QED BY <1>4, <1>5, <1>6, OfGameStill

LEMMA NobodyOfGame ==
  ASSUME \A p \in PlanSides : plan'[p].commander = None, \A a \in Asks : ask'[a] = NoAsk
  PROVE  OfThisGame'
  BY DEF OfThisGame, NoAsk

LEMMA JobStartOfGame ==
  ASSUME TypesInv, NoGame, OfThisGame, NEW j \in Jobs, JobStart(j) PROVE OfThisGame'
<1>1. CASE \E g \in Games : CreateGame(j, g)
  <2>1. game = None /\ UNCHANGED <<plan, ask>>
    BY <1>1 DEF CreateGame
  <2>2. \A p \in PlanSides : plan'[p] = NoPlan
    BY <2>1 DEF NoGame, TypesInv, PlansFit
  <2>3. \A a \in Asks : ask'[a] = NoAsk
    BY <2>1 DEF NoGame
  <2> QED BY <2>2, <2>3, NobodyOfGame DEF NoPlan
<1>2. CASE UNCHANGED <<game, plan, ask>> /\ \E call : StartJob(j, call)
  <2>1. PICK call : StartJob(j, call)
    BY <1>2
  <2>2. Others(j) /\ job[j] = IdleJob
    BY <2>1, Started DEF TypesInv
  <2>3. lapsed \subseteq lapsed'
    BY <2>1 DEF StartJob
  <2>4. NoReset' => NoReset
    <3>1. ~Resetting(job[j])
      BY <2>2 DEF Resetting, IdleJob
    <3>2. \A k \in Jobs : k # j => job'[k] = job[k]
      BY <2>2 DEF Others
    <3> QED BY <2>3, <3>1, <3>2 DEF NoReset, Resetting
  <2>5. RowsOfGame
    BY <1>2, SameRowsOfGame DEF TypesInv, CommandInv
  <2>6. AsksOfGame
    BY <1>2, SameAsksOfGame DEF TypesInv, CommandInv
  <2>7. Era' = Era
    BY <1>2 DEF Era
  <2> QED BY <2>4, <2>5, <2>6, <2>7, OfGameStill
<1>3. (\E e \in Edits : UpdateGameCheck(j, e)) => UNCHANGED <<game, plan, ask>> /\ \E call : StartJob(j, call)
  BY DEF UpdateGameCheck
<1>4. (\E v \in Versions, c \in Contents, file \in BOOLEAN : UpdateVersionCheck(j, v, c, file))
      => UNCHANGED <<game, plan, ask>> /\ \E call : StartJob(j, call)
  BY DEF UpdateVersionCheck
<1> QED BY <1>1, <1>2, <1>3, <1>4 DEF JobStart

LEMMA DeleteSquadOfGame ==
  ASSUME TypesInv, OfThisGame, NEW q \in Squads, DeleteSquad(q) PROVE OfThisGame'
<1>1. Era' = Era
  BY DeleteSquadGame, EraStays
<1>2. UNCHANGED <<job, lapsed>> /\ ask' = AsksAfter
  BY DEF DeleteSquad
<1>3. NoReset' => NoReset
  BY <1>2 DEF NoReset, Resetting
<1>4. AsksOfGame
  BY <1>2, SameAsksOfGame DEF TypesInv, CommandInv
<1>5. ASSUME NEW p \in PlanSides
      PROVE  /\ plan'[p].commander = plan[p].commander /\ plan'[p].era = plan[p].era
             /\ plan'[p].detached \/ ~plan[p].detached
  <2>1. IsPlan(plan[p])
    BY DEF TypesInv, CommandInv, Records
  <2>2. CASE plan'[p] = plan[p]
    BY <2>1, <2>2 DEF IsPlan
  <2>3. CASE plan'[p] = [plan[p] EXCEPT !.hq = None,
                           !.detached = plan[p].detached \/ plan[p].commander # None]
    BY <2>1, <2>3 DEF IsPlan
  <2> QED BY <2>2, <2>3 DEF DeleteSquad
<1>6. RowsOfGame
  BY <1>5 DEF RowsOfGame
<1> QED BY <1>1, <1>3, <1>4, <1>6, OfGameStill

LEMMA CrashOfGame == ASSUME TypesInv, OfThisGame, CrashJobs PROVE OfThisGame'
<1>1. UNCHANGED <<game, plan>> /\ \A a \in Asks : ask'[a] = NoAsk
  BY DEF CrashJobs
<1>2. NoReset' => NoReset
  <2>1. \A j \in Jobs : Resetting(job[j]) => "plans" \in LeftUndone(j)
    BY DEF Resetting, LeftUndone
  <2>2. /\ lapsed \subseteq lapsed'
        /\ \A j \in Jobs : LeftUndone(j) \subseteq lapsed'
    BY DEF CrashJobs
  <2> QED BY <2>1, <2>2 DEF NoReset
<1>3. RowsOfGame
  BY <1>1, SameRowsOfGame DEF TypesInv, CommandInv
<1>4. AsksOfGame
  BY <1>1, SameAsksOfGame DEF TypesInv, CommandInv
<1>5. Era' = Era
  BY <1>1 DEF Era
<1> QED BY <1>2, <1>3, <1>4, <1>5, OfGameStill

LEMMA EraInvNext ==
  ASSUME TypesInv, NoGame, EraInv, [HeadquartersNext]_planVars PROVE EraInv'
<1> SUFFICES ASSUME Alone' PROVE (OneJob /\ (\A j \in Jobs : DecidedOn(job[j])) /\ OfThisGame)'
  BY DEF EraInv
<1>1. OneJob /\ (\A j \in Jobs : DecidedOn(job[j])) /\ OfThisGame
  BY OverlapStays DEF EraInv
<1>2. OneJob' /\ \A j \in Jobs : DecidedOn(job[j])'
  BY <1>1, OneJobNext, DecidedNext
<1>3. OfThisGame'
  <2>1. ASSUME NEW j \in Jobs, JobStep(j) \/ JobStart(j) PROVE OfThisGame'
    BY <1>1, <2>1, JobStepOfGame, JobStartOfGame
  <2>2. ASSUME NEW a \in Asks, AskStep(a) \/ AskStart(a) PROVE OfThisGame'
    BY <1>1, <2>2, AskStepOfGame, AskStartOfGame
  <2>3. CASE DeleteGame
    BY <2>3, NobodyOfGame DEF DeleteGame, NoPlan
  <2>4. CASE UNCHANGED planVars \/ \E u \in Players, q \in Squads \union {None} : MoveOfficer(u, q)
    <3>1. UNCHANGED <<game, plan, ask, job, lapsed>>
      BY <2>4 DEF planVars, MoveOfficer
    <3> QED BY <1>1, <3>1 DEF OfThisGame, Era, Resetting
  <2>5. ASSUME NEW q \in Squads, DeleteSquad(q) PROVE OfThisGame'
    BY <1>1, <2>5, DeleteSquadOfGame
  <2>6. CASE CrashJobs
    BY <1>1, <2>6, CrashOfGame
  <2> QED BY <2>1, <2>2, <2>3, <2>4, <2>5, <2>6 DEF HeadquartersNext
<1> QED BY <1>2, <1>3

LEMMA EraInvImplies == ASSUME EraInv PROVE CommanderIsOfThisGame
<1> SUFFICES ASSUME NEW p \in PlanSides, plan[p].commander # None, ~plan[p].detached,
                    lapsed \intersect {"plans", "overlap"} = {}
             PROVE  \/ plan[p].era = Era
                    \/ \E j \in Jobs : job[j].route = "reset"
                                       /\ job[j].step \notin {"saveGame", "readHq", "setHq"}
  BY DEF CommanderIsOfThisGame
<1>1. OfThisGame /\ "plans" \notin lapsed
  BY DEF EraInv, Alone
<1> QED BY <1>1 DEF OfThisGame, Resetting

LEMMA EraInvInit == ASSUME HeadquartersInit PROVE NoGame /\ EraInv
<1>1. \A p \in PlanSides : plan[p] = NoPlan
  BY DEF HeadquartersInit
<1>2. \A a \in Asks : ask[a] = NoAsk
  BY DEF HeadquartersInit
<1>3. \A j \in Jobs : job[j] = IdleJob
  BY DEF HeadquartersInit
<1>4. NoGame
  BY <1>1, <1>2 DEF NoGame, NoPlan
<1>5. OneJob /\ \A j \in Jobs : DecidedOn(job[j])
  <2>1. \A j \in Jobs : job[j].step # "saveGame"
    BY <1>3 DEF IdleJob
  <2> QED BY <1>3, <2>1 DEF OneJob, DecidedOn
<1>6. OfThisGame
  BY <1>1, <1>2 DEF OfThisGame, NoPlan, NoAsk
<1> QED BY <1>4, <1>5, <1>6 DEF EraInv

LEMMA EraHolds == HeadquartersSpec => [](TypesInv /\ NoGame /\ EraInv)
<1>1. HeadquartersInit => TypesInv /\ NoGame /\ EraInv
  BY InitTypes, EraInvInit
<1>2. TypesInv /\ NoGame /\ EraInv /\ [HeadquartersNext]_planVars => (TypesInv /\ NoGame /\ EraInv)'
  BY TypesNext, NoGameNext, EraInvNext
<1> QED BY <1>1, <1>2, PTL DEF HeadquartersSpec

\* A commander who was not overtaken is of the sides and the mission that the
\* game has now, unless the reset that removes him is on its way or was cut
\* short: for any number of players' requests, as long as organisers' requests
\* do not overlap.
THEOREM CommanderOfThisGame == HeadquartersSpec => []CommanderIsOfThisGame
<1>1. TypesInv /\ NoGame /\ EraInv => CommanderIsOfThisGame
  BY EraInvImplies
<1> QED BY <1>1, EraHolds, PTL

-----------------------------------------------------------------------------
(* The slots while a request brings them in line with the version. *)

Ids == {Id(s) : s \in slots}

\* What the slots have to do with: all but HQ squads and commanders.
View ==
  [ids |-> Ids, there |-> {p \in PlanSides : plan[p].exists},
   game |-> IF game = None THEN None ELSE [game EXCEPT !.attackHq = None, !.defenseHq = None],
   version |-> version, lapsed |-> lapsed]

At(ids, p) == {i \in ids : i.side = p}
Have(w, p) == KeysOf(At(w.ids, p))
Want(w, p) == KeysOf(SlotRows(w.game, w.version[w.game.version], p))
Matches(w, p) == p \in w.there /\ Have(w, p) = Want(w, p)

Within(keys, T) == {k \in keys : k[2] \in T}
Without(keys, T) == {k \in keys : k[2] \notin T}

\* No two slots of a plan are of one callsign and type.
Distinct(ids) == \A i, k \in ids : i.side = k.side /\ Key(i) = Key(k) => i = k

\* FriendlyTypes and Promoted, of a request r.
FriendlyOf(r) == IF r.friendly THEN {r.previous, r.content.friendlyType} \ {None} ELSE {}
IsPromoted(r) == {r.content.attackType, r.content.defenseType} \intersect FriendlyOf(r) # {}

\* What was read of the game is so.
AsRead(w, r) == r.step \in Loaded =>
  /\ w.game # None /\ r.content = w.version[w.game.version]
  /\ r.game.attack = w.game.attack /\ r.game.defense = w.game.defense

\* The rows that will be compared are those there are.
Compared(r, p) == {s \in r.rows : s.side = p /\ s.type \notin FriendlyOf(r)}
RowsRead(w, r) ==
  /\ r.step \in {"dropFriendly", "addFriendly", "sync"} =>
       /\ \A s, t \in r.rows : Id(s) = Id(t) => s = t
       /\ \A p \in PlanSides : (r.step = "sync" => p \in r.todo) =>
            {i \in At(w.ids, p) : i.type \notin FriendlyOf(r)} = {Id(s) : s \in Compared(r, p)}
  /\ r.step = "dropFriendly" => r.todo = PlanSides
  /\ r.step \in {"dropFriendly", "addFriendly"} => r.friendly

\* Without a file a version keeps its slots; what follows is of the friendly side.
NoFile(w, r) == ~r.counts /\ r.route = "sync" =>
  /\ r.step = "saveVersion" =>
       LET old == w.version[r.version] IN
       /\ r.content.attackSlots = old.attackSlots
       /\ r.content.defenseSlots = old.defenseSlots
       /\ r.previous = old.friendlyType
       /\ r.friendly = (\/ old.friendlyTo # r.content.friendlyTo
                        \/ old.friendlyType # r.content.friendlyType)
  /\ r.step = "load" => r.content = w.version[w.game.version]
  /\ r.step \in {"load", "ensure", "fill"} \union Syncing => FriendlyOf(r) # {}
  /\ r.step \in {"load", "ensure", "fill"} \union Syncing /\ "slots" \notin w.lapsed =>
       \A p \in PlanSides :
         p \in w.there /\ Without(Have(w, p), FriendlyOf(r)) = Without(Want(w, p), FriendlyOf(r))

\* Plans are created with their slots, or have them rebuilt, side by side.
SideBySide(w, r) ==
  /\ r.step = "fill" => \A p \in r.todo : Have(w, p) = {}
  /\ r.route = "create" /\ r.step \in {"load", "ensure", "fill"} /\ "slots" \notin w.lapsed =>
       \A p \in w.there : (r.step = "fill" => p \notin r.todo) => Matches(w, p)
  /\ r.step = "rebuild" => \A p \in PlanSides \ r.todo : Matches(w, p)
  /\ r.step = "clear" => \A p \in PlanSides : Matches(w, p)

\* Before its first write, and after the last on the slots, a request leaves them alone.
Undisturbed(w, r) ==
  r.step \in Saving \union {"readHq", "setHq"} /\ r # IdleJob /\ w.game # None
  /\ "slots" \notin w.lapsed => \A p \in PlanSides : Matches(w, p)

\* syncGamePlanSlotsForGame: the rows of the friendly sides first, then the others.
InTwoParts(w, r) ==
  LET T == FriendlyOf(r) IN
  /\ r.step = "addFriendly" => \A p \in PlanSides :
       /\ p \in r.todo => Within(Have(w, p), T) = {}
       /\ p \notin r.todo /\ ~IsPromoted(r) => Within(Have(w, p), T) = Within(Want(w, p), T)
  /\ r.step = "sync" =>
       /\ r.counts
       /\ \A p \in PlanSides \ r.todo : Without(Have(w, p), T) = Without(Want(w, p), T)
       /\ ~IsPromoted(r) => \A p \in PlanSides : Within(Have(w, p), T) = Within(Want(w, p), T)
  /\ r.step \in {"addFriendly", "sync"} /\ IsPromoted(r) => "slots" \in w.lapsed

Line(w, r) ==
  /\ AsRead(w, r) /\ RowsRead(w, r) /\ NoFile(w, r)
  /\ SideBySide(w, r) /\ Undisturbed(w, r) /\ InTwoParts(w, r)

Settled(w) == w.game # None /\ "slots" \notin w.lapsed => \A p \in PlanSides : Matches(w, p)

SlotsInv == Alone =>
  /\ Distinct(Ids)
  /\ (\A j \in Jobs : job[j] = IdleJob) => Settled(View)
  /\ \A j \in Jobs : Line(View, job[j])

LEMMA KeyParts == \A i : Key(i)[2] = i.type
  BY DEF Key

LEMMA KeyOfId ==
  \A s : Key(Id(s)) = Key(s) /\ Id(s).side = s.side /\ Id(s).type = s.type
  BY DEF Id, Key

LEMMA HaveKeys ==
  ASSUME NEW ids, NEW p, NEW k
  PROVE  k \in KeysOf(At(ids, p)) <=> \E i \in ids : i.side = p /\ Key(i) = k
  BY DEF KeysOf, At

LEMMA SlotRowsOf ==
  ASSUME NEW g, NEW h, g.attack = h.attack, g.defense = h.defense, NEW c, NEW p
  PROVE  SlotRows(g, c, p) = SlotRows(h, c, p)
  BY DEF SlotRows, PrimaryType, PrimarySlots

\* Ids of one plan, of the given keys, one each.
Named(p, keys, N) ==
  /\ \A i \in N : i.side = p
  /\ KeysOf(N) = keys
  /\ \A i, k \in N : Key(i) = Key(k) => i = k

LEMMA MadeIds ==
  ASSUME NEW p, NEW rows, NEW new, MadeOf(p, rows, new)
  PROVE  Named(p, KeysOf(rows), {Id(s) : s \in new})
<1> DEFINE N == {Id(s) : s \in new}
<1>1. \A i \in N : i.side = p
  BY KeyOfId DEF MadeOf
<1>2. KeysOf(N) = KeysOf(rows)
  <2>1. \A k \in KeysOf(N) : k \in KeysOf(rows)
    BY KeyOfId DEF MadeOf, KeysOf
  <2>2. \A k \in KeysOf(rows) : k \in KeysOf(N)
    BY KeyOfId DEF MadeOf, KeysOf
  <2> QED BY <2>1, <2>2
<1>3. ASSUME NEW i \in N, NEW k \in N, Key(i) = Key(k) PROVE i = k
  <2>1. PICK s \in new, t \in new : i = Id(s) /\ k = Id(t)
    OBVIOUS
  <2>2. Key(s) = Key(t)
    BY <1>3, <2>1, KeyOfId
  <2>3. s = t
    BY <2>2 DEF MadeOf
  <2> QED BY <2>1, <2>3
<1>4. Named(p, KeysOf(rows), N)
  <2> HIDE DEF N
  <2> QED BY <1>1, <1>2, <1>3 DEF Named
<1> QED BY <1>4

\* Ids of keys that no id of the plan has are added to those that are left.
GrownBy(left, p, keys, ids) ==
  /\ Distinct(ids)
  /\ KeysOf(At(ids, p)) = KeysOf(At(left, p)) \union keys
  /\ \A q : q # p => At(ids, q) = At(left, q)

LEMMA IdsAdded ==
  ASSUME NEW left, Distinct(left), NEW p, NEW keys, NEW N, Named(p, keys, N),
         keys \intersect KeysOf(At(left, p)) = {}
  PROVE  GrownBy(left, p, keys, left \union N)
<1>1. At(left \union N, p) = At(left, p) \union N
  BY DEF At, Named
<1>2. KeysOf(At(left \union N, p)) = KeysOf(At(left, p)) \union keys
  BY <1>1 DEF KeysOf, Named
<1>3. \A q : q # p => At(left \union N, q) = At(left, q)
  BY DEF At, Named
<1>4. ASSUME NEW i \in left \union N, NEW k \in left \union N, i.side = k.side, Key(i) = Key(k)
      PROVE  i = k
  <2>1. CASE i \in left /\ k \in left
    BY <1>4, <2>1 DEF Distinct
  <2>2. CASE i \in N /\ k \in N
    BY <1>4, <2>2 DEF Named
  <2>3. ASSUME NEW x \in left, NEW y \in N, x.side = y.side, Key(x) = Key(y) PROVE FALSE
    <3>1. y.side = p /\ Key(y) \in keys
      BY <2>3 DEF Named, KeysOf
    <3>2. Key(x) \in KeysOf(At(left, p))
      BY <2>3, <3>1 DEF KeysOf, At
    <3> QED BY <2>3, <3>1, <3>2
  <2> QED BY <1>4, <2>1, <2>2, <2>3
<1>5. Distinct(left \union N)
  BY <1>4 DEF Distinct
<1> QED BY <1>2, <1>3, <1>5 DEF GrownBy

LEMMA FewerIds == ASSUME NEW ids, Distinct(ids), NEW left, left \subseteq ids PROVE Distinct(left)
  BY DEF Distinct

LEMMA ViewIs ==
  ASSUME TypesInv
  PROVE  /\ View.ids = Ids /\ View.there = {p \in PlanSides : plan[p].exists}
         /\ View.version = version /\ View.lapsed = lapsed
         /\ game = None => View.game = None
         /\ game # None => /\ View.game # None /\ View.game.version = game.version
                           /\ View.game.attack = game.attack /\ View.game.defense = game.defense
<1>1. /\ View.ids = Ids /\ View.there = {p \in PlanSides : plan[p].exists}
      /\ View.version = version /\ View.lapsed = lapsed
      /\ View.game = IF game = None THEN None ELSE [game EXCEPT !.attackHq = None, !.defenseHq = None]
  BY DEF View
<1>2. ASSUME game # None
      PROVE  LET g == [game EXCEPT !.attackHq = None, !.defenseHq = None] IN
             /\ g # None /\ g.version = game.version
             /\ g.attack = game.attack /\ g.defense = game.defense
  <2>1. game \in GameRows
    BY <1>2 DEF TypesInv, GameFits
  <2>2. [game EXCEPT !.attackHq = None, !.defenseHq = None] \in GameRows
    BY <2>1 DEF GameRows, MaybeOf
  <2> QED BY <2>1, <2>2, HeadquartersAssumption DEF GameRows
<1> QED BY <1>1, <1>2

LEMMA ViewIsNext ==
  ASSUME TypesInv'
  PROVE  /\ View'.ids = Ids' /\ View'.there = {p \in PlanSides : plan'[p].exists}
         /\ View'.version = version' /\ View'.lapsed = lapsed'
         /\ game' = None => View'.game = None
         /\ game' # None => /\ View'.game # None /\ View'.game.version = game'.version
                            /\ View'.game.attack = game'.attack /\ View'.game.defense = game'.defense
<1>1. /\ View'.ids = Ids' /\ View'.there = {p \in PlanSides : plan'[p].exists}
      /\ View'.version = version' /\ View'.lapsed = lapsed'
      /\ View'.game = IF game' = None THEN None
                      ELSE [game' EXCEPT !.attackHq = None, !.defenseHq = None]
  BY DEF View
<1>2. ASSUME game' # None
      PROVE  LET g == [game' EXCEPT !.attackHq = None, !.defenseHq = None] IN
             /\ g # None /\ g.version = game'.version
             /\ g.attack = game'.attack /\ g.defense = game'.defense
  <2>1. game' \in GameRows
    BY <1>2 DEF TypesInv, GameFits
  <2>2. [game' EXCEPT !.attackHq = None, !.defenseHq = None] \in GameRows
    BY <2>1 DEF GameRows, MaybeOf
  <2> QED BY <2>1, <2>2, HeadquartersAssumption DEF GameRows
<1> QED BY <1>1, <1>2

\* What neither the ids nor the sides nor the versions change leaves the view alone.
LEMMA ViewStays ==
  ASSUME TypesInv, TypesInv', SameGame, Ids' = Ids, UNCHANGED <<version, lapsed>>,
         \A p \in PlanSides : plan'[p].exists = plan[p].exists
  PROVE  View' = View
<1> DEFINE bare(g) == IF g = None THEN None ELSE [g EXCEPT !.attackHq = None, !.defenseHq = None]
<1>1. bare(game)' = bare(game)
  <2>1. CASE game = None
    BY <2>1 DEF SameGame
  <2>2. CASE game # None
    <3>1. game \in GameRows /\ game' \in GameRows
      BY <2>2 DEF SameGame, TypesInv, GameFits
    <3>2. /\ game'.version = game.version /\ game'.attack = game.attack
          /\ game'.defense = game.defense /\ game' # None
      BY <2>2 DEF SameGame
    <3>3. [game' EXCEPT !.attackHq = None, !.defenseHq = None]
          = [game EXCEPT !.attackHq = None, !.defenseHq = None]
      BY <3>1, <3>2 DEF GameRows
    <3> QED BY <2>2, <3>2, <3>3
  <2> QED BY <2>1, <2>2
<1>2. {p \in PlanSides : plan'[p].exists} = {p \in PlanSides : plan[p].exists}
  OBVIOUS
<1> QED BY <1>1, <1>2 DEF View

LEMMA LineIdle == \A w : Line(w, IdleJob)
  BY StepSets DEF Line, AsRead, RowsRead, NoFile, SideBySide, Undisturbed, InTwoParts, IdleJob

LEMMA FriendlyTypesOf ==
  ASSUME NEW j PROVE FriendlyTypes(j) = FriendlyOf(job[j]) /\ (Promoted(j) <=> IsPromoted(job[j]))
  BY DEF FriendlyTypes, FriendlyOf, Promoted, IsPromoted

-----------------------------------------------------------------------------
(* The slots: each step of a request of an organiser. *)

Brought(j) ==
  /\ Distinct(Ids')
  /\ Line(View', job'[j])
  /\ job'[j] = IdleJob => Settled(View')

LEMMA BroughtIdle ==
  ASSUME NEW j \in Jobs, Distinct(Ids'), job'[j] = IdleJob, Settled(View') PROVE Brought(j)
  BY LineIdle DEF Brought

LEMMA JobViews ==
  ASSUME TypesInv, TypesInv', UNCHANGED <<game, version>>, game # None
  PROVE  /\ View'.game = View.game /\ View'.version = View.version /\ View.game # None
         /\ View.ids = Ids /\ View'.ids = Ids' /\ View.lapsed = lapsed /\ View'.lapsed = lapsed'
         /\ View.there = {p \in PlanSides : plan[p].exists}
         /\ View'.there = {p \in PlanSides : plan'[p].exists}
         /\ View.game.attack = game.attack /\ View.game.defense = game.defense
         /\ View.version[View.game.version] = version[game.version]
<1>1. View'.game = View.game
  BY DEF View
<1> QED BY <1>1, ViewIs, ViewIsNext

LEMMA LoadGameLine ==
  ASSUME TypesInv, TypesInv', NEW j \in Jobs, LoadGame(j), Distinct(Ids), Line(View, job[j])
  PROVE  Brought(j)
<1>1. /\ job[j].step = "load" /\ JobsFit
      /\ UNCHANGED <<game, version, plan, slots, lapsed>>
  BY DEF TypesInv, LoadGame
<1>2. game # None
  BY <1>1, StepSets DEF JobsFit, JobFitsIn
<1>3. View' = View
  <2>1. Ids' = Ids /\ SameGame
    BY <1>1 DEF Ids, SameGame
  <2> QED BY <1>1, <2>1, ViewStays
<1>4. PICK w, r, q : w = View /\ r = job[j] /\ q = job'[j]
  OBVIOUS
<1>5. /\ q.step = "ensure" /\ q.game = game /\ q.content = version[game.version]
      /\ q.route = r.route /\ q.counts = r.counts /\ q.friendly = r.friendly
      /\ q.previous = r.previous /\ q.todo = r.todo /\ r.step = "load"
  BY <1>1, <1>4, Loads
<1>6. /\ w.game # None /\ w.version[w.game.version] = version[game.version]
      /\ w.game.attack = game.attack /\ w.game.defense = game.defense
  BY <1>1, <1>2, <1>4, JobViews
<1>7. AsRead(w, q) /\ RowsRead(w, q) /\ Undisturbed(w, q) /\ InTwoParts(w, q)
  BY <1>5, <1>6, StepSets DEF AsRead, RowsRead, Undisturbed, InTwoParts
<1>8. Line(w, r)
  BY <1>4
<1>9. NoFile(w, q)
  <2>1. ASSUME ~q.counts /\ q.route = "sync" PROVE FriendlyOf(q) = FriendlyOf(r)
    <3>1. r.content = q.content
      BY <1>5, <1>6, <1>8, <2>1 DEF Line, NoFile
    <3> QED BY <1>5, <3>1 DEF FriendlyOf
  <2> QED BY <1>5, <1>8, <2>1, StepSets DEF Line, NoFile
<1>10. SideBySide(w, q)
  BY <1>5, <1>8 DEF Line, SideBySide
<1>11. Line(w, q)
  BY <1>7, <1>9, <1>10 DEF Line
<1>12. job'[j] # IdleJob
  BY <1>4, <1>5 DEF IdleJob
<1>13. Distinct(Ids')
  BY <1>1 DEF Ids
<1> QED BY <1>3, <1>4, <1>11, <1>12, <1>13 DEF Brought

LEMMA CreatePlanLine ==
  ASSUME TypesInv, TypesInv', NEW j \in Jobs, NEW p \in PlanSides, CreatePlan(j, p),
         Distinct(Ids), Line(View, job[j])
  PROVE  Brought(j)
<1>1. /\ job[j].step = "ensure" /\ JobsFit /\ ~plan[p].exists
      /\ UNCHANGED <<game, version, slots>>
  BY DEF TypesInv, CreatePlan
<1>2. game # None /\ Ids' = Ids
  BY <1>1, StepSets DEF JobsFit, JobFitsIn, Ids
<1>3. CASE EndJob(j) /\ lapsed' = lapsed \union LeftUndone(j)
  <2>1. job'[j] = IdleJob
    BY <1>1, <1>3, Ended
  <2>2. "slots" \in View'.lapsed
    BY <1>1, <1>2, <1>3, JobViews DEF LeftUndone
  <2> QED BY <1>2, <2>1, <2>2, BroughtIdle DEF Settled
<1>4. CASE /\ plan' = [plan EXCEPT ![p] = [NoPlan EXCEPT !.exists = TRUE, !.hq = HqSquadOf(job[j].game, p)]]
           /\ ContinueFor(j, "fill", {p}) /\ lapsed' = lapsed
  <2>1. PICK w, v, r, q : w = View /\ v = View' /\ r = job[j] /\ q = job'[j]
    OBVIOUS
  <2>2. /\ v.game = w.game /\ v.version = w.version /\ v.ids = w.ids /\ v.lapsed = w.lapsed
        /\ w.there = {s \in PlanSides : plan[s].exists}
        /\ v.there = {s \in PlanSides : plan'[s].exists}
    BY <1>1, <1>2, <1>4, <2>1, JobViews
  <2>3. p \notin w.there /\ v.there = w.there \union {p}
    <3>1. plan = [s \in PlanSides |-> plan[s]]
      BY DEF TypesInv, CommandInv, Records
    <3>2. \A s \in PlanSides : plan'[s].exists <=> plan[s].exists \/ s = p
      BY <1>4, <3>1 DEF NoPlan
    <3> QED BY <1>1, <2>2, <3>2
  <2>4. /\ r.step = "ensure" /\ q.step = "fill" /\ q.todo = {p} /\ Keeps(q, r)
    BY <1>1, <1>4, <2>1, ContinuedFor
  <2>5. Have(w, p) = {} /\ Have(v, p) = {}
    <3>1. \A s \in slots : s.side # p
      BY <1>1 DEF TypesInv, SlotsFit, IsSlotIn
    <3>2. \A i \in w.ids : i.side # p
      BY <1>2, <1>1, <2>1, <3>1, JobViews, KeyOfId DEF Ids
    <3> QED BY <2>2, <3>2 DEF Have, At, KeysOf
  <2>6. Line(w, r)
    BY <2>1
  <2>7. AsRead(v, q) /\ RowsRead(v, q) /\ Undisturbed(v, q) /\ InTwoParts(v, q)
    BY <2>2, <2>4, <2>6, StepSets DEF Line, AsRead, RowsRead, Undisturbed, InTwoParts, Keeps
  <2>8. NoFile(v, q)
    <3>1. FriendlyOf(q) = FriendlyOf(r)
      BY <2>4 DEF FriendlyOf, Keeps
    <3> QED BY <2>2, <2>3, <2>4, <2>6, <3>1, StepSets DEF Line, NoFile, Keeps, Have, Want
  <2>9. SideBySide(v, q)
    <3>1. ASSUME r.route = "create", "slots" \notin v.lapsed, NEW s \in v.there, s # p
          PROVE  Matches(v, s)
      <4>1. Matches(w, s)
        BY <2>2, <2>3, <2>4, <2>6, <3>1 DEF Line, SideBySide
      <4> QED BY <2>2, <2>3, <3>1, <4>1 DEF Matches, Have, Want
    <3> QED BY <2>4, <2>5, <3>1 DEF SideBySide, Keeps
  <2>10. Line(v, q) /\ q # IdleJob
    BY <2>4, <2>7, <2>8, <2>9 DEF Line, IdleJob
  <2> QED BY <1>2, <2>1, <2>10 DEF Brought
<1> QED BY <1>3, <1>4 DEF CreatePlan

LEMMA WantAsRead ==
  ASSUME NEW w, NEW r, AsRead(w, r), r.step \in Loaded, NEW p
  PROVE  Want(w, p) = KeysOf(SlotRows(r.game, r.content, p))
<1>1. /\ r.content = w.version[w.game.version]
      /\ r.game.attack = w.game.attack /\ r.game.defense = w.game.defense
  BY DEF AsRead
<1>2. SlotRows(r.game, r.content, p) = SlotRows(w.game, r.content, p)
  BY <1>1, SlotRowsOf
<1> QED BY <1>1, <1>2 DEF Want

\* New slots bring new ids.
LEMMA IdsMade ==
  ASSUME TypesInv, NEW j \in Jobs, job[j].step \in Loaded, NEW p, NEW rows, NEW left,
         rows \subseteq SlotRows(job[j].game, job[j].content, p),
         slots' = left \union NewSlots(p, rows)
  PROVE  \E N : Ids' = {Id(s) : s \in left} \union N /\ Named(p, KeysOf(rows), N)
<1>1. SlotsFit /\ JobsFit /\ job[j].game \in GameRows /\ ContentOK(job[j].content)
  BY StepSets DEF TypesInv, JobsFit, JobFitsIn
<1>2. MadeOf(p, rows, NewSlots(p, rows))
  BY <1>1, SomeRowsMade
<1> DEFINE N == {Id(s) : s \in NewSlots(p, rows)}
<1>3. Named(p, KeysOf(rows), N)
  BY <1>2, MadeIds
<1>4. Ids' = {Id(s) : s \in left} \union N
  BY DEF Ids
<1> HIDE DEF N
<1> QED BY <1>3, <1>4

LEMMA FillPlanLine ==
  ASSUME TypesInv, TypesInv', NEW j \in Jobs, NEW p \in PlanSides, FillPlan(j, p),
         Distinct(Ids), Line(View, job[j])
  PROVE  Brought(j)
<1>1. /\ job[j].step = "fill" /\ JobsFit /\ p \in job[j].todo
      /\ UNCHANGED <<game, version, plan, lapsed>>
      /\ slots' = slots \union NewSlots(p, SlotRows(job[j].game, job[j].content, p))
      /\ ContinueFor(j, "ensure", {})
  BY DEF TypesInv, FillPlan
<1>2. /\ game # None /\ plan[p].exists /\ job[j].todo = {p}
      /\ job[j].step \in Loaded
  BY <1>1, StepSets DEF JobsFit, JobFitsIn
<1>3. PICK w, v, r, q : w = View /\ v = View' /\ r = job[j] /\ q = job'[j]
  OBVIOUS
<1>4. /\ v.game = w.game /\ v.version = w.version /\ v.lapsed = w.lapsed /\ v.there = w.there
      /\ w.ids = Ids /\ v.ids = Ids' /\ p \in w.there
  BY <1>1, <1>2, <1>3, JobViews
<1>5. /\ r.step = "fill" /\ q.step = "ensure" /\ q.todo = {} /\ Keeps(q, r) /\ r.todo = {p}
  BY <1>1, <1>2, <1>3, ContinuedFor
<1>6. Line(w, r)
  BY <1>3
<1> DEFINE keys == KeysOf(SlotRows(r.game, r.content, p))
<1>7. PICK N : Ids' = Ids \union N /\ Named(p, keys, N)
  <2>1. \E N : Ids' = {Id(s) : s \in slots} \union N
               /\ Named(p, KeysOf(SlotRows(job[j].game, job[j].content, p)), N)
    BY <1>1, <1>2, IdsMade
  <2> QED BY <1>3, <2>1 DEF Ids
<1>8. \A s : Want(v, s) = Want(w, s)
  BY <1>4 DEF Want
<1>9. Want(w, p) = keys
  BY <1>5, <1>6, StepSets, WantAsRead DEF Line
<1> HIDE DEF keys
<1>10. Have(w, p) = {}
  BY <1>5, <1>6 DEF Line, SideBySide
<1>11. /\ Distinct(Ids') /\ Have(v, p) = keys
       /\ \A s : s # p => Have(v, s) = Have(w, s)
  <2>1. KeysOf(At(Ids, p)) = {}
    BY <1>4, <1>10 DEF Have
  <2>2. GrownBy(Ids, p, keys, Ids \union N)
    <3>1. keys \intersect KeysOf(At(Ids, p)) = {} /\ Distinct(Ids)
      BY <2>1
    <3> QED BY <1>7, <3>1, IdsAdded
  <2> QED BY <1>4, <1>7, <2>1, <2>2 DEF Have, GrownBy
<1>12. AsRead(v, q) /\ RowsRead(v, q) /\ Undisturbed(v, q) /\ InTwoParts(v, q)
  BY <1>4, <1>5, <1>6, StepSets DEF Line, AsRead, RowsRead, Undisturbed, InTwoParts, Keeps
<1>13. NoFile(v, q)
  <2>1. FriendlyOf(q) = FriendlyOf(r)
    BY <1>5 DEF FriendlyOf, Keeps
  <2>2. ASSUME ~r.counts, r.route = "sync"
        PROVE  /\ FriendlyOf(r) # {}
               /\ "slots" \notin w.lapsed => \A s \in PlanSides :
                    s \in w.there /\ Without(Have(w, s), FriendlyOf(r)) = Without(Want(w, s), FriendlyOf(r))
    BY <1>5, <1>6, <2>2, StepSets DEF Line, NoFile
  <2>3. ASSUME ~q.counts, q.route = "sync"
        PROVE  /\ FriendlyOf(q) # {}
               /\ "slots" \notin v.lapsed => \A s \in PlanSides :
                    s \in v.there /\ Without(Have(v, s), FriendlyOf(q)) = Without(Want(v, s), FriendlyOf(q))
    BY <1>4, <1>5, <1>8, <1>9, <1>11, <2>1, <2>2, <2>3 DEF Keeps
  <2> QED BY <1>5, <2>3 DEF NoFile
<1>14. SideBySide(v, q)
  <2>1. ASSUME r.route = "create", "slots" \notin v.lapsed, NEW s \in v.there PROVE Matches(v, s)
    <3>1. CASE s = p
      BY <1>4, <1>8, <1>9, <1>11, <3>1 DEF Matches
    <3>2. CASE s # p
      <4>1. Matches(w, s)
        BY <1>4, <1>5, <1>6, <2>1, <3>2 DEF Line, SideBySide
      <4> QED BY <1>4, <1>8, <1>11, <3>2, <4>1 DEF Matches
    <3> QED BY <3>1, <3>2
  <2> QED BY <1>5, <2>1 DEF SideBySide, Keeps
<1>15. Line(v, q) /\ q # IdleJob
  BY <1>5, <1>12, <1>13, <1>14 DEF Line, IdleJob
<1> QED BY <1>3, <1>11, <1>15 DEF Brought

LEMMA PlansEnsuredLine ==
  ASSUME TypesInv, TypesInv', NEW j \in Jobs, PlansEnsured(j), Distinct(Ids), Line(View, job[j])
  PROVE  Brought(j)
<1>1. /\ job[j].step = "ensure" /\ JobsFit /\ UNCHANGED <<game, version, plan, slots, lapsed>>
      /\ \A p \in PlanSides : plan[p].exists
  BY DEF TypesInv, PlansEnsured
<1>2. game # None /\ job[j].route \in {"create", "reset", "sync"}
  BY <1>1, StepSets DEF JobsFit, JobFitsIn
<1>3. View' = View /\ Distinct(Ids')
  <2>1. Ids' = Ids /\ SameGame
    BY <1>1 DEF Ids, SameGame
  <2> QED BY <1>1, <2>1, ViewStays
<1>4. PICK w, r, q : w = View /\ r = job[j] /\ q = job'[j]
  OBVIOUS
<1>5. /\ r.step = "ensure" /\ w.there = PlanSides /\ Line(w, r)
  BY <1>1, <1>2, <1>4, JobViews
<1>6. CASE r.route = "create"
  <2>1. q = IdleJob
    BY <1>1, <1>4, <1>6, Ended DEF PlansEnsured
  <2>2. Settled(w)
    BY <1>5, <1>6 DEF Settled, Line, SideBySide
  <2> QED BY <1>3, <1>4, <2>1, <2>2, BroughtIdle
<1>7. CASE r.route = "reset"
  <2>1. q.step = "rebuild" /\ q.todo = PlanSides /\ Keeps(q, r)
    BY <1>1, <1>4, <1>7, ContinuedFor DEF PlansEnsured
  <2>2. Line(w, q) /\ q # IdleJob
    BY <1>5, <1>7, <2>1, StepSets
       DEF Line, AsRead, RowsRead, NoFile, SideBySide, Undisturbed, InTwoParts, Keeps, IdleJob
  <2> QED BY <1>3, <1>4, <2>2 DEF Brought
<1>8. CASE r.route = "sync"
  <2>1. q.step = "readPlans" /\ Keeps(q, r)
    BY <1>1, <1>4, <1>8, Continued DEF PlansEnsured
  <2>2. FriendlyOf(q) = FriendlyOf(r)
    BY <2>1 DEF FriendlyOf, Keeps
  <2>3. Line(w, q) /\ q # IdleJob
    BY <1>5, <1>8, <2>1, <2>2, StepSets
       DEF Line, AsRead, RowsRead, NoFile, SideBySide, Undisturbed, InTwoParts, Keeps, IdleJob
  <2> QED BY <1>3, <1>4, <2>3 DEF Brought
<1> QED BY <1>2, <1>4, <1>6, <1>7, <1>8

LEMMA RebuildSlotsLine ==
  ASSUME TypesInv, TypesInv', NEW j \in Jobs, NEW p \in PlanSides, RebuildSlots(j, p),
         Distinct(Ids), Line(View, job[j])
  PROVE  Brought(j)
<1> DEFINE left == {s \in slots : s.side # p}
           rest == {i \in Ids : i.side # p}
<1>1. /\ job[j].step = "rebuild" /\ JobsFit /\ p \in job[j].todo
      /\ UNCHANGED <<game, version, plan, lapsed>>
      /\ slots' = left \union NewSlots(p, SlotRows(job[j].game, job[j].content, p))
      /\ IF job[j].todo = {p} THEN ContinueFor(j, "clear", {})
                              ELSE ContinueFor(j, "rebuild", job[j].todo \ {p})
  BY DEF TypesInv, RebuildSlots
<1>2. /\ game # None /\ \A s \in PlanSides : plan[s].exists
      /\ job[j].step \in Loaded
  BY <1>1, StepSets DEF JobsFit, JobFitsIn
<1>3. PICK w, v, r, q : w = View /\ v = View' /\ r = job[j] /\ q = job'[j]
  OBVIOUS
<1>4. /\ v.game = w.game /\ v.version = w.version /\ v.lapsed = w.lapsed
      /\ w.ids = Ids /\ v.ids = Ids' /\ w.there = PlanSides /\ v.there = PlanSides
  BY <1>1, <1>2, <1>3, JobViews
<1>5. /\ Keeps(q, r) /\ r.step = "rebuild" /\ p \in r.todo
      /\ \/ q.step = "clear" /\ q.todo = {} /\ r.todo = {p}
         \/ q.step = "rebuild" /\ q.todo = r.todo \ {p}
  BY <1>1, <1>3, ContinuedFor
<1>6. Line(w, r)
  BY <1>3
<1> DEFINE keys == KeysOf(SlotRows(r.game, r.content, p))
<1>7. PICK N : Ids' = rest \union N /\ Named(p, keys, N)
  <2>1. \E N : Ids' = {Id(s) : s \in left} \union N
               /\ Named(p, KeysOf(SlotRows(job[j].game, job[j].content, p)), N)
    <3> HIDE DEF left
    <3> QED BY <1>1, <1>2, IdsMade
  <2>2. {Id(s) : s \in left} = rest
    BY KeyOfId DEF Ids
  <2> HIDE DEF left, rest
  <2> QED BY <1>3, <2>1, <2>2
<1>8. \A s : Want(v, s) = Want(w, s)
  BY <1>4 DEF Want
<1>9. Want(w, p) = keys
  BY <1>5, <1>6, StepSets, WantAsRead DEF Line
<1> HIDE DEF keys, left
<1>10. /\ Distinct(Ids') /\ Have(v, p) = keys
       /\ \A s : s # p => Have(v, s) = Have(w, s)
  <2>1. KeysOf(At(rest, p)) = {} /\ Distinct(rest)
    <3>1. At(rest, p) = {}
      BY DEF At
    <3>2. rest \subseteq Ids
      OBVIOUS
    <3> QED BY <3>1, <3>2, FewerIds DEF KeysOf
  <2>2. \A s : s # p => At(rest, s) = At(Ids, s)
    BY DEF At
  <2> HIDE DEF rest
  <2>3. GrownBy(rest, p, keys, rest \union N)
    <3>1. keys \intersect KeysOf(At(rest, p)) = {}
      BY <2>1
    <3> QED BY <1>7, <2>1, <3>1, IdsAdded
  <2> QED BY <1>4, <1>7, <2>1, <2>2, <2>3 DEF Have, GrownBy
<1>11. \A s \in PlanSides \ r.todo : Matches(v, s)
  <2>1. ASSUME NEW s \in PlanSides \ r.todo PROVE Matches(v, s)
    <3>1. Matches(w, s) /\ s # p
      BY <1>5, <1>6, <2>1 DEF Line, SideBySide
    <3> QED BY <1>4, <1>8, <1>10, <3>1 DEF Matches
  <2> QED BY <2>1
<1>12. Matches(v, p)
  BY <1>4, <1>8, <1>9, <1>10 DEF Matches
<1>13. SideBySide(v, q)
  BY <1>5, <1>11, <1>12 DEF SideBySide
<1>14. AsRead(v, q) /\ RowsRead(v, q) /\ NoFile(v, q) /\ Undisturbed(v, q) /\ InTwoParts(v, q)
  BY <1>4, <1>5, <1>6, StepSets DEF Line, AsRead, RowsRead, NoFile, Undisturbed, InTwoParts, Keeps
<1>15. Line(v, q) /\ q # IdleJob
  BY <1>5, <1>13, <1>14 DEF Line, IdleJob
<1> QED BY <1>3, <1>10, <1>15 DEF Brought

LEMMA ClearPlansLine ==
  ASSUME TypesInv, TypesInv', NEW j \in Jobs, ClearPlans(j), Distinct(Ids), Line(View, job[j])
  PROVE  Brought(j)
<1>1. /\ job[j].step = "clear" /\ JobsFit /\ UNCHANGED <<game, version, slots>>
      /\ plan' = [p \in PlanSides |-> [NoPlan EXCEPT !.exists = TRUE]]
      /\ Continue(j, "readHq")
  BY DEF TypesInv, ClearPlans
<1>2. /\ game # None /\ Ids' = Ids /\ \A p \in PlanSides : plan'[p].exists
  BY <1>1, StepSets DEF JobsFit, JobFitsIn, Ids, NoPlan
<1>3. PICK w, v, r, q : w = View /\ v = View' /\ r = job[j] /\ q = job'[j]
  OBVIOUS
<1>4. /\ v.game = w.game /\ v.version = w.version /\ v.ids = w.ids /\ v.there = PlanSides
  BY <1>1, <1>2, <1>3, JobViews
<1>5. Keeps(q, r) /\ r.step = "clear" /\ q.step = "readHq" /\ Line(w, r)
  BY <1>1, <1>3, Continued
<1>6. \A p \in PlanSides : Matches(v, p)
  BY <1>4, <1>5 DEF Line, SideBySide, Matches, Have, Want
<1>7. Line(v, q) /\ q # IdleJob
  BY <1>5, <1>6, StepSets
     DEF Line, AsRead, RowsRead, NoFile, SideBySide, Undisturbed, InTwoParts, IdleJob
<1> QED BY <1>2, <1>3, <1>7 DEF Brought

LEMMA ReadHqSquadsLine ==
  ASSUME TypesInv, TypesInv', NEW j \in Jobs, ReadHqSquads(j), Distinct(Ids), Line(View, job[j])
  PROVE  Brought(j)
<1>1. job[j].step = "readHq" /\ JobsFit /\ UNCHANGED <<game, version, plan, slots, lapsed>>
  BY DEF TypesInv, ReadHqSquads
<1>2. game # None
  BY <1>1, StepSets DEF JobsFit, JobFitsIn
<1>3. View' = View /\ Distinct(Ids')
  <2>1. Ids' = Ids /\ SameGame
    BY <1>1 DEF Ids, SameGame
  <2> QED BY <1>1, <2>1, ViewStays
<1>4. PICK w, r, q : w = View /\ r = job[j] /\ q = job'[j]
  OBVIOUS
<1>5. /\ r.step = "readHq" /\ Line(w, r)
      /\ q = IdleJob \/ (q.step = "setHq" /\ q.counts = r.counts /\ q.route = r.route)
  BY <1>1, <1>4, ReadsHq
<1>6. Settled(w)
  BY <1>5, StepSets DEF Line, Undisturbed, Settled, IdleJob
<1>7. q.step = "setHq" => Line(w, q)
  BY <1>5, <1>6, StepSets
     DEF Line, AsRead, RowsRead, NoFile, SideBySide, Undisturbed, InTwoParts, Settled
<1> QED BY <1>3, <1>4, <1>5, <1>6, <1>7, LineIdle DEF Brought

LEMMA SetHqSquadLine ==
  ASSUME TypesInv, TypesInv', NEW j \in Jobs, NEW p \in PlanSides, SetHqSquad(j, p),
         Distinct(Ids), Line(View, job[j])
  PROVE  Brought(j)
<1>1. /\ job[j].step = "setHq" /\ JobsFit /\ UNCHANGED <<game, version, slots, lapsed>>
      /\ EndJob(j) \/ ContinueFor(j, "setHq", job[j].todo \ {p})
      /\ \/ plan' = plan
         \/ plan' = [plan EXCEPT ![p] = [NoPlan EXCEPT !.exists = TRUE, !.hq = HqSquadOf(job[j].game, p)]]
  BY DEF TypesInv, SetHqSquad
<1>2. game # None /\ Ids' = Ids
  BY <1>1, StepSets DEF JobsFit, JobFitsIn, Ids
<1>3. PICK w, v, r, q : w = View /\ v = View' /\ r = job[j] /\ q = job'[j]
  OBVIOUS
<1>4. /\ v.game = w.game /\ v.version = w.version /\ v.ids = w.ids /\ v.lapsed = w.lapsed
      /\ w.there \subseteq v.there
  <2>1. \A s \in PlanSides : plan[s].exists => plan'[s].exists
    <3>1. plan = [s \in PlanSides |-> plan[s]]
      BY DEF TypesInv, CommandInv, Records
    <3> QED BY <1>1, <3>1 DEF NoPlan
  <2> QED BY <1>1, <1>2, <1>3, <2>1, JobViews
<1>5. /\ r.step = "setHq" /\ Line(w, r) /\ w.game # None
      /\ q = IdleJob \/ (q.step = "setHq" /\ Keeps(q, r))
  BY <1>1, <1>2, <1>3, ContinuedFor, Ended, JobViews
<1>6. Settled(v)
  <2>1. "slots" \notin w.lapsed => \A s \in PlanSides : Matches(w, s)
    BY <1>5, StepSets DEF Line, Undisturbed, IdleJob
  <2> QED BY <1>4, <2>1 DEF Settled, Matches, Have, Want
<1>7. q.step = "setHq" => Line(v, q)
  BY <1>5, <1>6, StepSets
     DEF Line, AsRead, RowsRead, NoFile, SideBySide, Undisturbed, InTwoParts, Settled
<1> QED BY <1>2, <1>3, <1>5, <1>6, <1>7, LineIdle DEF Brought

LEMMA ReadPlansLine ==
  ASSUME TypesInv, TypesInv', NEW j \in Jobs, ReadPlans(j), Distinct(Ids), Line(View, job[j])
  PROVE  Brought(j)
<1>1. /\ job[j].step = "readPlans" /\ JobsFit /\ SlotsFit
      /\ UNCHANGED <<game, version, plan, slots, lapsed>>
  BY DEF TypesInv, ReadPlans
<1>2. game # None /\ job[j].route = "sync"
  BY <1>1, StepSets DEF JobsFit, JobFitsIn
<1>3. View' = View /\ Distinct(Ids')
  <2>1. Ids' = Ids /\ SameGame
    BY <1>1 DEF Ids, SameGame
  <2> QED BY <1>1, <2>1, ViewStays
<1>4. PICK w, r, q : w = View /\ r = job[j] /\ q = job'[j]
  OBVIOUS
<1>5. /\ r.step = "readPlans" /\ r.route = "sync" /\ Line(w, r)
      /\ q.step = IF FriendlyOf(r) # {} THEN "dropFriendly" ELSE "sync"
      /\ q.rows = {Bare(s) : s \in slots} /\ q.todo = PlanSides
      /\ q.route = r.route /\ q.game = r.game /\ q.content = r.content
      /\ q.counts = r.counts /\ q.friendly = r.friendly /\ q.previous = r.previous
  BY <1>1, <1>2, <1>4, ReadsPlans, FriendlyTypesOf
<1>6. w.ids = Ids
  BY <1>1, <1>2, <1>4, JobViews
<1>7. FriendlyOf(q) = FriendlyOf(r) /\ (IsPromoted(q) <=> IsPromoted(r))
  BY <1>5 DEF FriendlyOf, IsPromoted
<1>8. ASSUME NEW s \in slots PROVE Id(Bare(s)) = Id(s) /\ Bare(s).side = s.side /\ Bare(s).type = s.type
  <2>1. DOMAIN s = {"side", "callsign", "type", "copy", "count", "squads", "wanted"}
    BY <1>1 DEF SlotsFit, IsSlotIn
  <2> QED BY <2>1 DEF Bare, Id
<1>9. RowsRead(w, q)
  <2>1. \A s, t \in q.rows : Id(s) = Id(t) => s = t
    BY <1>1, <1>5, <1>8 DEF SlotsFit
  <2>2. ASSUME NEW p \in PlanSides
        PROVE  {i \in At(w.ids, p) : i.type \notin FriendlyOf(q)} = {Id(s) : s \in Compared(q, p)}
    <3> DEFINE T == FriendlyOf(q)
    <3>1. ASSUME NEW i \in At(w.ids, p), i.type \notin T PROVE \E s \in Compared(q, p) : i = Id(s)
      <4>1. PICK s \in slots : i = Id(s)
        BY <1>6, <3>1 DEF At, Ids
      <4>2. s.side = p /\ s.type \notin T
        BY <3>1, <4>1, KeyOfId DEF At
      <4>3. Bare(s) \in Compared(q, p) /\ Id(Bare(s)) = i
        BY <1>5, <1>8, <4>1, <4>2 DEF Compared
      <4> QED BY <4>3
    <3>2. ASSUME NEW t \in Compared(q, p) PROVE Id(t) \in At(w.ids, p) /\ Id(t).type \notin T
      <4>1. PICK s \in slots : t = Bare(s)
        BY <1>5, <3>2 DEF Compared
      <4>2. s.side = p /\ s.type \notin T
        BY <1>8, <3>2, <4>1 DEF Compared
      <4>3. Id(t) = Id(s) /\ Id(s) \in Ids
        BY <1>8, <4>1 DEF Ids
      <4> QED BY <1>6, <4>2, <4>3, KeyOfId DEF At
    <3> QED BY <3>1, <3>2
  <2>3. q.step = "dropFriendly" => q.friendly
    BY <1>5, <1>7 DEF FriendlyOf
  <2> QED BY <1>5, <2>1, <2>2, <2>3 DEF RowsRead
<1>10. AsRead(w, q) /\ SideBySide(w, q) /\ Undisturbed(w, q)
  BY <1>5, StepSets DEF Line, AsRead, SideBySide, Undisturbed
<1>11. NoFile(w, q)
  BY <1>5, <1>7, StepSets DEF Line, NoFile
<1>12. InTwoParts(w, q)
  <2>1. CASE q.step = "dropFriendly"
    BY <2>1 DEF InTwoParts
  <2>2. CASE q.step = "sync"
    <3>1. FriendlyOf(q) = {} /\ ~IsPromoted(q)
      BY <1>5, <1>7, <2>2 DEF IsPromoted
    <3>2. q.counts
      BY <1>5, <1>7, <3>1, StepSets DEF Line, NoFile
    <3>3. \A keys : Within(keys, {}) = {}
      BY DEF Within
    <3> QED BY <1>5, <2>2, <3>1, <3>2, <3>3 DEF InTwoParts
  <2> QED BY <1>5, <2>1, <2>2
<1>13. Line(w, q) /\ q # IdleJob
  BY <1>5, <1>9, <1>10, <1>11, <1>12 DEF Line, IdleJob
<1> QED BY <1>3, <1>4, <1>13 DEF Brought

LEMMA DropFriendlySlotsLine ==
  ASSUME TypesInv, TypesInv', NEW j \in Jobs, DropFriendlySlots(j), Distinct(Ids), Line(View, job[j])
  PROVE  Brought(j)
<1>1. /\ job[j].step = "dropFriendly" /\ JobsFit /\ UNCHANGED <<game, version, plan>>
      /\ slots' = {s \in slots : s.type \notin FriendlyTypes(j)}
      /\ lapsed' = IF Promoted(j) THEN lapsed \union {"slots"} ELSE lapsed
      /\ Continue(j, "addFriendly")
  BY DEF TypesInv, DropFriendlySlots
<1>2. /\ game # None /\ job[j].route = "sync"
      /\ \A p \in PlanSides : plan[p].exists
  BY <1>1, StepSets DEF JobsFit, JobFitsIn
<1>3. PICK w, v, r, q : w = View /\ v = View' /\ r = job[j] /\ q = job'[j]
  OBVIOUS
<1>4. PICK T : T = FriendlyOf(r)
  OBVIOUS
<1>5. /\ v.game = w.game /\ v.version = w.version /\ v.there = w.there
      /\ w.ids = Ids /\ v.ids = Ids' /\ w.lapsed = lapsed /\ v.lapsed = lapsed'
  BY <1>1, <1>2, <1>3, JobViews
<1>6. /\ Keeps(q, r) /\ r.step = "dropFriendly" /\ q.step = "addFriendly" /\ q.todo = r.todo
      /\ r.route = "sync" /\ Line(w, r)
  BY <1>1, <1>2, <1>3, Continued
<1>7. FriendlyOf(q) = T /\ (IsPromoted(q) <=> IsPromoted(r)) /\ (Promoted(j) <=> IsPromoted(r))
  BY <1>3, <1>4, <1>6, FriendlyTypesOf DEF FriendlyOf, IsPromoted, Keeps
<1>8. v.ids = {i \in w.ids : i.type \notin T}
  <2>1. FriendlyTypes(j) = T
    BY <1>3, <1>4, FriendlyTypesOf
  <2>2. {Id(s) : s \in {t \in slots : t.type \notin T}} = {i \in Ids : i.type \notin T}
    BY KeyOfId DEF Ids
  <2>3. Ids' = {Id(s) : s \in {t \in slots : t.type \notin T}}
    BY <1>1, <2>1 DEF Ids
  <2> QED BY <1>5, <2>2, <2>3
<1>9. Distinct(Ids')
  BY <1>5, <1>8, FewerIds
<1>10. ASSUME NEW p
       PROVE  /\ {i \in At(v.ids, p) : i.type \notin T} = {i \in At(w.ids, p) : i.type \notin T}
              /\ Without(Have(v, p), T) = Without(Have(w, p), T)
              /\ Within(Have(v, p), T) = {}
              /\ Want(v, p) = Want(w, p)
  <2>1. {i \in At(v.ids, p) : i.type \notin T} = {i \in At(w.ids, p) : i.type \notin T}
    BY <1>8 DEF At
  <2>2. Within(Have(v, p), T) = {}
    BY <1>8, KeyParts DEF Within, Have, KeysOf, At
  <2>3. Without(Have(v, p), T) = Without(Have(w, p), T)
    <3>1. Have(v, p) \subseteq Have(w, p)
      BY <1>8 DEF Have, KeysOf, At
    <3>2. ASSUME NEW k \in Have(w, p), k[2] \notin T PROVE k \in Have(v, p)
      BY <1>8, <3>2, KeyParts DEF Have, KeysOf, At
    <3> QED BY <3>1, <3>2 DEF Without
  <2> QED BY <1>5, <2>1, <2>2, <2>3 DEF Want
<1>11. r.todo = PlanSides /\ r.friendly
  BY <1>6 DEF Line, RowsRead
<1>12. RowsRead(v, q)
  <2>1. /\ \A s, t \in r.rows : Id(s) = Id(t) => s = t
        /\ \A p \in PlanSides : {i \in At(w.ids, p) : i.type \notin T} = {Id(s) : s \in Compared(r, p)}
    BY <1>4, <1>6 DEF Line, RowsRead
  <2>2. \A p \in PlanSides : Compared(q, p) = Compared(r, p)
    BY <1>4, <1>6, <1>7 DEF Compared, Keeps
  <2> QED BY <1>6, <1>7, <1>10, <1>11, <2>1, <2>2 DEF RowsRead, Keeps
<1>13. AsRead(v, q) /\ SideBySide(v, q) /\ Undisturbed(v, q)
  BY <1>5, <1>6, StepSets DEF Line, AsRead, SideBySide, Undisturbed, Keeps
<1>14. w.lapsed \subseteq v.lapsed /\ (IsPromoted(q) => "slots" \in v.lapsed)
  BY <1>1, <1>5, <1>7
<1>15. NoFile(v, q)
  <2>1. ASSUME ~r.counts
        PROVE  /\ T # {}
               /\ "slots" \notin w.lapsed => \A p \in PlanSides :
                    p \in w.there /\ Without(Have(w, p), T) = Without(Want(w, p), T)
    BY <1>4, <1>6, <2>1, StepSets DEF Line, NoFile
  <2>2. ASSUME ~q.counts
        PROVE  /\ T # {}
               /\ "slots" \notin v.lapsed => \A p \in PlanSides :
                    p \in v.there /\ Without(Have(v, p), T) = Without(Want(v, p), T)
    BY <1>5, <1>6, <1>10, <1>14, <2>1, <2>2 DEF Keeps
  <2> QED BY <1>6, <1>7, <2>2 DEF NoFile
<1>16. InTwoParts(v, q)
  BY <1>6, <1>7, <1>10, <1>11, <1>14 DEF InTwoParts
<1>17. Line(v, q) /\ q # IdleJob
  BY <1>6, <1>12, <1>13, <1>15, <1>16 DEF Line, IdleJob
<1> QED BY <1>3, <1>9, <1>17 DEF Brought

\* Rows of a friendly type are those added first, unless the side is one that plays.
LEMMA FriendlyRows ==
  ASSUME NEW r, r.game \in GameRows, ContentOK(r.content), r.friendly, NEW p
  PROVE  LET rows == {d \in SlotRows(r.game, r.content, p) : d.type # None /\ d.type = r.content.friendlyType}
         IN  /\ \A k \in KeysOf(rows) : k[2] \in FriendlyOf(r)
             /\ ~IsPromoted(r) =>
                  KeysOf(rows) = Within(KeysOf(SlotRows(r.game, r.content, p)), FriendlyOf(r))
<1> DEFINE rows == {d \in SlotRows(r.game, r.content, p) : d.type # None /\ d.type = r.content.friendlyType}
<1>1. ASSUME NEW k \in KeysOf(rows) PROVE k[2] \in FriendlyOf(r)
  <2>1. PICK d \in rows : k = Key(d)
    BY DEF KeysOf
  <2> QED BY <2>1, KeyParts DEF FriendlyOf
<1>2. ASSUME ~IsPromoted(r), NEW d \in SlotRows(r.game, r.content, p), d.type \in FriendlyOf(r)
      PROVE  d \in rows
  <2>1. d.type # None
    BY <1>2 DEF FriendlyOf
  <2>2. \/ d.type = PrimaryType(r.game, r.content, p) \/ d.type = r.content.friendlyType
    BY SlotRowTypes
  <2>3. PrimaryType(r.game, r.content, p) \in {r.content.attackType, r.content.defenseType, None}
    BY DEF PrimaryType
  <2>4. r.content.attackType \notin FriendlyOf(r) /\ r.content.defenseType \notin FriendlyOf(r)
    BY <1>2 DEF IsPromoted
  <2> QED BY <1>2, <2>1, <2>2, <2>3, <2>4
<1>3. KeysOf(rows) \subseteq KeysOf(SlotRows(r.game, r.content, p))
  BY DEF KeysOf
<1>4. ASSUME ~IsPromoted(r), NEW k \in KeysOf(SlotRows(r.game, r.content, p)), k[2] \in FriendlyOf(r)
      PROVE  k \in KeysOf(rows)
  <2>1. PICK d \in SlotRows(r.game, r.content, p) : k = Key(d)
    BY DEF KeysOf
  <2>2. d \in rows
    BY <1>2, <1>4, <2>1, KeyParts
  <2> QED BY <2>1, <2>2 DEF KeysOf
<1> HIDE DEF rows
<1>5. /\ \A k \in KeysOf(rows) : k[2] \in FriendlyOf(r)
      /\ ~IsPromoted(r) => KeysOf(rows) = Within(KeysOf(SlotRows(r.game, r.content, p)), FriendlyOf(r))
  BY <1>1, <1>3, <1>4 DEF Within
<1> QED BY <1>5 DEF rows

LEMMA AddFriendlySlotsLine ==
  ASSUME TypesInv, TypesInv', NEW j \in Jobs, NEW p \in PlanSides, AddFriendlySlots(j, p),
         Distinct(Ids), Line(View, job[j])
  PROVE  Brought(j)
<1> DEFINE rows == {d \in SlotRows(job[j].game, job[j].content, p) :
                      d.type # None /\ d.type = job[j].content.friendlyType}
<1>1. /\ job[j].step = "addFriendly" /\ JobsFit /\ p \in job[j].todo
      /\ UNCHANGED <<game, version, plan, lapsed>>
      /\ slots' = slots \union NewSlots(p, rows)
      /\ IF job[j].todo # {p} THEN ContinueFor(j, "addFriendly", job[j].todo \ {p})
         ELSE IF job[j].counts THEN ContinueFor(j, "sync", PlanSides)
         ELSE EndJob(j)
  BY DEF TypesInv, AddFriendlySlots
<1>2. /\ game # None /\ job[j].route = "sync" /\ job[j].todo \subseteq PlanSides
      /\ \A s \in PlanSides : plan[s].exists
      /\ job[j].step \in Loaded /\ job[j].game \in GameRows /\ ContentOK(job[j].content)
  BY <1>1, StepSets DEF JobsFit, JobFitsIn
<1>3. PICK w, v, r, q : w = View /\ v = View' /\ r = job[j] /\ q = job'[j]
  OBVIOUS
<1>4. PICK T, keys : T = FriendlyOf(r) /\ keys = KeysOf(rows)
  OBVIOUS
<1>5. /\ v.game = w.game /\ v.version = w.version /\ v.there = w.there /\ w.there = PlanSides
      /\ w.ids = Ids /\ v.ids = Ids' /\ v.lapsed = w.lapsed /\ w.game # None
  BY <1>1, <1>2, <1>3, JobViews
<1>6. /\ r.step = "addFriendly" /\ p \in r.todo /\ r.todo \subseteq PlanSides
      /\ r.route = "sync" /\ Line(w, r) /\ r.friendly
  BY <1>1, <1>2, <1>3 DEF Line, RowsRead
<1>7. /\ \A k \in keys : k[2] \in T
      /\ ~IsPromoted(r) => keys = Within(Want(w, p), T)
  <2>1. Want(w, p) = KeysOf(SlotRows(r.game, r.content, p))
    BY <1>6, StepSets, WantAsRead DEF Line
  <2> QED BY <1>2, <1>3, <1>4, <1>6, <2>1, FriendlyRows
<1>8. PICK N : Ids' = Ids \union N /\ Named(p, keys, N)
  <2>1. rows \subseteq SlotRows(job[j].game, job[j].content, p)
    OBVIOUS
  <2> HIDE DEF rows
  <2>2. \E N : Ids' = {Id(s) : s \in slots} \union N /\ Named(p, KeysOf(rows), N)
    BY <1>1, <1>2, <2>1, IdsMade
  <2> QED BY <1>4, <2>2 DEF Ids
<1> HIDE DEF rows
<1>9. Within(Have(w, p), T) = {}
  BY <1>4, <1>6 DEF Line, InTwoParts
<1>10. GrownBy(Ids, p, keys, Ids')
  <2>1. keys \intersect KeysOf(At(Ids, p)) = {}
    BY <1>5, <1>7, <1>9 DEF Within, Have
  <2>2. GrownBy(Ids, p, keys, Ids \union N)
    BY <1>8, <2>1, IdsAdded
  <2> QED BY <1>8, <2>2
<1>11. /\ Distinct(Ids') /\ Have(v, p) = Have(w, p) \union keys
       /\ \A s : s # p => At(v.ids, s) = At(w.ids, s)
  BY <1>5, <1>10 DEF GrownBy, Have
<1>12. \A s : Want(v, s) = Want(w, s)
  BY <1>5 DEF Want
<1>13. ASSUME NEW s \in PlanSides
       PROVE  /\ Without(Have(v, s), T) = Without(Have(w, s), T)
              /\ Within(Have(v, s), T) = IF s = p THEN keys ELSE Within(Have(w, s), T)
              /\ {i \in At(v.ids, s) : i.type \notin T} = {i \in At(w.ids, s) : i.type \notin T}
  <2>1. CASE s # p
    BY <1>11, <2>1 DEF Have
  <2>2. CASE s = p
    <3>1. Without(Have(v, p), T) = Without(Have(w, p), T)
      BY <1>7, <1>11 DEF Without
    <3>2. Within(Have(v, p), T) = keys
      BY <1>7, <1>9, <1>11 DEF Within
    <3>3. \A i \in N : i.type \in T
      <4>1. \A i \in N : Key(i) \in keys
        BY <1>8 DEF Named, KeysOf
      <4> QED BY <1>7, <4>1, KeyParts
    <3>4. {i \in At(v.ids, p) : i.type \notin T} = {i \in At(w.ids, p) : i.type \notin T}
      BY <1>5, <1>8, <3>3 DEF At
    <3> QED BY <2>2, <3>1, <3>2, <3>4
  <2> QED BY <2>1, <2>2
<1>14. ASSUME NEW s \in PlanSides, s = p \/ s \notin r.todo, ~IsPromoted(r)
       PROVE  Within(Have(v, s), T) = Within(Want(v, s), T)
  <2>1. CASE s = p
    BY <1>7, <1>12, <1>13, <1>14, <2>1
  <2>2. CASE s # p
    <3>1. Within(Have(w, s), T) = Within(Want(w, s), T)
      BY <1>4, <1>6, <1>14, <2>2 DEF Line, InTwoParts
    <3> QED BY <1>12, <1>13, <2>2, <3>1
  <2> QED BY <2>1, <2>2
<1>15. IsPromoted(r) => "slots" \in v.lapsed
  BY <1>5, <1>6 DEF Line, InTwoParts
<1>16. ASSUME ~r.counts, "slots" \notin v.lapsed, NEW s \in PlanSides
       PROVE  Without(Have(v, s), T) = Without(Want(v, s), T)
  <2>1. Without(Have(w, s), T) = Without(Want(w, s), T)
    BY <1>4, <1>5, <1>6, <1>16, StepSets DEF Line, NoFile
  <2> QED BY <1>12, <1>13, <2>1
<1>17. ~r.counts => T # {}
  BY <1>4, <1>6, StepSets DEF Line, NoFile
<1>18. ASSUME Keeps(q, r), q.step \in {"addFriendly", "sync"},
              q.step = "sync" => r.counts /\ q.todo = PlanSides /\ r.todo = {p},
              q.step = "addFriendly" => q.todo = r.todo \ {p}
       PROVE  Line(v, q)
  <2>1. FriendlyOf(q) = T /\ (IsPromoted(q) <=> IsPromoted(r))
    BY <1>4, <1>18 DEF FriendlyOf, IsPromoted, Keeps
  <2>2. AsRead(v, q) /\ SideBySide(v, q) /\ Undisturbed(v, q)
    BY <1>5, <1>6, <1>18, StepSets DEF Line, AsRead, SideBySide, Undisturbed, Keeps
  <2>3. NoFile(v, q)
    <3>1. ASSUME ~q.counts PROVE q.step = "addFriendly" /\ ~r.counts
      BY <1>18, <3>1 DEF Keeps
    <3>2. ASSUME ~q.counts, "slots" \notin v.lapsed, NEW s \in PlanSides
          PROVE  s \in v.there /\ Without(Have(v, s), T) = Without(Want(v, s), T)
      BY <1>5, <1>16, <3>1, <3>2
    <3> QED BY <1>17, <2>1, <3>1, <3>2 DEF NoFile
  <2>4. RowsRead(v, q)
    <3>1. /\ \A s, t \in r.rows : Id(s) = Id(t) => s = t
          /\ \A s \in PlanSides : {i \in At(w.ids, s) : i.type \notin T} = {Id(t) : t \in Compared(r, s)}
      BY <1>4, <1>6 DEF Line, RowsRead
    <3>2. \A s \in PlanSides : Compared(q, s) = Compared(r, s)
      BY <1>4, <1>18, <2>1 DEF Compared, Keeps
    <3> QED BY <1>6, <1>13, <1>18, <2>1, <3>1, <3>2 DEF RowsRead, Keeps
  <2>5. InTwoParts(v, q)
    <3>1. CASE q.step = "addFriendly"
      <4>1. ASSUME NEW s \in PlanSides, s \in q.todo PROVE Within(Have(v, s), T) = {}
        <5>1. s \in r.todo /\ s # p
          BY <1>18, <3>1, <4>1
        <5>2. Within(Have(w, s), T) = {}
          BY <1>4, <1>6, <5>1 DEF Line, InTwoParts
        <5> QED BY <1>13, <5>1, <5>2
      <4>2. ASSUME NEW s \in PlanSides, s \notin q.todo, ~IsPromoted(q)
            PROVE  Within(Have(v, s), T) = Within(Want(v, s), T)
        BY <1>14, <1>18, <2>1, <3>1, <4>2
      <4> QED BY <1>15, <2>1, <3>1, <4>1, <4>2 DEF InTwoParts
    <3>2. CASE q.step = "sync"
      <4>1. q.counts /\ q.todo = PlanSides
        BY <1>18, <3>2 DEF Keeps
      <4>2. ASSUME NEW s \in PlanSides, ~IsPromoted(q)
            PROVE  Within(Have(v, s), T) = Within(Want(v, s), T)
        BY <1>14, <1>18, <2>1, <3>2, <4>2
      <4> QED BY <1>15, <2>1, <3>2, <4>1, <4>2 DEF InTwoParts
    <3> QED BY <1>18, <3>1, <3>2
  <2> QED BY <2>2, <2>3, <2>4, <2>5 DEF Line
<1>19. CASE job[j].todo # {p}
  <2>1. Keeps(q, r) /\ q.step = "addFriendly" /\ q.todo = r.todo \ {p}
    BY <1>1, <1>3, <1>19, ContinuedFor
  <2> QED BY <1>3, <1>11, <1>18, <2>1 DEF Brought, IdleJob
<1>20. CASE job[j].todo = {p} /\ job[j].counts
  <2>1. Keeps(q, r) /\ q.step = "sync" /\ q.todo = PlanSides
    BY <1>1, <1>3, <1>20, ContinuedFor
  <2>2. Line(v, q)
    BY <1>3, <1>18, <1>20, <2>1
  <2> QED BY <1>3, <1>11, <2>1, <2>2 DEF Brought, IdleJob
<1>21. CASE job[j].todo = {p} /\ ~job[j].counts
  <2>1. job'[j] = IdleJob
    BY <1>1, <1>21, Ended
  <2>2. Settled(v)
    <3>1. ASSUME "slots" \notin v.lapsed, NEW s \in PlanSides PROVE Have(v, s) = Want(v, s)
      <4>1. Without(Have(v, s), T) = Without(Want(v, s), T)
        BY <1>3, <1>16, <1>21, <3>1
      <4>2. Within(Have(v, s), T) = Within(Want(v, s), T)
        BY <1>3, <1>14, <1>15, <1>21, <3>1
      <4> QED BY <4>1, <4>2 DEF Within, Without
    <3> QED BY <1>5, <3>1 DEF Settled, Matches
  <2> QED BY <1>3, <1>11, <2>1, <2>2, BroughtIdle
<1> QED BY <1>19, <1>20, <1>21

\* The rows that syncSlotsForPlan deletes are those whose callsign and type is not wanted.
DroppedIds(j, p, kept) == {Id(t) : t \in OldRows(j, p) \ kept}

LEMMA DroppedRows ==
  ASSUME TypesInv, NEW j \in Jobs, NEW p \in PlanSides, job[j].step = "sync", p \in job[j].todo, game # None,
         Distinct(Ids), Line(View, job[j]), NEW kept, Paired(j, p, kept)
  PROVE  /\ {i \in At(Ids, p) : i.type \notin FriendlyTypes(j)} = {Id(s) : s \in OldRows(j, p)}
         /\ \A i \in DroppedIds(j, p, kept) : i \in Ids /\ i.side = p /\ i.type \notin FriendlyTypes(j)
         /\ \A t \in OldRows(j, p) : Id(t) \in DroppedIds(j, p, kept) <=> Key(t) \notin CommonKeys(j, p)
<1>1. FriendlyTypes(j) = FriendlyOf(job[j]) /\ View.ids = Ids
  BY FriendlyTypesOf, ViewIs
<1>2. OldRows(j, p) = Compared(job[j], p)
  BY <1>1 DEF OldRows, Compared
<1>3. /\ \A s, t \in job[j].rows : Id(s) = Id(t) => s = t
      /\ {i \in At(Ids, p) : i.type \notin FriendlyTypes(j)} = {Id(s) : s \in OldRows(j, p)}
  BY <1>1, <1>2 DEF Line, RowsRead
<1>4. ASSUME NEW i \in DroppedIds(j, p, kept)
      PROVE  i \in Ids /\ i.side = p /\ i.type \notin FriendlyTypes(j)
  <2>1. i \in {Id(s) : s \in OldRows(j, p)}
    BY DEF DroppedIds
  <2> QED BY <1>3, <2>1 DEF At
<1>5. ASSUME NEW t \in OldRows(j, p), Key(t) \in CommonKeys(j, p) PROVE Id(t) \notin DroppedIds(j, p, kept)
  <2>1. PICK s \in kept : Key(s) = Key(t)
    BY <1>5 DEF Paired
  <2>2. s \in OldRows(j, p)
    BY DEF Paired
  <2>3. Id(s) \in At(Ids, p) /\ Id(t) \in At(Ids, p)
    BY <1>3, <2>2
  <2>4. Id(s) = Id(t)
    BY <2>1, <2>3, KeyOfId DEF Distinct, At
  <2>5. t \in kept
    BY <1>3, <2>2, <2>4 DEF OldRows
  <2>6. ASSUME NEW u \in OldRows(j, p) \ kept PROVE Id(u) # Id(t)
    BY <1>3, <2>5 DEF OldRows
  <2> QED BY <2>6 DEF DroppedIds
<1>6. ASSUME NEW t \in OldRows(j, p), Key(t) \notin CommonKeys(j, p) PROVE Id(t) \in DroppedIds(j, p, kept)
  BY <1>6 DEF Paired, DroppedIds
<1> QED BY <1>3, <1>4, <1>5, <1>6

\* What one plan has after syncSlotsForPlan, of the types that are compared and of the others.
LEMMA SyncWritesIds ==
  ASSUME TypesInv, NEW j \in Jobs, NEW p \in PlanSides, job[j].step = "sync", p \in job[j].todo, game # None,
         Distinct(Ids), Line(View, job[j]), SyncWrites(j, p), NEW T, T = FriendlyTypes(j)
  PROVE  /\ Distinct(Ids')
         /\ Without(KeysOf(At(Ids', p)), T) = KeysOf(NewRows(j, p))
         /\ Within(KeysOf(At(Ids', p)), T) = Within(KeysOf(At(Ids, p)), T)
         /\ \A s : s # p => At(Ids', s) = At(Ids, s)
<1>1. PICK kept, left, f :
        /\ Paired(j, p, kept) /\ left = Left(j, p, kept) /\ Recounted(left, f)
        /\ slots' = {f[s] : s \in left} \union NewSlots(p, Missing(j, p))
  BY DEF SyncWrites
<1>2. PICK dropped, common : dropped = DroppedIds(j, p, kept) /\ common = CommonKeys(j, p)
  OBVIOUS
<1>3. /\ {i \in At(Ids, p) : i.type \notin T} = {Id(s) : s \in OldRows(j, p)}
      /\ \A i \in dropped : i \in Ids /\ i.side = p /\ i.type \notin T
      /\ \A t \in OldRows(j, p) : Id(t) \in dropped <=> Key(t) \notin common
  BY <1>1, <1>2, DroppedRows
<1> DEFINE rest == {i \in Ids : i \notin dropped}
           keys == KeysOf(Missing(j, p))
<1>4. PICK N : Ids' = rest \union N /\ Named(p, keys, N)
  <2>1. Missing(j, p) \subseteq SlotRows(job[j].game, job[j].content, p)
    BY DEF Missing, NewRows
  <2>2. job[j].step \in Loaded
    BY StepSets
  <2>3. \E N : Ids' = {Id(s) : s \in {f[t] : t \in left}} \union N /\ Named(p, keys, N)
    <3> DEFINE new == {f[t] : t \in left}
    <3>1. slots' = new \union NewSlots(p, Missing(j, p))
      BY <1>1
    <3> HIDE DEF new
    <3>2. \E N : Ids' = {Id(s) : s \in new} \union N /\ Named(p, KeysOf(Missing(j, p)), N)
      BY <2>1, <2>2, <3>1, IdsMade
    <3> QED BY <3>2 DEF new
  <2>4. left = {s \in slots : Id(s) \notin dropped}
    BY <1>1, <1>2 DEF Left, DroppedIds
  <2>5. {Id(s) : s \in {f[t] : t \in left}} = {Id(t) : t \in left}
    BY <1>1 DEF Recounted
  <2>6. {Id(t) : t \in left} = rest
    BY <2>4 DEF Ids
  <2> HIDE DEF keys, rest
  <2> QED BY <2>3, <2>5, <2>6
<1>5. At(rest, p) \subseteq At(Ids, p) /\ \A s : s # p => At(rest, s) = At(Ids, s)
  BY <1>3 DEF At
<1>6. Distinct(rest)
  <2>1. rest \subseteq Ids
    OBVIOUS
  <2> HIDE DEF rest
  <2> QED BY <2>1, FewerIds
<1>7. Within(KeysOf(At(rest, p)), T) = Within(KeysOf(At(Ids, p)), T)
  <2>1. ASSUME NEW i \in At(Ids, p), i.type \in T PROVE i \in At(rest, p)
    BY <1>3, <2>1 DEF At
  <2> HIDE DEF rest
  <2>2. \A k \in KeysOf(At(Ids, p)) : k[2] \in T => k \in KeysOf(At(rest, p))
    BY <2>1, KeyParts DEF KeysOf
  <2>3. KeysOf(At(rest, p)) \subseteq KeysOf(At(Ids, p))
    BY <1>5 DEF KeysOf
  <2> QED BY <2>2, <2>3 DEF Within
<1>8. Without(KeysOf(At(rest, p)), T) = common
  <2>1. common \subseteq KeysOf(OldRows(j, p)) /\ common \subseteq KeysOf(NewRows(j, p))
    BY <1>2 DEF CommonKeys
  <2>2. ASSUME NEW k \in common PROVE k \in KeysOf(At(rest, p)) /\ k[2] \notin T
    <3>1. PICK t \in OldRows(j, p) : Key(t) = k
      BY <2>1 DEF KeysOf
    <3>2. Id(t) \in At(Ids, p) /\ Id(t).type \notin T /\ Id(t) \notin dropped
      BY <1>3, <3>1
    <3>3. Id(t) \in At(rest, p)
      BY <3>2 DEF At
    <3>4. Key(Id(t)) = k
      BY <3>1, KeyOfId
    <3> HIDE DEF rest
    <3> QED BY <3>2, <3>3, <3>4, KeyParts DEF KeysOf
  <2>3. ASSUME NEW k \in KeysOf(At(rest, p)), k[2] \notin T PROVE k \in common
    <3>1. PICK i \in At(rest, p) : Key(i) = k
      BY DEF KeysOf
    <3>2. i \in At(Ids, p) /\ i.type \notin T /\ i \notin dropped
      BY <2>3, <3>1, KeyParts DEF At
    <3>3. PICK t \in OldRows(j, p) : i = Id(t)
      BY <1>3, <3>2
    <3> QED BY <1>3, <3>1, <3>2, <3>3, KeyOfId
  <2> HIDE DEF rest
  <2> QED BY <2>2, <2>3 DEF Without
<1>9. \A k \in KeysOf(NewRows(j, p)) : k[2] \notin T
  BY KeyParts DEF KeysOf, NewRows
<1>10. keys = KeysOf(NewRows(j, p)) \ common /\ common \subseteq KeysOf(NewRows(j, p))
  <2>1. keys = KeysOf(NewRows(j, p)) \ common
    BY <1>2 DEF Missing, KeysOf
  <2> QED BY <1>2, <2>1 DEF CommonKeys
<1> HIDE DEF rest, keys
<1>11. GrownBy(rest, p, keys, Ids')
  <2>1. keys \intersect KeysOf(At(rest, p)) = {}
    <3>1. ASSUME NEW k \in keys, k \in KeysOf(At(rest, p)) PROVE FALSE
      <4>1. k[2] \notin T /\ k \notin common
        BY <1>9, <1>10, <3>1
      <4> QED BY <1>8, <3>1, <4>1 DEF Without
    <3> QED BY <3>1
  <2>2. GrownBy(rest, p, keys, rest \union N)
    BY <1>4, <1>6, <2>1, IdsAdded
  <2> QED BY <1>4, <2>2
<1>12. /\ Distinct(Ids') /\ KeysOf(At(Ids', p)) = KeysOf(At(rest, p)) \union keys
       /\ \A s : s # p => At(Ids', s) = At(Ids, s)
  BY <1>5, <1>11 DEF GrownBy
<1>13. Without(KeysOf(At(Ids', p)), T) = KeysOf(NewRows(j, p))
  <2>1. Without(KeysOf(At(Ids', p)), T) = Without(KeysOf(At(rest, p)), T) \union keys
    BY <1>9, <1>10, <1>12 DEF Without
  <2> QED BY <1>8, <1>10, <2>1
<1>14. Within(KeysOf(At(Ids', p)), T) = Within(KeysOf(At(rest, p)), T)
  BY <1>9, <1>10, <1>12 DEF Within
<1> QED BY <1>7, <1>12, <1>13, <1>14

LEMMA SyncSlotsLine ==
  ASSUME TypesInv, TypesInv', NEW j \in Jobs, NEW p \in PlanSides, SyncSlots(j, p),
         Distinct(Ids), Line(View, job[j])
  PROVE  Brought(j)
<1>1. /\ job[j].step = "sync" /\ JobsFit /\ SlotsFit /\ p \in job[j].todo
      /\ UNCHANGED <<game, version, plan>>
  BY DEF TypesInv, SyncSlots
<1>2. /\ game # None /\ job[j].route = "sync" /\ job[j].todo \subseteq PlanSides
      /\ \A s \in PlanSides : plan[s].exists
      /\ job[j].step \in Loaded
  BY <1>1, StepSets DEF JobsFit, JobFitsIn
<1>3. CASE UNCHANGED slots /\ EndJob(j) /\ lapsed' = lapsed \union LeftUndone(j)
  <2>1. job'[j] = IdleJob
    BY <1>1, <1>3, Ended
  <2>2. "slots" \in View'.lapsed
    BY <1>1, <1>2, <1>3, JobViews DEF LeftUndone
  <2>3. Distinct(Ids')
    BY <1>3 DEF Ids
  <2> QED BY <2>1, <2>2, <2>3, BroughtIdle DEF Settled
<1>4. CASE /\ SyncWrites(j, p)
           /\ IF job[j].todo # {p} THEN ContinueFor(j, "sync", job[j].todo \ {p})
              ELSE IF job[j].hq THEN Continue(j, "readHq") ELSE EndJob(j)
           /\ lapsed' = IF job[j].todo = {p} /\ ~Promoted(j) THEN lapsed \ {"slots"} ELSE lapsed
  <2>1. PICK w, v, r, q : w = View /\ v = View' /\ r = job[j] /\ q = job'[j]
    OBVIOUS
  <2>2. PICK T : T = FriendlyTypes(j)
    OBVIOUS
  <2>3. /\ v.game = w.game /\ v.version = w.version /\ v.there = PlanSides
        /\ w.ids = Ids /\ v.ids = Ids' /\ w.lapsed = lapsed /\ v.lapsed = lapsed' /\ w.game # None
    BY <1>1, <1>2, <2>1, JobViews
  <2>4. /\ r.step = "sync" /\ p \in r.todo /\ r.todo \subseteq PlanSides
        /\ r.route = "sync" /\ Line(w, r)
        /\ T = FriendlyOf(r) /\ (Promoted(j) <=> IsPromoted(r))
    BY <1>1, <1>2, <2>1, <2>2, FriendlyTypesOf
  <2>5. /\ Distinct(Ids')
        /\ Without(KeysOf(At(Ids', p)), T) = KeysOf(NewRows(j, p))
        /\ Within(KeysOf(At(Ids', p)), T) = Within(KeysOf(At(Ids, p)), T)
        /\ \A s : s # p => At(Ids', s) = At(Ids, s)
    BY <1>1, <1>2, <1>4, <2>2, SyncWritesIds
  <2>6. \A s : Want(v, s) = Want(w, s)
    BY <2>3 DEF Want
  <2>7. KeysOf(NewRows(j, p)) = Without(Want(w, p), T)
    <3>1. Want(w, p) = KeysOf(SlotRows(r.game, r.content, p))
      BY <2>4, StepSets, WantAsRead DEF Line
    <3>2. NewRows(j, p) = {d \in SlotRows(r.game, r.content, p) : d.type \notin T}
      BY <2>1, <2>2 DEF NewRows
    <3> QED BY <3>1, <3>2, KeyParts DEF KeysOf, Without
  <2>8. r.counts /\ (IsPromoted(r) => "slots" \in w.lapsed)
    BY <2>4 DEF Line, InTwoParts
  <2>9. ASSUME NEW s \in PlanSides, s = p \/ s \notin r.todo
        PROVE  Without(Have(v, s), T) = Without(Want(v, s), T)
    <3>1. CASE s = p
      BY <2>3, <2>5, <2>6, <2>7, <3>1 DEF Have
    <3>2. CASE s # p
      <4>1. Without(Have(w, s), T) = Without(Want(w, s), T)
        BY <2>4, <2>9, <3>2 DEF Line, InTwoParts
      <4> QED BY <2>3, <2>5, <2>6, <3>2, <4>1 DEF Have
    <3> QED BY <3>1, <3>2
  <2>10. ASSUME NEW s \in PlanSides, ~IsPromoted(r)
         PROVE  Within(Have(v, s), T) = Within(Want(v, s), T)
    <3>1. Within(Have(w, s), T) = Within(Want(w, s), T)
      BY <2>4, <2>10 DEF Line, InTwoParts
    <3>2. Within(Have(v, s), T) = Within(Have(w, s), T)
      BY <2>3, <2>5 DEF Have
    <3> QED BY <2>6, <3>1, <3>2
  <2>11. CASE job[j].todo # {p}
    <3>1. Keeps(q, r) /\ q.step = "sync" /\ q.todo = r.todo \ {p} /\ v.lapsed = w.lapsed
      BY <1>1, <1>4, <2>1, <2>3, <2>11, ContinuedFor
    <3>2. FriendlyOf(q) = T /\ (IsPromoted(q) <=> IsPromoted(r))
      BY <2>4, <3>1 DEF FriendlyOf, IsPromoted, Keeps
    <3>3. AsRead(v, q) /\ SideBySide(v, q) /\ Undisturbed(v, q) /\ NoFile(v, q)
      BY <2>3, <2>4, <2>8, <3>1, StepSets DEF Line, AsRead, SideBySide, Undisturbed, NoFile, Keeps
    <3>4. RowsRead(v, q)
      <4>1. /\ \A s, t \in r.rows : Id(s) = Id(t) => s = t
            /\ \A s \in PlanSides : s \in r.todo =>
                 {i \in At(w.ids, s) : i.type \notin T} = {Id(t) : t \in Compared(r, s)}
        BY <2>4 DEF Line, RowsRead
      <4>2. \A s \in PlanSides : Compared(q, s) = Compared(r, s)
        BY <2>4, <3>1, <3>2 DEF Compared, Keeps
      <4>3. \A s \in PlanSides : s \in q.todo => s \in r.todo /\ At(v.ids, s) = At(w.ids, s)
        BY <2>3, <2>5, <3>1
      <4> QED BY <3>1, <3>2, <4>1, <4>2, <4>3 DEF RowsRead, Keeps
    <3>5. InTwoParts(v, q)
      BY <2>8, <2>9, <2>10, <3>1, <3>2 DEF InTwoParts, Keeps
    <3>6. Line(v, q) /\ q # IdleJob
      BY <3>1, <3>3, <3>4, <3>5 DEF Line, IdleJob
    <3> QED BY <2>1, <2>5, <3>6 DEF Brought
  <2>12. CASE job[j].todo = {p}
    <3>1. ASSUME "slots" \notin v.lapsed, NEW s \in PlanSides PROVE Matches(v, s)
      <4>1. ~IsPromoted(r)
        BY <1>4, <2>3, <2>4, <2>8, <3>1
      <4>2. Within(Have(v, s), T) = Within(Want(v, s), T)
        BY <2>10, <4>1
      <4>3. Without(Have(v, s), T) = Without(Want(v, s), T)
        BY <2>1, <2>9, <2>12
      <4>4. Have(v, s) = Want(v, s)
        BY <4>2, <4>3 DEF Within, Without
      <4> QED BY <2>3, <4>4 DEF Matches
    <3>2. q = IdleJob \/ (Keeps(q, r) /\ q.step = "readHq")
      BY <1>1, <1>4, <2>1, <2>12, Continued, Ended
    <3>3. q.step = "readHq" => Line(v, q)
      BY <2>8, <3>1, <3>2, StepSets
         DEF Line, AsRead, RowsRead, NoFile, SideBySide, Undisturbed, InTwoParts, IdleJob, Keeps
    <3>4. Settled(v)
      BY <3>1 DEF Settled
    <3> QED BY <2>1, <2>5, <3>2, <3>3, <3>4, LineIdle DEF Brought
  <2> QED BY <2>11, <2>12
<1> QED BY <1>1, <1>3, <1>4, SyncEffect

LEMMA SaveGameLine ==
  ASSUME TypesInv, TypesInv', NEW j \in Jobs, SaveGame(j), DecidedOn(job[j]),
         Distinct(Ids), Line(View, job[j])
  PROVE  Brought(j)
<1>1. /\ job[j].step = "saveGame" /\ JobsFit /\ UNCHANGED <<version, plan, slots, lapsed>>
  BY DEF TypesInv, SaveGame
<1>2. game # None /\ job[j].edit \in Edits /\ Ids' = Ids
  BY <1>1, StepSets DEF JobsFit, JobFitsIn, Ids
<1>3. PICK w, v, r, q : w = View /\ v = View' /\ r = job[j] /\ q = job'[j]
  OBVIOUS
<1>4. /\ v.ids = w.ids /\ v.there = w.there /\ v.version = w.version /\ v.lapsed = w.lapsed
  BY <1>1, <1>2, <1>3, ViewIs, ViewIsNext
<1>5. /\ w.game # None /\ w.game.version = game.version
      /\ w.game.attack = game.attack /\ w.game.defense = game.defense
  BY <1>2, <1>3, ViewIs
<1>6. r.step = "saveGame" /\ r # IdleJob /\ Line(w, r)
  BY <1>1, <1>3 DEF IdleJob
<1>7. "slots" \notin w.lapsed => \A p \in PlanSides : Matches(w, p)
  BY <1>5, <1>6, StepSets DEF Line, Undisturbed
<1>8. CASE UNCHANGED game /\ EndJob(j)
  <2>1. q = IdleJob
    BY <1>1, <1>3, <1>8, Ended
  <2>2. v.game = w.game
    BY <1>3, <1>8 DEF View
  <2>3. Settled(v)
    BY <1>4, <1>7, <2>2 DEF Settled, Matches, Have, Want
  <2> QED BY <1>2, <1>3, <2>1, <2>3, BroughtIdle
<1>9. CASE /\ game' = Edited(job[j].edit)
           /\ {job[j].edit.attackHq, job[j].edit.defenseHq} \intersect disbanded = {}
           /\ CASE job[j].route = "none" -> EndJob(j)
                [] job[j].route = "hq" -> Continue(j, "readHq")
                [] OTHER -> Continue(j, "load")
  <2>1. game' # None
    <3>1. game' \in GameRows
      BY <1>2, <1>9, EditedGame DEF TypesInv
    <3> QED BY <3>1, HeadquartersAssumption
  <2>2. /\ r.counts /\ r.route \in {"none", "hq", "sync", "reset"}
        /\ r.route \in {"none", "hq"} => /\ game'.attack = game.attack /\ game'.defense = game.defense
                                         /\ game'.version = game.version
    BY <1>1, <1>3, <1>9 DEF DecidedOn
  <2>3. CASE r.route \in {"none", "hq"}
    <3>1. \A p : Want(v, p) = Want(w, p)
      <4>1. /\ v.game.version = w.game.version /\ v.game.attack = w.game.attack
            /\ v.game.defense = w.game.defense
        BY <1>3, <1>5, <2>1, <2>2, <2>3, ViewIsNext
      <4>2. \A c, p : SlotRows(v.game, c, p) = SlotRows(w.game, c, p)
        BY <4>1, SlotRowsOf
      <4> QED BY <1>4, <4>1, <4>2 DEF Want
    <3>2. "slots" \notin v.lapsed => \A p \in PlanSides : Matches(v, p)
      BY <1>4, <1>7, <3>1 DEF Matches, Have
    <3>3. q = IdleJob \/ (Keeps(q, r) /\ q.step = "readHq")
      BY <1>1, <1>3, <1>9, <2>3, Ended, Continued
    <3>4. q.step = "readHq" => Line(v, q)
      BY <2>2, <3>2, <3>3, StepSets
         DEF Line, AsRead, RowsRead, NoFile, SideBySide, Undisturbed, InTwoParts, IdleJob, Keeps
    <3> QED BY <1>2, <1>3, <3>2, <3>3, <3>4, LineIdle DEF Brought, Settled
  <2>4. CASE r.route \in {"sync", "reset"}
    <3>1. Keeps(q, r) /\ q.step = "load"
      BY <1>1, <1>3, <1>9, <2>4, Continued
    <3>2. Line(v, q) /\ q # IdleJob
      BY <2>2, <2>4, <3>1, StepSets
         DEF Line, AsRead, RowsRead, NoFile, SideBySide, Undisturbed, InTwoParts, IdleJob, Keeps
    <3> QED BY <1>2, <1>3, <3>2 DEF Brought
  <2> QED BY <2>2, <2>3, <2>4
<1> QED BY <1>8, <1>9 DEF SaveGame

\* Versions that differ in their friendly sides alone ask for the same other rows.
LEMMA OtherRows ==
  ASSUME NEW c, NEW e, e.attackType = c.attackType, e.defenseType = c.defenseType,
         e.attackSlots = c.attackSlots, e.defenseSlots = c.defenseSlots,
         NEW T, c.friendlyType # None => c.friendlyType \in T, NEW g, NEW p
  PROVE  Without(KeysOf(SlotRows(g, c, p)), T) \subseteq Without(KeysOf(SlotRows(g, e, p)), T)
<1>1. /\ PrimaryType(g, c, p) = PrimaryType(g, e, p)
      /\ PrimarySlots(g, c, p) = PrimarySlots(g, e, p)
  BY DEF PrimaryType, PrimarySlots
<1> DEFINE type == PrimaryType(g, c, p)
           primary == PrimarySlots(g, c, p)
           own == {Row(s[1], type, s[2]) : s \in primary}
                  \union {Row(n, type, 0) : n \in IF primary = {} THEN DefaultCallsigns ELSE {}}
           friendly(x) == {Row(s[1], x.friendlyType, s[2]) : s \in
                             IF type # None /\ x.friendlyType # None /\ x.friendlyTo = type
                             THEN x.friendlySlots ELSE {}}
<1>2. SlotRows(g, c, p) = own \union friendly(c) /\ SlotRows(g, e, p) = own \union friendly(e)
  BY <1>1 DEF SlotRows
<1>3. \A d \in friendly(c) : d.type \in T
  BY DEF Row
<1> HIDE DEF own, friendly
<1>4. ASSUME NEW k \in KeysOf(SlotRows(g, c, p)), k[2] \notin T PROVE k \in KeysOf(SlotRows(g, e, p))
  <2>1. PICK d \in SlotRows(g, c, p) : k = Key(d)
    BY DEF KeysOf
  <2>2. d \in own
    BY <1>2, <1>3, <1>4, <2>1, KeyParts
  <2> QED BY <1>2, <2>1, <2>2 DEF KeysOf
<1> QED BY <1>4 DEF Without

LEMMA SaveVersionLine ==
  ASSUME TypesInv, TypesInv', NEW j \in Jobs, SaveVersion(j), Distinct(Ids), Line(View, job[j])
  PROVE  Brought(j)
<1>1. /\ job[j].step = "saveVersion" /\ JobsFit /\ UNCHANGED <<game, plan, slots>>
      /\ version' = [version EXCEPT ![job[j].version] = job[j].content]
  BY DEF TypesInv, SaveVersion
<1>2. /\ job[j].version \in Versions /\ ContentOK(job[j].content) /\ job[j].route = "sync"
      /\ Ids' = Ids
  BY <1>1, StepSets DEF JobsFit, JobFitsIn, Ids
<1>3. PICK w, v, r, q : w = View /\ v = View' /\ r = job[j] /\ q = job'[j]
  OBVIOUS
<1>4. /\ w.ids = Ids /\ v.ids = Ids /\ v.there = w.there /\ v.game = w.game
      /\ w.version = version /\ v.version = version' /\ w.lapsed = lapsed /\ v.lapsed = lapsed'
      /\ w.game = None <=> game = None
      /\ game # None => w.game.version = game.version
  <2>1. v.game = w.game
    BY <1>1, <1>3 DEF View
  <2>2. v.there = w.there
    BY <1>1, <1>3, ViewIs, ViewIsNext
  <2>3. /\ w.ids = Ids /\ v.ids = Ids
        /\ w.version = version /\ v.version = version' /\ w.lapsed = lapsed /\ v.lapsed = lapsed'
    BY <1>2, <1>3, ViewIs, ViewIsNext
  <2>4. /\ w.game = None <=> game = None
        /\ game # None => w.game.version = game.version
    BY <1>3, ViewIs
  <2> QED BY <2>1, <2>2, <2>3, <2>4
<1>5. /\ r.step = "saveVersion" /\ r # IdleJob /\ r.route = "sync" /\ Line(w, r)
      /\ r.version \in Versions /\ ContentOK(r.content)
  BY <1>1, <1>2, <1>3 DEF IdleJob
<1>6. /\ v.version[r.version] = r.content
      /\ \A x \in Versions : x # r.version => v.version[x] = w.version[x]
      /\ \A x \in Versions : ContentOK(w.version[x])
  BY <1>1, <1>2, <1>3, <1>4 DEF TypesInv, VersionsFit
<1>7. w.game # None /\ "slots" \notin w.lapsed => \A p \in PlanSides : Matches(w, p)
  BY <1>5, StepSets DEF Line, Undisturbed
<1>8. CASE ~Uses(job[j].version) /\ EndJob(j) /\ lapsed' = lapsed
  <2>1. q = IdleJob
    BY <1>1, <1>3, <1>8, Ended
  <2>2. ASSUME w.game # None PROVE v.version[v.game.version] = w.version[w.game.version]
    <3>1. game # None /\ game.version \in Versions /\ game.version # r.version
      BY <1>3, <1>4, <1>8, <2>2 DEF Uses, TypesInv, GameFits, GameRows
    <3> QED BY <1>4, <1>6, <3>1
  <2>3. Settled(v)
    BY <1>4, <1>7, <1>8, <2>2 DEF Settled, Matches, Have, Want
  <2> QED BY <1>2, <1>3, <2>1, <2>3, BroughtIdle
<1>9. CASE EndJob(j) /\ "slots" \in lapsed'
  <2>1. job'[j] = IdleJob
    BY <1>1, <1>9, Ended
  <2>2. Settled(View')
    BY <1>3, <1>4, <1>9 DEF Settled
  <2> QED BY <1>2, <2>1, <2>2, BroughtIdle
<1>10. CASE /\ Uses(job[j].version) /\ (job[j].counts \/ job[j].friendly)
            /\ Continue(j, "load")
            /\ lapsed' = IF /\ \/ job[j].content.attackType # version[job[j].version].attackType
                               \/ job[j].content.defenseType # version[job[j].version].defenseType
                            /\ ~job[j].counts
                         THEN lapsed \union {"slots"} ELSE lapsed
  <2>1. Keeps(q, r) /\ q.step = "load"
    BY <1>1, <1>3, <1>10, Continued
  <2>2. w.game # None /\ w.game.version = r.version
    BY <1>3, <1>4, <1>10 DEF Uses
  <2>3. PICK T, old : T = FriendlyOf(r) /\ old = w.version[r.version]
    OBVIOUS
  <2>4. FriendlyOf(q) = T
    BY <2>1, <2>3 DEF FriendlyOf, Keeps
  <2>5. NoFile(v, q)
    <3> SUFFICES ASSUME ~r.counts
                 PROVE  /\ r.content = v.version[v.game.version]
                        /\ T # {}
                        /\ "slots" \notin v.lapsed => \A p \in PlanSides :
                             p \in v.there /\ Without(Have(v, p), T) = Without(Want(v, p), T)
      BY <2>1, <2>4, StepSets DEF NoFile, Keeps
    <3>1. /\ r.content.attackSlots = old.attackSlots /\ r.content.defenseSlots = old.defenseSlots
          /\ r.previous = old.friendlyType
      BY <1>5, <2>3 DEF Line, NoFile
    <3>2. r.friendly /\ ContentOK(old)
      BY <1>3, <1>5, <1>6, <1>10, <2>3
    <3>3. old.friendlyTo # r.content.friendlyTo \/ old.friendlyType # r.content.friendlyType
      BY <1>5, <2>3, <3>2 DEF Line, NoFile
    <3>4. old.friendlyType # None \/ r.content.friendlyType # None
      BY <1>5, <3>2, <3>3 DEF ContentOK
    <3>5. T = {old.friendlyType, r.content.friendlyType} \ {None}
      BY <2>3, <3>1, <3>2 DEF FriendlyOf
    <3>6. r.content = v.version[v.game.version]
      BY <1>4, <1>6, <2>2
    <3>7. ASSUME "slots" \notin v.lapsed, NEW p \in PlanSides
          PROVE  p \in v.there /\ Without(Have(v, p), T) = Without(Want(v, p), T)
      <4>1. /\ r.content.attackType = old.attackType /\ r.content.defenseType = old.defenseType
            /\ "slots" \notin w.lapsed
        BY <1>3, <1>4, <1>10, <2>3, <3>7
      <4>2. Matches(w, p)
        BY <1>7, <2>2, <4>1
      <4>3. Without(KeysOf(SlotRows(w.game, old, p)), T) = Without(KeysOf(SlotRows(w.game, r.content, p)), T)
        <5>1. Without(KeysOf(SlotRows(w.game, old, p)), T)
              \subseteq Without(KeysOf(SlotRows(w.game, r.content, p)), T)
          BY <3>1, <3>5, <4>1, OtherRows
        <5>2. Without(KeysOf(SlotRows(w.game, r.content, p)), T)
              \subseteq Without(KeysOf(SlotRows(w.game, old, p)), T)
          BY <3>1, <3>5, <4>1, OtherRows
        <5> QED BY <5>1, <5>2
      <4>4. Want(v, p) = KeysOf(SlotRows(w.game, r.content, p))
        BY <1>4, <3>6 DEF Want
      <4>5. Want(w, p) = KeysOf(SlotRows(w.game, old, p))
        BY <2>2, <2>3 DEF Want
      <4> QED BY <1>4, <4>2, <4>3, <4>4, <4>5 DEF Matches, Have
    <3> QED BY <3>4, <3>5, <3>6, <3>7
  <2>6. AsRead(v, q) /\ RowsRead(v, q) /\ SideBySide(v, q) /\ Undisturbed(v, q) /\ InTwoParts(v, q)
    BY <1>5, <2>1, StepSets DEF AsRead, RowsRead, SideBySide, Undisturbed, InTwoParts, Keeps
  <2>7. Line(v, q) /\ q # IdleJob
    BY <2>1, <2>5, <2>6 DEF Line, IdleJob
  <2> QED BY <1>2, <1>3, <2>7 DEF Brought
<1>11. ~Uses(job[j].version) => ~(Uses(job[j].version) /\ job[j].counts)
  OBVIOUS
<1> QED BY <1>8, <1>9, <1>10 DEF SaveVersion

-----------------------------------------------------------------------------
(* The slots: every step. *)

\* The definitions that the next step of SlotsInv comes down to.
SlotsNext ==
  /\ Distinct(Ids')
  /\ (\A j \in Jobs : job'[j] = IdleJob) => Settled(View')
  /\ \A j \in Jobs : Line(View', job'[j])

LEMMA SlotsNextIs == ASSUME SlotsNext PROVE SlotsInv'
<1>1. PICK w : w = View'
  OBVIOUS
<1>2. Distinct(Ids)' /\ (\A j \in Jobs : Line(View, job[j])')
  BY DEF SlotsNext, Distinct, Line, AsRead, RowsRead, NoFile, SideBySide, Undisturbed, InTwoParts
<1>3. (\A j \in Jobs : job'[j] = IdleJob) => Settled(View)'
  BY DEF SlotsNext
<1> QED BY <1>2, <1>3 DEF SlotsInv

LEMMA SlotsJobStep ==
  ASSUME TypesInv, TypesInv', OneJob, NEW j \in Jobs, JobStep(j), DecidedOn(job[j]),
         Distinct(Ids), Line(View, job[j])
  PROVE  SlotsNext
<1>1. Brought(j)
  <2>1. SaveGame(j) \/ SaveVersion(j) \/ LoadGame(j) \/ PlansEnsured(j) => Brought(j)
    BY SaveGameLine, SaveVersionLine, LoadGameLine, PlansEnsuredLine
  <2>2. ClearPlans(j) \/ ReadHqSquads(j) \/ ReadPlans(j) \/ DropFriendlySlots(j) => Brought(j)
    BY ClearPlansLine, ReadHqSquadsLine, ReadPlansLine, DropFriendlySlotsLine
  <2>3. ASSUME NEW p \in PlanSides
        PROVE  CreatePlan(j, p) \/ FillPlan(j, p) \/ RebuildSlots(j, p) => Brought(j)
    BY CreatePlanLine, FillPlanLine, RebuildSlotsLine
  <2>4. ASSUME NEW p \in PlanSides
        PROVE  SetHqSquad(j, p) \/ AddFriendlySlots(j, p) \/ SyncSlots(j, p) => Brought(j)
    BY SetHqSquadLine, AddFriendlySlotsLine, SyncSlotsLine
  <2> QED BY <2>1, <2>2, <2>3, <2>4 DEF JobStep
<1>2. \A k \in Jobs : k # j => job'[k] = IdleJob
  BY OthersIdle
<1>3. \A k \in Jobs : Line(View', job'[k])
  BY <1>1, <1>2, LineIdle DEF Brought
<1> QED BY <1>1, <1>3 DEF Brought, SlotsNext

\* While the ids, the sides and the requests of organisers stay, all stays.
LEMMA SlotsStay ==
  ASSUME TypesInv, TypesInv', SameGame, Ids' = Ids, UNCHANGED <<version, job, lapsed>>,
         \A p \in PlanSides : plan'[p].exists = plan[p].exists,
         Distinct(Ids), (\A j \in Jobs : job[j] = IdleJob) => Settled(View),
         \A j \in Jobs : Line(View, job[j])
  PROVE  SlotsNext
<1>1. View' = View
  BY ViewStays
<1> QED BY <1>1 DEF SlotsNext

LEMMA SameIds ==
  ASSUME NEW f, slots' = {f[s] : s \in slots}, \A s \in slots : Id(f[s]) = Id(s)
  PROVE  Ids' = Ids
<1>1. Ids' = {Id(s) : s \in slots'}
  BY DEF Ids, Id
<1> QED BY <1>1 DEF Ids

LEMMA AskStepStays ==
  ASSUME TypesInv, NEW a \in Asks, AskStep(a)
  PROVE  /\ UNCHANGED <<game, version, job, lapsed>> /\ Ids' = Ids
         /\ \A p \in PlanSides : plan'[p].exists = plan[p].exists
<1>1. UNCHANGED <<game, version, job, lapsed>>
  BY DEF AskStep, AssignHqSquad, AssignCommander, UnassignHqSquad, UnassignCommander, UpdateSlot
<1>2. CASE UpdateSlot(a)
  <2>1. PICK f : slots' = {f[s] : s \in slots} /\ SlotUpdated(a, f)
    BY <1>2, SlotUpdates DEF TypesInv
  <2>2. Ids' = Ids
    BY <2>1, SameIds DEF SlotUpdated
  <2> QED BY <1>1, <1>2, <2>2 DEF UpdateSlot
<1>3. CASE ~UpdateSlot(a)
  <2>1. /\ slots' = slots /\ Records /\ Seen
        /\ ask[a].step \in {"takeHq", "appoint", "dropHq", "dismiss"}
    BY <1>3 DEF TypesInv, CommandInv, AskStep, AssignHqSquad, AssignCommander, UnassignHqSquad,
                UnassignCommander
  <2>2. PICK p \in PlanSides : p = ask[a].side
    BY <2>1 DEF Records, IsAsk
  <2>3. plan[p].exists /\ plan = [q \in PlanSides |-> plan[q]] /\ IsPlan(plan[p])
    BY <2>1, <2>2 DEF Records, Seen, SeenIn
  <2>4. \A q \in PlanSides : q # p => plan'[q] = plan[q]
    BY <1>3, <2>2, <2>3
       DEF AskStep, AssignHqSquad, AssignCommander, UnassignHqSquad, UnassignCommander
  <2>5. plan'[p].exists
    <3>1. CASE AssignHqSquad(a) \/ AssignCommander(a)
      <4>1. plan'[p].exists = plan[p].exists
        <5>1. CASE plan' = plan
          BY <5>1
        <5>2. CASE AssignHqSquad(a) /\ plan' # plan
          BY <2>2, <2>3, <5>2 DEF AssignHqSquad, IsPlan
        <5>3. CASE AssignCommander(a)
          BY <2>2, <2>3, <5>3 DEF AssignCommander, IsPlan
        <5> QED BY <3>1, <5>1, <5>2, <5>3
      <4> QED BY <2>3, <4>1
    <3>2. CASE UnassignHqSquad(a)
      <4>1. plan' = [plan EXCEPT ![p] = [NoPlan EXCEPT !.exists = TRUE]]
        BY <2>2, <3>2 DEF UnassignHqSquad
      <4> QED BY <2>3, <4>1, BareRow
    <3>3. CASE UnassignCommander(a)
      <4>1. plan' = [plan EXCEPT ![p] = [NoPlan EXCEPT !.exists = TRUE, !.hq = plan[p].hq]]
        BY <2>2, <3>3 DEF UnassignCommander
      <4> QED BY <2>3, <4>1, BareRow
    <3> QED BY <1>3, <3>1, <3>2, <3>3 DEF AskStep
  <2>6. Ids' = Ids
    BY <2>1 DEF Ids
  <2>7. \A q \in PlanSides : plan'[q].exists = plan[q].exists
    <3>1. plan'[p].exists = TRUE /\ plan[p].exists = TRUE
      BY <2>3, <2>5
    <3> QED BY <2>4, <3>1
  <2> QED BY <1>1, <2>6, <2>7
<1> QED BY <1>2, <1>3

LEMMA DeleteSquadStays ==
  ASSUME TypesInv, NEW q \in Squads, DeleteSquad(q)
  PROVE  /\ UNCHANGED <<version, job, lapsed>> /\ Ids' = Ids
         /\ \A p \in PlanSides : plan'[p].exists = plan[p].exists
<1>1. PICK f : slots' = {f[s] : s \in slots} /\ \A s \in slots : Id(f[s]) = Id(s)
  BY DeleteSquadSlots DEF TypesInv
<1>2. Ids' = Ids
  BY <1>1, SameIds
<1>3. \A p \in PlanSides : plan'[p].exists = plan[p].exists
  <2>1. \A p \in PlanSides : IsPlan(plan[p])
    BY DEF TypesInv, CommandInv, Records
  <2> QED BY <2>1 DEF DeleteSquad, IsPlan
<1> QED BY <1>2, <1>3 DEF DeleteSquad

\* A request that starts alone finds the slots settled.
LEMMA StartedAlone ==
  ASSUME TypesInv, NEW j \in Jobs, NEW call, StartJob(j, call), Alone'
  PROVE  /\ \A k \in Jobs : job[k] = IdleJob /\ (k # j => job'[k] = IdleJob)
         /\ job'[j] = call /\ lapsed' = lapsed
<1>1. \A k \in Jobs : job[k] = IdleJob
  BY DEF StartJob, Alone
<1> QED BY <1>1, Started DEF TypesInv, StartJob, Others

LEMMA SlotsStarted ==
  ASSUME TypesInv, NEW j \in Jobs, NEW call, StartJob(j, call), Alone', call # IdleJob,
         Distinct(Ids'), Line(View', call)
  PROVE  SlotsNext
<1>1. \A k \in Jobs : k # j => job'[k] = IdleJob
  BY StartedAlone
<1>2. job'[j] = call
  BY StartedAlone
<1> QED BY <1>1, <1>2, LineIdle DEF SlotsNext

LEMMA CreateGameSlots ==
  ASSUME TypesInv, TypesInv', NoGame, NEW j \in Jobs, NEW g \in Games, CreateGame(j, g), Alone',
         Distinct(Ids)
  PROVE  SlotsNext
<1>1. PICK call : call = [IdleJob EXCEPT !.step = "load", !.route = "create"]
  OBVIOUS
<1>2. StartJob(j, call) /\ game = None /\ UNCHANGED <<plan, slots>>
  BY <1>1 DEF CreateGame
<1>3. View'.there = {}
  BY <1>2, ViewIsNext DEF NoGame
<1>4. call.step = "load" /\ call.route = "create"
  BY <1>1 DEF IdleJob
<1>5. PICK v : v = View'
  OBVIOUS
<1>6. Line(v, call)
  BY <1>3, <1>4, <1>5, StepSets
     DEF Line, AsRead, RowsRead, NoFile, SideBySide, Undisturbed, InTwoParts
<1>7. Distinct(Ids')
  BY <1>2 DEF Ids
<1>8. call # IdleJob
  BY <1>4 DEF IdleJob
<1> QED BY <1>2, <1>5, <1>6, <1>7, <1>8, SlotsStarted

\* Before its first write a request finds the slots as they are settled.
LEMMA ChecksSlots ==
  ASSUME TypesInv, TypesInv', UNCHANGED <<game, version, plan, slots>>,
         NEW j \in Jobs, NEW call, StartJob(j, call), Alone',
         call.step \in {"saveGame", "saveVersion"}, NoFile(View, call),
         Distinct(Ids), (\A k \in Jobs : job[k] = IdleJob) => Settled(View)
  PROVE  SlotsNext
<1>1. (\A k \in Jobs : job[k] = IdleJob) /\ lapsed' = lapsed
  BY StartedAlone
<1>2. Ids' = Ids /\ SameGame
  BY DEF Ids, SameGame
<1>3. View' = View
  BY <1>1, <1>2, ViewStays
<1>4. Settled(View)
  BY <1>1
<1>5. PICK w : w = View
  OBVIOUS
<1>6. Line(w, call)
  BY <1>4, <1>5, StepSets
     DEF Settled, Line, AsRead, RowsRead, SideBySide, Undisturbed, InTwoParts
<1>7. call # IdleJob
  BY DEF IdleJob
<1> QED BY <1>2, <1>3, <1>5, <1>6, <1>7, SlotsStarted

LEMMA UpdateGameSlots ==
  ASSUME TypesInv, TypesInv', NEW j \in Jobs, NEW e \in Edits, UpdateGameCheck(j, e), Alone',
         Distinct(Ids), (\A k \in Jobs : job[k] = IdleJob) => Settled(View)
  PROVE  SlotsNext
<1> DEFINE next == Edited(e)
           reset == \/ next.attack # game.attack \/ next.defense # game.defense
                    \/ MissionOf[next.version] # MissionOf[game.version]
           hq == next.attackHq # game.attackHq \/ next.defenseHq # game.defenseHq
           route == IF reset THEN "reset"
                    ELSE IF next.version # game.version THEN "sync"
                    ELSE IF hq THEN "hq" ELSE "none"
           old == version[game.version]
           new == version[next.version]
           friendly == old.friendlyTo # new.friendlyTo \/ old.friendlyType # new.friendlyType
           call == [IdleJob EXCEPT !.step = "saveGame", !.edit = e, !.hq = hq, !.route = route,
                      !.counts = TRUE, !.previous = old.friendlyType, !.friendly = friendly]
<1>1. StartJob(j, call) /\ UNCHANGED <<game, version, plan, slots>>
  BY DEF UpdateGameCheck
<1>2. call.step = "saveGame" /\ call.counts = TRUE
  <2> HIDE DEF route, hq, friendly, old
  <2> QED BY DEF IdleJob
<1> HIDE DEF call
<1>3. NoFile(View, call)
  BY <1>2 DEF NoFile
<1> QED BY <1>1, <1>2, <1>3, ChecksSlots

LEMMA UpdateVersionSlots ==
  ASSUME TypesInv, TypesInv', NEW j \in Jobs, NEW v \in Versions, NEW c \in Contents,
         NEW file \in BOOLEAN, UpdateVersionCheck(j, v, c, file), Alone',
         Distinct(Ids), (\A k \in Jobs : job[k] = IdleJob) => Settled(View)
  PROVE  SlotsNext
<1> DEFINE old == version[v]
           friendlySlots == IF c.friendlyType = None THEN {} ELSE old.friendlySlots
           new == IF file THEN c
                  ELSE [c EXCEPT !.attackSlots = old.attackSlots,
                                 !.defenseSlots = old.defenseSlots,
                                 !.friendlySlots = friendlySlots]
           friendly == old.friendlyTo # new.friendlyTo \/ old.friendlyType # new.friendlyType
           call == [IdleJob EXCEPT !.step = "saveVersion", !.route = "sync", !.version = v,
                      !.content = new, !.counts = file, !.previous = old.friendlyType,
                      !.friendly = friendly]
<1>1. StartJob(j, call) /\ UNCHANGED <<game, version, plan, slots>>
  BY DEF UpdateVersionCheck
<1>2. ~file => new.attackSlots = old.attackSlots /\ new.defenseSlots = old.defenseSlots
  <2>1. ContentOK(c)
    BY HeadquartersAssumption
  <2> HIDE DEF old, friendlySlots
  <2> QED BY <2>1 DEF ContentOK
<1> HIDE DEF new
<1>3. /\ call.step = "saveVersion" /\ call.counts = file /\ call.version = v
      /\ call.content = new /\ call.previous = old.friendlyType /\ call.friendly = friendly
  <2> HIDE DEF old, friendly
  <2> QED BY DEF IdleJob
<1> HIDE DEF call
<1>4. NoFile(View, call)
  <2>1. PICK w, r : w = View /\ r = call
    OBVIOUS
  <2>2. w.version = version
    BY <2>1, ViewIs
  <2>3. /\ r.step = "saveVersion" /\ r.counts = file /\ r.content = new
        /\ w.version[r.version] = old /\ r.previous = old.friendlyType
        /\ r.friendly = (old.friendlyTo # r.content.friendlyTo \/ old.friendlyType # r.content.friendlyType)
    BY <1>3, <2>1, <2>2
  <2> HIDE DEF old
  <2>4. NoFile(w, r)
    BY <1>2, <2>3, StepSets DEF NoFile
  <2> QED BY <2>1, <2>4
<1> QED BY <1>1, <1>3, <1>4, ChecksSlots

LEMMA DeleteGameSlots ==
  ASSUME TypesInv, TypesInv', DeleteGame, OneJob, \A j \in Jobs : Line(View, job[j])
  PROVE  SlotsNext
<1>1. Ids' = {} /\ View'.game = None
  <2>1. slots' = {} /\ game' = None
    BY DEF DeleteGame
  <2> QED BY <2>1, ViewIsNext DEF Ids
<1>2. Distinct(Ids')
  BY <1>1 DEF Distinct
<1>3. View'.version = View.version
  BY ViewIs, ViewIsNext DEF DeleteGame
<1>4. ASSUME NEW k \in Jobs PROVE Line(View', job'[k])
  <2>1. CASE job'[k] = IdleJob
    BY <2>1, LineIdle
  <2>2. CASE job'[k] # IdleJob
    <3>1. job'[k] = job[k] /\ job[k].step = "saveVersion"
      BY <2>2 DEF DeleteGame
    <3>2. PICK w, v, r : w = View /\ v = View' /\ r = job[k]
      OBVIOUS
    <3>3. Line(w, r) /\ r.step = "saveVersion" /\ v.game = None /\ v.version = w.version
      BY <1>1, <1>3, <3>1, <3>2
    <3>4. Line(v, r)
      BY <3>3, StepSets
         DEF Line, AsRead, RowsRead, NoFile, SideBySide, Undisturbed, InTwoParts
    <3> QED BY <3>1, <3>2, <3>4
  <2> QED BY <2>1, <2>2
<1>5. Settled(View')
  BY <1>1 DEF Settled
<1> QED BY <1>2, <1>4, <1>5 DEF SlotsNext

LEMMA CrashSlots ==
  ASSUME TypesInv, TypesInv', CrashJobs, Distinct(Ids),
         (\A j \in Jobs : job[j] = IdleJob) => Settled(View), \A j \in Jobs : Line(View, job[j])
  PROVE  SlotsNext
<1>1. UNCHANGED <<game, version, plan, slots>> /\ \A k \in Jobs : job'[k] = IdleJob
  BY DEF CrashJobs
<1>2. Ids' = Ids
  BY <1>1 DEF Ids
<1>3. Settled(View')
  <2> SUFFICES ASSUME game # None, "slots" \notin lapsed', NEW p \in PlanSides
               PROVE  Matches(View', p)
    BY <1>1, ViewIsNext DEF Settled
  <2>1. PICK w, v : w = View /\ v = View'
    OBVIOUS
  <2>2. /\ v.game = w.game /\ v.version = w.version /\ v.ids = w.ids /\ v.there = w.there
        /\ w.game # None /\ w.lapsed = lapsed
    <3>1. v.game = w.game
      BY <1>1, <2>1 DEF View
    <3> QED BY <1>1, <1>2, <2>1, <3>1, ViewIs, ViewIsNext
  <2>3. "slots" \notin lapsed /\ \A j \in Jobs : "slots" \notin LeftUndone(j)
    BY DEF CrashJobs
  <2>4. \A j \in Jobs : job[j].step \in Saving \union {"readHq", "setHq"}
    BY <2>3 DEF LeftUndone, Saving
  <2>5. Matches(w, p)
    <3>1. CASE \A j \in Jobs : job[j] = IdleJob
      BY <2>1, <2>2, <2>3, <3>1 DEF Settled
    <3>2. ASSUME NEW j \in Jobs, job[j] # IdleJob PROVE Matches(w, p)
      <4>1. Line(w, job[j])
        BY <2>1
      <4> QED BY <2>2, <2>3, <2>4, <3>2, <4>1 DEF Line, Undisturbed
    <3> QED BY <3>1, <3>2
  <2> QED BY <2>1, <2>2, <2>5 DEF Matches, Have, Want
<1> QED BY <1>1, <1>2, <1>3, LineIdle DEF SlotsNext

LEMMA SlotsInvNext ==
  ASSUME TypesInv, TypesInv', NoGame, EraInv, SlotsInv, [HeadquartersNext]_planVars PROVE SlotsInv'
<1> SUFFICES ASSUME Alone' PROVE SlotsNext
  BY SlotsNextIs DEF SlotsInv
<1>1. /\ OneJob /\ (\A j \in Jobs : DecidedOn(job[j])) /\ Distinct(Ids)
      /\ (\A j \in Jobs : job[j] = IdleJob) => Settled(View)
      /\ \A j \in Jobs : Line(View, job[j])
  BY OverlapStays DEF EraInv, SlotsInv
<1>2. ASSUME NEW j \in Jobs, JobStep(j) PROVE SlotsNext
  BY <1>1, <1>2, SlotsJobStep
<1>3. ASSUME NEW j \in Jobs, JobStart(j) PROVE SlotsNext
  BY <1>1, <1>3, CreateGameSlots, UpdateGameSlots, UpdateVersionSlots DEF JobStart
<1>4. ASSUME SameGame, Ids' = Ids, UNCHANGED <<version, job, lapsed>>,
             \A p \in PlanSides : plan'[p].exists = plan[p].exists
      PROVE  SlotsNext
  BY <1>1, <1>4, SlotsStay
<1>5. ASSUME NEW a \in Asks, AskStep(a) PROVE SlotsNext
  <2>1. SameGame
    BY <1>5, AskStepStays DEF SameGame
  <2> QED BY <1>4, <1>5, <2>1, AskStepStays
<1>6. ASSUME UNCHANGED <<game, version, plan, slots, job, lapsed>> PROVE SlotsNext
  BY <1>4, <1>6 DEF SameGame, Ids
<1>7. ASSUME NEW a \in Asks, AskStart(a) PROVE SlotsNext
  BY <1>6, <1>7, AskStarted DEF StartAsk, TypesInv
<1>8. CASE UNCHANGED planVars \/ \E u \in Players, q \in Squads \union {None} : MoveOfficer(u, q)
  BY <1>6, <1>8 DEF planVars, MoveOfficer
<1>9. ASSUME NEW q \in Squads, DeleteSquad(q) PROVE SlotsNext
  BY <1>4, <1>9, DeleteSquadGame, DeleteSquadStays
<1>10. CASE DeleteGame
  BY <1>1, <1>10, DeleteGameSlots
<1>11. CASE CrashJobs
  BY <1>1, <1>11, CrashSlots
<1> QED BY <1>2, <1>3, <1>5, <1>7, <1>8, <1>9, <1>10, <1>11 DEF HeadquartersNext

LEMMA SlotsInvInit == ASSUME HeadquartersInit PROVE SlotsInv
<1>1. View.game = None /\ Ids = {} /\ \A j \in Jobs : job[j] = IdleJob
  BY DEF HeadquartersInit, View, Ids
<1> QED BY <1>1, LineIdle DEF SlotsInv, Distinct, Settled

\* Idle, or not yet at its first write: the slots are as they are settled.
LEMMA SlotsInvImplies == ASSUME TypesInv, SlotsInv PROVE SlotsMatchVersion
<1> SUFFICES ASSUME game # None, lapsed \intersect {"slots", "overlap"} = {},
                    \A j \in Jobs : job[j].step \in {"idle", "saveGame", "saveVersion"},
                    NEW p \in PlanSides
             PROVE  LET have == {s \in slots : s.side = p} IN
                    /\ plan[p].exists
                    /\ {Key(s) : s \in have} = {Key(d) : d \in SlotRows(game, version[game.version], p)}
                    /\ \A s, t \in have : Key(s) = Key(t) => s = t
  BY DEF SlotsMatchVersion
<1>1. /\ Distinct(Ids)
      /\ (\A j \in Jobs : job[j] = IdleJob) => Settled(View)
      /\ \A j \in Jobs : Line(View, job[j])
  BY DEF SlotsInv, Alone
<1>2. PICK w : w = View
  OBVIOUS
<1>3. /\ w.game # None /\ "slots" \notin w.lapsed /\ w.ids = Ids /\ w.version = version
      /\ w.there = {s \in PlanSides : plan[s].exists}
      /\ w.game.version = game.version /\ w.game.attack = game.attack /\ w.game.defense = game.defense
  BY <1>2, ViewIs
<1>4. Matches(w, p)
  <2>1. CASE \A j \in Jobs : job[j] = IdleJob
    BY <1>1, <1>2, <1>3, <2>1 DEF Settled
  <2>2. ASSUME NEW j \in Jobs, job[j] # IdleJob PROVE Matches(w, p)
    <3>1. Line(w, job[j])
      BY <1>1, <1>2
    <3>2. job[j].step \in Saving
      BY DEF Saving
    <3> QED BY <1>3, <2>2, <3>1, <3>2 DEF Line, Undisturbed
  <2> QED BY <2>1, <2>2
<1>5. SlotRows(w.game, version[game.version], p) = SlotRows(game, version[game.version], p)
  BY <1>3, SlotRowsOf
<1>6. KeysOf({s \in slots : s.side = p}) = Have(w, p)
  <2>1. \A k : k \in Have(w, p) <=> \E i \in Ids : i.side = p /\ Key(i) = k
    BY <1>3, HaveKeys DEF Have
  <2>2. \A k : k \in KeysOf({s \in slots : s.side = p}) <=> \E s \in slots : s.side = p /\ Key(s) = k
    BY DEF KeysOf
  <2>3. \A k : (\E i \in Ids : i.side = p /\ Key(i) = k) <=> \E s \in slots : s.side = p /\ Key(s) = k
    BY KeyOfId DEF Ids
  <2>4. \A k : k \in Have(w, p) <=> k \in KeysOf({s \in slots : s.side = p})
    BY <2>1, <2>2, <2>3
  <2> QED BY <2>4 DEF KeysOf, Have
<1>7. {Key(s) : s \in {t \in slots : t.side = p}}
      = {Key(d) : d \in SlotRows(game, version[game.version], p)}
  BY <1>3, <1>4, <1>5, <1>6 DEF Matches, Want, KeysOf
<1>8. ASSUME NEW s \in slots, NEW t \in slots, s.side = p, t.side = p, Key(s) = Key(t) PROVE s = t
  <2>1. Id(s) \in Ids /\ Id(t) \in Ids
    BY DEF Ids
  <2>2. Id(s) = Id(t)
    BY <1>1, <1>8, <2>1, KeyOfId DEF Distinct
  <2> QED BY <2>2 DEF TypesInv, SlotsFit
<1>9. plan[p].exists
  BY <1>3, <1>4 DEF Matches
<1> QED BY <1>7, <1>8, <1>9

LEMMA SlotsHold == HeadquartersSpec => [](TypesInv /\ NoGame /\ EraInv /\ SlotsInv)
<1>1. HeadquartersInit => TypesInv /\ NoGame /\ EraInv /\ SlotsInv
  BY InitTypes, EraInvInit, SlotsInvInit
<1>2. TypesInv /\ NoGame /\ EraInv /\ SlotsInv /\ [HeadquartersNext]_planVars => (TypesInv /\ NoGame /\ EraInv /\ SlotsInv)'
  BY TypesNext, NoGameNext, EraInvNext, SlotsInvNext
<1> QED BY <1>1, <1>2, PTL DEF HeadquartersSpec

\* The plan of every side has exactly the slots that the version of the game asks
\* for, one of each callsign and type, whenever no organiser's request is between
\* its first and its last write and none was cut short or overlapped another: for
\* any sides, versions and number of players' requests.
THEOREM SlotsAreTheVersions == HeadquartersSpec => []SlotsMatchVersion
<1>1. TypesInv /\ SlotsInv => SlotsMatchVersion
  BY SlotsInvImplies
<1> QED BY <1>1, SlotsHold, PTL

-----------------------------------------------------------------------------
(* What a step does to the slots that there are. *)

StaysFor(s, t) ==
  /\ Id(t) = Id(s)
  /\ s.squads \ (disbanded' \union TakenOff(s, "remove")) \subseteq t.squads
  /\ s.wanted \ (disbanded' \union TakenOff(s, "unwant")) \subseteq t.wanted

SlotKept(s) ==
  \/ \E t \in slots' : StaysFor(s, t)
  \/ game' = None
  \/ \E j \in Jobs :
       \/ job[j].step = "rebuild" /\ s.side \in job[j].todo \ job'[j].todo
       \/ /\ job[j].step = "dropFriendly" /\ job'[j].step = "addFriendly"
          /\ s.type \in FriendlyTypes(j)
  \/ Key(s) \notin {Key(d) : d \in SlotRows(game, version[game.version], s.side)}

LEMMA EachSlotKept == ASSUME Alone => \A s \in slots : SlotKept(s) PROVE KeptSlots
  BY DEF KeptSlots, SlotKept, StaysFor, Alone

LEMMA SlotIsThere == ASSUME NEW s \in slots, s \in slots' PROVE SlotKept(s)
  BY DEF SlotKept, StaysFor

LEMMA RebuildSlotsKept ==
  ASSUME TypesInv, NEW j \in Jobs, NEW p \in PlanSides, RebuildSlots(j, p), NEW s \in slots
  PROVE  SlotKept(s)
<1>1. /\ job[j].step = "rebuild" /\ p \in job[j].todo /\ JobsFit
      /\ {t \in slots : t.side # p} \subseteq slots'
  BY DEF RebuildSlots, TypesInv
<1>2. p \notin job'[j].todo
  <2>1. CASE job[j].todo = {p}
    <3>1. ContinueFor(j, "clear", {})
      BY <2>1 DEF RebuildSlots
    <3>2. job'[j].todo = {}
      BY <1>1, <3>1, ContinuedFor
    <3> QED BY <3>2
  <2>2. CASE job[j].todo # {p}
    <3>1. ContinueFor(j, "rebuild", job[j].todo \ {p})
      BY <2>2 DEF RebuildSlots
    <3>2. job'[j].todo = job[j].todo \ {p}
      BY <1>1, <3>1, ContinuedFor
    <3> QED BY <3>2
  <2> QED BY <2>1, <2>2
<1>3. CASE s.side = p
  BY <1>1, <1>2, <1>3 DEF SlotKept
<1>4. CASE s.side # p
  BY <1>1, <1>4, SlotIsThere
<1> QED BY <1>3, <1>4

LEMMA DropFriendlySlotsKept ==
  ASSUME TypesInv, NEW j \in Jobs, DropFriendlySlots(j), NEW s \in slots PROVE SlotKept(s)
<1>1. /\ job[j].step = "dropFriendly" /\ Continue(j, "addFriendly") /\ JobsFit
      /\ slots' = {t \in slots : t.type \notin FriendlyTypes(j)}
  BY DEF DropFriendlySlots, TypesInv
<1>2. job'[j].step = "addFriendly"
  BY <1>1, Continued
<1>3. CASE s.type \in FriendlyTypes(j)
  BY <1>1, <1>2, <1>3 DEF SlotKept
<1>4. CASE s.type \notin FriendlyTypes(j)
  BY <1>1, <1>4, SlotIsThere
<1> QED BY <1>3, <1>4

\* Paired rows keep their squads; the version does not ask for those that go.
LEMMA SyncSlotsKept ==
  ASSUME TypesInv, NEW j \in Jobs, NEW p \in PlanSides, SyncSlots(j, p),
         Distinct(Ids), Line(View, job[j]), NEW s \in slots
  PROVE  SlotKept(s)
<1>1. job[j].step = "sync" /\ p \in job[j].todo /\ SlotsFit /\ JobsFit
  BY DEF SyncSlots, TypesInv
<1>2. game # None /\ job[j].step \in Loaded
  BY <1>1, StepSets DEF JobsFit, JobFitsIn
<1>3. CASE UNCHANGED slots
  BY <1>3, SlotIsThere
<1>4. CASE SyncWrites(j, p)
  <2>1. PICK kept, left, f :
          /\ Paired(j, p, kept) /\ left = Left(j, p, kept) /\ Recounted(left, f)
          /\ slots' = {f[t] : t \in left} \union NewSlots(p, Missing(j, p))
    BY <1>4 DEF SyncWrites
  <2>2. CASE s \in left
    <3>1. f[s] \in slots' /\ Id(f[s]) = Id(s) /\ f[s].squads = s.squads /\ f[s].wanted = s.wanted
      BY <2>1, <2>2 DEF Recounted
    <3>2. StaysFor(s, f[s])
      BY <3>1 DEF StaysFor
    <3> QED BY <3>1, <3>2 DEF SlotKept
  <2>3. CASE s \notin left
    <3>1. Id(s) \in DroppedIds(j, p, kept)
      BY <2>1, <2>3 DEF Left, DroppedIds
    <3>2. PICK t \in OldRows(j, p) : Id(t) = Id(s)
      BY <3>1 DEF DroppedIds
    <3>3. Key(t) \notin CommonKeys(j, p) /\ s.side = p /\ s.type \notin FriendlyTypes(j)
      <4>1. /\ \A i \in DroppedIds(j, p, kept) : i.side = p /\ i.type \notin FriendlyTypes(j)
            /\ \A u \in OldRows(j, p) : Id(u) \in DroppedIds(j, p, kept) => Key(u) \notin CommonKeys(j, p)
        BY <1>1, <1>2, <2>1, DroppedRows
      <4>2. Id(s).side = s.side /\ Id(s).type = s.type
        BY KeyOfId
      <4> QED BY <3>1, <3>2, <4>1, <4>2
    <3>4. Key(t) = Key(s)
      BY <3>2, KeyOfId
    <3>5. Key(s) \notin KeysOf(NewRows(j, p))
      BY <3>2, <3>3, <3>4 DEF CommonKeys, KeysOf
    <3>6. Key(s) \notin KeysOf(SlotRows(job[j].game, job[j].content, p))
      <4> SUFFICES ASSUME NEW d \in SlotRows(job[j].game, job[j].content, p), Key(d) = Key(s)
                   PROVE  FALSE
        BY DEF KeysOf
      <4>1. d.type = s.type
        BY KeyParts
      <4> QED BY <3>3, <3>5, <4>1 DEF NewRows, KeysOf
    <3>7. KeysOf(SlotRows(job[j].game, job[j].content, p))
          = KeysOf(SlotRows(game, version[game.version], p))
      <4>1. Want(View, p) = KeysOf(SlotRows(job[j].game, job[j].content, p))
        BY <1>2, WantAsRead DEF Line
      <4>2. PICK w : w = View
        OBVIOUS
      <4>3. /\ w.version[w.game.version] = version[game.version]
            /\ w.game.attack = game.attack /\ w.game.defense = game.defense
        BY <1>2, <4>2, ViewIs
      <4>4. SlotRows(w.game, version[game.version], p) = SlotRows(game, version[game.version], p)
        BY <4>3, SlotRowsOf
      <4> QED BY <4>1, <4>2, <4>3, <4>4 DEF Want
    <3>8. Key(s) \notin {Key(d) : d \in SlotRows(game, version[game.version], s.side)}
      BY <3>3, <3>6, <3>7 DEF KeysOf
    <3> QED BY <3>8 DEF SlotKept
  <2> QED BY <2>2, <2>3
<1> QED BY <1>1, <1>3, <1>4, SyncEffect

LEMMA UpdateSlotKept ==
  ASSUME TypesInv, NEW a \in Asks, UpdateSlot(a), NEW s \in slots PROVE SlotKept(s)
<1>1. PICK f : slots' = {f[t] : t \in slots} /\ SlotUpdated(a, f)
  BY SlotUpdates DEF TypesInv
<1>2. ask'[a] = NoAsk
  BY DEF TypesInv, CommandInv, Records, UpdateSlot
<1>3. /\ s.squads \ f[s].squads \subseteq TakenOff(s, "remove")
      /\ s.wanted \ f[s].wanted \subseteq TakenOff(s, "unwant")
  BY <1>1, <1>2 DEF SlotUpdated, TakenOff
<1>4. StaysFor(s, f[s])
  BY <1>1, <1>3 DEF SlotUpdated, StaysFor
<1> QED BY <1>1, <1>4 DEF SlotKept

LEMMA DeleteSquadKept ==
  ASSUME TypesInv, NEW q \in Squads, DeleteSquad(q), NEW s \in slots PROVE SlotKept(s)
<1>1. PICK f : /\ slots' = {f[t] : t \in slots}
               /\ \A t \in slots : /\ Id(f[t]) = Id(t) /\ f[t].squads = t.squads \ {q}
                                   /\ f[t].wanted = t.wanted \ {q}
  BY DeleteSquadSlots DEF TypesInv
<1>2. q \in disbanded'
  BY DEF DeleteSquad
<1>3. StaysFor(s, f[s])
  BY <1>1, <1>2 DEF StaysFor
<1> QED BY <1>1, <1>3 DEF SlotKept

LEMMA KeptByStep ==
  ASSUME TypesInv, EraInv, SlotsInv, [HeadquartersNext]_planVars PROVE KeptSlots
<1> SUFFICES ASSUME Alone, NEW s \in slots PROVE SlotKept(s)
  BY EachSlotKept
<1>1. Distinct(Ids) /\ \A j \in Jobs : Line(View, job[j])
  BY DEF SlotsInv
<1>2. slots \subseteq slots' => SlotKept(s)
  BY SlotIsThere
<1>3. ASSUME NEW j \in Jobs, JobStep(j) PROVE SlotKept(s)
  <2>1. SaveGame(j) \/ SaveVersion(j) \/ LoadGame(j) \/ PlansEnsured(j) \/ ClearPlans(j)
        \/ ReadHqSquads(j) \/ ReadPlans(j) => SlotKept(s)
    BY <1>2 DEF SaveGame, SaveVersion, LoadGame, PlansEnsured, ClearPlans, ReadHqSquads, ReadPlans
  <2>2. ASSUME NEW p \in PlanSides,
               CreatePlan(j, p) \/ FillPlan(j, p) \/ SetHqSquad(j, p) \/ AddFriendlySlots(j, p)
        PROVE  SlotKept(s)
    BY <1>2, <2>2 DEF CreatePlan, FillPlan, SetHqSquad, AddFriendlySlots
  <2>3. ASSUME NEW p \in PlanSides, RebuildSlots(j, p) \/ SyncSlots(j, p) PROVE SlotKept(s)
    BY <1>1, <2>3, RebuildSlotsKept, SyncSlotsKept
  <2>4. DropFriendlySlots(j) => SlotKept(s)
    BY DropFriendlySlotsKept
  <2> QED BY <1>3, <2>1, <2>2, <2>3, <2>4 DEF JobStep
<1>4. ASSUME NEW j \in Jobs, JobStart(j) PROVE SlotKept(s)
  BY <1>2, <1>4 DEF JobStart, CreateGame, UpdateGameCheck, UpdateVersionCheck
<1>5. ASSUME NEW a \in Asks, AskStep(a) PROVE SlotKept(s)
  <2>1. CASE UpdateSlot(a)
    BY <2>1, UpdateSlotKept
  <2>2. CASE ~UpdateSlot(a)
    BY <1>2, <1>5, <2>2
       DEF AskStep, AssignHqSquad, AssignCommander, UnassignHqSquad, UnassignCommander
  <2> QED BY <2>1, <2>2
<1>6. ASSUME NEW a \in Asks, AskStart(a) PROVE SlotKept(s)
  BY <1>2, <1>6, AskStarted DEF StartAsk, TypesInv
<1>7. ASSUME NEW q \in Squads, DeleteSquad(q) PROVE SlotKept(s)
  BY <1>7, DeleteSquadKept
<1>8. CASE DeleteGame
  BY <1>8 DEF DeleteGame, SlotKept
<1>9. CASE UNCHANGED planVars \/ CrashJobs \/ \E u \in Players, q \in Squads \union {None} : MoveOfficer(u, q)
  BY <1>2, <1>9 DEF planVars, CrashJobs, MoveOfficer
<1> QED BY <1>3, <1>4, <1>5, <1>6, <1>7, <1>8, <1>9 DEF HeadquartersNext

\* A slot that the version still asks for is only deleted by a reset, with the game,
\* or as a row of the old or new friendly side, and no sync takes a squad from a
\* slot: as long as organisers' requests do not overlap, whatever players do
\* between the read of the slots and the writes.
THEOREM AssignmentsSurviveSync == HeadquartersSpec => SyncKeepsAssignments
<1>1. TypesInv /\ EraInv /\ SlotsInv /\ [HeadquartersNext]_planVars => [KeptSlots]_planVars
  BY KeptByStep
<1> QED BY <1>1, SlotsHold, PTL DEF HeadquartersSpec, SyncKeepsAssignments
===============================================================================
