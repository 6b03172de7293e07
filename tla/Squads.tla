-------------------------------- MODULE Squads --------------------------------
(***************************************************************************)
(* Squads of the platform, squads.service.ts: membership, roles,           *)
(* leadership, invitations and join requests.                              *)
(*                                                                         *)
(* An operation first reads and checks, then writes; each is one step, so  *)
(* the checks of one handler may be overtaken by the writes of another.    *)
(* leaveFromSquad of a leader writes three times.                          *)
(***************************************************************************)

CONSTANTS
  Users,
  SquadIds,
  OfferIds,   \* ids of invitations and join requests
  Requests,   \* handlers running concurrently
  NoUser, NoSquad, NoOffer

ASSUME SquadsAssumption ==
  NoUser \notin Users /\ NoSquad \notin SquadIds /\ NoOffer \notin OfferIds

VARIABLES
  leader,   \* leaderId of the Squad rows, NoUser for a free id
  member,   \* squadId and squadRole of the User rows
  offer,    \* the SquadInvitation and SquadJoinRequest rows
  req,      \* handlers between two awaits
  stale     \* history: some write rested on a check that did not hold any more

vars == <<leader, member, offer, req, stale>>

-----------------------------------------------------------------------------
Roles == {"member", "hq", "subleader", "recruit"}
InviteRoles == {"member", "hq", "recruit"}

\* History: `placed` by an administrator, not by an offer.
Members == [squad : SquadIds \union {NoSquad}, role : Roles, placed : BOOLEAN]
Outsider == [squad |-> NoSquad, role |-> "member", placed |-> FALSE]

Offers == [kind : {"invitation", "request"}, user : Users, squad : SquadIds,
           role : Roles, status : {"pending", "accepted", "rejected"}]
NoRow == [kind |-> "none"]

\* What a handler holds: the operation whose write comes next, who called it,
\* and the user, squad, role and offer it is about.
Ops == {"idle", "create", "update", "transfer", "setRole", "request", "invite",
        "acceptRequest", "acceptInvitation", "dropInvitation", "reject", "delete",
        "kick", "handOver", "resetRole", "leave"}
Calls == [op : Ops, actor : Users \union {NoUser}, user : Users \union {NoUser},
          squad : SquadIds \union {NoSquad}, role : Roles,
          offer : OfferIds \union {NoOffer}]
Idle == [op |-> "idle", actor |-> NoUser, user |-> NoUser, squad |-> NoSquad,
         role |-> "member", offer |-> NoOffer]

Exists(q) == leader[q] # NoUser
Leads(u, q) == leader[q] = u

\* Types; foreign keys, and the unique leaderId.
SquadsTypeOK ==
  /\ leader \in [SquadIds -> Users \union {NoUser}]
  /\ member \in [Users -> Members]
  /\ offer \in [OfferIds -> Offers \union {NoRow}]
  /\ req \in [Requests -> Calls]
  /\ stale \in BOOLEAN
  /\ \A u \in Users : member[u].squad # NoSquad => Exists(member[u].squad)
  /\ \A o \in OfferIds : offer[o] # NoRow => Exists(offer[o].squad)
  /\ \A p, q \in SquadIds : Exists(p) /\ leader[p] = leader[q] => p = q

Init ==
  /\ leader = [q \in SquadIds |-> NoUser]
  /\ member = [u \in Users |-> Outsider]
  /\ offer = [o \in OfferIds |-> NoRow]
  /\ req = [r \in Requests |-> Idle]
  /\ stale = FALSE

-----------------------------------------------------------------------------
(* The checks.  Each is made once, by the handler that reads, and asked    *)
(* again for the history variable `stale` when the handler writes.         *)

\* getSquadManagedByUser
Manages(a, q) ==
  /\ member[a].squad = q
  /\ Leads(a, q) \/ member[a].role = "subleader"

\* A leader must not lead a squad already.
CanAppoint(u) == \A q \in SquadIds : ~Leads(u, q)

CanTransfer(a, u, q) == Leads(a, q) /\ u # a /\ member[u].squad = q

CanSetRole(a, u, q, role) ==
  /\ Manages(a, q)
  /\ member[u].squad = q
  /\ ~Leads(u, q)
  /\ role = "subleader" => Leads(a, q)

\* Mutant of CanKick: the leader is not spared.
CanKickAnyone(a, u, q) ==
  /\ Manages(a, q)
  /\ member[u].squad = q
  /\ member[u].role = "subleader" => Leads(a, q)

CanKick(a, u, q) ==
  /\ Manages(a, q)
  /\ member[u].squad = q
  /\ ~Leads(u, q)
  /\ member[u].role = "subleader" => Leads(a, q)

Pending(kind, u) == {o \in OfferIds :
  offer[o].kind = kind /\ offer[o].user = u /\ offer[o].status = "pending"}

\* requestToJoinSquad; whether the squad is recruiting is left to chance.
CanRequest(u, q) ==
  /\ member[u].squad = NoSquad
  /\ Exists(q)
  /\ \A o \in Pending("request", u) : offer[o].squad # q

CanInvite(a, u, q) ==
  /\ Manages(a, q)
  /\ member[u].squad = NoSquad
  /\ \A o \in Pending("invitation", u) : offer[o].squad # q

IsPending(kind, o) == offer[o].kind = kind /\ offer[o].status = "pending"

CanAcceptRequest(a, o) ==
  /\ IsPending("request", o)
  /\ Manages(a, offer[o].squad)
  /\ member[offer[o].user].squad = NoSquad

\* By any user u: the invitee is not compared with the caller.
CanAcceptInvitation(u, o) == IsPending("invitation", o) /\ member[u].squad = NoSquad

CanRejectRequest(a, o) == IsPending("request", o) /\ Manages(a, offer[o].squad)

\* The leader alone.
CanCancel(a, o) == IsPending("invitation", o) /\ Leads(a, offer[o].squad)

CanHandOver(u, n, q) ==
  /\ member[u].squad = q /\ Leads(u, q)
  /\ n # u /\ member[n].squad = q

CanLeave(u, q) == member[u].squad = q /\ ~Leads(u, q)

-----------------------------------------------------------------------------
Start(r, call) ==
  /\ req[r] = Idle
  /\ req' = [req EXCEPT ![r] = call]
  /\ UNCHANGED <<leader, member, offer, stale>>

Call(op, a, u, q) == [Idle EXCEPT !.op = op, !.actor = a, !.user = u, !.squad = q]

\* The handler returns, or its statement throws.
Return(r) == req' = [req EXCEPT ![r] = Idle]
Throw(r) == Return(r) /\ UNCHANGED <<leader, member, offer, stale>>

Rests(check) == stale' = (stale \/ ~check)

\* The unique column leaderId.
LeadsAnother(u, q) == \E p \in SquadIds \ {q} : Leads(u, p)

Join(u, q, role, placed) == [member EXCEPT ![u] =
  [squad |-> q, role |-> role, placed |-> placed]]

\* Ids are random: none is given out twice while somebody may still hold it.
FreshSquad(q) == ~Exists(q) /\ \A r \in Requests : req[r].squad # q
FreshOffer(o) == offer[o] = NoRow /\ \A r \in Requests : req[r].offer # o

-----------------------------------------------------------------------------
(* create, updateByAdmin and delete, called by administrators. *)

CreateCheck(r, u) == CanAppoint(u) /\ Start(r, Call("create", NoUser, u, NoSquad))

Create(r, q) ==
  /\ req[r].op = "create"
  /\ LET u == req[r].user IN
     IF LeadsAnother(u, q) THEN Throw(r)
     ELSE /\ FreshSquad(q)
          /\ leader' = [leader EXCEPT ![q] = u]
          /\ member' = Join(u, q, "member", TRUE)
          /\ Rests(CanAppoint(u))
          /\ Return(r)
          /\ UNCHANGED offer

\* With a new leader; other columns are left out.
UpdateByAdminCheck(r, q, u) == CanAppoint(u) /\ Start(r, Call("update", NoUser, u, q))

UpdateByAdmin(r) ==
  /\ req[r].op = "update"
  /\ LET u == req[r].user
         q == req[r].squad IN
     IF ~Exists(q) \/ LeadsAnother(u, q) THEN Throw(r)
     ELSE /\ leader' = [leader EXCEPT ![q] = u]
          /\ member' = Join(u, q, "member", TRUE)
          /\ Rests(CanAppoint(u))
          /\ Return(r)
          /\ UNCHANGED offer

DeleteCheck(r, q) == Exists(q) /\ Start(r, Call("delete", NoUser, NoUser, q))

\* Mutant of Delete: the members keep their squadId.
DeleteRows(r) ==
  /\ req[r].op = "delete"
  /\ LET q == req[r].squad IN
     IF ~Exists(q) THEN Throw(r)
     ELSE /\ leader' = [leader EXCEPT ![q] = NoUser]
          /\ offer' = [o \in OfferIds |->
               IF offer[o] # NoRow /\ offer[o].squad = q THEN NoRow ELSE offer[o]]
          /\ Return(r)
          /\ UNCHANGED <<member, stale>>

Delete(r) ==
  /\ req[r].op = "delete"
  /\ LET q == req[r].squad IN
     IF ~Exists(q) THEN Throw(r)
     ELSE /\ leader' = [leader EXCEPT ![q] = NoUser]
          /\ member' = [u \in Users |-> IF member[u].squad = q THEN Outsider ELSE member[u]]
          /\ offer' = [o \in OfferIds |->
               IF offer[o] # NoRow /\ offer[o].squad = q THEN NoRow ELSE offer[o]]
          /\ Return(r)
          /\ UNCHANGED stale

-----------------------------------------------------------------------------
(* transferLeadership, updateMemberRole, kickFromSquad, leaveFromSquad. *)

TransferCheck(r, a, u, q) ==
  CanTransfer(a, u, q) /\ Start(r, Call("transfer", a, u, q))

TransferLeadership(r) ==
  /\ req[r].op = "transfer"
  /\ LET a == req[r].actor
         u == req[r].user
         q == req[r].squad IN
     IF ~Exists(q) \/ LeadsAnother(u, q) THEN Throw(r)
     ELSE /\ leader' = [leader EXCEPT ![q] = u]
          /\ member' = [member EXCEPT ![a].role = "subleader", ![u].role = "member"]
          /\ Rests(CanTransfer(a, u, q))
          /\ Return(r)
          /\ UNCHANGED offer

SetRoleCheck(r, a, u, q, role) ==
  /\ CanSetRole(a, u, q, role)
  /\ Start(r, [Call("setRole", a, u, q) EXCEPT !.role = role])

UpdateMemberRole(r) ==
  /\ req[r].op = "setRole"
  /\ member' = [member EXCEPT ![req[r].user].role = req[r].role]
  /\ Rests(CanSetRole(req[r].actor, req[r].user, req[r].squad, req[r].role))
  /\ Return(r)
  /\ UNCHANGED <<leader, offer>>

KickCheck(r, a, u, q) == CanKick(a, u, q) /\ Start(r, Call("kick", a, u, q))

KickFromSquad(r) ==
  /\ req[r].op = "kick"
  /\ LET u == req[r].user
         q == req[r].squad IN
     /\ member' = [member EXCEPT ![u] = Outsider]
     /\ offer' = [o \in OfferIds |->
          IF offer[o].kind = "invitation" /\ offer[o].user = u /\ offer[o].squad = q
          THEN NoRow ELSE offer[o]]
     /\ Rests(CanKick(req[r].actor, u, q))
     /\ Return(r)
     /\ UNCHANGED leader

LeaveCheck(r, u, q) == CanLeave(u, q) /\ Start(r, Call("leave", u, u, q))

\* A leader names a successor n.
LeaderLeaveCheck(r, u, n, q) ==
  CanHandOver(u, n, q) /\ Start(r, Call("handOver", u, n, q))

HandOver(r) ==
  /\ req[r].op = "handOver"
  /\ LET n == req[r].user
         q == req[r].squad IN
     IF ~Exists(q) \/ LeadsAnother(n, q) THEN Throw(r)
     ELSE /\ leader' = [leader EXCEPT ![q] = n]
          /\ Rests(CanHandOver(req[r].actor, n, q))
          /\ req' = [req EXCEPT ![r].op = "resetRole"]
          /\ UNCHANGED <<member, offer>>

ResetRole(r) ==
  /\ req[r].op = "resetRole"
  /\ LET n == req[r].user IN
     /\ member' = [member EXCEPT ![n].role = "member"]
     /\ req' = [req EXCEPT ![r].op = "leave", ![r].user = req[r].actor]
  /\ UNCHANGED <<leader, offer, stale>>

\* The last transaction of leaveFromSquad, the only one of an ordinary member.
LeaveFromSquad(r) ==
  /\ req[r].op = "leave"
  /\ member' = [member EXCEPT ![req[r].user] = Outsider]
  /\ Rests(CanLeave(req[r].user, req[r].squad))
  /\ Return(r)
  /\ UNCHANGED <<leader, offer>>

-----------------------------------------------------------------------------
(* Join requests and invitations. *)

RequestCheck(r, u, q) == CanRequest(u, q) /\ Start(r, Call("request", u, u, q))

InviteCheck(r, a, u, q, role) ==
  /\ CanInvite(a, u, q)
  /\ Start(r, [Call("invite", a, u, q) EXCEPT !.role = role])

NewOffer(r, o, kind, check) ==
  LET u == req[r].user
      q == req[r].squad IN
  IF ~Exists(q) THEN Throw(r)
  ELSE /\ FreshOffer(o)
       /\ offer' = [offer EXCEPT ![o] =
            [kind |-> kind, user |-> u, squad |-> q, role |-> req[r].role,
             status |-> "pending"]]
       /\ Rests(check)
       /\ Return(r)
       /\ UNCHANGED <<leader, member>>

RequestToJoinSquad(r, o) ==
  req[r].op = "request" /\ NewOffer(r, o, "request", CanRequest(req[r].user, req[r].squad))

InviteToSquad(r, o) ==
  /\ req[r].op = "invite"
  /\ NewOffer(r, o, "invitation", CanInvite(req[r].actor, req[r].user, req[r].squad))

\* An acceptance takes u into the squad of the offer as it was read; what
\* closes an offer needs its id alone.
Taking(op, a, u, o) ==
  [Call(op, a, u, offer[o].squad) EXCEPT !.role = offer[o].role, !.offer = o]
Closing(op, o) == [Idle EXCEPT !.op = op, !.offer = o]

AcceptRequestCheck(r, a, o) ==
  CanAcceptRequest(a, o) /\ Start(r, Taking("acceptRequest", a, offer[o].user, o))

\* Mutant of AcceptedOffers: only offers of the kind accepted are deleted.
AcceptedOffersOfKind(u, o) ==
  [p \in OfferIds |->
     IF p = o THEN [offer[o] EXCEPT !.status = "accepted"]
     ELSE IF p \in Pending(offer[o].kind, u) THEN NoRow
     ELSE offer[p]]

\* The row as accepted; the pending offers of u, who joins, are deleted.
AcceptedOffers(u, o) ==
  [p \in OfferIds |->
     IF p = o THEN [offer[o] EXCEPT !.status = "accepted"]
     ELSE IF offer[p] # NoRow /\ offer[p].user = u /\ offer[p].status = "pending" THEN NoRow
     ELSE offer[p]]

\* The transaction fails when the row is gone.
Accept(r, role, check) ==
  LET o == req[r].offer
      u == req[r].user IN
  IF offer[o] = NoRow THEN Throw(r)
  ELSE /\ member' = Join(u, req[r].squad, role, FALSE)
       /\ offer' = AcceptedOffers(u, o)
       /\ Rests(check)
       /\ Return(r)
       /\ UNCHANGED leader

AcceptJoinRequest(r) ==
  /\ req[r].op = "acceptRequest"
  /\ Accept(r, "recruit", CanAcceptRequest(req[r].actor, req[r].offer))

AcceptInvitationCheck(r, u, o) ==
  CanAcceptInvitation(u, o) /\ Start(r, Taking("acceptInvitation", u, u, o))

AcceptInvitation(r) ==
  /\ req[r].op = "acceptInvitation"
  /\ Accept(r, req[r].role, CanAcceptInvitation(req[r].user, req[r].offer))

\* acceptInvitation called by u, who is in a squad already: the row goes,
\* whoever's it is and whatever has become of it.
DropInvitationCheck(r, u, o) ==
  /\ offer[o].kind = "invitation"
  /\ member[u].squad # NoSquad
  /\ Start(r, Closing("dropInvitation", o))

\* cancelInvitation, which deletes the row by id whatever has become of it.
CancelInvitationCheck(r, a, o) ==
  CanCancel(a, o) /\ Start(r, Closing("dropInvitation", o))

DropInvitation(r) ==
  /\ req[r].op = "dropInvitation"
  /\ offer' = [offer EXCEPT ![req[r].offer] = NoRow]
  /\ Return(r)
  /\ UNCHANGED <<leader, member, stale>>

RejectRequestCheck(r, a, o) == CanRejectRequest(a, o) /\ Start(r, Closing("reject", o))

\* By anybody: the caller is not looked at.
RejectInvitationCheck(r, o) == IsPending("invitation", o) /\ Start(r, Closing("reject", o))

Reject(r) ==
  /\ req[r].op = "reject"
  /\ LET o == req[r].offer IN
     IF offer[o] = NoRow THEN Throw(r)
     ELSE /\ offer' = [offer EXCEPT ![o].status = "rejected"]
          /\ Rests(offer[o].status = "pending")
          /\ Return(r)
          /\ UNCHANGED <<leader, member>>

-----------------------------------------------------------------------------
Crash ==
  /\ req' = [r \in Requests |-> Idle]
  /\ UNCHANGED <<leader, member, offer, stale>>

Check(r) ==
  \/ \E u \in Users : CreateCheck(r, u)
  \/ \E q \in SquadIds :
       \/ DeleteCheck(r, q)
       \/ \E u \in Users :
            UpdateByAdminCheck(r, q, u) \/ LeaveCheck(r, u, q) \/ RequestCheck(r, u, q)
       \/ \E a, u \in Users :
            \/ TransferCheck(r, a, u, q) \/ KickCheck(r, a, u, q)
            \/ LeaderLeaveCheck(r, a, u, q)
            \/ \E role \in Roles : SetRoleCheck(r, a, u, q, role)
            \/ \E role \in InviteRoles : InviteCheck(r, a, u, q, role)
  \/ \E o \in OfferIds :
       \/ RejectInvitationCheck(r, o)
       \/ \E a \in Users :
            \/ AcceptInvitationCheck(r, a, o) \/ DropInvitationCheck(r, a, o)
            \/ AcceptRequestCheck(r, a, o) \/ RejectRequestCheck(r, a, o)
            \/ CancelInvitationCheck(r, a, o)

Write(r) ==
  \/ \E q \in SquadIds : Create(r, q)
  \/ \E o \in OfferIds : RequestToJoinSquad(r, o) \/ InviteToSquad(r, o)
  \/ UpdateByAdmin(r) \/ Delete(r)
  \/ TransferLeadership(r) \/ UpdateMemberRole(r) \/ KickFromSquad(r)
  \/ HandOver(r) \/ ResetRole(r) \/ LeaveFromSquad(r)
  \/ AcceptJoinRequest(r) \/ AcceptInvitation(r) \/ DropInvitation(r) \/ Reject(r)

Next ==
  \/ \E r \in Requests : Check(r) \/ Write(r)
  \/ Crash

Spec == Init /\ [][Next]_vars
-----------------------------------------------------------------------------
(* Properties. *)

\* The leader of a squad is a member of it; who is in no squad has no role in
\* one; a user has one open offer of a kind with a squad.
LeadersAreMembers ==
  \A q \in SquadIds : Exists(q) => member[leader[q]].squad = q
OutsidersHaveNoRole ==
  \A u \in Users : member[u].squad = NoSquad => member[u].role = "member"
OffersAreUnique ==
  \A o, p \in OfferIds :
    /\ offer[o] # NoRow /\ offer[o].status = "pending"
    /\ offer[p] # NoRow /\ offer[p].status = "pending"
    /\ offer[o].kind = offer[p].kind
    /\ offer[o].user = offer[p].user /\ offer[o].squad = offer[p].squad
    => o = p

\* The checks are the right ones: as long as no write rested on a check that
\* meanwhile had become false, overlapping operations, crashes between the
\* writes of one, and refused statements keep all of it.
FreshChecksSuffice ==
  ~stale => LeadersAreMembers /\ OutsidersHaveNoRole /\ OffersAreUnique

\* An acceptance may be as stale as it likes: while the offer is open and the
\* user's own, he is in no squad, unless an administrator put him there.
\* Whichever offer he joins by, a stranger's too, his own open ones are
\* deleted with it, and a transaction that misses its row fails.  The
\* invitation of another user is not protected so: a second acceptance still
\* finds its row, and moves the caller.
OwnOfferMovesNobody ==
  \A r \in Requests :
    LET o == req[r].offer IN
    /\ req[r].op \in {"acceptRequest", "acceptInvitation"}
    /\ offer[o] # NoRow /\ offer[o].status = "pending"
    /\ offer[o].user = req[r].user
    => member[req[r].user].squad = NoSquad \/ member[req[r].user].placed

\* kickFromSquad: "You cannot kick the squad leader".
KickSparesLeader ==
  [][\A r \in Requests : KickFromSquad(r) => ~Leads(req[r].user, req[r].squad)]_vars
=============================================================================
