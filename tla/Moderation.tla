------------------------------ MODULE Moderation ------------------------------
(***************************************************************************)
(* Moderation of users: bans, warnings and the automatic ban, roles and    *)
(* deletion (users.service.ts, user-roles.ts, users-warning-autoban.ts),   *)
(* and the job that lifts expired bans (users-ban-expiration.service.ts).  *)
(*                                                                         *)
(* A request reads and checks in one step and writes in another; the       *)
(* transaction of a warning also counts in one step and commits in the     *)
(* next, and under READ COMMITTED sees no other open transaction.  Access  *)
(* revocation after a permanent ban is the subject of modules Sessions and *)
(* JwtRevocation, the notification of each step that of Notifications.     *)
(***************************************************************************)
EXTENDS Integers, FiniteSets, FiniteSetsExt

CONSTANTS
  Users,
  WarningIds,
  Requests,    \* handlers running concurrently
  InitialRoles,
  NewRoles,    \* the role sets that a request may ask for
  Threshold,   \* WARNING_AUTOBAN_COUNT, 0 for no automatic ban
  Window,      \* WARNING_AUTOBAN_WINDOW_DAYS
  Span,        \* WARNING_AUTOBAN_HOURS
  MaxTime,     \* bound of the clock
  MaxFaults,   \* bound of failed transactions of the job, and of restarts
  None

Roles == {"USER", "MISSION_REVIEWER", "MINI_ADMIN", "GAME_ADMIN", "TECH_ADMIN",
          "UVK", "SERVER_ADMIN", "OWNER"}
Moments == 0..MaxTime
Untils == 1..(MaxTime + Span)

ASSUME ModerationAssumption ==
  /\ InitialRoles \in [Users -> SUBSET Roles]
  /\ NewRoles \subseteq SUBSET Roles
  /\ {Threshold, Window, Span, MaxTime, MaxFaults} \subseteq Nat
  /\ Span > 0
  /\ None \notin Users \union WarningIds \union Int

VARIABLES
  user,      \* the User rows: status, bannedUntil, isMuted, roles
  record,    \* what the newest UserPunishment rows of a user say
  warnings,  \* the UserWarning rows
  req,       \* handlers between two awaits
  sweep,     \* the job: when it listed the expired bans, and whom it has left
  now,
  faults

vars == <<user, record, warnings, req, sweep, now, faults>>

-----------------------------------------------------------------------------
\* A user whose roles are read off the row; Gone once deleted.
Gone == [status |-> "GONE", bannedUntil |-> None, isMuted |-> FALSE, roles |-> {}]
Rows == [status : {"ACTIVE", "BANNED", "GONE"}, bannedUntil : Untils \union {None},
         isMuted : BOOLEAN, roles : SUBSET Roles]

\* The newest ban or unban; `muted` as the newest of those that somebody decided.
Records == [latest : {"NONE", "TEMP_BAN", "PERMANENT_BAN", "UNBAN"},
            until : Untils \union {None}, muted : BOOLEAN]
NoRecord == [latest |-> "NONE", until |-> None, muted |-> FALSE]

\* "open" is a row whose transaction has not committed.
WarningRows == [user : Users, at : Moments, state : {"open", "live", "removed"}]
NoWarning == [state |-> "none"]

\* History: a call is overtaken when another one on the same user commits after
\* the reads of this one.
Ops == {"idle", "ban", "permanentBan", "unban", "warn", "warned", "unwarn", "role", "delete"}
Calls == [op : Ops, actor : Users \union {None}, user : Users \union {None},
          until : Untils \union {None}, mute : BOOLEAN, warning : WarningIds \union {None},
          roles : SUBSET Roles, overtaken : BOOLEAN]
Idle == [op |-> "idle", actor |-> None, user |-> None, until |-> None, mute |-> FALSE,
         warning |-> None, roles |-> {}, overtaken |-> FALSE]

Asleep == [running |-> FALSE, at |-> 0, todo |-> {}]
Sweeps == [running : BOOLEAN, at : Moments, todo : SUBSET Users]

Present(u) == user[u].status # "GONE"
Banned(u) == user[u].status = "BANNED"
Permanent(u) == Banned(u) /\ user[u].bannedUntil = None   \* isPermanentBan
Expired(u, t) == Banned(u) /\ user[u].bannedUntil # None /\ user[u].bannedUntil <= t

\* Types; foreign keys.
ModerationTypeOK ==
  /\ user \in [Users -> Rows]
  /\ record \in [Users -> Records]
  /\ warnings \in [WarningIds -> WarningRows \union {NoWarning}]
  /\ req \in [Requests -> Calls]
  /\ sweep \in Sweeps
  /\ now \in Moments
  /\ faults \in 0..MaxFaults
  /\ \A u \in Users : ~Present(u) => user[u] = Gone /\ record[u] = NoRecord
  /\ \A w \in WarningIds : warnings[w] # NoWarning => Present(warnings[w].user)

Init ==
  /\ user = [u \in Users |-> [status |-> "ACTIVE", bannedUntil |-> None, isMuted |-> FALSE,
                              roles |-> InitialRoles[u]]]
  /\ record = [u \in Users |-> NoRecord]
  /\ warnings = [w \in WarningIds |-> NoWarning]
  /\ req = [r \in Requests |-> Idle]
  /\ sweep = Asleep
  /\ now = 0
  /\ faults = 0

-----------------------------------------------------------------------------
\* user-roles.ts
RoleRank(role) ==
  CASE role = "OWNER" -> 6 [] role = "SERVER_ADMIN" -> 5 [] role = "UVK" -> 4
    [] role = "TECH_ADMIN" -> 3 [] role = "GAME_ADMIN" -> 2 [] role = "MINI_ADMIN" -> 1
    [] OTHER -> 0

HighestRank(roles) == Max({0} \union {RoleRank(role) : role \in roles})

HasAnyRole(roles, allowed) == roles \intersect allowed # {}

\* ensureCanModerateTarget
MayModerate(actor, target) ==
  /\ "OWNER" \notin target
  /\ "OWNER" \in actor \/ HighestRank(actor) > HighestRank(target)

\* assertCanChangeUserRoles
MayChangeRoles(actor, target, next) ==
  \/ "OWNER" \in actor
  \/ /\ HasAnyRole(actor, {"SERVER_ADMIN", "UVK"})
     /\ ~HasAnyRole(target \union next, {"OWNER", "SERVER_ADMIN"})
     /\ \/ "SERVER_ADMIN" \in actor
        \/ target \ {"MISSION_REVIEWER"} = next \ {"MISSION_REVIEWER"}

Moderators == {"OWNER", "SERVER_ADMIN", "GAME_ADMIN"}

-----------------------------------------------------------------------------
\* The guard of the route, then the reads of the service.
Authorised(a, u, allowed) ==
  /\ Present(a) /\ HasAnyRole(user[a].roles, allowed)
  /\ Present(u) /\ MayModerate(user[a].roles, user[u].roles)

Start(r, call) ==
  /\ req[r] = Idle
  /\ req' = [req EXCEPT ![r] = call]
  /\ UNCHANGED <<user, record, warnings, sweep, now, faults>>

Drop(r) ==
  /\ req' = [req EXCEPT ![r] = Idle]
  /\ UNCHANGED <<user, record, warnings, sweep, now, faults>>

\* Request r is over; the others on the same user are overtaken.
Done(r) ==
  req' = [q \in Requests |->
    IF q = r THEN Idle
    ELSE IF req[q] # Idle /\ req[q].user = req[r].user
         THEN [req[q] EXCEPT !.overtaken = TRUE] ELSE req[q]]

\* The row and the UserPunishment row that one transaction writes.
Punish(u, status, until, mute, type, muted) ==
  /\ user' = [user EXCEPT ![u] = [@ EXCEPT !.status = status, !.bannedUntil = until,
                                           !.isMuted = mute]]
  /\ record' = [record EXCEPT ![u] = [latest |-> type, until |-> until, muted |-> muted]]

\* Mutant of BanCheck: a ban replaces whatever ban there is.
BanCheckAnyone(r, a, u, until, mute) ==
  /\ Authorised(a, u, Moderators) /\ until > now
  /\ Start(r, [Idle EXCEPT !.op = "ban", !.actor = a, !.user = u, !.until = until, !.mute = mute])

\* banUser: up to the transaction, and the transaction.
BanCheck(r, a, u, until, mute) ==
  /\ Authorised(a, u, Moderators) /\ ~Banned(u) /\ until > now
  /\ Start(r, [Idle EXCEPT !.op = "ban", !.actor = a, !.user = u, !.until = until, !.mute = mute])

BanUser(r) ==
  LET u == req[r].user
  IN /\ req[r].op = "ban" /\ Present(u)
     /\ Punish(u, "BANNED", req[r].until, req[r].mute, "TEMP_BAN", req[r].mute)
     /\ Done(r)
     /\ UNCHANGED <<warnings, sweep, now, faults>>

\* permanentlyBanUser
PermanentBanCheck(r, a, u) ==
  /\ Authorised(a, u, {"OWNER", "SERVER_ADMIN"}) /\ ~Banned(u)
  /\ Start(r, [Idle EXCEPT !.op = "permanentBan", !.actor = a, !.user = u])

PermanentlyBanUser(r) ==
  LET u == req[r].user
  IN /\ req[r].op = "permanentBan" /\ Present(u)
     /\ Punish(u, "BANNED", None, FALSE, "PERMANENT_BAN", FALSE)
     /\ Done(r)
     /\ UNCHANGED <<warnings, sweep, now, faults>>

\* unbanUser, which asks for no ban.
UnbanCheck(r, a, u) ==
  /\ Authorised(a, u, Moderators)
  /\ Start(r, [Idle EXCEPT !.op = "unban", !.actor = a, !.user = u])

UnbanUser(r) ==
  LET u == req[r].user
  IN /\ req[r].op = "unban" /\ Present(u)
     /\ Punish(u, "ACTIVE", None, FALSE, "UNBAN", FALSE)
     /\ Done(r)
     /\ UNCHANGED <<warnings, sweep, now, faults>>

-----------------------------------------------------------------------------
\* createWarning
WarnCheck(r, a, u) ==
  /\ Authorised(a, u, Moderators)
  /\ Start(r, [Idle EXCEPT !.op = "warn", !.actor = a, !.user = u])

\* The warnings in force at t.
LiveWarnings(u, t) == {w \in WarningIds :
  /\ warnings[w].state = "live" /\ warnings[w].user = u
  /\ warnings[w].at >= t - Window}

\* The count within the transaction: the committed ones and its own.
Counted(u) == Cardinality(LiveWarnings(u, now)) + 1

\* isWarningAutobanEnabled, shouldTriggerWarningAutoban
AutobanTriggered(u) == Threshold > 0 /\ Counted(u) >= Threshold

\* resolveAutobanBannedUntil
AutobanEnd(u) == Max({now + Span} \union ({user[u].bannedUntil} \ {None}))

\* Mutant of AutobanUntil: a permanent ban is not seen to be one.
AutobanAnyone(u) == IF AutobanTriggered(u) THEN AutobanEnd(u) ELSE None

\* applyWarningAutobanIfNeeded decides: None, or when its ban ends.
AutobanUntil(u) == IF AutobanTriggered(u) /\ ~Permanent(u) THEN AutobanEnd(u) ELSE None

\* The transaction creates the warning, counts and reads the user.
WarnCount(r, w) ==
  LET u == req[r].user
  IN /\ req[r].op = "warn" /\ Present(u) /\ warnings[w] = NoWarning
     /\ warnings' = [warnings EXCEPT ![w] = [user |-> u, at |-> now, state |-> "open"]]
     /\ req' = [req EXCEPT ![r] = [@ EXCEPT !.op = "warned", !.warning = w,
                                            !.until = AutobanUntil(u), !.overtaken = FALSE]]
     /\ UNCHANGED <<user, record, sweep, now, faults>>

\* Mutant of CreateWarning: the automatic ban has no punishment row.
CreateWarningUnrecorded(r) ==
  LET u == req[r].user
      w == req[r].warning
  IN /\ req[r].op = "warned"
     /\ warnings' = [warnings EXCEPT ![w].state = "live"]
     /\ user' = IF req[r].until = None THEN user
                ELSE [user EXCEPT ![u].status = "BANNED", ![u].bannedUntil = req[r].until]
     /\ Done(r)
     /\ UNCHANGED <<record, sweep, now, faults>>

\* It writes the ban that it decided on, and commits.  The mute of the user stays
\* as it is, whatever the new row says of it.
CreateWarning(r) ==
  LET u == req[r].user
      w == req[r].warning
  IN /\ req[r].op = "warned"
     /\ warnings' = [warnings EXCEPT ![w].state = "live"]
     /\ IF req[r].until = None THEN UNCHANGED <<user, record>>
        ELSE Punish(u, "BANNED", req[r].until, user[u].isMuted, "TEMP_BAN", record[u].muted)
     /\ Done(r)
     /\ UNCHANGED <<sweep, now, faults>>

Remains(w, u) == warnings[w] # NoWarning /\ warnings[w].user = u

\* removeWarning
RemoveWarningCheck(r, a, w) ==
  /\ warnings[w].state = "live"
  /\ Authorised(a, warnings[w].user, Moderators)
  /\ Start(r, [Idle EXCEPT !.op = "unwarn", !.actor = a, !.user = warnings[w].user,
                           !.warning = w])

RemoveWarning(r) ==
  LET w == req[r].warning
  IN /\ req[r].op = "unwarn" /\ Remains(w, req[r].user)
     /\ warnings' = [warnings EXCEPT ![w].state = "removed"]
     /\ Done(r)
     /\ UNCHANGED <<user, record, sweep, now, faults>>

-----------------------------------------------------------------------------
\* changeUserRole
RoleCheck(r, a, u, next) ==
  /\ Present(a) /\ HasAnyRole(user[a].roles, {"OWNER", "SERVER_ADMIN", "UVK"})
  /\ Present(u) /\ a # u /\ next # user[u].roles
  /\ MayChangeRoles(user[a].roles, user[u].roles, next)
  /\ Start(r, [Idle EXCEPT !.op = "role", !.actor = a, !.user = u, !.roles = next])

ChangeUserRole(r) ==
  LET u == req[r].user
  IN /\ req[r].op = "role" /\ Present(u)
     /\ user' = [user EXCEPT ![u].roles = req[r].roles]
     /\ Done(r)
     /\ UNCHANGED <<record, warnings, sweep, now, faults>>

\* delete: of anybody, the owner's own account included.
DeleteCheck(r, a, u) ==
  /\ Present(a) /\ "OWNER" \in user[a].roles /\ Present(u)
  /\ Start(r, [Idle EXCEPT !.op = "delete", !.actor = a, !.user = u])

\* Mutant of Delete: the rows of the user stay.
DeleteUserOnly(r) ==
  LET u == req[r].user
  IN /\ req[r].op = "delete" /\ Present(u)
     /\ user' = [user EXCEPT ![u] = Gone]
     /\ Done(r)
     /\ UNCHANGED <<record, warnings, sweep, now, faults>>

\* Warnings and records go with the row (onDelete: Cascade); a warning that is
\* being created holds the row until its transaction ends.
Delete(r) ==
  LET u == req[r].user
  IN /\ req[r].op = "delete" /\ Present(u)
     /\ \A q \in Requests : ~(req[q].op = "warned" /\ req[q].user = u)
     /\ user' = [user EXCEPT ![u] = Gone]
     /\ record' = [record EXCEPT ![u] = NoRecord]
     /\ warnings' = [w \in WarningIds |->
                      IF warnings[w] # NoWarning /\ warnings[w].user = u THEN NoWarning
                      ELSE warnings[w]]
     /\ Done(r)
     /\ UNCHANGED <<sweep, now, faults>>

\* The row that a request would write to is gone: its transaction fails.
Fail(r) ==
  /\ \/ req[r].op \in Ops \ {"idle", "unwarn"} /\ ~Present(req[r].user)
     \/ req[r].op = "unwarn" /\ ~Remains(req[r].warning, req[r].user)
  /\ Drop(r)

-----------------------------------------------------------------------------
\* unbanExpiredUsers, at the start of the process and at each interval, unless
\* it is running.
SweepStart ==
  /\ ~sweep.running
  /\ sweep' = [running |-> TRUE, at |-> now, todo |-> {u \in Users : Expired(u, now)}]
  /\ UNCHANGED <<user, record, warnings, req, now, faults>>

\* Mutant of SweepUser: updated by id alone.
SweepListed(u) ==
  /\ u \in sweep.todo
  /\ sweep' = [sweep EXCEPT !.todo = @ \ {u}]
  /\ IF Present(u)
     THEN Punish(u, "ACTIVE", None, FALSE, "UNBAN", FALSE)
     ELSE UNCHANGED <<user, record>>
  /\ UNCHANGED <<warnings, req, now, faults>>

\* Mutant of SweepUser: the mute stays.
SweepUserMuted(u) ==
  /\ u \in sweep.todo
  /\ sweep' = [sweep EXCEPT !.todo = @ \ {u}]
  /\ IF Expired(u, sweep.at)
     THEN Punish(u, "ACTIVE", None, user[u].isMuted, "UNBAN", FALSE)
     ELSE UNCHANGED <<user, record>>
  /\ UNCHANGED <<warnings, req, now, faults>>

\* One user's transaction, which asks again whether the ban has expired.
SweepUser(u) ==
  /\ u \in sweep.todo
  /\ sweep' = [sweep EXCEPT !.todo = @ \ {u}]
  /\ IF Expired(u, sweep.at)
     THEN Punish(u, "ACTIVE", None, FALSE, "UNBAN", FALSE)
     ELSE UNCHANGED <<user, record>>
  /\ UNCHANGED <<warnings, req, now, faults>>

\* Mutant of SweepEnd: isRunning is not reset.
SweepEndHolding ==
  /\ sweep.running /\ sweep.todo = {}
  /\ UNCHANGED vars

SweepEnd ==
  /\ sweep.running /\ sweep.todo = {}
  /\ sweep' = Asleep
  /\ UNCHANGED <<user, record, warnings, req, now, faults>>

\* A transaction of the job throws: the rest of the list is left to the next one.
SweepFail ==
  /\ sweep.running /\ faults < MaxFaults
  /\ faults' = faults + 1
  /\ sweep' = Asleep
  /\ UNCHANGED <<user, record, warnings, req, now>>

\* The process ends; open transactions roll back.
Restart ==
  /\ faults < MaxFaults
  /\ faults' = faults + 1
  /\ sweep' = Asleep
  /\ req' = [r \in Requests |-> Idle]
  /\ warnings' = [w \in WarningIds |->
                   IF warnings[w].state = "open" THEN NoWarning ELSE warnings[w]]
  /\ UNCHANGED <<user, record, now>>

Tick ==
  /\ now < MaxTime
  /\ now' = now + 1
  /\ UNCHANGED <<user, record, warnings, req, sweep, faults>>

-----------------------------------------------------------------------------
Request(r) ==
  \/ \E a, u \in Users :
       \/ \E until \in Untils, mute \in BOOLEAN : BanCheck(r, a, u, until, mute)
       \/ PermanentBanCheck(r, a, u)
       \/ UnbanCheck(r, a, u)
       \/ WarnCheck(r, a, u)
       \/ \E next \in NewRoles : RoleCheck(r, a, u, next)
       \/ DeleteCheck(r, a, u)
  \/ \E a \in Users, w \in WarningIds : RemoveWarningCheck(r, a, w)
  \/ \E w \in WarningIds : WarnCount(r, w)
  \/ BanUser(r)
  \/ PermanentlyBanUser(r)
  \/ UnbanUser(r)
  \/ CreateWarning(r)
  \/ RemoveWarning(r)
  \/ ChangeUserRole(r)
  \/ Delete(r)
  \/ Fail(r)

Sweeping == SweepStart \/ (\E u \in Users : SweepUser(u)) \/ SweepEnd

Next ==
  \/ \E r \in Requests : Request(r)
  \/ Sweeping
  \/ SweepFail
  \/ Restart
  \/ Tick

\* setInterval comes round; the job goes on unless it throws.
Fairness ==
  /\ WF_vars(SweepStart)
  /\ WF_vars(\E u \in Users : SweepUser(u))
  /\ WF_vars(SweepEnd)

Spec == Init /\ [][Next]_vars
FairSpec == Spec /\ Fairness

-----------------------------------------------------------------------------
(* What moderation promises.                                               *)

\* Bans, unbans, the automatic ban and the job agree with what they record: a
\* user is banned just when the newest record says so, and until that moment
\* (the reason shown with a ban, resolveBanReason, is the reason of that ban);
\* and he is silenced only by a moderator's decision that nobody has replaced:
\* no mute outlives an unban to come back with an automatic ban.
RecordExplainsStatus == \A u \in Users : Present(u) =>
  /\ Banned(u) <=> record[u].latest \in {"TEMP_BAN", "PERMANENT_BAN"}
  /\ user[u].bannedUntil = record[u].until
  /\ Permanent(u) <=> record[u].latest = "PERMANENT_BAN"
  /\ user[u].isMuted = record[u].muted

\* A permanent ban gives way to an unban or to the deletion of the user; to a
\* ban or a warning only if that read the user before the permanent ban.
PermanentBanStands == [][\A u \in Users :
  Permanent(u) /\ ~Permanent(u)' =>
    \E r \in Requests :
      /\ req[r].user = u /\ req'[r] = Idle
      /\ req[r].op \in {"unban", "delete"} \/ req[r].overtaken]_vars

\* The job lifts no ban that has not expired: not one that a moderator gave
\* after an unban, while the job was on its way.
SweepSparesNewBans == [][\A u \in Users :
  u \in sweep.todo /\ u \notin sweep'.todo /\ Banned(u) /\ ~Banned(u)' =>
    Expired(u, now)]_vars

\* An expired ban does not stay: the job lifts it, also after a run that failed,
\* unless a new ban takes its place first.
ExpiredBansAreLifted == \A u \in Users : Expired(u, now) ~> ~Expired(u, now)
=============================================================================
