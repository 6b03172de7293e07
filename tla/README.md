# Verification of the VTG platform API

The repository is the backend of a community platform for Arma games: a NestJS
application over one PostgreSQL database (Prisma), with socket.io gateways,
cron jobs, an object store and chat bots. This directory holds TLA+ models of
its stateful parts, TLC runs that check them on small instances, and TLAPS
proofs of their main invariants for instances of every size.

Paths below are relative to the repository's `src/` directory unless they start
with `prisma/` or `docs/`.

## 1. Inventory

The process is a single Node.js process: between two `await`s a handler runs
alone, at every `await` any other handler, socket callback or cron job may run.
Durable state is in the database; sockets, listeners, counters and everything a
handler holds over an `await` are in memory and lost in a crash. Single
statements and `$transaction`s are atomic (read committed).

| Component | State | Operations | Interacts with | Hard behaviour |
|---|---|---|---|---|
| Browser sessions (`modules/auth/auth.service.ts`) | `UserSession` rows, cookies | login, second login step, logout, list and revoke, sliding expiry | users, realtime, access revocation | check-then-create login, late extension, replaced session |
| Access revocation (`users.service.ts` `revokeUserAccess`, `infrastructure/access-revocation`) | `tokensValidAfter`, sessions, listeners in memory | password change and reset, permanent ban, deletion | sessions, sockets, OIDC grants | crash between the write and the revocation |
| Realtime (`infrastructure/realtime`, the four gateways) | sockets and their rooms | handshake, disconnect by user or session, room re-check | every HTTP service | handshake against revocation |
| OpenID Connect (`modules/oidc`) | `OidcPayload`, `OidcConsent`, `OidcClient` | interaction, grant, code and token use, revocation, hourly clean-up, back-channel logout | sessions, access revocation | grant linked in two steps, lost events |
| JWT (`auth/jwt-revocation.ts`, `users.service.ts`) | `tokensValidAfter` | issue, refresh, verify | revocation | second precision, concurrent cutoffs |
| Two-factor (`auth/two-factor.service.ts`) | pending secret, attempt window in memory, recovery codes | setup, enable, disable, verify | login | parallel attempts, a code used twice, setups that overlap |
| Accounts (`users.service.ts`, `auth/auth.service.ts`) | `User` rows: tokens of mails, nickname, Steam id | sign up, confirm, forgotten password, nickname, link and unlink Steam | login, second factor | a mail used twice, two callbacks of Steam, unique columns |
| Squads (`modules/squads`) | membership, roles, leader, invitations, join requests | create, invite, request, accept, reject, kick, leave, transfer, delete | realtime rooms, headquarters | membership decided on stale reads |
| Headquarters (`modules/headquarters`) | game plans, commander, HQ squad, slots | assign, unassign, synchronise with games | squads, sides, weekends | commander against HQ squad |
| Weekends and games (`modules/weekends`) | weekends, games | create, update, delete, announce | headquarters, notifications, bots | last game of a weekend, publication told page by page |
| Moderation (`users.service.ts`, `users-ban-expiration.service.ts`, `users-warning-autoban.ts`) | status, `bannedUntil`, warnings, punishments | ban, unban, warn, automatic ban, expiry job | sessions, notifications | stale checks, overlapping job runs |
| Chats (`modules/chats`) | chats, members, messages, rooms | create, add, leave, delete, send | realtime | duplicate direct chats, room join race |
| Missions (`modules/missions`) | missions, versions, their files and screenshots | create, update, review, delete | object store, headquarters | a decision on a file that has been replaced, files that move between buckets |
| Attachments and images (`mission-comments`, `news`, `chats`, `headquarters`, `achievements`, avatars; `infrastructure/minio`, `shared/utils`) | `File` rows, objects, the rows that show them | upload, synchronise, delete | object store | row and object removed separately, calls that fail half way |
| Notifications, bots (`modules/notifications`, `infrastructure/bots`) | rows, external posts | notify all active users, announce | weekends, news, moderation | users who come, go or are banned between two pages |
| Reference data (islands, servers, rules, sides, specializations, achievements, API keys, public API, feed) | rows | plain CRUD and queries | - | none |

What makes each correct, in one line: a session ends everywhere when it ends
(sockets, applications); a password change or ban ends what came before it; no
login leaves an unreachable session; a token signed before a revocation is
refused; guesses of the second factor are bounded and a recovery code opens once;
a mail sets one password, and a valid one is not taken back; a user is in one
squad, its leader is a member, an offer is accepted once; a plan's commander
belongs to its HQ squad and its slots are those of its version; the status of a
user is what the newest punishment says, an expired ban is lifted and a newer one
is not; a chat is heard by its members and a direct chat is unique; a file that is
shown can be opened and one that is not shown is gone; a version is approved as it
was reviewed; every active user is told once of what is published. `PROJECT.json`
lists the components and the hazards line by line.

## 2. The modules

| Module | Subject | Run | Proofs |
|---|---|---|---|
| `Sessions` | rows, cookies, sockets and handlers of browser sessions | `Sessions.cfg` | `SingleSignOnProofs` |
| `SingleSignOn` (extends Sessions), `SessionBoundAccess` | the OpenID Connect provider, and what it promises | `SingleSignOn.cfg`, `SingleSignOnLive.cfg` | `SingleSignOnProofs` |
| `JwtRevocation` | tokens without a session and their cutoff | `JwtRevocation.cfg` | `JwtRevocationProofs` |
| `TwoFactor` | setup, attempts and recovery codes of the second factor | `Accounts.cfg` | `AccountsProofs` |
| `Accounts` (extends TwoFactor) | sign-up, mails, nicknames, the link to Steam | `Accounts.cfg` | `AccountsProofs` |
| `Squads` | membership, leaders, invitations, join requests | `Squads.cfg` | `SquadsAndPlansProofs` |
| `Headquarters` | plans of a game: HQ squad, commander, slots | `Headquarters.cfg` | `SquadsAndPlansProofs` |
| `Moderation` | bans, warnings, roles, deletion, the job that lifts bans | `Moderation.cfg` | `ModerationProofs` |
| `Chats` | chats, members, rooms of sockets | `Chats.cfg` | `ChatsProofs` |
| `Storage` | `File` rows, objects in MinIO, the calls on them | with the next two | `StorageProofs` |
| `Files` (extends Storage) | attachments, images and avatars in rows and in MinIO | `Files.cfg` | `StorageProofs` |
| `MissionVersions` (extends Storage) | review of versions, their file, sides and screenshots | `MissionVersions.cfg` | `StorageProofs` |
| `Publishing` | publication of weekends and news, games of a weekend | `Publishing.cfg` | `PublishingProofs` |

Each `MCX` module gives the constants of `X` their values, and bounds what a state
of the run combines, by a `CONSTRAINT` or by a next-state relation
`MCNext == Next /\ Focus` of which every step is a step of `Next`. The modules
share no state but Sessions and SingleSignOn; where one starts what another
describes, the comment at the action says so: a permanent ban of Moderation is
followed by the revocation of Sessions and JwtRevocation, a login of TwoFactor by
the tokens of JwtRevocation, an update of MissionVersions by the slots of
Headquarters, a deletion of posts by the files of Files.

Conventions. A handler is a slot in `req` (`job` and `ask` in Headquarters) that
keeps what was read before an `await`; a check and the write that rests on it
are two actions. Where the code lets a write follow an overtaken check, the model
takes the step, and a history variable (`stale`, `stray`, `twin`, `clashed`,
`cut`, `shared`, `crossed`, `doubled`, `emptied`, `lapsed`) records it. The properties are
stated with that excuse, so that they say precisely what is lost and that
nothing else is. Operators marked "Mutant of X" are plausible mistakes in `X`:
each property is broken by one of them (`PROJECT.json`, "mutants").

## 3. Sessions

### State and actions

| Model | Code |
|---|---|
| `account[u]` | `User.status`/`bannedUntil` as one of four states, and a count of password replacements |
| `session[s]` | a `UserSession` row: `held` is `revokedAt = null`; `revokedAlone` and `revokedWithUser` say which path revoked it first; `deleted` is the cascade of the account |
| `session[s].password` | history: the password in force when the row was created, or when a change kept it |
| `cookie[b]` | the session cookie of a browser |
| `socket[k]` | a socket between its TCP connection and its end: `connecting`, `resolved` (session read, extension pending), `authenticated` (`client.userId` set) |
| `req[r]` | a handler between two awaits: its next step and the values it carries |
| `clock` | days, as far as the expiry of sessions tells them apart; `ExpireCookie` is the browser dropping a cookie at the expiry it was set with |

One action is what runs between two awaits. A handler's slot keeps what was
read earlier, so later steps use stale values where the code does. Login is
`LoginCheck`, `CreateSession`, `EndReplacedSession`, `EndSession`, `Respond`;
logout `SessionLogout`, `EndSession`, `Respond`; the list
`RevokeSessionByIdCheck`, `RevokeSessionById`, `EndSession`, `Respond`; password
changes `ChangePasswordCheck` or `ResetPasswordCheck`, `SetPassword`,
`RevokeUserAccess`, `CutOffUser`; bans `BanCheck`, `PermanentlyBanUser` or
`BanUser`; ordinary requests `ResolveUserFromSession`, `TouchSession`; sockets
`Connect`, `ResolveHandshakeUser`, `AuthenticateSocket`, `CloseSocket`.
`Crash` empties the slots and closes the sockets at any moment.

Abstractions: the reads of one handler that no write separates are one step
(password comparison, the guard's session read with the list query); ip, device
and activity time are left out; callers with a JWT take the same steps without a
cookie to keep; identifiers are not reused.

### What is checked

| Run | Bounds | Shows |
|---|---|---|
| `Sessions.cfg` | 1 user, 2 sessions, 2 browsers, 1 socket, 2 requests, clock to 2 days, TTL 1, maximum age 2, 2 password changes, `CONSTRAINT LaterDays` | `SessionAgeBound`, `EndedSessionHasNoSocket`, `NoLingeringSession`, `OldPasswordSessionsEnd` |

Two requests and one socket are the smallest instance in which a login, a
logout or a revocation overlaps another one and a handshake; two sessions are
needed for one to replace the other; two password changes to let two
`changePassword` calls overlap, each keeping the session it was made from. With
TTL one day and a maximum age of two, the visit of the second day extends the
expiry and the visit of the third one meets the cap. `LaterDays` keeps the run
small: two handlers overlap on the first day, one (beside the writes of visits)
on the second, and only the writes of visits are followed on the last one.

`NoLingeringSession` is checked with `OverlapPerBrowser = FALSE`: one request
that sets the session cookie at a time per browser. With overlap it does not
hold: both logins carry the same old cookie and only one of the new sessions
ends up in the jar. The comment at `auth.service.ts:168` speaks of one login
replacing another, so the run keeps to that.

`NoLingeringSession` excuses a session whose cookie has run out (see section 14).

No liveness is claimed for Sessions: each handler is a straight line of awaits.

### What is proved

The first sections of `SingleSignOnProofs.tla`, for every value of the constants
that meets `SessionsAssumption`:

* `TypeCorrect`: `TypeOK`, and `LifetimeIsCapped`: `SessionAgeBound`, both from
  `TypeInv`. `TypeOK` alone is not inductive: that a slot names a row that
  exists, and that an expiry in flight respects the age of its row, is needed
  to type the rows it is written to.
* `SocketsEndWithSession`: `EndedSessionHasNoSocket`. Inductive together with
  `TypeInv`: a socket in the handshake keeps naming a row that exists, and
  `DisconnectSession` closes it whatever its state.
* `PasswordChangeEndsSessions`: `OldPasswordSessionsEnd`, strengthened by
  `PasswordInv` (no row is newer than its account's password) and by the fact
  that a deleted account has no session.

* `NoSessionIsLeftBehind`: `NoLingeringSession` when `OverlapPerBrowser = FALSE`,
  as in the run. A session drops out of reach in the step that answers, long
  after the one that ended it, so `LingerInv` follows every request that will set
  a cookie: the browser still has the cookie the request came with, or none, no
  other such request of this browser is in flight, and from the step after the
  revocation on that session is not held. Sockets, visits, bans and the clock
  only end sessions or let a held one live longer (`LingerStill`).

## 4. Single sign-on

`SingleSignOn.tla` extends Sessions with the OpenID Connect provider as seen by
one client application. Its next-state relation is the one of Sessions, with
the listener of `OidcGrantsService` started by the steps that publish an event
(`Published`), and the steps of the provider beside it.

### State and actions

| Model | Code |
|---|---|
| `grant[g]` | a `Grant` row of `OidcPayload`: account, `aspSessionId` (`session`); history: the session that created it (`by`) |
| `token[t]` | a code, refresh token (`exchange`) or access token row, its `grantId`; history: the session signed in when its code was issued |
| `provider[b]` | the library's session in browser `b`: account and the client's grant |
| `flow[f]` | an authorization request, from the session check to the code |
| `use[c]` | a request of the application with a token, in `findAccount` |
| `revocations` | runs of `revoke()` between their statements, with the grants found |
| `consent[u]` | whether the `OidcConsent` row exists |

A sign-in is `Authorize`, `CheckSession`, `CheckGrant` (`vtgSessionCheck`);
`LoadInteraction`, `FinishLookup`, `DiscardOldGrant`, `SaveGrant`,
`LinkToSession`, `RecordConsent` (the interaction); `ResumeAuthorization`,
`IssueCode` (the library). A use is `PresentToken`, `FindAccount`, `FindGrant`,
`FindSession`, then `StoreToken` for an exchange, and `Reply`. A revocation is
`FindGrants`, `DeleteGrants`, `DeleteProviderSessions`; the hourly job starts
with `RemoveExpired` and `FindEndedSessions`. Each is what runs between two
statements, so that sign-ins, uses, revocations and the handlers of Sessions
interleave. `SaveGrant` keeps that the upsert brings back a grant deleted since
the lookup, without its session; `LinkToSession` that the update throws when
the grant is gone; `IssueCode` that the code is stored whatever has become of
its grant. `CrashAll` loses flows in a handler, uses, and the revocations that
an event started; rows, cookies and interactions waiting for the user survive.

The steps of the library (`ResumeAuthorization`, `IssueCode`, `StoreToken`) are
modelled from how the configuration and the adapter use it, and are marked
external. Abstractions: which exchange tokens are consumed is left open
(`PresentConsumedToken` may hit any), lifetimes of codes and tokens are not
related to the clock (`ExpireToken`, `ExpireGrant` at any time), scopes are left
out, and the statement that touches a session while OIDC reads it on behalf of
its user is the `TouchSession` of Sessions.

### What is checked

| Run | Bounds | Shows |
|---|---|---|
| `SingleSignOn.cfg` | 1 user, 1 browser, 2 sessions, 2 grants, 2 tokens, 1 of each request, clock to 1, at most 2 activities at a time | `GrantKeepsItsSession`, `ImplementsAccess` |
| `SingleSignOnLive.cfg` | 1 session, 1 grant, 1 token, clock to 2, no bound on activities, no uses | `OrphansAreRemoved` |

`ImplementsAccess` is the refinement of `SessionBoundAccess`: there a token has
the session it was issued from, sessions end for ever, and a request that
presents a token after its session ended cannot be accepted. The map takes
`revokedAlone`, `revokedWithUser` and `deleted` rows as ended, the history field
`by` of a token as its issuer, and the steps of `use` as asked, accepted or
refused. Expiry and bans are not part of the promise: an unban makes a session
that it did not revoke usable again.

Two sessions and two grants are the smallest instance where a grant of another
session could be reused, two tokens the smallest with an exchange. `MaxBusy`
bounds how many handlers, sign-ins, uses and revocations overlap. `FewRows`
bounds sessions, grants and tokens together: five, or three where the account has
been banned or deleted, which is one of each, and one less after the day has
passed. The day lets a cookie run out while its session lives on, so that two live
sessions meet in one browser. `Relevant` leaves out temporary
bans and password changes as steps of the handlers: for a grant a temporary ban
is no ban, and a password change revokes as a permanent ban does. Sessions,
grants and tokens are interchangeable (symmetry, for invariants and the
refinement only), and the history variable `crashed` of Sessions, which nothing
here reads, is left out of the view. `NoBans` leaves bans and deletions out of
the liveness run: no step of the job depends on them. The theorems below have
none of these bounds.

`OrphansAreRemoved` assumes `WF(HourlyJob)`: the scheduler starts `removeExpired`
again and again and its statements return, and `<>[][~Crash]`: the process stops
crashing at some time, since a job that dies in every run removes nothing. No
fairness is assumed of handlers, events or users.

### What is proved

The later sections of `SingleSignOnProofs.tla`, for every value of the constants:

* `SessionsUnderSingleSignOn`: `SingleSignOnSpec => Spec`, every step of the
  composition is a step of Sessions or leaves its variables alone. The theorems
  about Sessions hold in the composition without a new proof.
* `SingleSignOnTypeCorrect` and `GrantsKeepTheirSession`, from `SignOnInv`. Its
  conjuncts are the type invariant, the property, and what they rest on: a
  sign-in names rows that exist and has a grant exactly in the steps after
  `save` (`FlowsNameRows`), the provider remembers grants that exist
  (`ProvidersNameGrants`), tokens name sessions that exist
  (`TokensNameSessions`), and a call that started late still has its session
  ended (`CallsRemember`, with `EndedStaysEnded`).
* `SingleSignOnImplementsAccess`: the refinement. A call becomes accepted in
  `FindSession` only; there the session read is the grant's, by `SignOnInv` the
  one the token was issued from, and it is held, so it was not ended at the
  start of the call.

`OrphansAreRemoved` is only model-checked.

## 5. JWTs

`JwtRevocation` is a module of its own: JWTs carry no session and are not
stored, and their revocation is a comparison of times. It serves clients that
do not use the session cookie.

### State and actions

The clock counts ticks (milliseconds in the code), `TicksPerSecond` of them a
second. `account` is the status and `tokensValidAfter` of a user, `tokens` the
signed JWTs somebody still holds, `req` the handlers between two awaits.

| Action | Code |
|---|---|
| `LoginCheck`, `SignLogin` | `authenticateLoginUser`, `login`, `createLoginToken` |
| `VerifyTwoFactorLogin` | `verifyLoginToken`, `verifyTwoFactorLogin`; the login token is not consumed |
| `RefreshCheck` | `refreshToken` up to `generateTokens` |
| `SignAccess`, `SignRefresh` | `generateTokens`, one signature after the other |
| `Accepted` | `resolveUserFromJwt` and the same checks of `refreshToken` |
| `PasswordCheck`, `SetPassword` | `changePassword` and `resetPassword` |
| `BanCheck`, `PermanentlyBanUser`, `UnbanUser`, `DeleteUser` | the methods of `users.service.ts` |
| `ComputeCutoff`, `WriteCutoff` | `revokeUserAccess`: `nextTokensValidAfter`, then the transaction |
| `ExpireToken`, `Tick`, `Crash` | the `exp` claim, time, the process |

A wrong password or code changes nothing and is no step. Temporary bans refuse
no token and are left out.

Three parts of the state are history. `cutAt` is the tick the last revocation
was computed at. A revocation counts only when it ran `alone`, without another
one of the same user in flight: of two that overlap, the one computed first may
be written last and move `tokensValidAfter` back. `root` is the tick of the
login a token goes back to through refreshes, and `clean` says that no
revocation was computed, or was in flight, between a check and the signature it
led to. A handler that overlaps a revocation may sign a token after the cutoff
on the strength of a check from before it; the model has these tokens, and the
properties say what is promised for the others.

### What is checked

| Run | Bounds | Shows |
|---|---|---|
| `JwtRevocation.cfg` | 1 user, 2 handlers, seconds of 2 ticks, clock to 4, at most 2 tokens held | `RevokedTokensAreRefused`, `OnlyNewLoginsSurvive` |

Two ticks are the coarsest second in which a token and a cutoff can share one
without sharing a tick, and the clock passes two second boundaries. Two handlers
are a revocation and what overlaps it, or two revocations; two tokens are one
and its refresh. Users do not interact. Handlers are interchangeable.

`RevokedTokensAreRefused` needs the rounding up: a token of the revocation's own
second, signed before it, has the same `iat` as one signed after it, so both are
refused. `LockoutIsShort`, a theorem below, bounds what that costs: a token signed
one second from now is never refused. `OnlyNewLoginsSurvive` is about chains: a
refresh cannot carry an old login over a revocation.

### What is proved

`JwtRevocationProofs.tla` proves both invariants, the types (`JwtTypeOK`) and
`LockoutIsShort` for every number of users and handlers and every length of a
second. The invariant `JwtInv` adds to the
type invariant:

* `CutoffsInOrder`: no counted cutoff lies above `tokensValidAfter` or a cutoff
  in flight, and a cutoff in flight that is `alone` is the only one of its user.
  Without it a write could move `tokensValidAfter` below `cutAt`.
* `CleanChains`: no revocation was computed strictly between the login and the
  signature of a clean token. `OnlyNewLoginsSurvive` follows from this and
  `RevokedTokensAreRefused`.
* `CutoffsArePast`: `tokensValidAfter` is the rounded value of a tick that has
  passed, from which `LockoutIsShort` follows.

The arithmetic is in `SecondOfTick`, `SecondsInOrder` and `CutoffBounds`: a tick
lies in its second, later ticks in no earlier one, and a cutoff lies less than a
second after the tick it was computed at.

## 6. Squads

`Squads` models `squads.service.ts`: who is in which squad with which role, who
leads it, and the invitations and join requests.

### State and actions

| Model | Code |
|---|---|
| `leader[q]` | `Squad.leaderId`, unique; `NoUser` for an id without a row |
| `member[u]` | `User.squadId` and `squadRole`; history: `placed`, the last write came from `create` or `updateByAdmin` |
| `offer[o]` | a `SquadInvitation` or `SquadJoinRequest` row |
| `req[r]` | a handler between its reads and its writes |
| `stale` | history: some write rested on a check that no longer held |

An operation is a check and a write: `XCheck` is everything up to the last read,
the action named for the method is its transaction (`Create`, `UpdateByAdmin`,
`Delete`, `TransferLeadership`, `UpdateMemberRole`, `KickFromSquad`,
`LeaveFromSquad`, `RequestToJoinSquad`, `InviteToSquad`, `AcceptJoinRequest`,
`AcceptInvitation`, `Reject`). `acceptInvitation` and `rejectInvitation` take the
invitation by its id and do not compare its user with the caller: any user in no
squad may accept it (he joins its squad, the row becomes accepted, and his own
pending offers are deleted), any user in a squad who tries deletes it
(`DropInvitation`, as `cancelInvitation` does), anybody may reject it.
`leaveFromSquad` of a leader has no
transaction around all of its writes: `HandOver`, `ResetRole`, `LeaveFromSquad`
are three steps, and `Crash` may come between them. What a check required is an
operator (`CanKick`, `CanTransfer`, ...), evaluated a second time when the
handler writes, only to set `stale`.

A write by id finds whatever has become of the row: `update` of a missing row
throws (`Throw`), as does a second squad with the same `leaderId`; `deleteMany`
and a write to a user who has left the squad do not. Transactions are atomic, ids
are random and none is given out while a handler holds it, accounts are not
deleted.

### What is checked

| Run | Bounds | Shows |
|---|---|---|
| `Squads.cfg` | 2 users, 2 squads, 2 offers, 2 handlers | `SquadsTypeOK`, `FreshChecksSuffice`, `OwnOfferMovesNobody` |

Two handlers are a check and the write that overtakes it; two offers are the two
acceptances of one user, both of offers to him or one of them of an invitation to
the other; a second squad is where a moved user comes from or goes to. `FewRoles`
takes one representative of roles that the checks do not tell apart (`hq` and
`recruit` behave as `member`). Users, squads, offers and handlers are
interchangeable.

`SquadsTypeOK` has the foreign keys and the unique leader: they hold under any
overlap. That a leader is a member of the squad, that who is in no squad has no
role in one, and that a user has one open offer of a kind with a squad do not:
`FreshChecksSuffice` says that they do until the first write whose check was
overtaken. So the checks are the right ones, every write on its own keeps what
they are made for, and a crash between the writes of `leaveFromSquad` does no
harm; what remains is the window between check and write.
`OwnOfferMovesNobody` is about that window: however stale an acceptance is,
while its offer is open and to the user himself, he is in no squad, except one
an administrator put him in, because accepting anything, a stranger's invitation
too, deletes his open offers, and the update of a deleted one fails. Without
"to the user himself" it is false: of two acceptances in flight the first deletes
the caller's own offers only, so that the second, of another user's invitation,
still finds its row and moves the caller from one squad to the other.

No liveness is claimed: nothing in this service waits or is retried.

### What is proved

`SquadsAndPlansProofs.tla` proves the three invariants for every number of users,
squads, offers and handlers, from `SquadsInv`. It adds `CallsAreComplete` to
them: the offer a handler accepts is, if it still exists, a row of the same
squad, and a join request also of the same user. Without it an acceptance could
write a squad that has been deleted.
`HeldRows` is the argument that a write leaves the rows other handlers hold in
order, stated once in terms of what may happen to one offer (`OfferStep`) and one
user (`MemberStep`); `MemberChanged` and `LeaderChanged` do the same for the
foreign keys; each action then has a lemma that cites them.

## 7. Headquarters

`Headquarters` models the plans of one game: `headquarters.service.ts` with the
operations of `weekends.service.ts` and `missions.service.ts` that call it.

### State and actions

| Model | Code |
|---|---|
| `game` | the `Game` row: version, attack and defense side, their HQ squads; `None` before it is created and after it is deleted |
| `version[v]` | what a `MissionVersion` says about slots: types of attack, defense and friendly side, and the slots of each |
| `plan[p]` | the `GamePlan` of a side: HQ squad and commander; history: `from` and `era`, the squad, and the sides and mission, the commander was appointed for; `detached`, the appointment or choice rested on a stale read, or the squad was deleted |
| `slots` | `GamePlanSlot` rows with callsign, type, count, squads assigned to it and squads that want it; `copy` stands for the random id |
| `officer[u]`, `disbanded` | which squad a user is leader, subleader or HQ of, and which squads are gone |
| `job[j]` | an organiser's request between two awaits |
| `ask[a]` | a player's request between its reads and its write |
| `lapsed` | history: work that a request left undone, `"slots"` or `"plans"`; `"overlap"` once two organisers' requests have overlapped |

An organiser's request writes the game or the version first and then brings the
plans in line, one statement or transaction at a time, with everything else in
between. Creating a game: `CreateGame`, `LoadGame`, then `CreatePlan` and
`FillPlan` for each side (`ensureGamePlansForGame`). Changing it:
`UpdateGameCheck` decides what has to follow on what it reads, `SaveGame` writes.
New sides or another mission reset the plans (`RebuildSlots` for each,
`ClearPlans`, `ReadHqSquads`, `SetHqSquad`); another version of the mission, or
`SaveVersion` of the version, syncs the slots (`ReadPlans`, `DropFriendlySlots`,
`AddFriendlySlots`, `SyncSlots`); other HQ squads alone are written with
`SetHqSquad`. The route is in `job[j].route`. A write that throws ends the
request where it is, and so does `Crash`.

A player's request is a check and a write by id: `AssignHqSquad`,
`AssignCommander`, `UnassignHqSquad`, `UnassignCommander`, and `UpdateSlot` for
the five requests that edit a slot: a commander's, for its count and the squads
assigned to it, and those of an officer who wants it for his squad or no longer.
`DeleteSquad` sets references to null as the schema's `onDelete: SetNull` does;
the commander of the plan stays. `MoveOfficer` is any change of membership
(`Squads`).

Taken as given: the weekend is published. `ContentOK` is what an edit of a version
lets pass: the friendly side is none of those that play, and the callsigns of one
side are distinct. Positions, texts, comments and the plan URL are left out, so a
row of which only the position changes is not written. The plans are looked at
together, requests to several games separately.

### What is checked

| Run | Bounds | Shows |
|---|---|---|
| `Headquarters.cfg` | 1 plan, 2 squads of its side, 2 users, 2 versions of a mission and 1 of another, 1 organiser's request, 2 of players | `HeadquartersTypeOK`, `SlotsMatchVersion`, `CommanderIsFromHq`, `CommanderIsOfThisGame`, `SyncKeepsAssignments` |

The contents of a version differ in callsigns, counts and friendly side, so that a
sync keeps, changes, adds and drops rows; in the third one the side that was
friendly plays itself. The edits switch the version, go to the other mission,
replace the HQ squad, or swap the sides. `Focus` bounds what one state combines
(764,470 states). Everywhere one version is edited, one slot has a squad and one
squad is deleted at most. Then either users stay where they are, one player's
request runs, and slots or versions are edited, not both, after a request that
broke off too; or (`SyncsMeetSlots`) a sync, of an edited version or of the other
one, meets a slot to which a squad is assigned, or which one wants, and the
requests that write to this slot: it is one that the sync keeps with another
count; or nothing has broken off, versions and slots are left alone, and two
players' requests overlap or users change squads. The other mission comes with one
player's request and no slots of squads. The third content is there with no
player's request. One plan stands for all, as a step writes plans one by one or
all alike, and one organiser's request at a time: after two have overlapped the
properties but `CommanderIsFromHq` and the types say nothing. The theorems below
have any number of each.

Nothing in the code orders two organisers' requests, and plans then follow
whichever wrote last: that is `"overlap"` in `lapsed`. Player requests overlap
with them and with each other.

`SlotsMatchVersion`: a player can neither make a sync miss a row nor keep one.
It excuses what is recorded in `lapsed`. Four ways lead there besides the overlap:
a crash or a throw between the writes; removing the old file of a version may
throw before the plans are synced; a version whose sides change type without a
new file, which the code does not sync; and a version whose friendly side comes
to play (section 14). `SyncKeepsAssignments` is the sentence "Count-changed
callsigns keep assignments; friendly alliance changes rebuild only
friendly-tagged rows", for the squads of a slot and those that want it. Its mutant
writes a row anew when its count changes; the run meets it with a squad there.
`CommanderIsFromHq` excuses writes on a stale read of the HQ squad, and a deleted
squad, whose commander the code leaves in place. `CommanderIsOfThisGame` says
that commander and game change together: one appointed for other sides or another
mission is there only while a reset is still on its way.

No liveness is claimed: a request that breaks off is not resumed by anything.

### What is proved

`SquadsAndPlansProofs.tla` proves all five properties for every number of sides,
squads, users, versions and requests, overlapping or not.

* `CommanderFromHq`. An appointment is written from what its request has read, so
  `CommandInv` adds `Seen` (what a request has read of the HQ squad still holds,
  or the request is marked late, and its plan exists) and, in `Appointed`, that a
  commander was appointed from some squad at all: an HQ squad is taken only where
  there is none, so no commander can be there who is not detached. `RowsWritten`
  is the common argument of all writes of plans: `MarkedAsks` marks those they
  overtake.
* `HeadquartersTypes`, from `TypesInv`: to the types it adds what a request of each
  step carries, that only existing plans have slots, and that the sets from which
  `NewCopy` takes an id are finite, so that there is one left.
* `CommanderOfThisGame`, from `EraInv`, which is about behaviours without overlap
  (`Alone`). What an update has been decided on still holds when it writes
  (`DecidedOn`), else an update that is no reset might change the sides; and not
  only the commanders but the players about to appoint one are of the game as it
  is (`OfThisGame`), as an appointment may cross the whole reset.
* `SlotsAreTheVersions`, from `SlotsInv`, also about `Alone`. It says of every step of
  an organiser's request how far the slots have come (`Line`). The
  rows that a sync has read and has yet to compare are those that are there
  (`RowsRead`), as players change counts and squads, never ids, callsigns or
  types; and a request that has not written yet finds the slots as they should be
  (`Undisturbed`). In the two parts of a sync (`InTwoParts`), the rows of the
  friendly types have been rebuilt in the plans done so far and the others still
  are as they were; together they are those of the version, except where a type
  changes its role (`IsPromoted`), which sets `lapsed`. `Settled` is the property
  as soon as the request has ended.
* `AssignmentsSurviveSync` follows from the same invariants: a row that a sync deletes
  has a key that the version no longer has, as the rows it has read are the
  only ones of their keys.

## 8. Accounts and the second factor

`TwoFactor` models `two-factor.service.ts` and the second step of a login in
`users.service.ts`. `Accounts` extends it with the accounts themselves: sign-up and
its confirmation, forgotten passwords, nicknames and the link to Steam.

### State and actions

| Model | Code |
|---|---|
| `secret[u]`, `pending[u]` | `twoFactorSecret` and `twoFactorPendingSecret`, the latter with whether its ten minutes are over |
| `code[k]` | a `UserTwoFactorRecoveryCode` row: whose, and `usedAt` |
| `attempts[u]` | the entry of `verifyAttempts`, a map in memory |
| `token` | users who hold a login token of the first step |
| `req[r]` | a handler of the second factor between two awaits, with the secret or the codes it has read |
| `begun`, `opened`, `shared`, `confirmed` | history: attempts begun in a window, uses of a code, codes found unused by two attempts at a time, secrets of which the user entered a code |
| `account[u]` | the `User` row of an address: `registered`, `verified` (INVITED or not), the tokens of its two mails, nickname, Steam id |
| `expired`, `mailed` | tokens of rows whose ten minutes are over; those whose mail has come |
| `linking` | users who were sent to Steam less than fifteen minutes ago |
| `task[k]` | a handler of `users.service.ts` between its read and its write; history: `crossed`, another one of the same user for the same was in flight with it |
| `used` | history: reset tokens that have set a password |

A setup is `SetupCheck`, `Setup`; a confirmation `EnableCheck`, `Enable` (or
`ClearPending` when the pending secret has expired); an attempt `Attempt`, then
`ReadSecret` or `ReadCodes`, then `Succeed`, `Refused` or `UseCode`, `Succeed`, and
for giving up the second factor `Disable`. `Login`, `TokenExpires`,
`PendingExpires` and `WindowEnds` are what happens beside them; `WindowEnds` is a
restart too, which empties the map. A secret stands for the codes of an
authenticator that holds it: whether a code is right is a choice.

A sign-up is `SignUpCheck`, `SignUp`, `SendMail`; its confirmation `ConfirmCheck`, then
`Confirm`, or `Reactivate` when the token has expired, as after a login before the
confirmation (`LoginUnverified`). A forgotten password is `ForgotCheck`, `Forgot`,
`SendMail`, then `ResetCheck` and, once the new password is hashed,
`ResetPassword`. `ChangeNickname`, `LinkSteam` and `DisconnectSteam` follow their
checks; what overtakes them in between is only stopped where a column is unique,
and the transaction throws. `SecondFactorStep` are the steps of TwoFactor, for
accounts that are confirmed. Passwords are left out here (they are in Sessions
and JwtRevocation, with what a reset revokes), avatars are in Files.

### What is checked

| Run | Bounds | Shows |
|---|---|---|
| `Accounts.cfg` | 2 users, 2 requests of each kind, 3 secrets, 3 recovery codes of which 1 is in force, 2 attempts, 2 nicknames, 2 Steam ids, 3 tokens of which 2 at a time | `AccountsTypeOK`, `AttemptsAreLimited`, `RecoveryCodeOpensOnce`, `ResetTokenSetsOnePassword`, `ResetTokenStands`, `SteamLinkStands` |

Two requests are a setup that overtakes a confirmation, two attempts on one code,
a mail used twice, or two callbacks; three secrets are one in force, one pending
and one in a handler; two users meet in the unique columns. The second factor of
one account is followed from where that account has just been confirmed (`Apart`),
and Steam while no mail is out (`SteamApart`): neither reads what the other writes
from there on.

`AccountsTypeOK` says more than types. Of the second factor (`TwoFactorTypeOK`, its
first conjunct): recovery codes exist just while it is on, and whatever secret
comes into force is one of which the user has entered a code, even when another
setup has replaced it in the row by then. Of accounts: nicknames, Steam ids and
tokens are unique. `AttemptsAreLimited` is the comment "Counts the attempt before
any await, so parallel requests cannot all pass the check". `RecoveryCodeOpensOnce`
excepts the codes in `shared`: `UseCode` marks a row by its id, used or not, so
that two attempts that had both found it unused both succeed.

`ResetTokenSetsOnePassword`: a mail sets one password, except by handlers that
overlapped while the password was hashed. `ResetTokenStands` is the refusal
"Reset password token is still valid" seen from the user: a token that has not
expired is not taken from the row but by the handler that brought it, or by
requests that overlapped, of which the slower one wipes whatever token is there.
`SteamLinkStands`: a Steam id goes only when its user disconnects it, unless two
callbacks had both found none.

### What is proved

`AccountsProofs.tla` proves all of these for every number of users, requests,
secrets, codes, nicknames, Steam ids and tokens and every limit. `TwoFactorInv`
adds to the types that the counter and the attempts begun agree (`CountOK`), and
about codes (`CodesOK`) that one which is unused has opened nothing and that one
held by two attempts is in `shared`; `CodeRowsOK` counts the codes of a user.
`AccountsKeepSecondFactor` (`AccountsSpec => Spec`) carries these theorems over to
the composition. `AccountsInv` adds for the accounts that a token which a reset holds is in
no other user's row (`UsedOK`), that of two handlers of one user for the same both
are marked (`CrossedOK`), and that what a handler has found is still so, or it is
marked (`FoundOK`).

## 9. Moderation

`Moderation` models bans, warnings, roles and deletion in `users.service.ts`
with `user-roles.ts` and `users-warning-autoban.ts`, and the job of
`users-ban-expiration.service.ts`.

### State and actions

| Model | Code |
|---|---|
| `user[u]` | `status`, `bannedUntil`, `isMuted` and `roles` of a `User` row |
| `record[u]` | kind and end of the newest `UserPunishment` row; history: `muted`, the mute that somebody decided last, which is not always the `isMuted` of that row |
| `warnings[w]` | `UserWarning` rows; `open` until the transaction commits |
| `req[r]` | a handler between its reads and its transaction; history: `overtaken`, another one on the same user committed in between |
| `sweep` | a run of the job: `isRunning`, the `now` it compares with, the users it has yet to update |
| `now`, `faults` | a clock, and a bound of failures and restarts |

Each request is `XCheck`, with who may do it to whom (`MayModerate`,
`MayChangeRoles`), and its transaction (`BanUser`, `PermanentlyBanUser`,
`UnbanUser`, `RemoveWarning`, `ChangeUserRole`, `Delete`). A warning inserts its
row and counts in `WarnCount` and commits in `CreateWarning`, with the automatic
ban decided by the count: under READ COMMITTED two transactions do not see
each other's row. The job is `SweepStart`, `SweepUser` for each user it has
listed, `SweepEnd`, or `SweepFail` when a transaction throws; `Restart` rolls back
what is open.

### What is checked

| Run | Bounds | Shows |
|---|---|---|
| `Moderation.cfg` | 1 player and 2 owners, 2 requests, 2 warnings, a ban at 2 warnings of one day, clock to 1, 1 failure or restart | `ModerationTypeOK`, `RecordExplainsStatus`, `PermanentBanStands`, `SweepSparesNewBans`, `ExpiredBansAreLifted` |

One clock tick is the expiry of a ban; two requests are a check that is
overtaken; two warnings are the threshold. `AsIntended` lets one owner moderate
the player, and the owners change each other's roles before anything else
happens; every step is one of `Next`.

`RecordExplainsStatus` relates status and end of a ban to the newest punishment
that moderators and the player are shown, and the mute to the decision made last:
automatic bans, their ends and the job leave it as it was. `PermanentBanStands`
excepts a temporary ban whose check has read the user before the permanent one
(`overtaken`): `banUser` decides "already banned" outside of its transaction.
`SweepSparesNewBans` is why the job repeats the condition in its update: a user
who was unbanned and banned again while the job was on its way keeps the new ban.

`ExpiredBansAreLifted` is the liveness of the job. It assumes weak fairness of
`SweepStart` (the interval comes round, and `isRunning` is reset), of
`SweepUser` and of `SweepEnd` (a statement of the job returns or throws);
nothing is assumed of requests or of the clock, and the failures are finitely
many, as a database that always fails lifts no ban.

### What is proved

`ModerationProofs.tla` proves `TypeCorrectness`, `RecordsExplain`,
`PermanentBansStand` and `NewBansAreSpared` for every number of users, requests
and warnings, every threshold, window and span. `ModerationInv` adds to
`RecordExplainsStatus` that calls carry what their operation needs, that a
warning has an existing user, and that the job's time is not ahead of the clock:
the last one is why a ban that has expired by the list has expired by the clock.
The liveness is model-checked only.

## 10. Chats

`Chats` models membership and rooms: `chats.service.ts`, `chats.controller.ts`,
`chats.gateway.ts`.

### State and actions

| Model | Code |
|---|---|
| `chat[c]`, `member[c][u]` | the `Chat` row and its `ChatUser` rows: none, active, or with a `leftAt` |
| `socket[s]` | the user and the rooms of a connection; while it is set up, the chats that the query of `handleConnection` has found |
| `req[r]` | a handler between two awaits and what it has read; history: `stale`, memberships that changed since |
| `stray` | history: rooms a socket is in, or was left in, by an overtaken read |
| `twin` | history: pairs of users with two creations of their direct chat at a time |

Creation is `CreateCheck`, then `Create`, or for a direct chat that exists
`Reactivate`, `ReadChat`; additions are `AddCheck`, `AddMember` for one user after
the other, `AddEnd` (or `AddFail`), `Enter`, which lets the sockets into the room;
leaving is `LeaveCheck`, `Leave`, `NotifyLeft`, deletion `DeleteCheck`, `Delete`,
`NotifyDeleted`: the rooms are emptied after the answer of the database. A
connection is `Connect`, `FindChats`, `JoinFound`; `join_chat` is `JoinCheck`,
`Join`. `Change` marks everything that has read a membership which a write
changes.

### What is checked

| Run | Bounds | Shows |
|---|---|---|
| `Chats.cfg` | 2 users, 2 chats, 2 sockets, 2 handlers | `ChatsTypeOK`, `RoomsAreOfMembers`, `DirectChatIsOne` |

The sockets are two devices of one of the users, the other one opens chats, and a
behaviour has one group or direct chats. It ends once a property has nothing more
to say of it: with a room in `stray`, or with a second chat; that is why the run
allows a stop.

`RoomsAreOfMembers`: who has left a chat, or was in one that is gone, hears it on
no device once the handler has answered. Messages are sent to rooms without a
look at the memberships, so nothing else keeps them from him. It excepts what
the gateway decides on a read that a change overtakes: the query of a
connection, the check of `join_chat`, and the list of members a deletion has
read; each does leave a socket in a room. `DirectChatIsOne` says that leaving and
writing again brings back the same chat; two creations at a time (`twin`) do make
two, as lookup and insert are apart and no column is unique.

### What is proved

`ChatsProofs.tla` proves `TypeCorrectness`, `RoomsOfMembers` and `OneDirectChat`
for every number of chats, sockets and handlers and every finite set of users.
The core of `ChatsInv` is `CallsKnow` and `SocketsKnow`: what a handler or a
connection has read still holds, except for those marked `stale`; and
`CreationsOK`, that a chat about to be created has no row and no elder one of the
same pair. `ChangeKeeps` is the argument that all writes of memberships share,
`RoomsKeep`, `OneSocket` and `PutOutKeeps` those of the rooms.

## 11. Files

`Storage` has what `minio.service.ts` keeps and the calls on it: `File` rows, the
objects behind them, the upload of a file, the removal of an object and of a
row. `Files` extends it by what shows an uploaded file and what becomes of it:
messages, comments on missions and plans, news, achievements, missions and
avatars, with the helpers of `shared/utils`.

### State and actions

| Model | Code |
|---|---|
| `file[f]` (Storage) | a `File` row: bucket and name of the object |
| `stored[k]` (Storage) | what MinIO has under a bucket and name: the upload whose content it is |
| `uploads` (Storage) | how many ids of files are given out |
| `post[p]` | a row with attachments and an image |
| `avatar[u]`, `deleted` | `User.avatarId`; the users whose rows are gone |
| `req[r]` | a handler and what it has left to do: files to remove before and after the write (`first`, `then`, `last`), uploads (`adds`), the write; what it has uploaded |
| `madeFor[f]` | history: the post or user a file was uploaded for |
| `clashed`, `cut` | history: posts and users with two handlers at a time; with one that failed, removed by a cascade, or deleted (a user) |

The action named for a method reads and checks, and fills in what is left to do.
The order is the code's: `syncAttachmentUpdates` removes each attachment's row
before its file (`Detach`, then `RemoveObject` and `DropRow`) and then uploads; a
new post has its image uploaded before its attachments, an old one after them;
news delete the old image before the row is written, achievements after it,
avatars first of all. `MayEmpty`, `MayUpload` and `MayWrite` say when a call may
be next; then come `UploadFile`, `WriteNew`, `WriteUpdate`, `WriteDelete`,
`WriteAvatar`. Uploads side by side, and the files of a deleted post, come in any
order. A call on a row that is gone throws (`Throw`), MinIO or the database may
fail any call (`Fault`, which may leave the object of the upload that failed), and
nothing is undone. Rows also go without a handler of theirs: the messages of a
chat (`DeleteChat`), the comments on the plans of a game, a weekend or a mission
version (`DeleteGames`), and with a user (`DeleteUser`, `UsersService.delete`) his
avatar's reference, his news and his comments on plans; the author of a message or
of a comment on a mission cannot be deleted. With a mission go its comments, and
the games' (`WriteDelete`). Which plan a comment is on, which chat a message is
in, who edited a piece of news last, which message an answer quotes are left out:
any may go with a cascade, and a handler that writes to one may throw. What a
failed `Promise.all` leaves running is left out: its uploads end as files nobody
shows, like those that were done. A file keeps its own name in its bucket unless
it is a png or jpeg, which gets its id (`Numbered`): two uploads of the same name
share an object.

### What is checked

| Run | Bounds | Shows |
|---|---|---|
| `Files.cfg` | 2 posts, the first of any kind, the second a comment on it, or on a plan if it is a mission; 1 user, 1 shared name, 2 handlers, 3 uploads, 1 failed call, 1 attachment per post | `FilesTypeOK`, `OwnFileIsServed`, `NoFileIsLost` |

Three uploads are an attachment with the one that replaces it and an image, or
several of one name; a limit of one attachment makes an edit meet it. The run may
stop when the uploads are used up. `FilesTypeOK` includes the foreign keys and
`AttachmentLimit`, from which posts with overlapping edits are excepted: each
counts what it has read. `OwnFileIsServed` needs the order in which rows and
objects go: a post never shows an attachment without its object, whichever call
fails (1,854,984 states).

`NoFileIsLost` lists the ways in which this code leaves a file that nobody shows,
and says that there are no others:

* two handlers at a time on one post or avatar (`clashed`);
* a call that failed or threw, as nothing is undone (`cut`);
* a cascade that takes a post: with its chat, plan, mission, author, or the one who
  edited it last (`cut`);
* the deletion of a user, which leaves the file of the avatar
  (`users.service.ts:1848`; `cut`);
* the image of a mission that is replaced, which `updateMission` never deletes.

### What is proved

`StorageProofs.tla` proves the three properties for every number of posts, users,
handlers, uploads and failures and every limit of attachments:
`FilesAreWellFormed`, `OwnFilesAreServed` and `NoFilesAreLost`, from `FilesInv`
and, of the users who are gone, `UserKeys`. The properties speak of rows; the
invariant has to say what each handler is going to do to them (`HandlerOK`), part
by part:

* `CallOK`, what is left to do at each stage; `NumbersOK` and `HandsOK`: the ids it
  has yet to use make no file so far, and what it has uploaded exists, is shown
  by nobody and can be opened.
* `RemovalsOK`: what it removes was uploaded for its own post, and nobody shows as
  an attachment any more what loses its object next (`Hidden`). This is where the
  order of row and object is needed.
* `CoverOK` and `RoomOK`, for a post with one handler at a time: it removes every
  image that its write replaces or drops, and what it is going to add stays
  within the limit.

`PairOK` says of two handlers that they share no id, no upload and, unless it has
clashed, no post: with it a step of one leaves the `HandlerOK` of the others
alone, as `HandlerKeeps` states once. `ServedOK` and `ShownOK` are
the rows' side of it.

## 12. Mission versions

`MissionVersions` models the versions of a mission in `missions.service.ts` with
`moveFileToBucket` and `mission-version-bucket.ts`, over the files and objects of
`Storage`.

### State and actions

| Model | Code |
|---|---|
| `mission` | whether it is archived, and its type, which decides the bucket of approved files |
| `version[v]` | a `MissionVersion` row: status, whether it has a reviewer, file, screenshots, sides, friendly side |
| `file`, `stored`, `uploads` (Storage) | as in Files |
| `req[r]` | a handler: its request, the version as it has read it, what it has uploaded, and what it has left to do: uploads, the write, the row of a file it has overwritten (`record`), files to delete (`gone`), the sync; for a decision the stage of the move |
| `judged` | history: the file that the newest decision on a version had read |
| `clashed`, `cut`, `raced` | history: overlapping and failed requests on a version; names in two handlers at a time |

`CreateMissionVersion`, `UpdateMissionVersion`, `DeleteMissionVersion` and
`ChangeMissionVersionStatus` read, check, and fill in what is left to do (`Take`).
Uploads come first, the mission file before the screenshots (`Add`), then the
write: `InsertVersion`, `SaveVersion`, which stores what was computed from the
read, or `RemoveVersion`. Of the file that an update replaces only the row goes if
the upload has overwritten the object (`EraseRecord`), else object and row, as for
screenshots (`EraseObject`, `EraseRow`); last comes the sync of the plans
(`SyncPlans`, whose effect is in Headquarters). A decision moves the file it has
read in three calls (`CopyObject`, `UnlinkObject`, `Rebucket`) and then writes the
status by id (`Decide`). A call on a row that is gone ends the handler
(`BreakOff`), and any call may fail (`FailCall`, which may leave the object of an
upload); an update that fails at its write or later deletes the screenshots it has
uploaded (`Undone`).

### What is checked

| Run | Bounds | Shows |
|---|---|---|
| `MissionVersions.cfg` | 2 versions, 2 names, 2 handlers, 2 uploads, 1 failed call | `VersionsTypeOK`, `ApprovedAsReviewed`, `FileIsItsOwn` |

The second version is there for its name only; bodies of requests are about the
file, screenshots or the sides. Nothing more is asked of a version after an
overlap or a failure, which the properties except. `VersionsTypeOK` includes the
foreign keys and `FriendlySideIsValid`: an update checks the sides it is going to
write, so that a later change of the sides alone cannot make a friendly side one
that plays. `ApprovedAsReviewed` says that every upload sends a version back to
review, and that the file of an approved one is out of the testing bucket, unless
a request is about to change the status (`Moving`, stage "decide"); a decision
that overlaps an upload approves the file nobody has seen (`clashed`).
`FileIsItsOwn` is what unique names are for, as the bucket has one object per name.
It excepts what one request does in between: a file whose object has gone to the
new bucket before its row (`Moving`, stage "rebucket"), and an upload that has
overwritten the object of the file it is about to replace (`Replacing`). Two
requests with the same name at a time (`raced`) pass the check of uniqueness
together.

What the model also shows, without a property: new screenshots alone set a
version to pending without removing its reviewer and without moving the file back
to the testing bucket; and a failure after the row is written deletes screenshots
that the version already shows.

### What is proved

`StorageProofs.tla` proves `VersionsAreWellFormed`, `ApprovedVersionsAreReviewed` and
`VersionFilesAreTheirOwn` for every number of versions, names, handlers, uploads
and failures, and all bodies of requests, from `VersionsInv`:

* `HandOK`, of one handler: what its fields are at each stage (`JobOK`); that the
  files it knows are what it takes them for (`FilesSeen`); that its version is
  still as it was read, unless another request on it came between (`VersionSeen`);
  and where the object of a file on the move is (`MoveSeen`).
* `HandsApart`, of two: the uploads of one (`Own`) are nothing the other knows of
  (`Known`), they share a version only if it has clashed, a name only if it has
  raced.
* `HandAndRow` and `RowsApart`: nobody's uploads are shown yet, and what a handler
  knows of is shown by no version but its own; two versions share no file, and a
  name only if it has raced.
* `RowOK`, of one version: the properties themselves, and that screenshots are
  under names of their own, which is why deleting one cannot hit a mission file.

`WorkKeeps` is the argument that all steps of a handler share: one that touches only
files it has uploaded or knows, and objects under its names (`Works`), keeps the
invariant of every other handler and version, so that each action has to be looked
at for its own handler and version only. `TakeKeeps` does the same for the four
requests that begin. The hardest steps are `EraseObjectKeeps`, that the object of
a replaced file is not the one of its successor (`over` is what decides), and
`RebucketKeeps`, where row and object of a moved file meet again.

## 13. Publishing

`Publishing` models weekends and news from draft to announcement:
`weekends.service.ts`, `news.service.ts`, `notifyAllActiveUsers` and
`channel-announcements.service.ts`.

### State and actions

| Model | Code |
|---|---|
| `user[u]` | status and the preference for such posts; ids in the order of the database |
| `post[p]`, `game[g]` | `Weekend` and `News` rows; the weekend of a `Game` |
| `notice[p][u]`, `channel[p]` | `Notification` rows by recipient; posts in the channels |
| `req[r]` | a handler: the preferences, cursor and page it has read; history: `steady`, users active and willing since it began, `moved`, whether the cursor's user is not |
| `issued`, `doubled`, `emptied` | history: publications; posts published by two handlers at a time; weekends left without a game, by two deletions of games at a time or by a deletion of the weekend that broke off |

Creation and update write the post and, if that published it, tell the users
(`ReadPreferences`, then `ReadPage` and `WriteNotices` for each page) and the
channels (`AnnounceWeekend`, `AnnounceNews`). Between two pages users register, are
banned, unbanned or deleted, and change their preferences. Deletion of a weekend
is `DeleteWeekendCheck`, `DeleteGames`, `DeleteWeekend`, of a game
`DeleteGameCheck`, `DeleteGame`. `BreakOff` ends a handler between two of its
awaits: the process dies, or the database fails its next statement.

### What is checked

| Run | Bounds | Shows |
|---|---|---|
| `Publishing.cfg` | 4 users in pages of 2, 1 weekend or 1 piece of news, 3 games, 2 handlers, 1 user who changes, 1 publication | `PublishingTypeOK`, `PublicationIsTold`, `WeekendKeepsAGame` |

The publisher is the last user, so that the others fill one page and part of
another, and the changing user may be on either page or the one at its end.
`PublicationIsTold` is the comment "Fan-out to all ACTIVE users except actor,
respecting preferences" under change. It excepts a fan-out whose cursor is a user
who has meanwhile been banned or deleted (`moved`): the database finds no such row
among the active ones, and the rest of the users is skipped or shifted. Two
updates at a time publish a draft twice (`doubled`). `WeekendKeepsAGame` is the
rule that the last game of a weekend is not deleted: a weekend without games is
one that a request is about to delete. Two ways lead elsewhere (`emptied`): two
deletions of games at a time, each of which has seen the other's game; and
`WeekendsService.delete` (634-644), two statements without a transaction, when it
breaks off between them. A game created later makes up for both. With three
games one deletion more, or a new game, comes in between (283,455 states).

No liveness is claimed: a fan-out that a failure ends is not resumed.

### What is proved

`PublishingProofs.tla` proves the three properties for every number of users,
posts, games and handlers and every length of a page: `PublishingTypes`,
`EverybodyIsTold` and `WeekendsKeepGames`, from `PublishingInv`:

* `WalkInv`: whom a handler still owes a notice is in its page or after it. That a
  page which is not full holds everybody who is left rests on `PageIsAPrefix`,
  and that the user at whom the page ends is where the page was cut is what
  `moved` excuses. At the end nobody is owed one.
* `CountInv`: every publication has one handler that tells of it, and what has been
  told together with what is yet to be told is at most what was issued. The
  bound on notices alone is not inductive: a handler between two pages would be
  free to tell somebody again.
* `GamesInv`: whoever is about to delete a game has seen another one in the
  weekend, unless the games have changed since, and a game about to be created
  is in no weekend. A handler that breaks off owes nobody anything; between the
  two statements of a deletion it sets `emptied`.

## 14. Known divergences

The following definitions are in the modules and describe what a comment, a
message or a reader would expect; the code does otherwise, so no run checks them.
Adding one to the configuration named shows the trace.

* `CutOffUserHasNoSocket` (Sessions; 2 requests, 1 socket): `disconnectUser` looks
  for sockets whose `userId` is set, which is when the handshake is over. A
  handshake that has read its session before the revocation gets a socket after
  it.
* `VisitsKeepSessionAlive` (Sessions; 1 browser, clock to 3, TTL 1, maximum age
  2): the comment at `oidc-provider.service.ts:97` says that visits keep a
  session alive; the cookie is not renewed when only the row is extended.
* `KickSparesLeader` (Squads; 1 squad, 1 offer): "You cannot kick the squad leader"
  is decided before the transaction, and a transfer of the leadership may come
  in between.
* `OwnOfferMovesNobody` without the conjunct `offer[o].user = req[r].user`
  (Squads): the deletions at `squads.service.ts:1199` go by the caller's id, and
  nothing compares the caller with the user of the invitation.
* `LoginTokensAreCutOff` (JwtRevocation): `revokeUserAccess` is documented to cut
  off "everything issued so far"; the token between the two steps of a login is
  not compared with `tokensValidAfter`.
* `HqSquadsOfTheirSides` (Headquarters, with an edit that swaps the sides and
  leaves out the HQ squads): a game whose sides are swapped without a word on the
  HQ squads keeps them on the wrong sides.
* `SlotsMatchVersion` without the excuse of `Promoted` (Headquarters): when the
  friendly side of a version becomes one that plays, the sync deletes its rows by
  their type and then leaves that type out of the comparison: the plan ends
  without the slots of its own side.

## 15. Only model-checked, and not modelled

`OrphansAreRemoved` and `ExpiredBansAreLifted` are model-checked without a proof:
liveness under fairness is out of the prover's reach.

Every other property of a run is a theorem; `TypeOK` of Sessions,
`SingleSignOnTypeOK` and `JwtTypeOK` are theorems only, as the runs spend their
time on what rests on them. The inductive invariants were checked with TLC on
the runs' instances before they were proved: `LingerInv`, `AccountsInv`,
`PublishingInv`, `VersionsInv` and the three of Headquarters.

Not modelled:

* Of accounts: the content of a profile, Steam's own protocol (a callback is a
  step once Steam has verified it), and the limits per address in front of routes.
* Plan rooms of the headquarters gateway and their re-check by
  `squadMembershipChanged`; of headquarters also plan URLs and texts (comments
  and their attachments are in Files).
* Notifications to named recipients, which are statements inside their callers'
  transactions, and marking them as read.
* Of single sign-on: registration, disabling and secrets of clients, the merge of
  scopes, the page that asks for the password again, delivery of back-channel
  logouts, introspection.
* Of squads: names, logos, links, sides, `activeCount`, notifications and
  history.
* Sides (`SideOf` is a constant of Headquarters), islands, servers, rules,
  specializations, API keys and the public API, the feed: single-row operations
  and read-only queries.
* Bot notifications, the text of announcements, OCAP statistics and the PBO
  parser: formatting, binary parsing and clients of external services.
* The rate limiter and the guards: synchronous code without an `await`; what the
  guards require is the guard of the actions.
* Schema, migrations and seed: data definitions; uniqueness and cascades are in
  the actions that depend on them.
