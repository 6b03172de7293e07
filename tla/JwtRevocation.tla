---------------------------- MODULE JwtRevocation ----------------------------
(***************************************************************************)
(* JWTs of the platform: login with or without a second step, refresh, and *)
(* revocation by users.service.ts, the second-precision comparison of      *)
(* jwt-revocation.ts and the check of auth.service.ts.  Time is counted in *)
(* ticks (milliseconds in the code), TicksPerSecond of them make a second. *)
(*                                                                         *)
(* A JWT is not stored: `tokens` are the signed ones somebody still holds. *)
(***************************************************************************)
EXTENDS Integers

CONSTANTS
  Users,
  Requests,        \* handlers running concurrently
  NoUser,
  TicksPerSecond,
  MaxTime          \* bound of the clock

ASSUME JwtAssumption ==
  /\ NoUser \notin Users
  /\ TicksPerSecond \in Nat \ {0}
  /\ MaxTime \in Nat

VARIABLES
  clock,    \* ticks
  account,  \* status and tokensValidAfter
  tokens,   \* JWTs that were signed and have not expired
  req,      \* handlers between two awaits
  cutAt     \* history: when the last revocation that ran alone was computed

vars == <<clock, account, tokens, req, cutAt>>

-----------------------------------------------------------------------------
\* validAfter is 0 until the first revocation.
Accounts == [status : {"active", "permBanned", "deleted"}, validAfter : Nat]

\* "login" is the token between the two steps of a login.  History: the tick it
\* was signed at, the tick of the login it goes back to, and whether no
\* revocation was computed between a check and what was signed because of it.
Tokens == [kind : {"login", "access", "refresh"}, user : Users, iat : Nat,
           at : Nat, root : Nat, clean : BOOLEAN]

\* `at` is the tick of the check a signature rests on, or of the cutoff in
\* flight.  History: root and clean as for tokens, and whether no other cutoff
\* of the user was in flight with this one.
Steps == {"idle", "signLogin", "signAccess", "signRefresh", "setPassword", "ban",
          "cutoff", "write"}
Handlers == [step : Steps, user : Users \union {NoUser}, at : Nat, root : Nat,
             clean : BOOLEAN, alone : BOOLEAN]
Idle == [step |-> "idle", user |-> NoUser, at |-> 0, root |-> 0,
         clean |-> TRUE, alone |-> TRUE]

\* Types, and that nothing is dated in the future.
JwtTypeOK ==
  /\ clock \in Nat
  /\ account \in [Users -> Accounts]
  /\ tokens \subseteq Tokens
  /\ req \in [Requests -> Handlers]
  /\ cutAt \in [Users -> Nat]
  /\ \A r \in Requests : req[r].step # "idle" => req[r].user \in Users
  /\ \A r \in Requests : req[r].at <= clock /\ req[r].root <= req[r].at
  /\ \A t \in tokens : t.root <= t.at /\ t.at <= clock /\ t.iat * TicksPerSecond <= t.at

Init ==
  /\ clock = 1
  /\ account = [u \in Users |-> [status |-> "active", validAfter |-> 0]]
  /\ tokens = {}
  /\ req = [r \in Requests |-> Idle]
  /\ cutAt = [u \in Users |-> 0]

-----------------------------------------------------------------------------
(* jwt-revocation.ts *)

\* The claim iat, in seconds.
IssuedAt(now) == now \div TicksPerSecond

\* Mutant of NextTokensValidAfter: rounded down.
RoundedDown(now) == (now \div TicksPerSecond) * TicksPerSecond

\* nextTokensValidAfter: now, rounded up to a whole second.
NextTokensValidAfter(now) ==
  ((now + TicksPerSecond - 1) \div TicksPerSecond) * TicksPerSecond

IsJwtRevoked(iat, validAfter) == iat * TicksPerSecond < validAfter

\* resolveUserFromJwt and refreshToken: the user is there, not banned for good,
\* and the token is not older than the last revocation.
Accepted(t) ==
  /\ account[t.user].status = "active"
  /\ ~IsJwtRevoked(t.iat, account[t.user].validAfter)

\* A revocation of u in flight, or done, was computed at `tick` or later.
CutSince(u, tick) ==
  \/ cutAt[u] >= tick
  \/ \E r \in Requests : req[r].step = "write" /\ req[r].user = u /\ req[r].at >= tick

-----------------------------------------------------------------------------
(* login, verifyTwoFactorLogin and refreshToken. *)

Begin(step, u) == [Idle EXCEPT !.step = step, !.user = u, !.at = clock, !.root = clock]
Finish(r) == req' = [req EXCEPT ![r] = Idle]

\* authenticateLoginUser with the right password, then isTwoFactorEnabled.
LoginCheck(r, u) ==
  /\ req[r] = Idle
  /\ account[u].status = "active"
  /\ \E step \in {"signLogin", "signAccess"} : req' = [req EXCEPT ![r] = Begin(step, u)]
  /\ UNCHANGED <<clock, account, tokens, cutAt>>

\* A refresh overlaps a revocation in flight, or shares its tick with one; a
\* revocation done since t was signed is no excuse.
Continue(t) ==
  [Begin("signAccess", t.user) EXCEPT
     !.root = t.root,
     !.clean = t.clean /\ (CutSince(t.user, t.at) => cutAt[t.user] > t.at)]

\* Mutant of RefreshCheck: only signature and ban are checked.
RefreshWithoutCutoff(r, t) ==
  /\ req[r] = Idle
  /\ t.kind = "refresh" /\ account[t.user].status = "active"
  /\ req' = [req EXCEPT ![r] = Continue(t)]
  /\ UNCHANGED <<clock, account, tokens, cutAt>>

\* refreshToken, up to generateTokens.
RefreshCheck(r, t) ==
  /\ req[r] = Idle
  /\ t.kind = "refresh" /\ Accepted(t)
  /\ req' = [req EXCEPT ![r] = Continue(t)]
  /\ UNCHANGED <<clock, account, tokens, cutAt>>

\* verifyTwoFactorLogin with the right code: it looks at the ban, not at
\* tokensValidAfter, and the token can be used again until it expires.
VerifyTwoFactorLogin(r, t) ==
  /\ req[r] = Idle
  /\ t.kind = "login" /\ account[t.user].status = "active"
  /\ req' = [req EXCEPT ![r] =
       [Begin("signAccess", t.user) EXCEPT
          !.root = t.root, !.clean = t.clean /\ ~CutSince(t.user, t.at)]]
  /\ UNCHANGED <<clock, account, tokens, cutAt>>

Signed(r, kind, iat) ==
  [kind |-> kind, user |-> req[r].user, iat |-> iat, at |-> clock, root |-> req[r].root,
   clean |-> req[r].clean /\ ~CutSince(req[r].user, req[r].at)]

\* Mutant of Sign: iat given in milliseconds.
SignInTicks(r, kind) == tokens' = tokens \union {Signed(r, kind, clock)}

Sign(r, kind) == tokens' = tokens \union {Signed(r, kind, IssuedAt(clock))}

\* createLoginToken
SignLogin(r) ==
  /\ req[r].step = "signLogin"
  /\ Sign(r, "login")
  /\ Finish(r)
  /\ UNCHANGED <<clock, account, cutAt>>

\* generateTokens signs one after the other.
SignAccess(r) ==
  /\ req[r].step = "signAccess"
  /\ Sign(r, "access")
  /\ req' = [req EXCEPT ![r].step = "signRefresh"]
  /\ UNCHANGED <<clock, account, cutAt>>

SignRefresh(r) ==
  /\ req[r].step = "signRefresh"
  /\ Sign(r, "refresh")
  /\ Finish(r)
  /\ UNCHANGED <<clock, account, cutAt>>

-----------------------------------------------------------------------------
(* changePassword, resetPassword, permanentlyBanUser, revokeUserAccess. *)

\* The checks before a new password or a ban is written.
PasswordCheck(r, u) ==
  /\ req[r] = Idle
  /\ account[u].status = "active"
  /\ req' = [req EXCEPT ![r] = [Idle EXCEPT !.step = "setPassword", !.user = u]]
  /\ UNCHANGED <<clock, account, tokens, cutAt>>

BanCheck(r, u) ==
  /\ req[r] = Idle
  /\ account[u].status = "active"
  /\ req' = [req EXCEPT ![r] = [Idle EXCEPT !.step = "ban", !.user = u]]
  /\ UNCHANGED <<clock, account, tokens, cutAt>>

\* The new hash is written; the update of a deleted user throws.
SetPassword(r) ==
  /\ req[r].step = "setPassword"
  /\ IF account[req[r].user].status = "deleted" THEN Finish(r)
     ELSE req' = [req EXCEPT ![r].step = "cutoff"]
  /\ UNCHANGED <<clock, account, tokens, cutAt>>

PermanentlyBanUser(r) ==
  /\ req[r].step = "ban"
  /\ LET u == req[r].user IN
     IF account[u].status = "deleted" THEN Finish(r) /\ UNCHANGED account
     ELSE /\ account' = [account EXCEPT ![u].status = "permBanned"]
          /\ req' = [req EXCEPT ![r].step = "cutoff"]
  /\ UNCHANGED <<clock, tokens, cutAt>>

\* revokeUserAccess computes the cutoff and sends the transaction.
ComputeCutoff(r) ==
  /\ req[r].step = "cutoff"
  /\ LET others == {q \in Requests : req[q].step = "write" /\ req[q].user = req[r].user} IN
     req' = [q \in Requests |->
       CASE q = r -> [Begin("write", req[r].user) EXCEPT !.alone = (others = {})]
         [] q \in others -> [req[q] EXCEPT !.alone = FALSE]
         [] OTHER -> req[q]]
  /\ UNCHANGED <<clock, account, tokens, cutAt>>

\* The transaction of revokeUserAccess commits.
WriteCutoff(r) ==
  /\ req[r].step = "write"
  /\ LET u == req[r].user IN
     IF account[u].status = "deleted" THEN UNCHANGED <<account, cutAt>>
     ELSE /\ account' = [account EXCEPT ![u].validAfter = NextTokensValidAfter(req[r].at)]
          /\ cutAt' = IF req[r].alone THEN [cutAt EXCEPT ![u] = req[r].at] ELSE cutAt
  /\ Finish(r)
  /\ UNCHANGED <<clock, tokens>>

UnbanUser(u) ==
  /\ account[u].status = "permBanned"
  /\ account' = [account EXCEPT ![u].status = "active"]
  /\ UNCHANGED <<clock, tokens, req, cutAt>>

DeleteUser(u) ==
  /\ account[u].status # "deleted"
  /\ account' = [account EXCEPT ![u].status = "deleted"]
  /\ UNCHANGED <<clock, tokens, req, cutAt>>

-----------------------------------------------------------------------------
\* The exp of a token is over; login, access and refresh tokens live 5 minutes,
\* a day and a week, without relation to the ticks here.
ExpireToken(t) ==
  /\ tokens' = tokens \ {t}
  /\ UNCHANGED <<clock, account, req, cutAt>>

Tick ==
  /\ clock < MaxTime
  /\ clock' = clock + 1
  /\ UNCHANGED <<account, tokens, req, cutAt>>

Crash ==
  /\ req' = [r \in Requests |-> Idle]
  /\ UNCHANGED <<clock, account, tokens, cutAt>>

HandlerStep(r) ==
  \/ SignLogin(r) \/ SignAccess(r) \/ SignRefresh(r)
  \/ SetPassword(r) \/ PermanentlyBanUser(r)
  \/ ComputeCutoff(r) \/ WriteCutoff(r)

HandlerStart(r) ==
  \/ \E u \in Users : LoginCheck(r, u) \/ PasswordCheck(r, u) \/ BanCheck(r, u)
  \/ \E t \in tokens : RefreshCheck(r, t) \/ VerifyTwoFactorLogin(r, t)

Next ==
  \/ \E r \in Requests : HandlerStep(r) \/ HandlerStart(r)
  \/ \E u \in Users : UnbanUser(u) \/ DeleteUser(u)
  \/ \E t \in tokens : ExpireToken(t)
  \/ Tick
  \/ Crash

Spec == Init /\ [][Next]_vars
-----------------------------------------------------------------------------
(* Properties. *)

\* revokeUserAccess "cuts off everything issued so far": an access or refresh
\* token signed before a revocation was computed is refused for ever, whatever
\* unbans and later revocations follow.  Of two revocations of a user that
\* overlap the earlier cutoff may be written last; those are not counted.
RevokedTokensAreRefused ==
  \A t \in tokens : t.kind # "login" /\ Accepted(t) => t.at >= cutAt[t.user]

\* Nor can it be refreshed: what is accepted after a revocation goes back to a
\* login after it, or some handler on the way from that login overlapped the
\* revocation or shared a tick with it.
OnlyNewLoginsSurvive ==
  \A t \in tokens : t.kind # "login" /\ t.clean /\ Accepted(t) =>
    t.root >= cutAt[t.user] \/ t.at = cutAt[t.user]

\* Rounding up does not lock anybody out for longer than it must: what is
\* signed a second from now will be accepted.
LockoutIsShort ==
  \A u \in Users :
    ~IsJwtRevoked(IssuedAt(clock + TicksPerSecond), account[u].validAfter)

\* revokeUserAccess cuts off JWTs issued so far, the token between the two steps
\* of a login included.  verifyLoginToken does not ask for tokensValidAfter.
LoginTokensAreCutOff ==
  [][\A r \in Requests : \A t \in tokens :
       VerifyTwoFactorLogin(r, t) => t.at >= cutAt[t.user]]_vars
=============================================================================
