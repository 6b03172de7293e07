------------------------------ MODULE Sessions ------------------------------
(***************************************************************************)
(* Browser sessions of the platform: AuthService (login, logout, the list  *)
(* of sessions, the sliding expiry), the access revocation that UsersService *)
(* performs on a password change or reset, a permanent ban and a deletion, *)
(* and the sockets that were authenticated with a session cookie.          *)
(*                                                                         *)
(* Every handler is asynchronous.  One step of the model is what runs      *)
(* between two awaits: one database statement (or one transaction) with    *)
(* the synchronous code around it.  What a handler carries over an await   *)
(* is kept in its request slot req[r], so a value read before an await is  *)
(* stale when it is used, exactly as in the program.                       *)
(***************************************************************************)
EXTENDS Integers

CONSTANTS
  Users,        \* accounts
  SessionIds,   \* the identifiers UserSession rows may get, each used once
  Browsers,     \* cookie jars
  Sockets,      \* socket.io connections
  Requests,     \* slots of concurrently running HTTP handlers
  NoUser, NoSession, NoBrowser,
  SessionTtl,     \* SESSION_TTL_DAYS
  SessionMaxAge,  \* SESSION_MAX_AGE_DAYS
  MaxTime,        \* bound of the clock
  MaxPassword,    \* bound of the number of password changes per account
  OverlapPerBrowser \* may a browser have two cookie-setting requests in flight?

ASSUME SessionsAssumption ==
  /\ NoUser \notin Users
  /\ NoSession \notin SessionIds
  /\ NoBrowser \notin Browsers
  /\ SessionTtl \in Nat \ {0}
  /\ SessionMaxAge \in Nat \ {0}
  /\ OverlapPerBrowser \in BOOLEAN

VARIABLES
  clock,     \* days, as far as session expiry tells them apart
  account,   \* User rows: status and how often the password was replaced
  session,   \* UserSession rows
  cookie,    \* the session cookie each browser holds
  socket,    \* connections of the registered namespaces
  req,       \* the handlers in flight
  crashed    \* history: the process has died and restarted at least once

vars == <<clock, account, session, cookie, socket, req, crashed>>

-----------------------------------------------------------------------------
Statuses == {"active", "tempBanned", "permBanned", "deleted"}

\* "held" has revokedAt = null.  The two revoked values say which path set
\* revokedAt first; "free" is an identifier no row has yet.
RowStates == {"free", "held", "revokedAlone", "revokedWithUser", "deleted"}

SessionRows == [state : RowStates, user : Users \union {NoUser},
                created : Nat, expires : Nat, password : Nat]
NoRow == [state |-> "free", user |-> NoUser, created |-> 0, expires |-> 0, password |-> 0]

Steps == {"idle", "create", "replace", "endSession", "respond", "revoke", "touch",
          "setPassword", "ban", "tempBan", "revokeAccess", "cutOff"}

Handlers == [step : Steps, browser : Browsers \union {NoBrowser},
             user : Users \union {NoUser},
             old : SessionIds \union {NoSession},   \* cookie the request came with
             target : SessionIds \union {NoSession},\* session created or ended
             give : SessionIds \union {NoSession},  \* cookie the response sets
             until : Nat]                           \* expiry computed before an await
Idle == [step |-> "idle", browser |-> NoBrowser, user |-> NoUser, old |-> NoSession,
         target |-> NoSession, give |-> NoSession, until |-> 0]

SocketStates == {"closed", "connecting", "resolved", "authenticated"}
SocketRows == [state : SocketStates, session : SessionIds \union {NoSession}, until : Nat]
Closed == [state |-> "closed", session |-> NoSession, until |-> 0]

TypeOK ==
  /\ clock \in Nat
  /\ account \in [Users -> [status : Statuses, password : Nat]]
  /\ session \in [SessionIds -> SessionRows]
  /\ cookie \in [Browsers -> SessionIds \union {NoSession}]
  /\ socket \in [Sockets -> SocketRows]
  /\ req \in [Requests -> Handlers]
  /\ crashed \in BOOLEAN

Init ==
  /\ clock = 0
  /\ account = [u \in Users |-> [status |-> "active", password |-> 0]]
  /\ session = [s \in SessionIds |-> NoRow]
  /\ cookie = [b \in Browsers |-> NoSession]
  /\ socket = [k \in Sockets |-> Closed]
  /\ req = [r \in Requests |-> Idle]
  /\ crashed = FALSE

-----------------------------------------------------------------------------
(* Shared reads and writes. *)

\* Mutants of ExpiresAt: no cap by age, and the lifetime subtracted.
ExpiresAtUncapped(created) == clock + SessionTtl
ExpiresAtInThePast(created) == clock - SessionTtl

\* getSessionExpiresAt: the sliding expiry, capped by the age of the session.
ExpiresAt(created) ==
  IF clock + SessionTtl < created + SessionMaxAge THEN clock + SessionTtl
                                                  ELSE created + SessionMaxAge

\* resolveUserFromSession accepts the session.
Resolves(s) ==
  /\ s # NoSession
  /\ session[s].state = "held"
  /\ session[s].expires >= clock
  /\ account[session[s].user].status # "permBanned"

\* The expiry resolveUserFromSession will write; 0 when it leaves it alone.
Touched(s) ==
  IF ExpiresAt(session[s].created) > session[s].expires THEN ExpiresAt(session[s].created)
                                                         ELSE 0

\* userSession.update by id: it does not look at revokedAt again.
Extend(s, until) ==
  IF until > 0 /\ session[s].state # "deleted"
  THEN [session EXCEPT ![s].expires = until] ELSE session

\* setSessionCookie: the cookie expires with the session as it was created; no
\* later response renews it.
CookieExpires(s) ==
  session[s].created + (IF SessionTtl < SessionMaxAge THEN SessionTtl ELSE SessionMaxAge)

\* updateMany where { id, revokedAt: null }
RevokeIfHeld(s) ==
  IF s # NoSession /\ session[s].state = "held"
  THEN [session EXCEPT ![s].state = "revokedAlone"] ELSE session

Goto(r, step) == req' = [req EXCEPT ![r].step = step]
Finish(r) == req' = [req EXCEPT ![r] = Idle]

\* A request whose response changes the browser's cookie may start.
BrowserFree(b) ==
  OverlapPerBrowser \/ \A r \in Requests : req[r].browser # b

\* Mutant of DisconnectSession: it looks at authenticated sockets only, as
\* disconnectUser does.
DisconnectAuthenticated(s) ==
  socket' = [k \in Sockets |->
              IF socket[k].session = s /\ socket[k].state = "authenticated"
              THEN Closed ELSE socket[k]]

\* RealtimeService.disconnectSession: by the cookie of the handshake.
DisconnectSession(s) ==
  socket' = [k \in Sockets |-> IF socket[k].session = s THEN Closed ELSE socket[k]]

\* RealtimeService.disconnectUser: by socket.userId, which only an
\* authenticated socket has.
DisconnectUser(u, except) ==
  socket' = [k \in Sockets |->
              IF /\ socket[k].state = "authenticated"
                 /\ session[socket[k].session].user = u
                 /\ except = NoSession \/ socket[k].session # except
              THEN Closed ELSE socket[k]]

-----------------------------------------------------------------------------
(* Login: sessionLogin, and verifySessionTwoFactor once its code is right. *)

\* The account is read and found fit to log in.
LoginCheck(r, b, u) ==
  /\ req[r] = Idle
  /\ BrowserFree(b)
  /\ account[u].status \in {"active", "tempBanned"}
  /\ \E s \in SessionIds : session[s].state = "free"
  /\ req' = [req EXCEPT ![r] = [Idle EXCEPT !.step = "create", !.browser = b,
                                            !.user = u, !.old = cookie[b]]]
  /\ UNCHANGED <<clock, account, session, cookie, socket, crashed>>

\* createSession, long after the check: the ban is not looked at again, and
\* only the foreign key stops a session of a deleted account.  The row
\* remembers the password in force when it was created, which may be newer
\* than the one the login was checked with.
CreateSession(r) ==
  /\ req[r].step = "create"
  /\ IF account[req[r].user].status = "deleted"
     THEN Finish(r) /\ UNCHANGED session
     ELSE \E s \in SessionIds :
            /\ session[s].state = "free"
            /\ session' = [session EXCEPT ![s] =
                 [state |-> "held", user |-> req[r].user, created |-> clock,
                  expires |-> ExpiresAt(clock), password |-> account[req[r].user].password]]
            /\ req' = [req EXCEPT ![r].step = "replace", ![r].give = s]
  /\ UNCHANGED <<clock, account, cookie, socket, crashed>>

\* Mutant of EndReplacedSession: the replaced session is forgotten.
KeepReplacedSession(r) ==
  /\ req[r].step = "replace"
  /\ Goto(r, "respond")
  /\ UNCHANGED <<clock, account, session, cookie, socket, crashed>>

\* endReplacedSession, up to its await.
EndReplacedSession(r) ==
  /\ req[r].step = "replace"
  /\ session' = RevokeIfHeld(req[r].old)
  /\ IF session' # session
     THEN req' = [req EXCEPT ![r].step = "endSession", ![r].target = req[r].old]
     ELSE Goto(r, "respond")
  /\ UNCHANGED <<clock, account, cookie, socket, crashed>>

\* disconnectSession, which logout, revokeSessionById and endReplacedSession run
\* when their update has returned.  They publish the session event in the same
\* step: the modules that subscribe to it conjoin their part to this action.
EndSession(r) ==
  /\ req[r].step = "endSession"
  /\ DisconnectSession(req[r].target)
  /\ Goto(r, "respond")
  /\ UNCHANGED <<clock, account, session, cookie, crashed>>

\* The response reaches the browser; some responses carry no Set-Cookie header.
Respond(r) ==
  /\ req[r].step = "respond"
  /\ cookie' = IF req[r].browser = NoBrowser THEN cookie
               ELSE [cookie EXCEPT ![req[r].browser] = req[r].give]
  /\ Finish(r)
  /\ UNCHANGED <<clock, account, session, socket, crashed>>

-----------------------------------------------------------------------------
(* sessionLogout and revokeSessionById. *)

\* sessionLogout, up to its await.  It answers the same whether or not the
\* cookie named a held session, and always goes on to disconnect and publish.
SessionLogout(r, b) ==
  /\ req[r] = Idle
  /\ BrowserFree(b)
  /\ cookie[b] # NoSession
  /\ session' = RevokeIfHeld(cookie[b])
  /\ req' = [req EXCEPT ![r] = [Idle EXCEPT !.step = "endSession", !.browser = b,
                                            !.old = cookie[b], !.target = cookie[b]]]
  /\ UNCHANGED <<clock, account, cookie, socket, crashed>>

\* revokeSessionById: the caller's unexpired sessions are read and the chosen
\* one is not revoked yet.  Ending one's own session also clears the cookie.
RevokeSessionByIdCheck(r, b, s) ==
  /\ req[r] = Idle
  /\ Resolves(cookie[b])
  /\ session[s].state = "held" /\ session[s].expires >= clock
  /\ session[s].user = session[cookie[b]].user
  /\ IF s = cookie[b]
     THEN /\ BrowserFree(b)
          /\ req' = [req EXCEPT ![r] = [Idle EXCEPT !.step = "revoke", !.browser = b,
                                                    !.old = s, !.target = s]]
     ELSE req' = [req EXCEPT ![r] = [Idle EXCEPT !.step = "revoke", !.target = s]]
  /\ UNCHANGED <<clock, account, session, cookie, socket, crashed>>

\* The update by id, which throws when the row went with its account.
RevokeSessionById(r) ==
  /\ req[r].step = "revoke"
  /\ IF session[req[r].target].state = "deleted"
     THEN Finish(r) /\ UNCHANGED session
     ELSE session' = RevokeIfHeld(req[r].target) /\ Goto(r, "endSession")
  /\ UNCHANGED <<clock, account, cookie, socket, crashed>>

-----------------------------------------------------------------------------
(* resolveUserFromSession on an ordinary request: read, then maybe extend. *)

ResolveUserFromSession(r, b) ==
  /\ req[r] = Idle
  /\ Resolves(cookie[b])
  /\ Touched(cookie[b]) > 0
  /\ req' = [req EXCEPT ![r] = [Idle EXCEPT !.step = "touch", !.target = cookie[b],
                                            !.until = Touched(cookie[b])]]
  /\ UNCHANGED <<clock, account, session, cookie, socket, crashed>>

TouchSession(r) ==
  /\ req[r].step = "touch"
  /\ session' = Extend(req[r].target, req[r].until)
  /\ Finish(r)
  /\ UNCHANGED <<clock, account, cookie, socket, crashed>>

-----------------------------------------------------------------------------
(* Password changes, bans and deletion, up to the revocation they end with. *)

\* changePassword: signed in, and the old password compared equal.  `old` is
\* the session cookie, the one session to be kept.  (A caller with a JWT has
\* none to keep: that request takes the steps of a reset.)
ChangePasswordCheck(r, b) ==
  /\ req[r] = Idle
  /\ Resolves(cookie[b])
  /\ req' = [req EXCEPT ![r] = [Idle EXCEPT !.step = "setPassword", !.old = cookie[b],
                                            !.user = session[cookie[b]].user]]
  /\ UNCHANGED <<clock, account, session, cookie, socket, crashed>>

\* resetPassword: the token of the mail was found and has not expired.
ResetPasswordCheck(r, u) ==
  /\ req[r] = Idle
  /\ account[u].status # "deleted"
  /\ req' = [req EXCEPT ![r] = [Idle EXCEPT !.step = "setPassword", !.user = u]]
  /\ UNCHANGED <<clock, account, session, cookie, socket, crashed>>

\* Mutant of SetPassword: the realtime connections are cut, the sessions kept.
SetPasswordOnly(r) ==
  /\ req[r].step = "setPassword"
  /\ LET u == req[r].user IN
     IF account[u].status = "deleted"
     THEN Finish(r) /\ UNCHANGED account
     ELSE /\ account[u].password < MaxPassword
          /\ account' = [account EXCEPT ![u].password = @ + 1]
          /\ Goto(r, "cutOff")
  /\ UNCHANGED <<clock, session, cookie, socket, crashed>>

\* The user row gets the new hash; MaxPassword bounds how often.
SetPassword(r) ==
  /\ req[r].step = "setPassword"
  /\ LET u == req[r].user IN
     IF account[u].status = "deleted"
     THEN Finish(r) /\ UNCHANGED account
     ELSE /\ account[u].password < MaxPassword
          /\ account' = [account EXCEPT ![u].password = @ + 1]
          /\ Goto(r, "revokeAccess")
  /\ UNCHANGED <<clock, session, cookie, socket, crashed>>

\* banUser and permanentlyBanUser: "User is already banned" is decided here.
BanCheck(r, u, step) ==
  /\ req[r] = Idle
  /\ step \in {"ban", "tempBan"}
  /\ account[u].status = "active"
  /\ req' = [req EXCEPT ![r] = [Idle EXCEPT !.step = step, !.user = u]]
  /\ UNCHANGED <<clock, account, session, cookie, socket, crashed>>

\* permanentlyBanUser's transaction; revokeUserAccess follows.
PermanentlyBanUser(r) ==
  /\ req[r].step = "ban"
  /\ LET u == req[r].user IN
     IF account[u].status = "deleted"
     THEN Finish(r) /\ UNCHANGED account
     ELSE account' = [account EXCEPT ![u].status = "permBanned"] /\ Goto(r, "revokeAccess")
  /\ UNCHANGED <<clock, session, cookie, socket, crashed>>

\* banUser's transaction.  It ends no session, and as its check is stale it may
\* turn a permanent ban into a temporary one.
BanUser(r) ==
  /\ req[r].step = "tempBan"
  /\ account' = IF account[req[r].user].status = "deleted" THEN account
                ELSE [account EXCEPT ![req[r].user].status = "tempBanned"]
  /\ Finish(r)
  /\ UNCHANGED <<clock, session, cookie, socket, crashed>>

\* unbanUser, or the expiry of a temporary ban.
UnbanUser(u) ==
  /\ account[u].status \in {"tempBanned", "permBanned"}
  /\ account' = [account EXCEPT ![u].status = "active"]
  /\ UNCHANGED <<clock, session, cookie, socket, req, crashed>>

\* revokeUserAccess, its transaction.  A kept session is from now on held under
\* the new password.
RevokeUserAccess(r) ==
  /\ req[r].step = "revokeAccess"
  /\ LET u == req[r].user IN
     IF account[u].status = "deleted"
     THEN Finish(r) /\ UNCHANGED session
     ELSE /\ session' = [s \in SessionIds |->
               IF session[s].user # u \/ session[s].state # "held" THEN session[s]
               ELSE IF s = req[r].old THEN [session[s] EXCEPT !.password = account[u].password]
               ELSE [session[s] EXCEPT !.state = "revokedWithUser"]]
          /\ Goto(r, "cutOff")
  /\ UNCHANGED <<clock, account, cookie, socket, crashed>>

\* disconnectUser.  The user event is published in the same step.
CutOffUser(r) ==
  /\ req[r].step = "cutOff"
  /\ DisconnectUser(req[r].user, req[r].old)
  /\ Finish(r)
  /\ UNCHANGED <<clock, account, session, cookie, crashed>>

\* delete: the account's sessions go with it (onDelete: Cascade).
DeleteUser(r, u) ==
  /\ req[r] = Idle
  /\ account[u].status # "deleted"
  /\ account' = [account EXCEPT ![u].status = "deleted"]
  /\ session' = [s \in SessionIds |->
       IF session[s].user = u THEN [session[s] EXCEPT !.state = "deleted"] ELSE session[s]]
  /\ req' = [req EXCEPT ![r] = [Idle EXCEPT !.step = "cutOff", !.user = u]]
  /\ UNCHANGED <<clock, cookie, socket, crashed>>

-----------------------------------------------------------------------------
(* Sockets: handleConnection of the gateways, with a session cookie. *)

Connect(k, b) ==
  /\ socket[k] = Closed
  /\ cookie[b] # NoSession
  /\ socket' = [socket EXCEPT ![k] = [state |-> "connecting", session |-> cookie[b],
                                      until |-> 0]]
  /\ UNCHANGED <<clock, account, session, cookie, req, crashed>>

\* resolveHandshakeUser reads the session.
ResolveHandshakeUser(k) ==
  /\ socket[k].state = "connecting"
  /\ socket' = IF Resolves(socket[k].session)
               THEN [socket EXCEPT ![k].state = "resolved",
                                   ![k].until = Touched(socket[k].session)]
               ELSE [socket EXCEPT ![k] = Closed]
  /\ UNCHANGED <<clock, account, session, cookie, req, crashed>>

\* The session is extended and client.userId set.  When the row was deleted in
\* between, an update throws and the socket is disconnected; without one to
\* make nothing is noticed.  The update of lastActiveAt alone may throw too:
\* CloseSocket stands for that.
AuthenticateSocket(k) ==
  /\ socket[k].state = "resolved"
  /\ session' = Extend(socket[k].session, socket[k].until)
  /\ socket' = IF socket[k].until > 0 /\ session[socket[k].session].state = "deleted"
               THEN [socket EXCEPT ![k] = Closed]
               ELSE [socket EXCEPT ![k].state = "authenticated", ![k].until = 0]
  /\ UNCHANGED <<clock, account, cookie, req, crashed>>

CloseSocket(k) ==
  /\ socket[k].state # "closed"
  /\ socket' = [socket EXCEPT ![k] = Closed]
  /\ UNCHANGED <<clock, account, session, cookie, req, crashed>>

-----------------------------------------------------------------------------
(* Time, and the loss of everything that is only in memory. *)

Tick ==
  /\ clock < MaxTime
  /\ clock' = clock + 1
  /\ UNCHANGED <<account, session, cookie, socket, req, crashed>>

\* The browser drops a cookie whose time is over.
ExpireCookie(b) ==
  /\ cookie[b] # NoSession
  /\ clock >= CookieExpires(cookie[b])
  /\ cookie' = [cookie EXCEPT ![b] = NoSession]
  /\ UNCHANGED <<clock, account, session, socket, req, crashed>>

Crash ==
  /\ req' = [r \in Requests |-> Idle]
  /\ socket' = [k \in Sockets |-> Closed]
  /\ crashed' = TRUE
  /\ UNCHANGED <<clock, account, session, cookie>>

HandlerStep(r) ==
  \/ CreateSession(r)
  \/ EndReplacedSession(r)
  \/ EndSession(r)
  \/ Respond(r)
  \/ RevokeSessionById(r)
  \/ TouchSession(r)
  \/ SetPassword(r)
  \/ PermanentlyBanUser(r)
  \/ BanUser(r)
  \/ RevokeUserAccess(r)
  \/ CutOffUser(r)

HandlerStart(r) ==
  \/ \E b \in Browsers, u \in Users : LoginCheck(r, b, u)
  \/ \E b \in Browsers : SessionLogout(r, b)
  \/ \E b \in Browsers, s \in SessionIds : RevokeSessionByIdCheck(r, b, s)
  \/ \E b \in Browsers : ResolveUserFromSession(r, b)
  \/ \E b \in Browsers : ChangePasswordCheck(r, b)
  \/ \E u \in Users : ResetPasswordCheck(r, u)
  \/ \E u \in Users, step \in {"ban", "tempBan"} : BanCheck(r, u, step)
  \/ \E u \in Users : DeleteUser(r, u)

SocketStep(k) ==
  \/ \E b \in Browsers : Connect(k, b)
  \/ ResolveHandshakeUser(k)
  \/ AuthenticateSocket(k)
  \/ CloseSocket(k)

Next ==
  \/ \E r \in Requests : HandlerStep(r) \/ HandlerStart(r)
  \/ \E k \in Sockets : SocketStep(k)
  \/ \E u \in Users : UnbanUser(u)
  \/ \E b \in Browsers : ExpireCookie(b)
  \/ Tick
  \/ Crash

Spec == Init /\ [][Next]_vars

-----------------------------------------------------------------------------
(* Properties. *)

\* No session outlives SESSION_MAX_AGE_DAYS, however often it is used and
\* however late the update computed by an earlier read arrives.
SessionAgeBound ==
  /\ \A s \in SessionIds : session[s].state # "free" =>
       session[s].expires <= session[s].created + SessionMaxAge
  /\ \A r \in Requests : req[r].step = "touch" =>
       req[r].until <= session[req[r].target].created + SessionMaxAge
  /\ \A k \in Sockets : socket[k].state = "resolved" =>
       socket[k].until <= session[socket[k].session].created + SessionMaxAge

\* A socket opened with a session cookie does not outlive the session: once the
\* session was logged out, replaced or revoked from the list, an open socket
\* means the handler that ended it has yet to call disconnectSession.  This
\* covers sockets whose handshake overlaps the logout.
EndedSessionHasNoSocket ==
  \A k \in Sockets :
    /\ socket[k].state \in {"resolved", "authenticated"}
    /\ session[socket[k].session].state = "revokedAlone"
    => \E r \in Requests : req[r].step = "endSession" /\ req[r].target = socket[k].session

\* A browser is left with one session at most: a session whose cookie was
\* overwritten or cleared is not held any more (endReplacedSession, logout).
\* Held sessions that are in no cookie jar are the ones a login has created
\* and not delivered, and those whose cookie has run out; a crash may lose
\* such a delivery for good.
NoLingeringSession ==
  \A s \in SessionIds : session[s].state = "held" =>
    \/ \E b \in Browsers : cookie[b] = s
    \/ \E r \in Requests : req[r].give = s
    \/ clock >= CookieExpires(s)
    \/ crashed

\* After changePassword or resetPassword no session created before the change
\* is held, but the one that made it; unless the handler has yet to revoke
\* them or died before it could.  Two changes may overlap, each keeping the
\* session it was made from.
OldPasswordSessionsEnd ==
  \A s \in SessionIds :
    /\ session[s].state = "held"
    /\ session[s].password < account[session[s].user].password
    => \/ \E r \in Requests : req[r].step = "revokeAccess" /\ req[r].user = session[s].user
       \/ crashed

\* revokeUserAccess, "Disconnects every socket of the user, optionally keeping
\* one session" (disconnectUser): once it is done no socket of a session it
\* revoked works.  The handshake does not keep this promise.
CutOffUserHasNoSocket ==
  \A k \in Sockets :
    /\ socket[k].state = "authenticated"
    /\ session[socket[k].session].state = "revokedWithUser"
    => \E r \in Requests : /\ req[r].step = "cutOff"
                           /\ req[r].user = session[socket[k].session].user

\* Only the user's own visits keep the browser session alive (the doc of
\* resolveGrantSession): a session that its visits have extended is still in
\* the browser.  They extend the row, but nothing renews the cookie.
VisitsKeepSessionAlive ==
  \A s \in SessionIds :
    /\ session[s].state = "held"
    /\ clock < session[s].expires
    => \/ \E b \in Browsers : cookie[b] = s
       \/ \E r \in Requests : req[r].give = s
       \/ crashed
=============================================================================
