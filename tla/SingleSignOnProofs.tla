------------------------- MODULE SingleSignOnProofs -------------------------
(***************************************************************************)
(* Proofs about Sessions (types and lifetimes, sockets of ended sessions,  *)
(* changes of the password, sessions that are left behind) and about       *)
(* SingleSignOn (it adds only to Sessions, a grant keeps its session, it   *)
(* implements SessionBoundAccess), for every number of accounts, browsers, *)
(* sessions, grants, tokens and concurrent requests.                       *)
(***************************************************************************)
EXTENDS SingleSignOn, TLAPS

-----------------------------------------------------------------------------
(* Types.  TypeOK is not inductive: a handler looks its account and its      *)
(* session up, so it must name real ones.                                    *)

HasRow(s) == s \in SessionIds /\ session[s].state # "free"

UserSteps == {"create", "setPassword", "ban", "tempBan", "revokeAccess", "cutOff"}
TargetSteps == {"revoke", "touch", "endSession"}

RowsNameUsers ==
  \A s \in SessionIds : session[s].state # "free" <=> session[s].user \in Users
CookiesNameRows ==
  \A b \in Browsers : cookie[b] # NoSession => HasRow(cookie[b])
SocketsNameRows ==
  \A k \in Sockets : socket[k].state # "closed" => HasRow(socket[k].session)
HandlersNameRows ==
  \A r \in Requests :
    /\ req[r].step \in UserSteps => req[r].user \in Users
    /\ req[r].step \in TargetSteps => HasRow(req[r].target)
    /\ req[r].old # NoSession => HasRow(req[r].old)
    /\ req[r].give # NoSession => HasRow(req[r].give)

References == RowsNameUsers /\ CookiesNameRows /\ SocketsNameRows /\ HandlersNameRows
TypeInv == TypeOK /\ References

LEMMA ExpiresAtBound ==
  ASSUME clock \in Nat, NEW created \in Nat
  PROVE  /\ ExpiresAt(created) \in Nat
         /\ ExpiresAt(created) <= created + SessionMaxAge
<1>1. SessionTtl \in Nat /\ SessionMaxAge \in Nat
  BY SessionsAssumption
<1> QED BY <1>1 DEF ExpiresAt

LEMMA RowTypes ==
  ASSUME TypeInv, NEW s \in SessionIds \union {NoSession}
  PROVE  /\ RevokeIfHeld(s) \in [SessionIds -> SessionRows]
         /\ \A until \in Nat : Extend(s, until) \in [SessionIds -> SessionRows]
<1>1. session \in [SessionIds -> SessionRows]
  BY DEF TypeInv, TypeOK
<1>2. RevokeIfHeld(s) \in [SessionIds -> SessionRows]
  <2>1. CASE s \in SessionIds
    BY <1>1, <2>1 DEF RevokeIfHeld, SessionRows, RowStates
  <2>2. CASE s = NoSession
    BY <1>1, <2>2 DEF RevokeIfHeld
  <2> QED BY <2>1, <2>2
<1>3. ASSUME NEW until \in Nat PROVE Extend(s, until) \in [SessionIds -> SessionRows]
  <2>1. CASE s \in SessionIds
    BY <1>1, <2>1 DEF Extend, SessionRows
  <2>2. CASE s \notin SessionIds
    BY <1>1, <2>2 DEF Extend
  <2> QED BY <2>1, <2>2
<1> QED BY <1>2, <1>3

LEMMA ResolvedSession ==
  ASSUME TypeInv, NEW s \in SessionIds \union {NoSession}, Resolves(s)
  PROVE  /\ s \in SessionIds
         /\ session[s].state = "held"
         /\ session[s].user \in Users
         /\ Touched(s) \in Nat
         /\ Touched(s) <= session[s].created + SessionMaxAge
<1>1. s \in SessionIds /\ session[s].state = "held"
  BY DEF Resolves
<1>2. session[s].user \in Users
  BY <1>1 DEF TypeInv, References, RowsNameUsers
<1>3. session[s].created \in Nat /\ session[s].expires \in Nat /\ clock \in Nat
  BY <1>1 DEF TypeInv, TypeOK, SessionRows
<1>4. SessionMaxAge \in Nat
  BY SessionsAssumption
<1> QED BY <1>1, <1>2, <1>3, <1>4, ExpiresAtBound DEF Touched

\* What going on to another step, or ending, does to the slot of a handler.
LEMMA SlotTypes ==
  ASSUME TypeInv, NEW r \in Requests
  PROVE  /\ \A step \in Steps : Goto(r, step) => req' \in [Requests -> Handlers]
         /\ Finish(r) => req' \in [Requests -> Handlers]
<1>1. req \in [Requests -> Handlers]
  BY DEF TypeInv, TypeOK
<1>2. Idle \in Handlers
  BY DEF Idle, Handlers, Steps
<1>3. ASSUME NEW step \in Steps, Goto(r, step) PROVE req' \in [Requests -> Handlers]
  BY <1>1, <1>3 DEF Goto, Handlers
<1> QED BY <1>1, <1>2, <1>3 DEF Finish

LEMMA SlotRefs ==
  ASSUME TypeInv, NEW r \in Requests, NEW step \in Steps,
         \A s \in SessionIds : HasRow(s) => HasRow(s)',
         \/ Finish(r)
         \/ /\ Goto(r, step)
            /\ step \in UserSteps => req[r].user \in Users
            /\ step \in TargetSteps => HasRow(req[r].target)
  PROVE  HandlersNameRows'
<1>1. req \in [Requests -> Handlers] /\ HandlersNameRows
  BY DEF TypeInv, TypeOK, References
<1>2. CASE Finish(r)
  BY <1>1, <1>2 DEF Finish, Idle, HandlersNameRows, UserSteps, TargetSteps, HasRow, Handlers
<1>3. CASE /\ Goto(r, step)
           /\ step \in UserSteps => req[r].user \in Users
           /\ step \in TargetSteps => HasRow(req[r].target)
  <2>1. ASSUME NEW q \in Requests 
        PROVE /\ req'[q].step = IF q = r THEN step ELSE req[q].step
              /\ req'[q].user = req[q].user
              /\ req'[q].target = req[q].target
              /\ req'[q].old = req[q].old
              /\ req'[q].give = req[q].give
    BY <1>1, <1>3 DEF Goto, Handlers
  <2> QED BY <1>1, <1>3, <2>1 DEF HandlersNameRows, HasRow, Handlers
<1> QED BY <1>2, <1>3

LEMMA RevokedRowTypes ==
  ASSUME TypeInv, NEW r \in Requests, RevokeUserAccess(r)
  PROVE  session' \in [SessionIds -> SessionRows]
<1>1. session \in [SessionIds -> SessionRows]
  BY DEF TypeInv, TypeOK
<1>2. account[req[r].user].password \in Nat
  BY DEF RevokeUserAccess, HandlersNameRows, UserSteps, TypeInv, References, TypeOK
<1>3. CASE account[req[r].user].status = "deleted"
  BY <1>1, <1>3 DEF RevokeUserAccess
<1>4. CASE account[req[r].user].status # "deleted"
  <2>1. ASSUME NEW s \in SessionIds
        PROVE  /\ [session[s] EXCEPT !.password = account[req[r].user].password]
                    \in SessionRows
               /\ [session[s] EXCEPT !.state = "revokedWithUser"] \in SessionRows
    BY <1>1, <1>2 DEF SessionRows, RowStates
  <2> QED BY <1>1, <1>4, <2>1 DEF RevokeUserAccess
<1> QED BY <1>3, <1>4

LEMMA TypeInvInit == Init => TypeInv
<1> SUFFICES ASSUME Init PROVE TypeInv
  OBVIOUS
<1> USE SessionsAssumption DEF Init
<1>1. account \in [Users -> [status : Statuses, password : Nat]]
  BY DEF Statuses
<1>2. session \in [SessionIds -> SessionRows]
  BY DEF SessionRows, NoRow, RowStates
<1>3. socket \in [Sockets -> SocketRows]
  BY DEF SocketRows, Closed, SocketStates
<1>4. req \in [Requests -> Handlers]
  BY DEF Handlers, Idle, Steps
<1>5. TypeOK
  BY <1>1, <1>2, <1>3, <1>4 DEF TypeOK
<1>6. References
  BY DEF References, RowsNameUsers, CookiesNameRows, SocketsNameRows, HandlersNameRows, NoRow,
         Closed, Idle, UserSteps, TargetSteps
<1> QED BY <1>5, <1>6 DEF TypeInv

LEMMA TypeInvHandlerStep ==
  ASSUME TypeInv, NEW r \in Requests, HandlerStep(r)
  PROVE  TypeInv'
<1> USE SessionsAssumption DEF TypeInv, References, TypeOK
<1>0. req[r] \in Handlers
  OBVIOUS
<1>1. CASE CreateSession(r)
  <2>1. session' \in [SessionIds -> SessionRows]
    BY <1>0, <1>1, ExpiresAtBound
       DEF CreateSession, SessionRows, RowStates, Handlers, UserSteps, HandlersNameRows
  <2>2. req' \in [Requests -> Handlers]
    BY <1>0, <1>1 DEF CreateSession, Finish, Handlers, Steps, Idle
  <2>3. TypeOK'
    BY <1>1, <2>1, <2>2 DEF CreateSession
  <2>4. \A s \in SessionIds : HasRow(s) => HasRow(s)'
    BY <1>1 DEF CreateSession, HasRow, SessionRows
  <2>5. RowsNameUsers' /\ CookiesNameRows' /\ SocketsNameRows'
    <3>1. RowsNameUsers'
      <4>1. CASE account[req[r].user].status = "deleted"
        BY <1>1, <4>1 DEF CreateSession, RowsNameUsers
      <4>2. CASE account[req[r].user].status # "deleted"
        BY <1>0, <1>1, <4>2
           DEF CreateSession, SessionRows, RowsNameUsers, HandlersNameRows, UserSteps
      <4> QED BY <4>1, <4>2
    <3> QED BY <1>1, <2>4, <3>1 DEF CreateSession, HasRow, CookiesNameRows, SocketsNameRows
  <2>6. HandlersNameRows'
    <3>1. CASE Finish(r)
      BY <2>4, <3>1, SlotRefs DEF Steps
    <3>2. ASSUME NEW s \in SessionIds, session'[s].state = "held",
                 req' = [req EXCEPT ![r].step = "replace", ![r].give = s]
          PROVE  HandlersNameRows'
      BY <1>0, <2>4, <3>2 DEF HasRow, Handlers, HandlersNameRows, UserSteps, TargetSteps
    <3> QED BY <1>1, <3>1, <3>2 DEF CreateSession
  <2> QED BY <2>3, <2>5, <2>6
<1>2. CASE EndReplacedSession(r)
  <2>1. session' \in [SessionIds -> SessionRows]
    BY <1>0, <1>2, RowTypes DEF EndReplacedSession, Handlers
  <2>2. req' \in [Requests -> Handlers]
    BY <1>0, <1>2, SlotTypes DEF EndReplacedSession, Steps, Goto, Handlers
  <2>3. TypeOK'
    BY <1>2, <2>1, <2>2 DEF EndReplacedSession
  <2>4. \A s \in SessionIds : HasRow(s) => HasRow(s)'
    BY <1>2, <1>0 DEF EndReplacedSession, HasRow, RevokeIfHeld, SessionRows
  <2>5. RowsNameUsers' /\ CookiesNameRows' /\ SocketsNameRows'
    BY <1>2, <1>0, <2>4
       DEF EndReplacedSession, HasRow, RowsNameUsers, CookiesNameRows, SocketsNameRows,
           SessionRows, RevokeIfHeld
  <2>6. HandlersNameRows'
    <3>1. CASE session' = session
      <4>1. Goto(r, "respond")
        BY <1>2, <3>1 DEF EndReplacedSession
      <4> QED BY <2>4, <4>1, SlotRefs DEF Steps, UserSteps, TargetSteps
    <3>2. CASE session' # session
      <4>1. req' = [req EXCEPT ![r].step = "endSession", ![r].target = req[r].old]
        BY <1>2, <3>2 DEF EndReplacedSession
      <4>2. HasRow(req[r].old)
        BY <1>0, <1>2, <3>2 DEF EndReplacedSession, RevokeIfHeld, HandlersNameRows
      <4> QED BY <1>0, <2>4, <4>1, <4>2
             DEF HasRow, Handlers, HandlersNameRows, UserSteps, TargetSteps
    <3> QED BY <3>1, <3>2
  <2> QED BY <2>3, <2>5, <2>6
<1>3. CASE EndSession(r)
  <2>1. socket' \in [Sockets -> SocketRows]
    BY <1>3 DEF EndSession, DisconnectSession, SocketRows, SocketStates, Closed
  <2>2. req' \in [Requests -> Handlers]
    BY <1>3, SlotTypes DEF EndSession, Steps
  <2>3. TypeOK'
    BY <1>3, <2>1, <2>2 DEF EndSession
  <2>4. \A s \in SessionIds : HasRow(s) => HasRow(s)'
    BY <1>3 DEF EndSession, HasRow
  <2>5. RowsNameUsers' /\ CookiesNameRows' /\ SocketsNameRows'
    BY <1>3, <1>0, <2>4
       DEF EndSession, HasRow, RowsNameUsers, CookiesNameRows, SocketsNameRows,
           DisconnectSession, Closed
  <2>6. HandlersNameRows'
    BY <1>3, <1>0, <2>4, SlotRefs DEF EndSession, Steps, UserSteps, TargetSteps
  <2> QED BY <2>3, <2>5, <2>6
<1>4. CASE Respond(r)
  <2>1. cookie' \in [Browsers -> SessionIds \union {NoSession}]
    BY <1>0, <1>4 DEF Respond, Handlers
  <2>2. req' \in [Requests -> Handlers]
    BY <1>4, SlotTypes DEF Respond
  <2>3. TypeOK'
    BY <1>4, <2>1, <2>2 DEF Respond
  <2>4. \A s \in SessionIds : HasRow(s) => HasRow(s)'
    BY <1>4 DEF Respond, HasRow
  <2>5. RowsNameUsers' /\ CookiesNameRows' /\ SocketsNameRows'
    BY <1>4, <1>0, <2>4
       DEF Respond, HasRow, RowsNameUsers, CookiesNameRows, SocketsNameRows,
           HandlersNameRows, Handlers
  <2>6. HandlersNameRows'
    BY <1>4, <1>0, <2>4, SlotRefs DEF Respond, Steps, UserSteps, TargetSteps
  <2> QED BY <2>3, <2>5, <2>6
<1>5. CASE RevokeSessionById(r)
  <2>1. session' \in [SessionIds -> SessionRows]
    BY <1>0, <1>5, RowTypes DEF RevokeSessionById, Handlers
  <2>2. req' \in [Requests -> Handlers]
    BY <1>5, SlotTypes DEF RevokeSessionById, Steps
  <2>3. TypeOK'
    BY <1>5, <2>1, <2>2 DEF RevokeSessionById
  <2>4. \A s \in SessionIds : HasRow(s) => HasRow(s)'
    BY <1>5, <1>0 DEF RevokeSessionById, HasRow, RevokeIfHeld, SessionRows
  <2>5. RowsNameUsers' /\ CookiesNameRows' /\ SocketsNameRows'
    BY <1>5, <1>0, <2>4
       DEF RevokeSessionById, HasRow, RowsNameUsers, CookiesNameRows, SocketsNameRows,
           SessionRows, RevokeIfHeld
  <2>6. HandlersNameRows'
    BY <1>5, <1>0, <2>4, SlotRefs
       DEF RevokeSessionById, Steps, UserSteps, TargetSteps, HandlersNameRows
  <2> QED BY <2>3, <2>5, <2>6
<1>6. CASE TouchSession(r)
  <2>1. session' \in [SessionIds -> SessionRows]
    BY <1>0, <1>6, RowTypes DEF TouchSession, Handlers
  <2>2. req' \in [Requests -> Handlers]
    BY <1>6, SlotTypes DEF TouchSession
  <2>3. TypeOK'
    BY <1>6, <2>1, <2>2 DEF TouchSession
  <2>4. \A s \in SessionIds : HasRow(s) => HasRow(s)'
    BY <1>6, <1>0 DEF TouchSession, HasRow, Extend, SessionRows
  <2>5. RowsNameUsers' /\ CookiesNameRows' /\ SocketsNameRows'
    BY <1>6, <1>0, <2>4
       DEF TouchSession, HasRow, RowsNameUsers, CookiesNameRows, SocketsNameRows,
           SessionRows, Extend
  <2>6. HandlersNameRows'
    BY <1>6, <1>0, <2>4, SlotRefs DEF TouchSession, Steps, UserSteps, TargetSteps
  <2> QED BY <2>3, <2>5, <2>6
<1>7. CASE SetPassword(r)
  <2>1. account' \in [Users -> [status : Statuses, password : Nat]]
    BY <1>7 DEF SetPassword, Statuses
  <2>2. req' \in [Requests -> Handlers]
    BY <1>7, SlotTypes DEF SetPassword, Steps
  <2>3. TypeOK'
    BY <1>7, <2>1, <2>2 DEF SetPassword
  <2>4. \A s \in SessionIds : HasRow(s) => HasRow(s)'
    BY <1>7 DEF SetPassword, HasRow
  <2>5. RowsNameUsers' /\ CookiesNameRows' /\ SocketsNameRows'
    BY <1>7, <1>0, <2>4
       DEF SetPassword, HasRow, RowsNameUsers, CookiesNameRows, SocketsNameRows
  <2>6. HandlersNameRows'
    BY <1>7, <1>0, <2>4, SlotRefs
       DEF SetPassword, Steps, UserSteps, TargetSteps, HandlersNameRows
  <2> QED BY <2>3, <2>5, <2>6
<1>8. CASE PermanentlyBanUser(r)
  <2>1. account' \in [Users -> [status : Statuses, password : Nat]]
    BY <1>8 DEF PermanentlyBanUser, Statuses
  <2>2. req' \in [Requests -> Handlers]
    BY <1>8, SlotTypes DEF PermanentlyBanUser, Steps
  <2>3. TypeOK'
    BY <1>8, <2>1, <2>2 DEF PermanentlyBanUser
  <2>4. \A s \in SessionIds : HasRow(s) => HasRow(s)'
    BY <1>8 DEF PermanentlyBanUser, HasRow
  <2>5. RowsNameUsers' /\ CookiesNameRows' /\ SocketsNameRows'
    BY <1>8, <1>0, <2>4
       DEF PermanentlyBanUser, HasRow, RowsNameUsers, CookiesNameRows, SocketsNameRows
  <2>6. HandlersNameRows'
    BY <1>8, <1>0, <2>4, SlotRefs
       DEF PermanentlyBanUser, Steps, UserSteps, TargetSteps, HandlersNameRows
  <2> QED BY <2>3, <2>5, <2>6
<1>9. CASE BanUser(r)
  <2>1. account' \in [Users -> [status : Statuses, password : Nat]]
    BY <1>9 DEF BanUser, Statuses
  <2>2. req' \in [Requests -> Handlers]
    BY <1>9, SlotTypes DEF BanUser
  <2>3. TypeOK'
    BY <1>9, <2>1, <2>2 DEF BanUser
  <2>4. \A s \in SessionIds : HasRow(s) => HasRow(s)'
    BY <1>9 DEF BanUser, HasRow
  <2>5. RowsNameUsers' /\ CookiesNameRows' /\ SocketsNameRows'
    BY <1>9, <1>0, <2>4 DEF BanUser, HasRow, RowsNameUsers, CookiesNameRows, SocketsNameRows
  <2>6. HandlersNameRows'
    BY <1>9, <1>0, <2>4, SlotRefs DEF BanUser, Steps, UserSteps, TargetSteps
  <2> QED BY <2>3, <2>5, <2>6
<1>10. CASE RevokeUserAccess(r)
  <2>1. session' \in [SessionIds -> SessionRows]
    BY <1>10, RevokedRowTypes
  <2>2. req' \in [Requests -> Handlers]
    BY <1>10, SlotTypes DEF RevokeUserAccess, Steps
  <2>3. TypeOK'
    BY <1>10, <2>1, <2>2 DEF RevokeUserAccess
  <2>4. \A s \in SessionIds : HasRow(s) => HasRow(s)'
    BY <1>10, <1>0 DEF RevokeUserAccess, HasRow, SessionRows
  <2>5. RowsNameUsers' /\ CookiesNameRows' /\ SocketsNameRows'
    BY <1>10, <1>0, <2>4
       DEF RevokeUserAccess, HasRow, RowsNameUsers, CookiesNameRows, SocketsNameRows,
           SessionRows
  <2>6. HandlersNameRows'
    BY <1>10, <1>0, <2>4, SlotRefs
       DEF RevokeUserAccess, Steps, UserSteps, TargetSteps, HandlersNameRows
  <2> QED BY <2>3, <2>5, <2>6
<1>11. CASE CutOffUser(r)
  <2>1. socket' \in [Sockets -> SocketRows]
    BY <1>11 DEF CutOffUser, DisconnectUser, SocketRows, SocketStates, Closed
  <2>2. req' \in [Requests -> Handlers]
    BY <1>11, SlotTypes DEF CutOffUser
  <2>3. TypeOK'
    BY <1>11, <2>1, <2>2 DEF CutOffUser
  <2>4. \A s \in SessionIds : HasRow(s) => HasRow(s)'
    BY <1>11 DEF CutOffUser, HasRow
  <2>5. RowsNameUsers' /\ CookiesNameRows' /\ SocketsNameRows'
    BY <1>11, <1>0, <2>4
       DEF CutOffUser, HasRow, RowsNameUsers, CookiesNameRows, SocketsNameRows,
           DisconnectUser, Closed
  <2>6. HandlersNameRows'
    BY <1>11, <1>0, <2>4, SlotRefs DEF CutOffUser, Steps, UserSteps, TargetSteps
  <2> QED BY <2>3, <2>5, <2>6
<1> QED
  BY <1>1, <1>2, <1>3, <1>4, <1>5, <1>6, <1>7, <1>8, <1>9, <1>10, <1>11 DEF HandlerStep

LEMMA TypeInvHandlerStart ==
  ASSUME TypeInv, NEW r \in Requests, HandlerStart(r)
  PROVE  TypeInv'
<1> USE SessionsAssumption DEF TypeInv, References, TypeOK
<1>1. ASSUME NEW b \in Browsers, NEW u \in Users, LoginCheck(r, b, u)
     PROVE  TypeInv'
  <2>1. req' \in [Requests -> Handlers]
    BY <1>1 DEF LoginCheck, Handlers, Steps, Idle
  <2>2. TypeOK'
    BY <1>1, <2>1 DEF LoginCheck
  <2>3. References'
    BY <1>1
       DEF LoginCheck, Idle, Handlers, RowsNameUsers, CookiesNameRows, SocketsNameRows,
           HandlersNameRows, HasRow, UserSteps, TargetSteps
  <2> QED BY <2>2, <2>3
<1>2. ASSUME NEW b \in Browsers, SessionLogout(r, b)
     PROVE  TypeInv'
  <2>1. cookie[b] \in SessionIds \union {NoSession}
    OBVIOUS
  <2>2. session' \in [SessionIds -> SessionRows]
    BY <1>2, <2>1, RowTypes DEF SessionLogout
  <2>3. req' \in [Requests -> Handlers]
    BY <1>2, <2>1 DEF SessionLogout, Handlers, Steps, Idle
  <2>4. TypeOK'
    BY <1>2, <2>2, <2>3 DEF SessionLogout
  <2>5. References'
    BY <1>2, <2>1
       DEF SessionLogout, RevokeIfHeld, Idle, SessionRows, RowsNameUsers, CookiesNameRows,
           SocketsNameRows, HandlersNameRows, HasRow, UserSteps, TargetSteps
  <2> QED BY <2>4, <2>5
<1>3. ASSUME NEW b \in Browsers, NEW s \in SessionIds, RevokeSessionByIdCheck(r, b, s)
     PROVE  TypeInv'
  <2> DEFINE own   == [Idle EXCEPT !.step = "revoke", !.browser = b, !.old = s, !.target = s]
             other == [Idle EXCEPT !.step = "revoke", !.target = s]
  <2>1. own \in Handlers /\ other \in Handlers
    BY DEF Handlers, Steps, Idle
  <2>2. req' = [req EXCEPT ![r] = own] \/ req' = [req EXCEPT ![r] = other]
    BY <1>3 DEF RevokeSessionByIdCheck
  <2>3. TypeOK'
    BY <1>3, <2>1, <2>2 DEF RevokeSessionByIdCheck
  <2>4. HasRow(s)
    BY <1>3 DEF RevokeSessionByIdCheck, HasRow
  <2>5. RowsNameUsers' /\ CookiesNameRows' /\ SocketsNameRows'
    BY <1>3
       DEF RevokeSessionByIdCheck, RowsNameUsers, CookiesNameRows, SocketsNameRows, HasRow
  <2>6. HandlersNameRows'
    <3>1. ASSUME NEW row \in {own, other}, req' = [req EXCEPT ![r] = row]
          PROVE  HandlersNameRows'
      <4>1. /\ row.step = "revoke" /\ row.target = s /\ row.give = NoSession
            /\ row.old \in {s, NoSession}
        BY <3>1 DEF Idle
      <4> QED BY <1>3, <2>4, <3>1, <4>1
             DEF RevokeSessionByIdCheck, HandlersNameRows, HasRow, UserSteps, TargetSteps
    <3> QED BY <2>2, <3>1
  <2> QED BY <2>3, <2>5, <2>6
<1>4. ASSUME NEW b \in Browsers, ResolveUserFromSession(r, b)
     PROVE  TypeInv'
  <2>1. cookie[b] \in SessionIds \union {NoSession}
    OBVIOUS
  <2>2. req' \in [Requests -> Handlers]
    BY <1>4, <2>1, ResolvedSession DEF ResolveUserFromSession, Handlers, Steps, Idle
  <2>3. TypeOK'
    BY <1>4, <2>2 DEF ResolveUserFromSession
  <2>4. References'
    BY <1>4, <2>1, ResolvedSession
       DEF ResolveUserFromSession, Idle, RowsNameUsers, CookiesNameRows, SocketsNameRows,
           HandlersNameRows, HasRow, UserSteps, TargetSteps
  <2> QED BY <2>3, <2>4
<1>5. ASSUME NEW b \in Browsers, ChangePasswordCheck(r, b)
     PROVE  TypeInv'
  <2>1. cookie[b] \in SessionIds \union {NoSession}
    OBVIOUS
  <2>2. req' \in [Requests -> Handlers]
    BY <1>5, <2>1, ResolvedSession DEF ChangePasswordCheck, Handlers, Steps, Idle
  <2>3. TypeOK'
    BY <1>5, <2>2 DEF ChangePasswordCheck
  <2>4. References'
    BY <1>5, <2>1, ResolvedSession
       DEF ChangePasswordCheck, Idle, RowsNameUsers, CookiesNameRows, SocketsNameRows,
           HandlersNameRows, HasRow, UserSteps, TargetSteps
  <2> QED BY <2>3, <2>4
<1>6. ASSUME NEW u \in Users, ResetPasswordCheck(r, u)
     PROVE  TypeInv'
  <2>1. req' \in [Requests -> Handlers]
    BY <1>6 DEF ResetPasswordCheck, Handlers, Steps, Idle
  <2>2. TypeOK'
    BY <1>6, <2>1 DEF ResetPasswordCheck
  <2>3. References'
    BY <1>6
       DEF ResetPasswordCheck, Idle, RowsNameUsers, CookiesNameRows, SocketsNameRows,
           HandlersNameRows, HasRow, UserSteps, TargetSteps
  <2> QED BY <2>2, <2>3
<1>7. ASSUME NEW u \in Users, NEW step \in {"ban", "tempBan"}, BanCheck(r, u, step)
     PROVE  TypeInv'
  <2>1. req' \in [Requests -> Handlers]
    BY <1>7 DEF BanCheck, Handlers, Steps, Idle
  <2>2. TypeOK'
    BY <1>7, <2>1 DEF BanCheck
  <2>3. References'
    BY <1>7
       DEF BanCheck, Idle, RowsNameUsers, CookiesNameRows, SocketsNameRows,
           HandlersNameRows, HasRow, UserSteps, TargetSteps
  <2> QED BY <2>2, <2>3
<1>8. ASSUME NEW u \in Users, DeleteUser(r, u)
     PROVE  TypeInv'
  <2>1. account' \in [Users -> [status : Statuses, password : Nat]]
    BY <1>8 DEF DeleteUser, Statuses
  <2>2. session' \in [SessionIds -> SessionRows]
    BY <1>8 DEF DeleteUser, SessionRows, RowStates
  <2>3. req' \in [Requests -> Handlers]
    BY <1>8 DEF DeleteUser, Handlers, Steps, Idle
  <2>4. TypeOK'
    BY <1>8, <2>1, <2>2, <2>3 DEF DeleteUser
  <2>5. References'
    BY <1>8
       DEF DeleteUser, Idle, SessionRows, RowsNameUsers, CookiesNameRows, SocketsNameRows,
           HandlersNameRows, HasRow, UserSteps, TargetSteps
  <2> QED BY <2>4, <2>5
<1> QED
  BY <1>1, <1>2, <1>3, <1>4, <1>5, <1>6, <1>7, <1>8 DEF HandlerStart

LEMMA TypeInvSocketStep ==
  ASSUME TypeInv, NEW k \in Sockets, SocketStep(k)
  PROVE  TypeInv'
<1> USE SessionsAssumption DEF TypeInv, References, TypeOK
<1>0. socket[k] \in SocketRows
  OBVIOUS
<1>1. ASSUME NEW b \in Browsers, Connect(k, b)
     PROVE  TypeInv'
  <2>1. socket' \in [Sockets -> SocketRows]
    BY <1>1, <1>0 DEF Connect, SocketRows, SocketStates, Closed
  <2>2. TypeOK'
    BY <1>1, <2>1 DEF Connect
  <2>3. References'
    BY <1>1, <1>0
       DEF Connect, SocketRows, SocketStates, Closed, RowsNameUsers, CookiesNameRows,
           SocketsNameRows, HandlersNameRows, HasRow, UserSteps, TargetSteps
  <2> QED BY <2>2, <2>3
<1>2. ASSUME ResolveHandshakeUser(k)
     PROVE  TypeInv'
  <2>1. socket' \in [Sockets -> SocketRows]
    BY <1>2, <1>0, ResolvedSession
       DEF ResolveHandshakeUser, SocketRows, SocketStates, Closed
  <2>2. TypeOK'
    BY <1>2, <2>1 DEF ResolveHandshakeUser
  <2>3. References'
    BY <1>2, <1>0
       DEF ResolveHandshakeUser, SocketRows, SocketStates, Closed, RowsNameUsers,
           CookiesNameRows, SocketsNameRows, HandlersNameRows, HasRow, UserSteps,
           TargetSteps
  <2> QED BY <2>2, <2>3
<1>3. ASSUME AuthenticateSocket(k)
     PROVE  TypeInv'
  <2>1. session' \in [SessionIds -> SessionRows]
    BY <1>3, <1>0, RowTypes DEF AuthenticateSocket, SocketRows
  <2>2. socket' \in [Sockets -> SocketRows]
    BY <1>3, <1>0 DEF AuthenticateSocket, SocketRows, SocketStates, Closed
  <2>3. TypeOK'
    BY <1>3, <2>1, <2>2 DEF AuthenticateSocket
  <2>4. References'
    BY <1>3, <1>0
       DEF AuthenticateSocket, SocketRows, SocketStates, Closed, Extend, SessionRows,
           RowsNameUsers, CookiesNameRows, SocketsNameRows, HandlersNameRows, HasRow,
           UserSteps, TargetSteps
  <2> QED BY <2>3, <2>4
<1>4. ASSUME CloseSocket(k)
     PROVE  TypeInv'
  <2>1. socket' \in [Sockets -> SocketRows]
    BY <1>4, <1>0 DEF CloseSocket, SocketRows, SocketStates, Closed
  <2>2. TypeOK'
    BY <1>4, <2>1 DEF CloseSocket
  <2>3. References'
    BY <1>4, <1>0
       DEF CloseSocket, SocketRows, SocketStates, Closed, RowsNameUsers, CookiesNameRows,
           SocketsNameRows, HandlersNameRows, HasRow, UserSteps, TargetSteps
  <2> QED BY <2>2, <2>3
<1> QED
  BY <1>1, <1>2, <1>3, <1>4 DEF SocketStep

LEMMA TypeInvStep == TypeInv /\ [Next]_vars => TypeInv'
<1> SUFFICES ASSUME TypeInv, [Next]_vars PROVE TypeInv'
  OBVIOUS
<1> USE SessionsAssumption DEF TypeInv, TypeOK, References
<1>1. ASSUME NEW r \in Requests, HandlerStep(r) PROVE TypeInv'
  BY <1>1, TypeInvHandlerStep
<1>2. ASSUME NEW r \in Requests, HandlerStart(r) PROVE TypeInv'
  BY <1>2, TypeInvHandlerStart
<1>3. ASSUME NEW k \in Sockets, SocketStep(k) PROVE TypeInv'
  BY <1>3, TypeInvSocketStep
<1>4. ASSUME NEW u \in Users, UnbanUser(u) PROVE TypeInv'
  BY <1>4 DEF UnbanUser, Statuses, RowsNameUsers, CookiesNameRows, SocketsNameRows,
              HandlersNameRows, HasRow
<1>5. ASSUME NEW b \in Browsers, ExpireCookie(b) PROVE TypeInv'
  BY <1>5 DEF ExpireCookie, RowsNameUsers, CookiesNameRows, SocketsNameRows,
              HandlersNameRows, HasRow
<1>6. CASE Tick
  BY <1>6
     DEF Tick, RowsNameUsers, CookiesNameRows, SocketsNameRows, HandlersNameRows, HasRow
<1>7. CASE Crash
  BY <1>7
     DEF Crash, Idle, Closed, Handlers, Steps, SocketRows, SocketStates, RowsNameUsers,
              CookiesNameRows, SocketsNameRows, HandlersNameRows, HasRow, UserSteps,
              TargetSteps
<1>8. CASE UNCHANGED vars
  BY <1>8
     DEF vars, RowsNameUsers, CookiesNameRows, SocketsNameRows, HandlersNameRows, HasRow
<1> QED BY <1>1, <1>2, <1>3, <1>4, <1>5, <1>6, <1>7, <1>8 DEF Next

\* Every reachable state is well typed and names only rows that exist.
THEOREM TypeInvariant == Spec => []TypeInv
<1> QED BY TypeInvInit, TypeInvStep, PTL DEF Spec

\* Type correctness (TypeOK) of every reachable state.
THEOREM TypeCorrect == Spec => []TypeOK
<1>1. TypeInv => TypeOK
  BY DEF TypeInv
<1> QED BY <1>1, TypeInvariant, PTL

-----------------------------------------------------------------------------
(* The lifetime of a session is capped.  SessionAgeBound is inductive with   *)
(* TypeInv: it also bounds the expiry that a handler or a handshake has      *)
(* computed and not written yet.                                             *)

LEMMA SessionAgeBoundStep == TypeInv /\ SessionAgeBound /\ [Next]_vars => SessionAgeBound'
<1> SUFFICES ASSUME TypeInv, SessionAgeBound, [Next]_vars PROVE SessionAgeBound'
  OBVIOUS
<1> USE SessionsAssumption DEF SessionAgeBound
<1>1. /\ session \in [SessionIds -> SessionRows] /\ req \in [Requests -> Handlers]
      /\ socket \in [Sockets -> SocketRows] /\ clock \in Nat
      /\ RowsNameUsers /\ CookiesNameRows /\ SocketsNameRows /\ HandlersNameRows
  BY DEF TypeInv, TypeOK, References
<1>2. ASSUME NEW r \in Requests, CreateSession(r) PROVE SessionAgeBound'
  <2>1. CASE account[req[r].user].status = "deleted"
    BY <1>1, <1>2, <2>1 DEF CreateSession, Finish, Idle, Handlers
  <2>2. ASSUME NEW t \in SessionIds, session[t].state = "free",
               session' = [session EXCEPT ![t] =
                 [state |-> "held", user |-> req[r].user, created |-> clock,
                  expires |-> ExpiresAt(clock), password |-> account[req[r].user].password]],
               req' = [req EXCEPT ![r].step = "replace", ![r].give = t], socket' = socket
        PROVE  SessionAgeBound'
    <3>1. \A s \in SessionIds : s # t => session'[s] = session[s]
      BY <2>2
    <3>2. session'[t].expires <= session'[t].created + SessionMaxAge
      BY <1>1, <2>2, ExpiresAtBound
    <3> QED BY <1>1, <2>2, <3>1, <3>2
           DEF Handlers, HandlersNameRows, SocketsNameRows, HasRow, TargetSteps
  <2> QED BY <1>2, <2>1, <2>2 DEF CreateSession
<1>3. ASSUME NEW r \in Requests, EndReplacedSession(r) PROVE SessionAgeBound'
  BY <1>1, <1>3 DEF EndReplacedSession, RevokeIfHeld, Goto, SessionRows, Handlers, SocketRows
<1>4. ASSUME NEW r \in Requests, EndSession(r) PROVE SessionAgeBound'
  BY <1>1, <1>4 DEF EndSession, DisconnectSession, Goto, Closed, SessionRows, Handlers, SocketRows
<1>5. ASSUME NEW r \in Requests, Respond(r) PROVE SessionAgeBound'
  BY <1>1, <1>5 DEF Respond, Finish, Idle, SessionRows, Handlers, SocketRows
<1>6. ASSUME NEW r \in Requests, RevokeSessionById(r) PROVE SessionAgeBound'
  <2>1. \A s \in SessionIds : /\ session'[s].expires = session[s].expires
                              /\ session'[s].created = session[s].created
                              /\ session'[s].state = "free" => session[s].state = "free"
                              /\ session[s].state = "free" => session'[s].state = "free"
    BY <1>1, <1>6 DEF RevokeSessionById, RevokeIfHeld, SessionRows
  <2>2. \A q \in Requests : req'[q].step = "touch" => req'[q] = req[q]
    BY <1>1, <1>6 DEF RevokeSessionById, Goto, Finish, Idle, Handlers
  <2> QED BY <1>1, <1>6, <2>1, <2>2
         DEF RevokeSessionById, HandlersNameRows, SocketsNameRows, HasRow, TargetSteps
<1>7. ASSUME NEW r \in Requests, TouchSession(r) PROVE SessionAgeBound'
  BY <1>1, <1>7 DEF TouchSession, Extend, Finish, Idle, SessionRows, Handlers, SocketRows
<1>8. ASSUME NEW r \in Requests, SetPassword(r) PROVE SessionAgeBound'
  BY <1>1, <1>8 DEF SetPassword, Goto, Finish, Idle, SessionRows, Handlers, SocketRows
<1>9. ASSUME NEW r \in Requests, PermanentlyBanUser(r) PROVE SessionAgeBound'
  BY <1>1, <1>9 DEF PermanentlyBanUser, Goto, Finish, Idle, SessionRows, Handlers, SocketRows
<1>10. ASSUME NEW r \in Requests, BanUser(r) PROVE SessionAgeBound'
  BY <1>1, <1>10 DEF BanUser, Finish, Idle, SessionRows, Handlers, SocketRows
<1>11. ASSUME NEW r \in Requests, RevokeUserAccess(r) PROVE SessionAgeBound'
  <2>1. \A s \in SessionIds : /\ session'[s].expires = session[s].expires
                              /\ session'[s].created = session[s].created
                              /\ session[s].state = "free" => session'[s].state = "free"
    BY <1>1, <1>11 DEF RevokeUserAccess, SessionRows
  <2>2. \A q \in Requests : req'[q].step = "touch" => req'[q] = req[q]
    BY <1>1, <1>11 DEF RevokeUserAccess, Goto, Finish, Idle, Handlers
  <2> QED BY <1>1, <1>11, <2>1, <2>2
         DEF RevokeUserAccess, HandlersNameRows, SocketsNameRows, HasRow, TargetSteps
<1>12. ASSUME NEW r \in Requests, CutOffUser(r) PROVE SessionAgeBound'
  BY <1>1, <1>12 DEF CutOffUser, DisconnectUser, Finish, Idle, Closed, SessionRows, Handlers, SocketRows
<1>13. ASSUME NEW r \in Requests, NEW b \in Browsers, NEW u \in Users, LoginCheck(r, b, u)
     PROVE  SessionAgeBound'
  BY <1>1, <1>13 DEF LoginCheck, Idle, SessionRows, Handlers, SocketRows
<1>14. ASSUME NEW r \in Requests, NEW b \in Browsers, SessionLogout(r, b)
     PROVE  SessionAgeBound'
  BY <1>1, <1>14 DEF SessionLogout, RevokeIfHeld, Idle, SessionRows, Handlers, SocketRows
<1>15. ASSUME NEW r \in Requests, NEW b \in Browsers, NEW s \in SessionIds, RevokeSessionByIdCheck(r, b, s)
     PROVE  SessionAgeBound'
  BY <1>1, <1>15 DEF RevokeSessionByIdCheck, Idle, SessionRows, Handlers, SocketRows
<1>16. ASSUME NEW r \in Requests, NEW b \in Browsers, ResolveUserFromSession(r, b)
     PROVE  SessionAgeBound'
  <2>1. /\ cookie[b] \in SessionIds
        /\ Touched(cookie[b]) <= session[cookie[b]].created + SessionMaxAge
    BY <1>16, ResolvedSession DEF ResolveUserFromSession, TypeInv, TypeOK
  <2> QED BY <1>1, <1>16, <2>1 DEF ResolveUserFromSession, Idle, Handlers
<1>17. ASSUME NEW r \in Requests, NEW b \in Browsers, ChangePasswordCheck(r, b)
     PROVE  SessionAgeBound'
  BY <1>1, <1>17 DEF ChangePasswordCheck, Idle, SessionRows, Handlers, SocketRows
<1>18. ASSUME NEW r \in Requests, NEW u \in Users, ResetPasswordCheck(r, u)
     PROVE  SessionAgeBound'
  BY <1>1, <1>18 DEF ResetPasswordCheck, Idle, SessionRows, Handlers, SocketRows
<1>19. ASSUME NEW r \in Requests, NEW u \in Users, NEW step \in {"ban", "tempBan"}, BanCheck(r, u, step)
     PROVE  SessionAgeBound'
  BY <1>1, <1>19 DEF BanCheck, Idle, SessionRows, Handlers, SocketRows
<1>20. ASSUME NEW r \in Requests, NEW u \in Users, DeleteUser(r, u)
     PROVE  SessionAgeBound'
  <2>1. \A s \in SessionIds : /\ session'[s].expires = session[s].expires
                              /\ session'[s].created = session[s].created
                              /\ session[s].state = "free" => session'[s].state = "free"
    BY <1>1, <1>20 DEF DeleteUser, SessionRows, RowsNameUsers
  <2> QED BY <1>1, <1>20, <2>1
         DEF DeleteUser, Idle, HandlersNameRows, SocketsNameRows, HasRow, TargetSteps
<1>21. ASSUME NEW k \in Sockets, NEW b \in Browsers, Connect(k, b)
     PROVE  SessionAgeBound'
  BY <1>1, <1>21 DEF Connect, SessionRows, Handlers, SocketRows
<1>22. ASSUME NEW k \in Sockets, ResolveHandshakeUser(k)
     PROVE  SessionAgeBound'
  <2>1. CASE Resolves(socket[k].session)
    <3>1. /\ socket[k].session \in SessionIds
          /\ Touched(socket[k].session) <= session[socket[k].session].created + SessionMaxAge
      BY <1>1, <2>1, ResolvedSession DEF SocketRows
    <3> QED BY <1>1, <1>22, <2>1, <3>1 DEF ResolveHandshakeUser, SocketRows
  <2>2. CASE ~Resolves(socket[k].session)
    BY <1>1, <1>22, <2>2 DEF ResolveHandshakeUser, Closed
  <2> QED BY <2>1, <2>2
<1>23. ASSUME NEW k \in Sockets, AuthenticateSocket(k)
     PROVE  SessionAgeBound'
  BY <1>1, <1>23 DEF AuthenticateSocket, Extend, Closed, SessionRows, Handlers, SocketRows
<1>24. ASSUME NEW k \in Sockets, CloseSocket(k)
     PROVE  SessionAgeBound'
  BY <1>1, <1>24 DEF CloseSocket, Closed, SessionRows, Handlers, SocketRows
<1>25. ASSUME NEW u \in Users, UnbanUser(u) PROVE SessionAgeBound'
  BY <1>1, <1>25 DEF UnbanUser, SessionRows, Handlers, SocketRows
<1>29. ASSUME NEW b \in Browsers, ExpireCookie(b) PROVE SessionAgeBound'
  BY <1>1, <1>29 DEF ExpireCookie, SessionRows, Handlers, SocketRows
<1>26. CASE Tick
  BY <1>1, <1>26 DEF Tick, SessionRows, Handlers, SocketRows
<1>27. CASE Crash
  BY <1>1, <1>27 DEF Crash, Idle, Closed, SessionRows, Handlers, SocketRows
<1>28. CASE UNCHANGED vars
  BY <1>1, <1>28 DEF vars, SessionRows, Handlers, SocketRows
<1> QED
  BY <1>2, <1>3, <1>4, <1>5, <1>6, <1>7, <1>8, <1>9, <1>10, <1>11, <1>12, <1>13, <1>14, <1>15, <1>16, <1>17, <1>18, <1>19, <1>20, <1>21, <1>22, <1>23, <1>24, <1>25, <1>26, <1>27, <1>28, <1>29
     DEF Next, HandlerStep, HandlerStart, SocketStep

\* SessionAgeBound: no session is valid for longer than SESSION_MAX_AGE_DAYS after
\* its creation, whatever updates of its expiry overlap.
THEOREM LifetimeIsCapped == Spec => []SessionAgeBound
<1>1. Init => SessionAgeBound
  BY DEF Init, SessionAgeBound, Closed, Idle, NoRow
<1>2. TypeInv /\ SessionAgeBound /\ [Next]_vars => SessionAgeBound'
  BY SessionAgeBoundStep
<1> QED BY <1>1, <1>2, TypeInvariant, PTL DEF Spec

-----------------------------------------------------------------------------
(* Sockets of ended sessions.                                                *)

LEMMA EndedSessionHasNoSocketStep == TypeInv /\ EndedSessionHasNoSocket /\ [Next]_vars => EndedSessionHasNoSocket'
<1> SUFFICES ASSUME TypeInv, EndedSessionHasNoSocket, [Next]_vars PROVE EndedSessionHasNoSocket'
  OBVIOUS
<1> USE SessionsAssumption DEF EndedSessionHasNoSocket
<1>1. /\ session \in [SessionIds -> SessionRows] /\ req \in [Requests -> Handlers]
      /\ socket \in [Sockets -> SocketRows] /\ clock \in Nat
      /\ RowsNameUsers /\ CookiesNameRows /\ SocketsNameRows /\ HandlersNameRows
  BY DEF TypeInv, TypeOK, References
<1>2. ASSUME NEW r \in Requests, CreateSession(r) PROVE EndedSessionHasNoSocket'
  <2>1. \A s \in SessionIds : session'[s].state = "revokedAlone" => session'[s] = session[s]
    BY <1>1, <1>2 DEF CreateSession
  <2>2. \A q \in Requests : req[q].step = "endSession" => req'[q] = req[q]
    BY <1>1, <1>2 DEF CreateSession, Finish, Handlers
  <2> QED BY <1>1, <1>2, <2>1, <2>2 DEF CreateSession, SocketsNameRows, HasRow
<1>3. ASSUME NEW r \in Requests, EndReplacedSession(r) PROVE EndedSessionHasNoSocket'
  BY <1>1, <1>3 DEF EndReplacedSession, RevokeIfHeld, Goto, SessionRows, Handlers, SocketRows
<1>4. ASSUME NEW r \in Requests, EndSession(r) PROVE EndedSessionHasNoSocket'
  BY <1>1, <1>4 DEF EndSession, DisconnectSession, Goto, Closed, SessionRows, Handlers, SocketRows
<1>5. ASSUME NEW r \in Requests, Respond(r) PROVE EndedSessionHasNoSocket'
  BY <1>1, <1>5 DEF Respond, Finish, Idle, SessionRows, Handlers, SocketRows
<1>6. ASSUME NEW r \in Requests, RevokeSessionById(r) PROVE EndedSessionHasNoSocket'
  <2>1. CASE session[req[r].target].state = "deleted"
    BY <1>1, <1>6, <2>1 DEF RevokeSessionById, Finish, Handlers
  <2>2. CASE session[req[r].target].state # "deleted"
    <3>1. \A s \in SessionIds : s # req[r].target => session'[s] = session[s]
      BY <1>1, <1>6, <2>2 DEF RevokeSessionById, RevokeIfHeld
    <3>2. /\ req'[r].step = "endSession" /\ req'[r].target = req[r].target
          /\ \A q \in Requests : req[q].step = "endSession" => req'[q] = req[q]
      BY <1>1, <1>6, <2>2 DEF RevokeSessionById, Goto, Handlers
    <3> QED BY <1>1, <1>6, <3>1, <3>2 DEF RevokeSessionById, SocketsNameRows, HasRow
  <2> QED BY <2>1, <2>2
<1>7. ASSUME NEW r \in Requests, TouchSession(r) PROVE EndedSessionHasNoSocket'
  BY <1>1, <1>7 DEF TouchSession, Extend, Finish, Idle, SessionRows, Handlers, SocketRows
<1>8. ASSUME NEW r \in Requests, SetPassword(r) PROVE EndedSessionHasNoSocket'
  BY <1>1, <1>8 DEF SetPassword, Goto, Finish, Idle, SessionRows, Handlers, SocketRows
<1>9. ASSUME NEW r \in Requests, PermanentlyBanUser(r) PROVE EndedSessionHasNoSocket'
  BY <1>1, <1>9 DEF PermanentlyBanUser, Goto, Finish, Idle, SessionRows, Handlers, SocketRows
<1>10. ASSUME NEW r \in Requests, BanUser(r) PROVE EndedSessionHasNoSocket'
  BY <1>1, <1>10 DEF BanUser, Finish, Idle, SessionRows, Handlers, SocketRows
<1>11. ASSUME NEW r \in Requests, RevokeUserAccess(r) PROVE EndedSessionHasNoSocket'
  <2>1. \A s \in SessionIds : session'[s].state = "revokedAlone" => session'[s] = session[s]
    BY <1>1, <1>11 DEF RevokeUserAccess, SessionRows
  <2>2. \A q \in Requests : req[q].step = "endSession" => req'[q] = req[q]
    BY <1>1, <1>11 DEF RevokeUserAccess, Goto, Finish, Handlers
  <2> QED BY <1>1, <1>11, <2>1, <2>2 DEF RevokeUserAccess, SocketsNameRows, HasRow
<1>12. ASSUME NEW r \in Requests, CutOffUser(r) PROVE EndedSessionHasNoSocket'
  BY <1>1, <1>12 DEF CutOffUser, DisconnectUser, Finish, Idle, Closed, SessionRows, Handlers, SocketRows
<1>13. ASSUME NEW r \in Requests, NEW b \in Browsers, NEW u \in Users, LoginCheck(r, b, u)
     PROVE  EndedSessionHasNoSocket'
  BY <1>1, <1>13 DEF LoginCheck, Idle, SessionRows, Handlers, SocketRows
<1>14. ASSUME NEW r \in Requests, NEW b \in Browsers, SessionLogout(r, b)
     PROVE  EndedSessionHasNoSocket'
  BY <1>1, <1>14 DEF SessionLogout, RevokeIfHeld, Idle, SessionRows, Handlers, SocketRows
<1>15. ASSUME NEW r \in Requests, NEW b \in Browsers, NEW s \in SessionIds, RevokeSessionByIdCheck(r, b, s)
     PROVE  EndedSessionHasNoSocket'
  BY <1>1, <1>15 DEF RevokeSessionByIdCheck, Idle, SessionRows, Handlers, SocketRows
<1>16. ASSUME NEW r \in Requests, NEW b \in Browsers, ResolveUserFromSession(r, b)
     PROVE  EndedSessionHasNoSocket'
  BY <1>1, <1>16 DEF ResolveUserFromSession, Idle, SessionRows, Handlers, SocketRows
<1>17. ASSUME NEW r \in Requests, NEW b \in Browsers, ChangePasswordCheck(r, b)
     PROVE  EndedSessionHasNoSocket'
  BY <1>1, <1>17 DEF ChangePasswordCheck, Idle, SessionRows, Handlers, SocketRows
<1>18. ASSUME NEW r \in Requests, NEW u \in Users, ResetPasswordCheck(r, u)
     PROVE  EndedSessionHasNoSocket'
  BY <1>1, <1>18 DEF ResetPasswordCheck, Idle, SessionRows, Handlers, SocketRows
<1>19. ASSUME NEW r \in Requests, NEW u \in Users, NEW step \in {"ban", "tempBan"}, BanCheck(r, u, step)
     PROVE  EndedSessionHasNoSocket'
  BY <1>1, <1>19 DEF BanCheck, Idle, SessionRows, Handlers, SocketRows
<1>20. ASSUME NEW r \in Requests, NEW u \in Users, DeleteUser(r, u)
     PROVE  EndedSessionHasNoSocket'
  <2>1. \A s \in SessionIds : session'[s].state = "revokedAlone" => session'[s] = session[s]
    BY <1>1, <1>20 DEF DeleteUser, SessionRows
  <2>2. \A q \in Requests : req[q].step = "endSession" => req'[q] = req[q]
    <3>1. req[r].step # "endSession" /\ \A q \in Requests \ {r} : req'[q] = req[q]
      BY <1>1, <1>20 DEF DeleteUser, Idle
    <3> QED BY <3>1
  <2>3. socket' = socket /\ session' \in [SessionIds -> SessionRows]
    BY <1>20, TypeInvHandlerStart DEF DeleteUser, HandlerStart, TypeInv, TypeOK
  <2> QED BY <1>1, <2>1, <2>2, <2>3 DEF SocketsNameRows, HasRow
<1>21. ASSUME NEW k \in Sockets, NEW b \in Browsers, Connect(k, b)
     PROVE  EndedSessionHasNoSocket'
  BY <1>1, <1>21 DEF Connect, SessionRows, Handlers, SocketRows
<1>22. ASSUME NEW k \in Sockets, ResolveHandshakeUser(k)
     PROVE  EndedSessionHasNoSocket'
  <2>1. CASE Resolves(socket[k].session)
    BY <1>1, <1>22, <2>1 DEF ResolveHandshakeUser, Resolves, SocketRows
  <2>2. CASE ~Resolves(socket[k].session)
    BY <1>1, <1>22, <2>2 DEF ResolveHandshakeUser, Closed
  <2> QED BY <2>1, <2>2
<1>23. ASSUME NEW k \in Sockets, AuthenticateSocket(k)
     PROVE  EndedSessionHasNoSocket'
  BY <1>1, <1>23 DEF AuthenticateSocket, Extend, Closed, SessionRows, Handlers, SocketRows
<1>24. ASSUME NEW k \in Sockets, CloseSocket(k)
     PROVE  EndedSessionHasNoSocket'
  BY <1>1, <1>24 DEF CloseSocket, Closed, SessionRows, Handlers, SocketRows
<1>25. ASSUME NEW u \in Users, UnbanUser(u) PROVE EndedSessionHasNoSocket'
  BY <1>1, <1>25 DEF UnbanUser, SessionRows, Handlers, SocketRows
<1>29. ASSUME NEW b \in Browsers, ExpireCookie(b) PROVE EndedSessionHasNoSocket'
  BY <1>1, <1>29 DEF ExpireCookie, SessionRows, Handlers, SocketRows
<1>26. CASE Tick
  BY <1>1, <1>26 DEF Tick, SessionRows, Handlers, SocketRows
<1>27. CASE Crash
  BY <1>1, <1>27 DEF Crash, Idle, Closed, SessionRows, Handlers, SocketRows
<1>28. CASE UNCHANGED vars
  BY <1>1, <1>28 DEF vars, SessionRows, Handlers, SocketRows
<1> QED
  BY <1>2, <1>3, <1>4, <1>5, <1>6, <1>7, <1>8, <1>9, <1>10, <1>11, <1>12, <1>13, <1>14, <1>15, <1>16, <1>17, <1>18, <1>19, <1>20, <1>21, <1>22, <1>23, <1>24, <1>25, <1>26, <1>27, <1>28, <1>29
     DEF Next, HandlerStep, HandlerStart, SocketStep

\* EndedSessionHasNoSocket: logging out, replacing and revoking a session closes
\* every socket that was, or is being, opened with its cookie.
THEOREM SocketsEndWithSession == Spec => []EndedSessionHasNoSocket
<1>1. Init => EndedSessionHasNoSocket
  BY DEF Init, EndedSessionHasNoSocket, Closed, Idle, NoRow
<1>2. TypeInv /\ EndedSessionHasNoSocket /\ [Next]_vars => EndedSessionHasNoSocket'
  BY EndedSessionHasNoSocketStep
<1> QED BY <1>1, <1>2, TypeInvariant, PTL DEF Spec

-----------------------------------------------------------------------------
(* Sessions from before a change of password.                                *)

\* OldPasswordSessionsEnd needs the foreign key: a revocation that finds its
\* account deleted has nothing left to revoke.
DeletedAccountHasNoSession ==
  \A s \in SessionIds : session[s].state = "held" => account[session[s].user].status # "deleted"

PasswordInv == OldPasswordSessionsEnd /\ DeletedAccountHasNoSession

\* No account changes, no session becomes held, no revocation is dropped.
LEMMA PasswordFrame ==
  ASSUME PasswordInv, account' = account, crashed' = crashed,
         \A s \in SessionIds : session'[s].state = "held" =>
           /\ session[s].state = "held"
           /\ session'[s].user = session[s].user
           /\ session'[s].password = session[s].password,
         \A q \in Requests : req[q].step = "revokeAccess" =>
           req'[q].step = "revokeAccess" /\ req'[q].user = req[q].user
  PROVE  PasswordInv'
BY DEF PasswordInv, OldPasswordSessionsEnd, DeletedAccountHasNoSession

LEMMA PasswordInvStep == TypeInv /\ PasswordInv /\ [Next]_vars => PasswordInv'
<1> SUFFICES ASSUME TypeInv, PasswordInv, [Next]_vars PROVE PasswordInv'
  OBVIOUS
<1> USE SessionsAssumption DEF PasswordInv, OldPasswordSessionsEnd, DeletedAccountHasNoSession
<1>1. /\ account \in [Users -> [status : Statuses, password : Nat]]
      /\ session \in [SessionIds -> SessionRows] /\ req \in [Requests -> Handlers]
      /\ socket \in [Sockets -> SocketRows] /\ clock \in Nat
      /\ RowsNameUsers /\ CookiesNameRows /\ SocketsNameRows /\ HandlersNameRows
  BY DEF TypeInv, TypeOK, References
<1>2. ASSUME NEW r \in Requests, CreateSession(r) PROVE PasswordInv'
  <2>1. \A q \in Requests : req[q].step = "revokeAccess" => req'[q] = req[q]
    BY <1>1, <1>2 DEF CreateSession, Finish, Handlers
  <2>2. CASE account[req[r].user].status = "deleted"
    BY <1>2, <2>1, <2>2, PasswordFrame DEF CreateSession
  <2>3. CASE account[req[r].user].status # "deleted"
    <3>1. req[r].user \in Users
      BY <1>2 DEF CreateSession, HandlersNameRows, UserSteps, TypeInv, References
    <3>2. PICK t \in SessionIds :
            session' = [session EXCEPT ![t] =
              [state |-> "held", user |-> req[r].user, created |-> clock,
               expires |-> ExpiresAt(clock), password |-> account[req[r].user].password]]
      BY <1>2, <2>3 DEF CreateSession
    <3>3. ~(session'[t].password < account[session'[t].user].password)
      BY <1>1, <3>1, <3>2
    <3>4. \A s \in SessionIds : s # t => session'[s] = session[s]
      BY <3>2
    <3>5. account'[session'[t].user].status # "deleted"
      BY <1>1, <1>2, <2>3, <3>2 DEF CreateSession
    <3> QED BY <1>1, <1>2, <2>1, <3>3, <3>4, <3>5 DEF CreateSession
  <2> QED BY <2>2, <2>3
<1>3. ASSUME NEW r \in Requests, EndReplacedSession(r) PROVE PasswordInv'
  <2>1. \A s \in SessionIds : session'[s].state = "held" =>
           /\ session[s].state = "held"
           /\ session'[s].user = session[s].user
           /\ session'[s].password = session[s].password
    BY <1>1, <1>3 DEF EndReplacedSession, RevokeIfHeld, SessionRows
  <2>2. \A q \in Requests : req[q].step = "revokeAccess" => req'[q] = req[q]
    BY <1>1, <1>3 DEF EndReplacedSession, Goto, Handlers
  <2> QED BY <1>3, <2>1, <2>2, PasswordFrame DEF EndReplacedSession
<1>4. ASSUME NEW r \in Requests, EndSession(r) PROVE PasswordInv'
  BY <1>1, <1>4 DEF EndSession, DisconnectSession, Goto, Closed, SessionRows, Handlers, SocketRows
<1>5. ASSUME NEW r \in Requests, Respond(r) PROVE PasswordInv'
  BY <1>1, <1>5 DEF Respond, Finish, Idle, SessionRows, Handlers, SocketRows
<1>6. ASSUME NEW r \in Requests, RevokeSessionById(r) PROVE PasswordInv'
  <2>1. \A s \in SessionIds : session'[s].state = "held" =>
           /\ session[s].state = "held"
           /\ session'[s].user = session[s].user
           /\ session'[s].password = session[s].password
    BY <1>1, <1>6 DEF RevokeSessionById, RevokeIfHeld, SessionRows
  <2>2. \A q \in Requests : req[q].step = "revokeAccess" => req'[q] = req[q]
    BY <1>1, <1>6 DEF RevokeSessionById, Goto, Finish, Handlers
  <2> QED BY <1>6, <2>1, <2>2, PasswordFrame DEF RevokeSessionById
<1>7. ASSUME NEW r \in Requests, TouchSession(r) PROVE PasswordInv'
  <2>1. \A s \in SessionIds : session'[s].state = "held" =>
           /\ session[s].state = "held"
           /\ session'[s].user = session[s].user
           /\ session'[s].password = session[s].password
    BY <1>1, <1>7 DEF TouchSession, Extend, SessionRows
  <2>2. \A q \in Requests : req[q].step = "revokeAccess" => req'[q] = req[q]
    BY <1>1, <1>7 DEF TouchSession, Finish, Handlers
  <2> QED BY <1>7, <2>1, <2>2, PasswordFrame DEF TouchSession
<1>8. ASSUME NEW r \in Requests, SetPassword(r) PROVE PasswordInv'
  <2>1. \A q \in Requests : req[q].step = "revokeAccess" => req'[q] = req[q]
    BY <1>1, <1>8 DEF SetPassword, Goto, Finish, Handlers
  <2>2. CASE account[req[r].user].status = "deleted"
    BY <1>8, <2>1, <2>2, PasswordFrame DEF SetPassword
  <2>3. CASE account[req[r].user].status # "deleted"
    <3>1. req[r].user \in Users /\ session' = session /\ crashed' = crashed
      BY <1>8 DEF SetPassword, HandlersNameRows, UserSteps, TypeInv, References
    <3>2. \A u \in Users : /\ account'[u].status = "deleted" => account[u].status = "deleted"
                           /\ u # req[r].user => account'[u].password = account[u].password
      BY <1>1, <1>8, <2>3, <3>1 DEF SetPassword
    <3>3. req'[r].step = "revokeAccess" /\ req'[r].user = req[r].user
      BY <1>1, <1>8, <2>3 DEF SetPassword, Goto, Handlers
    <3> QED BY <1>1, <2>1, <3>1, <3>2, <3>3 DEF RowsNameUsers
  <2> QED BY <2>2, <2>3
<1>9. ASSUME NEW r \in Requests, PermanentlyBanUser(r) PROVE PasswordInv'
  <2>1. \A q \in Requests : req[q].step = "revokeAccess" => req'[q] = req[q]
    BY <1>1, <1>9 DEF PermanentlyBanUser, Goto, Finish, Handlers
  <2>2. CASE account[req[r].user].status = "deleted"
    BY <1>9, <2>1, <2>2, PasswordFrame DEF PermanentlyBanUser
  <2>3. CASE account[req[r].user].status # "deleted"
    <3>1. req[r].user \in Users /\ session' = session /\ crashed' = crashed
      BY <1>9 DEF PermanentlyBanUser, HandlersNameRows, UserSteps, TypeInv, References
    <3>2. \A u \in Users : /\ account'[u].status = "deleted" => account[u].status = "deleted"
                           /\ u # req[r].user => account'[u].password = account[u].password
      BY <1>1, <1>9, <2>3, <3>1 DEF PermanentlyBanUser
    <3>3. req'[r].step = "revokeAccess" /\ req'[r].user = req[r].user
      BY <1>1, <1>9, <2>3 DEF PermanentlyBanUser, Goto, Handlers
    <3> QED BY <1>1, <2>1, <3>1, <3>2, <3>3 DEF RowsNameUsers
  <2> QED BY <2>2, <2>3
<1>10. ASSUME NEW r \in Requests, BanUser(r) PROVE PasswordInv'
  BY <1>1, <1>10 DEF BanUser, Finish, Idle, SessionRows, Handlers, SocketRows
<1>11. ASSUME NEW r \in Requests, RevokeUserAccess(r) PROVE PasswordInv'
  <2>1. \A q \in Requests : q # r => req'[q] = req[q]
    BY <1>1, <1>11 DEF RevokeUserAccess, Goto, Finish
  <2>2. CASE account[req[r].user].status = "deleted"
    <3>1. session' = session /\ account' = account /\ crashed' = crashed
      BY <1>11, <2>2 DEF RevokeUserAccess
    <3>2. \A s \in SessionIds : session[s].state = "held" => session[s].user # req[r].user
      BY <2>2
    <3> QED BY <2>1, <3>1, <3>2
  <2>3. CASE account[req[r].user].status # "deleted"
    <3>1. account' = account /\ crashed' = crashed
      BY <1>11 DEF RevokeUserAccess
    <3>2. account[req[r].user].password \in Nat
      BY <1>1, <1>11 DEF RevokeUserAccess, HandlersNameRows, UserSteps
    <3>3. \A s \in SessionIds : session'[s].state = "held" =>
            /\ session[s].state = "held" /\ session'[s].user = session[s].user
            /\ session[s].user # req[r].user => session'[s].password = session[s].password
            /\ session[s].user = req[r].user =>
                 session'[s].password = account[req[r].user].password
      BY <1>1, <1>11, <2>3 DEF RevokeUserAccess, SessionRows
    <3> QED BY <2>1, <3>1, <3>2, <3>3
  <2> QED BY <2>2, <2>3
<1>12. ASSUME NEW r \in Requests, CutOffUser(r) PROVE PasswordInv'
  BY <1>1, <1>12 DEF CutOffUser, DisconnectUser, Finish, Idle, Closed, SessionRows, Handlers, SocketRows
<1>13. ASSUME NEW r \in Requests, NEW b \in Browsers, NEW u \in Users, LoginCheck(r, b, u)
     PROVE  PasswordInv'
  BY <1>1, <1>13 DEF LoginCheck, Idle, SessionRows, Handlers, SocketRows
<1>14. ASSUME NEW r \in Requests, NEW b \in Browsers, SessionLogout(r, b)
     PROVE  PasswordInv'
  <2>1. \A s \in SessionIds : session'[s].state = "held" =>
           /\ session[s].state = "held"
           /\ session'[s].user = session[s].user
           /\ session'[s].password = session[s].password
    BY <1>1, <1>14 DEF SessionLogout, RevokeIfHeld, SessionRows
  <2>2. \A q \in Requests : req[q].step = "revokeAccess" => req'[q] = req[q]
    BY <1>1, <1>14 DEF SessionLogout, Idle, Handlers
  <2> QED BY <1>14, <2>1, <2>2, PasswordFrame DEF SessionLogout
<1>15. ASSUME NEW r \in Requests, NEW b \in Browsers, NEW s \in SessionIds, RevokeSessionByIdCheck(r, b, s)
     PROVE  PasswordInv'
  BY <1>1, <1>15 DEF RevokeSessionByIdCheck, Idle, SessionRows, Handlers, SocketRows
<1>16. ASSUME NEW r \in Requests, NEW b \in Browsers, ResolveUserFromSession(r, b)
     PROVE  PasswordInv'
  BY <1>1, <1>16 DEF ResolveUserFromSession, Idle, SessionRows, Handlers, SocketRows
<1>17. ASSUME NEW r \in Requests, NEW b \in Browsers, ChangePasswordCheck(r, b)
     PROVE  PasswordInv'
  <2>1. \A s \in SessionIds : session'[s].state = "held" =>
           /\ session[s].state = "held"
           /\ session'[s].user = session[s].user
           /\ session'[s].password = session[s].password
    BY <1>1, <1>17 DEF ChangePasswordCheck, SessionRows
  <2>2. \A q \in Requests : req[q].step = "revokeAccess" => req'[q] = req[q]
    BY <1>1, <1>17 DEF ChangePasswordCheck, Idle, Handlers
  <2> QED BY <1>17, <2>1, <2>2, PasswordFrame DEF ChangePasswordCheck
<1>18. ASSUME NEW r \in Requests, NEW u \in Users, ResetPasswordCheck(r, u)
     PROVE  PasswordInv'
  BY <1>1, <1>18 DEF ResetPasswordCheck, Idle, SessionRows, Handlers, SocketRows
<1>19. ASSUME NEW r \in Requests, NEW u \in Users, NEW step \in {"ban", "tempBan"}, BanCheck(r, u, step)
     PROVE  PasswordInv'
  BY <1>1, <1>19 DEF BanCheck, Idle, SessionRows, Handlers, SocketRows
<1>20. ASSUME NEW r \in Requests, NEW u \in Users, DeleteUser(r, u)
     PROVE  PasswordInv'
  <2>1. \A q \in Requests : req[q].step = "revokeAccess" => req'[q] = req[q]
    BY <1>1, <1>20 DEF DeleteUser, Idle
  <2>2. \A s \in SessionIds : session'[s].state = "held" =>
           session'[s] = session[s] /\ session[s].user # u
    BY <1>1, <1>20 DEF DeleteUser, SessionRows
  <2>3. /\ \A v \in Users : v # u => account'[v] = account[v]
        /\ crashed' = crashed
    BY <1>1, <1>20 DEF DeleteUser
  <2> QED BY <1>1, <2>1, <2>2, <2>3 DEF RowsNameUsers
<1>21. ASSUME NEW k \in Sockets, NEW b \in Browsers, Connect(k, b)
     PROVE  PasswordInv'
  BY <1>1, <1>21 DEF Connect, SessionRows, Handlers, SocketRows
<1>22. ASSUME NEW k \in Sockets, ResolveHandshakeUser(k)
     PROVE  PasswordInv'
  BY <1>1, <1>22 DEF ResolveHandshakeUser, Closed, SessionRows, Handlers, SocketRows
<1>23. ASSUME NEW k \in Sockets, AuthenticateSocket(k)
     PROVE  PasswordInv'
  BY <1>1, <1>23 DEF AuthenticateSocket, Extend, Closed, SessionRows, Handlers, SocketRows
<1>24. ASSUME NEW k \in Sockets, CloseSocket(k)
     PROVE  PasswordInv'
  BY <1>1, <1>24 DEF CloseSocket, Closed, SessionRows, Handlers, SocketRows
<1>25. ASSUME NEW u \in Users, UnbanUser(u) PROVE PasswordInv'
  BY <1>1, <1>25 DEF UnbanUser, SessionRows, Handlers, SocketRows
<1>29. ASSUME NEW b \in Browsers, ExpireCookie(b) PROVE PasswordInv'
  BY <1>1, <1>29 DEF ExpireCookie, SessionRows, Handlers, SocketRows
<1>26. CASE Tick
  BY <1>1, <1>26 DEF Tick, SessionRows, Handlers, SocketRows
<1>27. CASE Crash
  BY <1>1, <1>27 DEF Crash, Idle, Closed, SessionRows, Handlers, SocketRows
<1>28. CASE UNCHANGED vars
  BY <1>1, <1>28 DEF vars, SessionRows, Handlers, SocketRows
<1> QED
  BY <1>2, <1>3, <1>4, <1>5, <1>6, <1>7, <1>8, <1>9, <1>10, <1>11, <1>12, <1>13, <1>14, <1>15, <1>16, <1>17, <1>18, <1>19, <1>20, <1>21, <1>22, <1>23, <1>24, <1>25, <1>26, <1>27, <1>28, <1>29
     DEF Next, HandlerStep, HandlerStart, SocketStep

\* OldPasswordSessionsEnd: a change of password that runs to its end leaves no
\* session from before it but the one it was made from, with any number of
\* changes, bans, logins and logouts in flight.
THEOREM PasswordChangeEndsSessions == Spec => []OldPasswordSessionsEnd
<1>1. Init => PasswordInv
  BY DEF Init, PasswordInv, Closed, Idle, NoRow, OldPasswordSessionsEnd, DeletedAccountHasNoSession
<1>2. TypeInv /\ PasswordInv /\ [Next]_vars => PasswordInv'
  BY PasswordInvStep
<1>3. PasswordInv => OldPasswordSessionsEnd
  BY DEF PasswordInv
<1> QED BY <1>1, <1>2, <1>3, TypeInvariant, PTL DEF Spec

-----------------------------------------------------------------------------
(* No session is left behind, as long as a browser has one request at a time *)
(* in flight that sets its cookie.  NoLingeringSession is not inductive: the *)
(* response that overwrites a cookie must come after the session in it ended.*)

CookieSteps == {"create", "replace", "endSession", "respond", "revoke"}

\* A request that will set the cookie of its browser: the cookie is still the one it
\* came with, or has run out; and before it responds it has ended that session.
SetsCookie(row, jar, rows) ==
  /\ row.browser # NoBrowser =>
       /\ jar[row.browser] \in {row.old, NoSession}
       /\ row.step \in CookieSteps
       /\ row.step \in {"endSession", "respond"} /\ row.old # NoSession => rows[row.old].state # "held"
       /\ row.step = "revoke" => row.target = row.old
  /\ row.step = "create" => row.browser # NoBrowser
  /\ row.give # NoSession => row.step \in {"replace", "endSession", "respond"} /\ row.browser # NoBrowser

OneRequestPerBrowser ==
  \A r, q \in Requests : req[r].browser # NoBrowser /\ req[r].browser = req[q].browser => r = q

LingerInv ==
  /\ NoLingeringSession
  /\ OneRequestPerBrowser
  /\ \A r \in Requests : SetsCookie(req[r], cookie, session)

\* No row comes to be held, and rows keep their date of creation.
NoneHeld ==
  \A s \in SessionIds : session'[s].state = "held" =>
    session[s].state = "held" /\ session'[s].created = session[s].created

\* A cookie request is not disturbed by sessions that end.
LEMMA SetsCookieStill ==
  ASSUME TypeInv, LingerInv, NoneHeld, NEW q \in Requests
  PROVE  SetsCookie(req[q], cookie, session')
<1>1. SetsCookie(req[q], cookie, session) /\ HandlersNameRows
  BY DEF LingerInv, TypeInv, References
<1>2. req[q].old # NoSession => req[q].old \in SessionIds
  BY <1>1 DEF HandlersNameRows, HasRow
<1> QED BY <1>1, <1>2 DEF SetsCookie, NoneHeld

\* A step of one request that leaves the cookies alone and creates no session.
LEMMA LingerRequest ==
  ASSUME TypeInv, LingerInv, NoneHeld, UNCHANGED <<clock, cookie, crashed>>,
         NEW r \in Requests, NEW row, req' = [req EXCEPT ![r] = row],
         SetsCookie(row, cookie, session'),
         row.give = req[r].give \/ req[r].give = NoSession,
         \/ row.browser \in {req[r].browser, NoBrowser}
         \/ \A q \in Requests : req[q].browser # row.browser
  PROVE  LingerInv'
<1>1. req \in [Requests -> Handlers] /\ NoLingeringSession /\ OneRequestPerBrowser
  BY DEF TypeInv, TypeOK, LingerInv
<1>2. req'[r] = row /\ \A q \in Requests : q # r => req'[q] = req[q]
  BY <1>1
<1>3. \A q \in Requests : SetsCookie(req'[q], cookie, session')
  BY <1>2, SetsCookieStill
<1>4. OneRequestPerBrowser'
  BY <1>1, <1>2 DEF OneRequestPerBrowser
<1>5. NoLingeringSession'
  <2> SUFFICES ASSUME NEW s \in SessionIds, session'[s].state = "held"
               PROVE  \/ \E b \in Browsers : cookie'[b] = s
                      \/ \E q \in Requests : req'[q].give = s
                      \/ clock' >= CookieExpires(s)'
                      \/ crashed'
    BY DEF NoLingeringSession
  <2>1. session[s].state = "held" /\ CookieExpires(s)' = CookieExpires(s)
    BY DEF NoneHeld, CookieExpires
  <2>2. s # NoSession
    BY SessionsAssumption
  <2>3. ASSUME NEW q \in Requests, req[q].give = s PROVE \E p \in Requests : req'[p].give = s
    BY <1>2, <2>2, <2>3
  <2> QED BY <1>1, <2>1, <2>3 DEF NoLingeringSession
<1>6. \A q \in Requests : SetsCookie(req[q], cookie, session)'
  BY <1>3 DEF SetsCookie
<1> QED BY <1>4, <1>5, <1>6 DEF LingerInv

\* A step of none of them.
LEMMA LingerStill ==
  ASSUME TypeInv, LingerInv, NoneHeld, UNCHANGED <<cookie, crashed, req>>,
         clock' = clock \/ clock' = clock + 1
  PROVE  LingerInv'
<1>1. NoLingeringSession'
  <2> SUFFICES ASSUME NEW s \in SessionIds, session'[s].state = "held"
               PROVE  \/ \E b \in Browsers : cookie'[b] = s
                      \/ \E q \in Requests : req'[q].give = s
                      \/ clock' >= CookieExpires(s)'
                      \/ crashed'
    BY DEF NoLingeringSession
  <2>1. session[s].state = "held" /\ CookieExpires(s)' = CookieExpires(s)
    BY DEF NoneHeld, CookieExpires
  <2>2. CookieExpires(s) \in Int /\ clock \in Int
    BY SessionsAssumption DEF TypeInv, TypeOK, SessionRows, CookieExpires
  <2>3. clock >= CookieExpires(s) => clock' >= CookieExpires(s)'
    BY <2>1, <2>2
  <2> QED BY <2>1, <2>3 DEF LingerInv, NoLingeringSession
<1>2. \A q \in Requests : SetsCookie(req[q], cookie, session)'
  <2>1. \A q \in Requests : SetsCookie(req'[q], cookie', session')
    BY SetsCookieStill
  <2> QED BY <2>1 DEF SetsCookie
<1>3. OneRequestPerBrowser'
  BY DEF LingerInv, OneRequestPerBrowser
<1> QED BY <1>1, <1>2, <1>3 DEF LingerInv

\* A request that has nothing to do with a cookie ends, or goes on to another step.
LEMMA LingerGoes ==
  ASSUME TypeInv, LingerInv, NoneHeld, UNCHANGED <<clock, cookie, crashed>>,
         NEW r \in Requests, req[r].step \notin CookieSteps,
         NEW step, step \notin CookieSteps, Finish(r) \/ Goto(r, step)
  PROVE  LingerInv'
<1>1. req[r] \in Handlers /\ SetsCookie(req[r], cookie, session)
  BY DEF TypeInv, TypeOK, LingerInv
<1>2. req[r].browser = NoBrowser /\ req[r].give = NoSession
  BY <1>1 DEF SetsCookie, CookieSteps
<1>3. CASE Finish(r)
  <2>1. SetsCookie(Idle, cookie, session') /\ Idle.browser = NoBrowser
    BY DEF SetsCookie, Idle
  <2> QED BY <1>2, <1>3, <2>1, LingerRequest DEF Finish
<1>4. CASE Goto(r, step)
  <2>1. PICK row : row = [req[r] EXCEPT !.step = step]
    OBVIOUS
  <2>2. row.browser = NoBrowser /\ row.give = NoSession /\ row.step = step
    BY <1>1, <1>2, <2>1 DEF Handlers
  <2>3. SetsCookie(row, cookie, session')
    BY <2>2 DEF SetsCookie, CookieSteps
  <2>4. req' = [req EXCEPT ![r] = row]
    BY <1>4, <2>1 DEF Goto
  <2> QED BY <1>2, <2>2, <2>3, <2>4, LingerRequest
<1> QED BY <1>3, <1>4

\* Sessions that end, or are extended.
LEMMA NoneHeldBy ==
  ASSUME TypeInv
  PROVE  /\ session' = session => NoneHeld
         /\ \A s \in SessionIds \union {NoSession} : session' = RevokeIfHeld(s) => NoneHeld
         /\ \A s \in SessionIds \union {NoSession} : \A until : session' = Extend(s, until) => NoneHeld
         /\ \A r \in Requests : RevokeUserAccess(r) => NoneHeld
         /\ \A r \in Requests, u \in Users : DeleteUser(r, u) => NoneHeld
<1>1. session \in [SessionIds -> SessionRows]
  BY DEF TypeInv, TypeOK
<1>2. session' = session => NoneHeld
  BY DEF NoneHeld
<1>3. ASSUME NEW s \in SessionIds \union {NoSession}, session' = RevokeIfHeld(s) PROVE NoneHeld
  BY <1>1, <1>3 DEF NoneHeld, RevokeIfHeld, SessionRows
<1>4. ASSUME NEW s \in SessionIds \union {NoSession}, NEW until, session' = Extend(s, until) PROVE NoneHeld
  BY <1>1, <1>4 DEF NoneHeld, Extend, SessionRows
<1>5. ASSUME NEW r \in Requests, RevokeUserAccess(r) PROVE NoneHeld
  BY <1>1, <1>5 DEF NoneHeld, RevokeUserAccess, SessionRows
<1>6. ASSUME NEW r \in Requests, NEW u \in Users, DeleteUser(r, u) PROVE NoneHeld
  BY <1>1, <1>6 DEF NoneHeld, DeleteUser, SessionRows
<1> QED BY <1>2, <1>3, <1>4, <1>5, <1>6

LEMMA LingerCreateSession ==
  ASSUME TypeInv, LingerInv, NEW r \in Requests, CreateSession(r) PROVE LingerInv'
<1>1. /\ req \in [Requests -> Handlers] /\ req[r] \in Handlers /\ session \in [SessionIds -> SessionRows]
      /\ req[r].step = "create" /\ UNCHANGED <<clock, cookie, crashed>>
      /\ SetsCookie(req[r], cookie, session) /\ HandlersNameRows
  BY DEF TypeInv, TypeOK, References, LingerInv, CreateSession
<1>2. req[r].give = NoSession
  BY <1>1 DEF SetsCookie
<1>3. CASE Finish(r) /\ UNCHANGED session
  <2>1. SetsCookie(Idle, cookie, session') /\ Idle.browser = NoBrowser /\ NoneHeld
    BY <1>3 DEF SetsCookie, Idle, NoneHeld
  <2> QED BY <1>1, <1>2, <1>3, <2>1, LingerRequest DEF Finish
<1>4. ASSUME NEW s \in SessionIds, session[s].state = "free",
             session' = [session EXCEPT ![s] =
               [state |-> "held", user |-> req[r].user, created |-> clock,
                expires |-> ExpiresAt(clock), password |-> account[req[r].user].password]],
             req' = [req EXCEPT ![r].step = "replace", ![r].give = s]
      PROVE  LingerInv'
  <2>1. /\ req'[r].step = "replace" /\ req'[r].give = s
        /\ req'[r].browser = req[r].browser /\ req'[r].old = req[r].old
        /\ \A q \in Requests : q # r => req'[q] = req[q]
    BY <1>1, <1>4 DEF Handlers
  <2>2. \A t \in SessionIds : t # s => session'[t] = session[t]
    BY <1>1, <1>4
  <2>3. OneRequestPerBrowser'
    BY <1>1, <2>1 DEF LingerInv, OneRequestPerBrowser
  <2>4. req[r].browser # NoBrowser
    BY <1>1 DEF SetsCookie
  <2>5. ASSUME NEW q \in Requests PROVE SetsCookie(req'[q], cookie, session')
    <3>1. CASE q = r
      BY <1>1, <2>1, <2>4, <3>1 DEF SetsCookie, CookieSteps
    <3>2. CASE q # r
      <4>1. SetsCookie(req[q], cookie, session) /\ req'[q] = req[q]
        BY <2>1, <3>2 DEF LingerInv
      <4>2. req[q].old # NoSession => session'[req[q].old] = session[req[q].old]
        BY <1>1, <1>4, <2>2 DEF HandlersNameRows, HasRow
      <4> QED BY <4>1, <4>2 DEF SetsCookie
    <3> QED BY <3>1, <3>2
  <2>6. NoLingeringSession'
    <3> SUFFICES ASSUME NEW t \in SessionIds, session'[t].state = "held"
                 PROVE  \/ \E b \in Browsers : cookie'[b] = t
                        \/ \E q \in Requests : req'[q].give = t
                        \/ clock' >= CookieExpires(t)'
                        \/ crashed'
      BY DEF NoLingeringSession
    <3>1. CASE t = s
      BY <2>1, <3>1
    <3>2. CASE t # s
      <4>1. session[t].state = "held" /\ CookieExpires(t)' = CookieExpires(t)
        BY <2>2, <3>2 DEF CookieExpires
      <4>2. t # NoSession
        BY SessionsAssumption
      <4>3. ASSUME NEW q \in Requests, req[q].give = t PROVE req'[q].give = t
        BY <1>2, <2>1, <4>2, <4>3
      <4> QED BY <1>1, <4>1, <4>3 DEF LingerInv, NoLingeringSession
    <3> QED BY <3>1, <3>2
  <2>7. \A q \in Requests : SetsCookie(req[q], cookie, session)'
    BY <1>1, <2>5 DEF SetsCookie
  <2> QED BY <2>3, <2>6, <2>7 DEF LingerInv
<1> QED BY <1>3, <1>4 DEF CreateSession

\* The cookie that is overwritten is of a session that has ended.
LEMMA LingerRespond ==
  ASSUME TypeInv, LingerInv, NEW r \in Requests, Respond(r) PROVE LingerInv'
<1>1. /\ req \in [Requests -> Handlers] /\ req[r] \in Handlers
      /\ cookie \in [Browsers -> SessionIds \union {NoSession}]
      /\ req[r].step = "respond" /\ UNCHANGED <<clock, session, crashed>>
      /\ req' = [req EXCEPT ![r] = Idle]
      /\ SetsCookie(req[r], cookie, session)
  BY DEF TypeInv, TypeOK, LingerInv, Respond, Finish
<1>2. /\ req'[r] = Idle /\ \A q \in Requests : q # r => req'[q] = req[q]
      /\ Idle.browser = NoBrowser /\ Idle.give = NoSession
  BY <1>1 DEF Idle
<1>3. \A b \in Browsers : b # req[r].browser => cookie'[b] = cookie[b]
  BY <1>1 DEF Respond
<1>4. OneRequestPerBrowser'
  BY <1>2 DEF LingerInv, OneRequestPerBrowser
<1>5. ASSUME NEW q \in Requests PROVE SetsCookie(req'[q], cookie', session')
  <2>1. CASE q = r
    BY <1>2, <2>1 DEF SetsCookie, Idle
  <2>2. CASE q # r
    <3>1. SetsCookie(req[q], cookie, session) /\ req'[q] = req[q] /\ req[q] \in Handlers
      BY <1>1, <1>2, <2>2 DEF LingerInv
    <3>2. req[q].browser # NoBrowser => req[q].browser \in Browsers /\ cookie'[req[q].browser] = cookie[req[q].browser]
      BY <1>1, <1>3, <2>2, <3>1 DEF LingerInv, OneRequestPerBrowser, Handlers
    <3> QED BY <1>1, <3>1, <3>2 DEF SetsCookie
  <2> QED BY <2>1, <2>2
<1>6. NoLingeringSession'
  <2> SUFFICES ASSUME NEW s \in SessionIds, session'[s].state = "held"
               PROVE  \/ \E b \in Browsers : cookie'[b] = s
                      \/ \E q \in Requests : req'[q].give = s
                      \/ clock' >= CookieExpires(s)'
                      \/ crashed'
    BY DEF NoLingeringSession
  <2>1. session[s].state = "held" /\ CookieExpires(s)' = CookieExpires(s) /\ s # NoSession
    BY <1>1, SessionsAssumption DEF CookieExpires
  <2>2. ASSUME NEW b \in Browsers, cookie[b] = s PROVE cookie'[b] = s
    <3>1. b # req[r].browser
      BY <1>1, <2>1, <2>2, SessionsAssumption DEF SetsCookie
    <3> QED BY <1>3, <2>2, <3>1
  <2>3. ASSUME NEW q \in Requests, req[q].give = s
        PROVE  (\E b \in Browsers : cookie'[b] = s) \/ \E p \in Requests : req'[p].give = s
    <3>1. CASE q = r
      <4>1. req[r].browser \in Browsers
        BY <1>1, <2>1, <2>3, <3>1 DEF SetsCookie, Handlers
      <4>2. cookie'[req[r].browser] = s
        BY <1>1, <2>3, <3>1, <4>1, SessionsAssumption DEF Respond
      <4> QED BY <4>1, <4>2
    <3>2. CASE q # r
      BY <1>2, <2>3, <3>2
    <3> QED BY <3>1, <3>2
  <2> QED BY <1>1, <2>1, <2>2, <2>3 DEF LingerInv, NoLingeringSession
<1>7. \A q \in Requests : SetsCookie(req[q], cookie, session)'
  BY <1>5 DEF SetsCookie
<1> QED BY <1>4, <1>6, <1>7 DEF LingerInv

LEMMA LingerExpireCookie ==
  ASSUME TypeInv, LingerInv, NEW b \in Browsers, ExpireCookie(b) PROVE LingerInv'
<1>1. /\ cookie \in [Browsers -> SessionIds \union {NoSession}] /\ req \in [Requests -> Handlers]
      /\ cookie' = [cookie EXCEPT ![b] = NoSession] /\ clock >= CookieExpires(cookie[b])
      /\ UNCHANGED <<clock, session, req, crashed>>
  BY DEF TypeInv, TypeOK, ExpireCookie
<1>2. NoLingeringSession'
  <2> SUFFICES ASSUME NEW s \in SessionIds, session'[s].state = "held"
               PROVE  \/ \E c \in Browsers : cookie'[c] = s
                      \/ \E q \in Requests : req'[q].give = s
                      \/ clock' >= CookieExpires(s)'
                      \/ crashed'
    BY DEF NoLingeringSession
  <2>1. session[s].state = "held" /\ CookieExpires(s)' = CookieExpires(s)
    BY <1>1 DEF CookieExpires
  <2>2. \A c \in Browsers : cookie[c] = s => cookie'[c] = s \/ clock >= CookieExpires(s)
    BY <1>1
  <2> QED BY <1>1, <2>1, <2>2 DEF LingerInv, NoLingeringSession
<1>3. ASSUME NEW q \in Requests PROVE SetsCookie(req'[q], cookie', session')
  <2>1. SetsCookie(req[q], cookie, session) /\ req[q] \in Handlers
    BY <1>1 DEF LingerInv
  <2>2. req[q].browser # NoBrowser => cookie'[req[q].browser] \in {cookie[req[q].browser], NoSession}
    BY <1>1, <2>1 DEF Handlers
  <2> QED BY <1>1, <2>1, <2>2 DEF SetsCookie
<1>4. (\A q \in Requests : SetsCookie(req[q], cookie, session)') /\ OneRequestPerBrowser'
  BY <1>1, <1>3 DEF SetsCookie, LingerInv, OneRequestPerBrowser
<1> QED BY <1>2, <1>4 DEF LingerInv

\* The other steps of a request that sets a cookie.
LEMMA LingerCookieStep ==
  ASSUME TypeInv, LingerInv, NEW r \in Requests,
         EndReplacedSession(r) \/ EndSession(r) \/ RevokeSessionById(r)
  PROVE  LingerInv'
<1>1. /\ req[r] \in Handlers /\ SetsCookie(req[r], cookie, session) /\ HandlersNameRows
      /\ session \in [SessionIds -> SessionRows] /\ UNCHANGED <<clock, cookie, crashed>>
  BY DEF TypeInv, TypeOK, References, LingerInv, EndReplacedSession, EndSession, RevokeSessionById
<1>2. req[r].old # NoSession => req[r].old \in SessionIds
  BY <1>1 DEF HandlersNameRows, HasRow
<1>3. req[r].old \in SessionIds \union {NoSession} /\ req[r].target \in SessionIds \union {NoSession}
  BY <1>1 DEF Handlers
<1>4. \A s \in SessionIds : session' = RevokeIfHeld(s) => session'[s].state # "held"
  BY <1>1, SessionsAssumption DEF RevokeIfHeld, SessionRows
<1>5. CASE EndReplacedSession(r)
  <2>1. session' = RevokeIfHeld(req[r].old) /\ req[r].step = "replace"
    BY <1>5 DEF EndReplacedSession
  <2>2. NoneHeld /\ (req[r].old # NoSession => session'[req[r].old].state # "held")
    BY <1>2, <1>3, <1>4, <2>1, NoneHeldBy
  <2>3. PICK row : /\ req' = [req EXCEPT ![r] = row]
                   /\ \/ row = [req[r] EXCEPT !.step = "endSession", !.target = req[r].old]
                      \/ row = [req[r] EXCEPT !.step = "respond"]
    BY <1>5 DEF EndReplacedSession, Goto
  <2>4. /\ row.step \in {"endSession", "respond"} /\ row.give = req[r].give
        /\ row.browser = req[r].browser /\ row.old = req[r].old
    BY <1>1, <2>3 DEF Handlers
  <2>5. SetsCookie(row, cookie, session')
    BY <1>1, <2>1, <2>2, <2>4 DEF SetsCookie, CookieSteps
  <2> QED BY <1>1, <2>2, <2>3, <2>4, <2>5, LingerRequest
<1>6. CASE EndSession(r)
  <2>1. session' = session /\ req[r].step = "endSession" /\ NoneHeld
    BY <1>6, NoneHeldBy DEF EndSession
  <2>2. PICK row : row = [req[r] EXCEPT !.step = "respond"] /\ req' = [req EXCEPT ![r] = row]
    BY <1>6 DEF EndSession, Goto
  <2>3. /\ row.step = "respond" /\ row.give = req[r].give
        /\ row.browser = req[r].browser /\ row.old = req[r].old
    BY <1>1, <2>2 DEF Handlers
  <2>4. SetsCookie(row, cookie, session')
    BY <1>1, <2>1, <2>3 DEF SetsCookie, CookieSteps
  <2> QED BY <1>1, <2>1, <2>2, <2>3, <2>4, LingerRequest
<1>7. CASE RevokeSessionById(r)
  <2>1. req[r].step = "revoke" /\ req[r].give = NoSession /\ req[r].target \in SessionIds
    BY <1>1, <1>7 DEF RevokeSessionById, SetsCookie, HandlersNameRows, HasRow, TargetSteps
  <2>2. CASE Finish(r) /\ UNCHANGED session
    <3>1. SetsCookie(Idle, cookie, session') /\ Idle.browser = NoBrowser /\ NoneHeld
      BY <2>2 DEF SetsCookie, Idle, NoneHeld
    <3> QED BY <1>1, <2>1, <2>2, <3>1, LingerRequest DEF Finish
  <2>3. CASE session' = RevokeIfHeld(req[r].target) /\ Goto(r, "endSession")
    <3>1. NoneHeld /\ session'[req[r].target].state # "held"
      BY <1>4, <2>1, <2>3, NoneHeldBy
    <3>2. PICK row : row = [req[r] EXCEPT !.step = "endSession"] /\ req' = [req EXCEPT ![r] = row]
      BY <2>3 DEF Goto
    <3>3. /\ row.step = "endSession" /\ row.give = req[r].give
          /\ row.browser = req[r].browser /\ row.old = req[r].old
      BY <1>1, <3>2 DEF Handlers
    <3>4. SetsCookie(row, cookie, session')
      BY <1>1, <2>1, <3>1, <3>3 DEF SetsCookie, CookieSteps
    <3> QED BY <1>1, <3>1, <3>2, <3>3, <3>4, LingerRequest
  <2> QED BY <1>7, <2>2, <2>3 DEF RevokeSessionById
<1> QED BY <1>5, <1>6, <1>7

LEMMA LingerHandlerStep ==
  ASSUME TypeInv, LingerInv, NEW r \in Requests, HandlerStep(r) PROVE LingerInv'
<1>1. CASE CreateSession(r) \/ Respond(r) \/ EndReplacedSession(r) \/ EndSession(r) \/ RevokeSessionById(r)
  BY <1>1, LingerCreateSession, LingerRespond, LingerCookieStep
<1>2. CASE TouchSession(r)
  <2>1. /\ session' = Extend(req[r].target, req[r].until) /\ req[r].target \in SessionIds
        /\ req[r].step \notin CookieSteps /\ Finish(r) /\ UNCHANGED <<clock, cookie, crashed>>
    BY <1>2 DEF TouchSession, CookieSteps, TypeInv, References, HandlersNameRows, HasRow, TargetSteps
  <2> QED BY <2>1, NoneHeldBy, LingerGoes DEF CookieSteps
<1>3. CASE SetPassword(r) \/ PermanentlyBanUser(r)
  <2>1. /\ session' = session /\ req[r].step \notin CookieSteps
        /\ UNCHANGED <<clock, cookie, crashed>> /\ (Finish(r) \/ Goto(r, "revokeAccess"))
    BY <1>3 DEF SetPassword, PermanentlyBanUser, CookieSteps
  <2> QED BY <2>1, NoneHeldBy, LingerGoes DEF CookieSteps
<1>4. CASE BanUser(r) \/ CutOffUser(r)
  <2>1. /\ session' = session /\ req[r].step \notin CookieSteps
        /\ UNCHANGED <<clock, cookie, crashed>> /\ Finish(r)
    BY <1>4 DEF BanUser, CutOffUser, CookieSteps
  <2> QED BY <2>1, NoneHeldBy, LingerGoes DEF CookieSteps
<1>5. CASE RevokeUserAccess(r)
  <2>1. /\ req[r].step \notin CookieSteps /\ UNCHANGED <<clock, cookie, crashed>>
        /\ Finish(r) \/ Goto(r, "cutOff")
    BY <1>5 DEF RevokeUserAccess, CookieSteps
  <2> QED BY <1>5, <2>1, NoneHeldBy, LingerGoes DEF CookieSteps
<1> QED BY <1>1, <1>2, <1>3, <1>4, <1>5 DEF HandlerStep

\* A request that starts and will set no cookie.
LEMMA LingerStarts ==
  ASSUME TypeInv, LingerInv, NoneHeld, UNCHANGED <<clock, cookie, crashed>>,
         NEW r \in Requests, req[r] = Idle, NEW row, req' = [req EXCEPT ![r] = row],
         row.browser = NoBrowser, row.give = NoSession, row.step # "create"
  PROVE  LingerInv'
<1>1. SetsCookie(row, cookie, session') /\ req[r].give = NoSession
  BY DEF SetsCookie, Idle
<1> QED BY <1>1, LingerRequest

LEMMA LingerHandlerStart ==
  ASSUME OverlapPerBrowser = FALSE, TypeInv, LingerInv, NEW r \in Requests, HandlerStart(r)
  PROVE  LingerInv'
<1>1. req[r] = Idle /\ UNCHANGED <<clock, cookie, crashed>>
  BY DEF HandlerStart, LoginCheck, SessionLogout, RevokeSessionByIdCheck, ResolveUserFromSession,
         ChangePasswordCheck, ResetPasswordCheck, BanCheck, DeleteUser
<1>2. req[r].give = NoSession /\ cookie \in [Browsers -> SessionIds \union {NoSession}]
  BY <1>1 DEF Idle, TypeInv, TypeOK
<1>3. ASSUME NEW b \in Browsers, BrowserFree(b) PROVE \A q \in Requests : req[q].browser # b
  BY <1>3 DEF BrowserFree
<1>4. ASSUME NEW b \in Browsers, NEW u \in Users, LoginCheck(r, b, u) PROVE LingerInv'
  <2>1. PICK row : /\ row = [Idle EXCEPT !.step = "create", !.browser = b, !.user = u, !.old = cookie[b]]
                   /\ req' = [req EXCEPT ![r] = row]
    BY <1>4 DEF LoginCheck
  <2>2. row.step = "create" /\ row.browser = b /\ row.old = cookie[b] /\ row.give = NoSession
    BY <2>1 DEF Idle
  <2>3. SetsCookie(row, cookie, session') /\ NoneHeld
    BY <1>4, <2>2, NoneHeldBy, SessionsAssumption DEF LoginCheck, SetsCookie, CookieSteps
  <2>4. \A q \in Requests : req[q].browser # row.browser
    BY <1>3, <1>4, <2>2 DEF LoginCheck
  <2> QED BY <1>1, <1>2, <2>1, <2>2, <2>3, <2>4, LingerRequest
<1>5. ASSUME NEW b \in Browsers, SessionLogout(r, b) PROVE LingerInv'
  <2>1. PICK row : /\ row = [Idle EXCEPT !.step = "endSession", !.browser = b, !.old = cookie[b],
                                         !.target = cookie[b]]
                   /\ req' = [req EXCEPT ![r] = row]
    BY <1>5 DEF SessionLogout
  <2>2. row.step = "endSession" /\ row.browser = b /\ row.old = cookie[b] /\ row.give = NoSession
    BY <2>1 DEF Idle
  <2>3. /\ session' = RevokeIfHeld(cookie[b]) /\ cookie[b] \in SessionIds
        /\ session \in [SessionIds -> SessionRows]
    BY <1>2, <1>5 DEF SessionLogout, TypeInv, TypeOK
  <2>4. session'[cookie[b]].state # "held" /\ NoneHeld
    BY <2>3, NoneHeldBy, SessionsAssumption DEF RevokeIfHeld, SessionRows
  <2>5. SetsCookie(row, cookie, session')
    BY <2>2, <2>4 DEF SetsCookie, CookieSteps
  <2>6. \A q \in Requests : req[q].browser # row.browser
    BY <1>3, <1>5, <2>2 DEF SessionLogout
  <2> QED BY <1>1, <1>2, <2>1, <2>2, <2>4, <2>5, <2>6, LingerRequest
<1>6. ASSUME NEW b \in Browsers, NEW s \in SessionIds, RevokeSessionByIdCheck(r, b, s) PROVE LingerInv'
  <2>1. NoneHeld
    BY <1>6, NoneHeldBy DEF RevokeSessionByIdCheck
  <2>2. CASE s = cookie[b]
    <3>1. PICK row : /\ row = [Idle EXCEPT !.step = "revoke", !.browser = b, !.old = s, !.target = s]
                     /\ req' = [req EXCEPT ![r] = row]
      BY <1>6, <2>2 DEF RevokeSessionByIdCheck
    <3>2. row.step = "revoke" /\ row.browser = b /\ row.old = s /\ row.target = s /\ row.give = NoSession
      BY <3>1 DEF Idle
    <3>3. SetsCookie(row, cookie, session')
      BY <2>2, <3>2 DEF SetsCookie, CookieSteps
    <3>4. BrowserFree(b)
      BY <1>6, <2>2 DEF RevokeSessionByIdCheck
    <3> QED BY <1>1, <1>2, <1>3, <2>1, <3>1, <3>2, <3>3, <3>4, LingerRequest
  <2>3. CASE s # cookie[b]
    <3>1. PICK row : /\ row = [Idle EXCEPT !.step = "revoke", !.target = s]
                     /\ req' = [req EXCEPT ![r] = row]
      BY <1>6, <2>3 DEF RevokeSessionByIdCheck
    <3>2. row.step = "revoke" /\ row.browser = NoBrowser /\ row.give = NoSession
      BY <3>1 DEF Idle
    <3> QED BY <1>1, <2>1, <3>1, <3>2, LingerStarts
  <2> QED BY <2>2, <2>3
<1>7. ASSUME NEW b \in Browsers, ResolveUserFromSession(r, b) \/ ChangePasswordCheck(r, b) PROVE LingerInv'
  <2>1. PICK row : /\ \/ row = [Idle EXCEPT !.step = "touch", !.target = cookie[b], !.until = Touched(cookie[b])]
                      \/ row = [Idle EXCEPT !.step = "setPassword", !.old = cookie[b],
                                            !.user = session[cookie[b]].user]
                   /\ req' = [req EXCEPT ![r] = row]
    BY <1>7 DEF ResolveUserFromSession, ChangePasswordCheck
  <2>2. row.step # "create" /\ row.browser = NoBrowser /\ row.give = NoSession
    BY <2>1 DEF Idle
  <2>3. NoneHeld
    BY <1>7, NoneHeldBy DEF ResolveUserFromSession, ChangePasswordCheck
  <2> QED BY <1>1, <2>1, <2>2, <2>3, LingerStarts
<1>8. ASSUME NEW u \in Users, ResetPasswordCheck(r, u) \/ DeleteUser(r, u)
                              \/ \E step \in {"ban", "tempBan"} : BanCheck(r, u, step)
      PROVE  LingerInv'
  <2>1. PICK step \in {"setPassword", "cutOff", "ban", "tempBan"} :
          req' = [req EXCEPT ![r] = [Idle EXCEPT !.step = step, !.user = u]]
    <3>1. ASSUME NEW step \in {"ban", "tempBan"}, BanCheck(r, u, step)
          PROVE  req' = [req EXCEPT ![r] = [Idle EXCEPT !.step = step, !.user = u]]
      BY <3>1 DEF BanCheck
    <3> QED BY <1>8, <3>1 DEF ResetPasswordCheck, DeleteUser
  <2>2. PICK row : row = [Idle EXCEPT !.step = step, !.user = u]
    OBVIOUS
  <2>3. row.step # "create" /\ row.browser = NoBrowser /\ row.give = NoSession
    BY <2>2 DEF Idle
  <2>4. NoneHeld
    BY <1>8, NoneHeldBy DEF ResetPasswordCheck, BanCheck
  <2> QED BY <1>1, <2>1, <2>2, <2>3, <2>4, LingerStarts
<1> QED BY <1>4, <1>5, <1>6, <1>7, <1>8 DEF HandlerStart

LEMMA LingerInvStep ==
  ASSUME OverlapPerBrowser = FALSE PROVE TypeInv /\ LingerInv /\ [Next]_vars => LingerInv'
<1> SUFFICES ASSUME TypeInv, LingerInv, [Next]_vars PROVE LingerInv'
  OBVIOUS
<1>1. ASSUME NEW r \in Requests, HandlerStep(r) \/ HandlerStart(r) PROVE LingerInv'
  BY <1>1, LingerHandlerStep, LingerHandlerStart
<1>2. ASSUME NEW k \in Sockets, SocketStep(k) PROVE LingerInv'
  <2>1. UNCHANGED <<clock, cookie, crashed, req>>
    BY <1>2 DEF SocketStep, Connect, ResolveHandshakeUser, AuthenticateSocket, CloseSocket
  <2>2. session' = session \/ (session' = Extend(socket[k].session, socket[k].until))
    BY <1>2 DEF SocketStep, Connect, ResolveHandshakeUser, AuthenticateSocket, CloseSocket
  <2>3. socket[k].session \in SessionIds \union {NoSession}
    BY DEF TypeInv, TypeOK, SocketRows
  <2> QED BY <2>1, <2>2, <2>3, NoneHeldBy, LingerStill
<1>3. CASE Tick \/ UNCHANGED vars \/ \E u \in Users : UnbanUser(u)
  <2>1. /\ UNCHANGED <<session, cookie, crashed, req>>
        /\ clock' = clock \/ clock' = clock + 1
    BY <1>3 DEF Tick, vars, UnbanUser
  <2> QED BY <2>1, NoneHeldBy, LingerStill
<1>4. ASSUME NEW b \in Browsers, ExpireCookie(b) PROVE LingerInv'
  BY <1>4, LingerExpireCookie
<1>5. CASE Crash
  <2>1. crashed' /\ \A q \in Requests : req'[q] = Idle
    BY <1>5 DEF Crash
  <2>2. \A q \in Requests : SetsCookie(req[q], cookie, session)'
    BY <2>1 DEF SetsCookie, Idle
  <2> QED BY <2>1, <2>2 DEF LingerInv, NoLingeringSession, OneRequestPerBrowser, Idle
<1> QED BY <1>1, <1>2, <1>3, <1>4, <1>5 DEF Next

\* NoLingeringSession: a session whose cookie was overwritten or cleared is not held any
\* more, when a browser has one request at a time in flight that sets its cookie.
THEOREM NoSessionIsLeftBehind == ASSUME OverlapPerBrowser = FALSE PROVE Spec => []NoLingeringSession
<1>1. Init => LingerInv
  BY DEF Init, LingerInv, NoLingeringSession, OneRequestPerBrowser, SetsCookie, NoRow, Idle
<1>2. TypeInv /\ LingerInv /\ [Next]_vars => LingerInv'
  BY LingerInvStep
<1>3. LingerInv => NoLingeringSession
  BY DEF LingerInv
<1> QED BY <1>1, <1>2, <1>3, TypeInvariant, PTL DEF Spec

-----------------------------------------------------------------------------
(* Every step is a step of Sessions or leaves its state alone.               *)

LEMMA StepOfSessions == [SingleSignOnNext]_allVars => [Next]_vars
<1> SUFFICES ASSUME [SingleSignOnNext]_allVars PROVE [Next]_vars
  OBVIOUS
<1>1. CASE SessionsStep
  BY <1>1 DEF SessionsStep, Next
<1>2. ASSUME NEW r \in Requests, NEW b \in Browsers, EndProviderSession(r, b)
      PROVE  [Next]_vars
  BY <1>2 DEF EndProviderSession, Next, HandlerStart
<1>3. ASSUME NEW f \in Flows, FlowStep(f) PROVE UNCHANGED vars
  BY <1>3 DEF FlowStep, Authorize, CheckSession, CheckGrant, LoadInteraction,
              AbortInteraction, FinishLookup, DiscardOldGrant, SaveGrant, LinkToSession,
              RecordConsent, ResumeAuthorization, IssueCode
<1>4. ASSUME NEW c \in Uses, UseStep(c) PROVE UNCHANGED vars
  BY <1>4 DEF UseStep, PresentToken, FindAccount, FindGrant, FindSession, StoreToken, Reply
<1>5. ASSUME NEW j \in revocations, RevocationStep(j) PROVE UNCHANGED vars
  BY <1>5 DEF RevocationStep, FindEndedSessions, FindGrants, DeleteGrants,
              DeleteProviderSessions
<1>6. ASSUME RemoveExpired \/ (\E u \in Users : DisconnectApp(u)) PROVE UNCHANGED vars
  BY <1>6 DEF RemoveExpired, DisconnectApp
<1>7. ASSUME \/ \E t \in TokenIds : PresentConsumedToken(t) \/ ExpireToken(t)
             \/ \E g \in GrantIds : ExpireGrant(g)
      PROVE  UNCHANGED vars
  BY <1>7 DEF PresentConsumedToken, ExpireToken, ExpireGrant
<1>8. CASE CrashAll
  BY <1>8 DEF CrashAll, Next
<1>9. CASE UNCHANGED allVars
  BY <1>9 DEF allVars
<1> QED
  BY <1>1, <1>2, <1>3, <1>4, <1>5, <1>6, <1>7, <1>8, <1>9 DEF SingleSignOnNext

\* Single sign-on adds to Sessions and takes nothing from it: what is proved of
\* Sessions holds beside the provider, too.
THEOREM SessionsUnderSingleSignOn == SingleSignOnSpec => Spec
<1>1. SingleSignOnInit => Init
  BY DEF SingleSignOnInit
<1> QED BY <1>1, StepOfSessions, PTL DEF SingleSignOnSpec, Spec

-----------------------------------------------------------------------------
(* Sessions that ended stay ended, and rows stay. *)

Ended(s) == session[s].state \notin {"free", "held"}

LEMMA EndedStaysEnded ==
  ASSUME TypeInv, [Next]_vars, NEW s \in SessionIds
  PROVE  /\ HasRow(s) => HasRow(s)'
         /\ Ended(s) => Ended(s)'
<1> USE DEF HasRow, Ended
<1>1. session \in [SessionIds -> SessionRows] /\ TypeInv'
  BY TypeInvStep DEF TypeInv, TypeOK
<1>2. ASSUME NEW r \in Requests, HandlerStep(r)
      PROVE  (HasRow(s) => HasRow(s)') /\ (Ended(s) => Ended(s)')
  <2>1. CASE CreateSession(r)
    BY <1>1, <2>1 DEF CreateSession, SessionRows
  <2>2. CASE EndReplacedSession(r)
    BY <1>1, <2>2 DEF EndReplacedSession, RevokeIfHeld, SessionRows
  <2>3. CASE RevokeSessionById(r)
    BY <1>1, <2>3 DEF RevokeSessionById, RevokeIfHeld, SessionRows
  <2>4. CASE TouchSession(r)
    BY <1>1, <2>4 DEF TouchSession, Extend, SessionRows
  <2>5. CASE RevokeUserAccess(r)
    BY <1>1, <2>5 DEF RevokeUserAccess, SessionRows
  <2>6. CASE \/ EndSession(r) \/ Respond(r) \/ SetPassword(r) \/ PermanentlyBanUser(r)
             \/ BanUser(r) \/ CutOffUser(r)
    BY <2>6 DEF EndSession, Respond, SetPassword, PermanentlyBanUser, BanUser, CutOffUser
  <2> QED BY <1>2, <2>1, <2>2, <2>3, <2>4, <2>5, <2>6 DEF HandlerStep
<1>3. ASSUME NEW r \in Requests, HandlerStart(r)
      PROVE  (HasRow(s) => HasRow(s)') /\ (Ended(s) => Ended(s)')
  <2>1. ASSUME NEW b \in Browsers, SessionLogout(r, b)
        PROVE  (HasRow(s) => HasRow(s)') /\ (Ended(s) => Ended(s)')
    BY <1>1, <2>1 DEF SessionLogout, RevokeIfHeld, SessionRows
  <2>2. ASSUME NEW u \in Users, DeleteUser(r, u)
        PROVE  (HasRow(s) => HasRow(s)') /\ (Ended(s) => Ended(s)')
    BY <1>1, <2>2 DEF DeleteUser, SessionRows
  <2> QED BY <1>3, <2>1, <2>2
         DEF HandlerStart, LoginCheck, RevokeSessionByIdCheck, ResolveUserFromSession,
             ChangePasswordCheck, ResetPasswordCheck, BanCheck
<1>4. ASSUME NEW k \in Sockets, SocketStep(k)
      PROVE  (HasRow(s) => HasRow(s)') /\ (Ended(s) => Ended(s)')
  BY <1>1, <1>4 DEF SocketStep, Connect, ResolveHandshakeUser, AuthenticateSocket,
                    CloseSocket, Extend, SessionRows
<1>5. ASSUME \/ \E u \in Users : UnbanUser(u)
             \/ \E b \in Browsers : ExpireCookie(b)
             \/ Tick \/ Crash \/ UNCHANGED vars
      PROVE  session' = session
  BY <1>5 DEF UnbanUser, ExpireCookie, Tick, Crash, vars
<1> QED BY <1>2, <1>3, <1>4, <1>5 DEF Next

-----------------------------------------------------------------------------
(* The inductive invariant.  GrantKeepsItsSession is not inductive: a sign-in *)
(* carries sessions and grants over its steps, and what it read of them must *)
(* still be true when it writes.                                             *)

\* Steps of a sign-in that has found its browser session.
SignedInSteps == {"checkGrant", "lookup", "discard", "save", "link", "consent", "resume", "issue"}

\* Steps before a sign-in has chosen its grant.
GrantlessSteps == {"idle", "checkSession", "checkGrant", "interact", "lookup", "discard"}

FlowsNameRows ==
  \A f \in Flows :
    /\ flow[f].step # "idle" => flow[f].browser \in Browsers
    /\ flow[f].session # NoSession => HasRow(flow[f].session)
    /\ flow[f].step \in SignedInSteps => flow[f].session # NoSession
    /\ flow[f].grant # NoGrant => Created(flow[f].grant)
    /\ flow[f].old # NoGrant => Created(flow[f].old)
    /\ flow[f].step \in GrantlessSteps => flow[f].grant = NoGrant

ProvidersNameGrants ==
  \A b \in Browsers : provider[b].grant # NoGrant => Created(provider[b].grant)

\* A token is of a session from the moment it exists.
TokensNameSessions ==
  \A t \in TokenIds : token[t].state = "free" <=> token[t].by = NoSession

\* What a call has read, and what was true when it began.
CallsRemember ==
  \A c \in Uses : use[c].step # "idle" =>
    /\ use[c].step = "session" => use[c].session = token[use[c].token].by
    /\ use[c].late => Ended(token[use[c].token].by)
    /\ use[c].step = "accepted" => ~use[c].late

SignOnInv ==
  /\ SingleSignOnTypeOK
  /\ GrantKeepsItsSession
  /\ FlowsNameRows
  /\ ProvidersNameGrants
  /\ TokensNameSessions
  /\ CallsRemember

LEMMA SignOnInvInit == SingleSignOnInit => SignOnInv
<1> SUFFICES ASSUME SingleSignOnInit PROVE SignOnInv
  OBVIOUS
<1> USE SessionsAssumption, SingleSignOnAssumption DEF SingleSignOnInit
<1>1. grant \in [GrantIds -> Grants] /\ token \in [TokenIds -> Tokens]
  BY DEF Grants, FreeGrant, Tokens, FreeToken, OneOfSessions, OneOfGrants, PayloadStates
<1>2. provider \in [Browsers -> ProviderSessions] /\ flow \in [Flows -> FlowRows]
  BY DEF ProviderSessions, SignedOut, FlowRows, NoFlow, FlowSteps, OneOfSessions, OneOfGrants
<1>3. use \in [Uses -> UseRows]
  BY DEF UseRows, NoUse, UseSteps, OneOfSessions
<1>4. SingleSignOnTypeOK
  BY <1>1, <1>2, <1>3
     DEF SingleSignOnTypeOK, FreeGrant, FreeToken, NoFlow, NoUse
<1>5. GrantKeepsItsSession /\ FlowsNameRows /\ ProvidersNameGrants
  BY DEF GrantKeepsItsSession, FlowsNameRows, ProvidersNameGrants, FreeGrant, FreeToken,
         NoFlow, SignedOut, SignedInSteps
<1>6. TokensNameSessions /\ CallsRemember
  BY DEF TokensNameSessions, CallsRemember, FreeToken, NoUse
<1> QED BY <1>4, <1>5, <1>6 DEF SignOnInv

\* Sessions, revocations and consent may change, and browsers be signed out of
\* the provider, without further ado.
LEMMA RowsUnchanged ==
  ASSUME SignOnInv, UNCHANGED <<grant, token, flow, use>>,
         provider' \in [Browsers -> ProviderSessions],
         \A b \in Browsers : provider'[b] \in {provider[b], SignedOut},
         \A s \in SessionIds : (HasRow(s) => HasRow(s)') /\ (Ended(s) => Ended(s)'),
         revocations' \subseteq Revocations, consent' \in [Users -> BOOLEAN]
  PROVE  SignOnInv'
<1>1. SingleSignOnTypeOK'
  BY DEF SignOnInv, SingleSignOnTypeOK, Created
<1>2. FlowsNameRows'
  <2>1. \A f \in Flows : flow[f].session # NoSession => HasRow(flow[f].session)'
    BY DEF SignOnInv, FlowsNameRows, HasRow
  <2> QED BY <2>1 DEF SignOnInv, FlowsNameRows, Created
<1>3. CallsRemember'
  <2>1. ASSUME NEW c \in Uses, use[c].step # "idle", Ended(token[use[c].token].by)
        PROVE  Ended(token[use[c].token].by)'
    <3>1. use[c].token \in TokenIds /\ token[use[c].token].by \in SessionIds
      BY <2>1 DEF SignOnInv, SingleSignOnTypeOK, TokensNameSessions, Tokens, OneOfSessions
    <3> QED BY <2>1, <3>1 DEF Ended
  <2> QED BY <2>1 DEF SignOnInv, CallsRemember
<1>4. ProvidersNameGrants'
  BY DEF SignOnInv, ProvidersNameGrants, SignedOut, Created
<1> QED BY <1>1, <1>2, <1>3, <1>4
       DEF SignOnInv, GrantKeepsItsSession, TokensNameSessions, Created

\* Deleting payload rows changes only their state.
LEMMA RowsDeleted ==
  ASSUME SignOnInv, UNCHANGED <<vars, provider, use, consent>>,
         revocations' \subseteq Revocations,
         NEW gs, DeleteByGrantId(gs),
         flow' = flow \/ \E f \in Flows : flow[f].step = "discard" /\ ContinueAt(f, "save")
  PROVE  SignOnInv'
<1>1. /\ grant' \in [GrantIds -> Grants]
      /\ \A g \in GrantIds : /\ grant'[g].user = grant[g].user
                             /\ grant'[g].session = grant[g].session
                             /\ grant'[g].by = grant[g].by
                             /\ grant'[g].state = "free" <=> grant[g].state = "free"
  BY DEF SignOnInv, SingleSignOnTypeOK, DeleteByGrantId, Grants, PayloadStates
<1>2. /\ token' \in [TokenIds -> Tokens]
      /\ \A t \in TokenIds : /\ token'[t].grant = token[t].grant
                             /\ token'[t].by = token[t].by
                             /\ token'[t].state = "free" <=> token[t].state = "free"
  BY DEF SignOnInv, SingleSignOnTypeOK, DeleteByGrantId, Tokens, PayloadStates
<1>3. /\ flow' \in [Flows -> FlowRows]
      /\ \A f \in Flows : /\ flow'[f].browser = flow[f].browser
                          /\ flow'[f].session = flow[f].session
                          /\ flow'[f].old = flow[f].old
                          /\ flow'[f].grant = flow[f].grant
                          /\ \/ flow'[f].step = flow[f].step
                             \/ flow[f].step = "discard" /\ flow'[f].step = "save"
  BY DEF SignOnInv, SingleSignOnTypeOK, ContinueAt, FlowRows, FlowSteps
<1>4. \A g : Created(g)' <=> Created(g)
  BY <1>1 DEF Created
<1>5. SingleSignOnTypeOK'
  BY <1>1, <1>2, <1>3, <1>4 DEF SignOnInv, SingleSignOnTypeOK
<1>6. GrantKeepsItsSession'
  <2>1. \A t \in TokenIds : token[t].state # "free" => token[t].grant \in GrantIds
    BY DEF SignOnInv, SingleSignOnTypeOK, Created
  <2>2. \A f \in Flows : flow[f].grant # NoGrant => flow[f].grant \in GrantIds
    BY DEF SignOnInv, FlowsNameRows, Created
  <2> QED BY <1>1, <1>2, <1>3, <2>1, <2>2 DEF SignOnInv, GrantKeepsItsSession
<1>7. FlowsNameRows' /\ ProvidersNameGrants'
  BY <1>3, <1>4
     DEF SignOnInv, FlowsNameRows, ProvidersNameGrants, HasRow, SignedInSteps, GrantlessSteps,
         vars
<1>8. TokensNameSessions' /\ CallsRemember'
  BY <1>2 DEF SignOnInv, SingleSignOnTypeOK, TokensNameSessions, CallsRemember, Ended, vars
<1> QED BY <1>5, <1>6, <1>7, <1>8 DEF SignOnInv

LEMMA SignOnInvFlowStep ==
  ASSUME TypeInv, SignOnInv, NEW f \in Flows, FlowStep(f)
  PROVE  SignOnInv'
<1> USE SessionsAssumption, SingleSignOnAssumption
<1>1. /\ flow \in [Flows -> FlowRows] /\ grant \in [GrantIds -> Grants]
      /\ token \in [TokenIds -> Tokens] /\ provider \in [Browsers -> ProviderSessions]
      /\ revocations \subseteq Revocations /\ consent \in [Users -> BOOLEAN]
  BY DEF SignOnInv, SingleSignOnTypeOK
<1>2. /\ flow[f].session # NoSession =>
           flow[f].session \in SessionIds /\ session[flow[f].session].user \in Users
      /\ flow[f].step \in {"link", "consent", "resume", "issue"} =>
           flow[f].grant \in GrantIds /\ grant[flow[f].grant].state # "free"
  BY DEF TypeInv, References, RowsNameUsers, HasRow, Created, SignOnInv, FlowsNameRows,
         SingleSignOnTypeOK
\* The steps that write the row of the sign-in only, and the consent.
<1>3. ASSUME NEW row \in FlowRows, flow' = [flow EXCEPT ![f] = row],
             UNCHANGED <<vars, grant, token, provider, use, revocations>>,
             consent' \in [Users -> BOOLEAN],
             row.step # "idle" => row.browser \in Browsers,
             row.session # NoSession => HasRow(row.session),
             row.step \in SignedInSteps => row.session # NoSession,
             row.grant # NoGrant =>
               Created(row.grant) /\ row.session = grant[row.grant].by,
             row.old # NoGrant => Created(row.old),
             row.step \in {"link", "consent", "resume", "issue"} => row.grant # NoGrant,
             row.step \in GrantlessSteps => row.grant = NoGrant
      PROVE  SignOnInv'
  <2>1. \A e \in Flows : flow'[e] = IF e = f THEN row ELSE flow[e]
    BY <1>1, <1>3
  <2>2. SingleSignOnTypeOK' /\ FlowsNameRows'
    BY <1>1, <1>3, <2>1
       DEF SignOnInv, SingleSignOnTypeOK, FlowsNameRows, Created, HasRow, vars
  <2>3. GrantKeepsItsSession'
    BY <1>3, <2>1 DEF SignOnInv, GrantKeepsItsSession
  <2> QED BY <1>3, <2>2, <2>3
         DEF SignOnInv, ProvidersNameGrants, TokensNameSessions, CallsRemember, Created, Ended,
             vars
<1>4. ASSUME NEW step \in FlowSteps, ContinueAt(f, step), flow[f].step # "idle",
             UNCHANGED <<vars, grant, token, provider, use, revocations>>,
             consent' \in [Users -> BOOLEAN],
             step \in SignedInSteps => flow[f].session # NoSession,
             step \in {"link", "consent", "resume", "issue"} => flow[f].grant # NoGrant,
             step \in GrantlessSteps => flow[f].grant = NoGrant
      PROVE  SignOnInv'
  <2> DEFINE row == [flow[f] EXCEPT !.step = step]
  <2>1. /\ row \in FlowRows /\ row.step = step /\ row.browser = flow[f].browser
        /\ row.session = flow[f].session /\ row.grant = flow[f].grant /\ row.old = flow[f].old
    BY <1>1 DEF FlowRows
  <2>2. flow' = [flow EXCEPT ![f] = row]
    BY <1>4 DEF ContinueAt
  <2> HIDE DEF row
  <2> QED BY <1>3, <1>4, <2>1, <2>2 DEF SignOnInv, FlowsNameRows, GrantKeepsItsSession
<1>5. ASSUME EndFlow(f), UNCHANGED <<vars, grant, token, provider, use, revocations>>,
             consent' \in [Users -> BOOLEAN]
      PROVE  SignOnInv'
  <2>1. NoFlow \in FlowRows
    BY DEF NoFlow, FlowRows, FlowSteps, OneOfSessions, OneOfGrants
  <2> QED BY <1>3, <1>5, <2>1 DEF EndFlow, NoFlow, SignedInSteps, GrantlessSteps
<1>6. ASSUME NEW b \in Browsers, Authorize(f, b) PROVE SignOnInv'
  <2> DEFINE row == [step |-> IF provider[b].user = NoUser THEN "interact" ELSE "checkSession",
                     browser |-> b, session |-> cookie[b], old |-> provider[b].grant,
                     grant |-> NoGrant]
  <2>1. /\ row \in FlowRows /\ row.step \in {"interact", "checkSession"} /\ row.browser = b
        /\ row.session = cookie[b] /\ row.grant = NoGrant /\ row.old = provider[b].grant
    <3>1. cookie[b] \in OneOfSessions /\ provider[b].grant \in OneOfGrants
      BY <1>1 DEF OneOfSessions, ProviderSessions, TypeInv, TypeOK
    <3> QED BY <3>1 DEF FlowRows, FlowSteps, OneOfGrants
  <2>2. flow' = [flow EXCEPT ![f] = row]
        /\ UNCHANGED <<vars, grant, token, provider, use, revocations, consent>>
    BY <1>6 DEF Authorize
  <2>3. cookie[b] # NoSession => HasRow(cookie[b])
    BY DEF TypeInv, References, CookiesNameRows
  <2>4. provider[b].grant # NoGrant => Created(provider[b].grant)
    BY DEF SignOnInv, ProvidersNameGrants
  <2> HIDE DEF row
  <2> QED BY <1>1, <1>3, <2>1, <2>2, <2>3, <2>4 DEF SignedInSteps, GrantlessSteps
<1>7. CASE CheckSession(f)
  <2>1. Resolves(flow[f].session) => flow[f].session # NoSession
    BY DEF Resolves
  <2>2. flow[f].grant = NoGrant
    BY <1>7 DEF CheckSession, SignOnInv, FlowsNameRows, GrantlessSteps
  <2> QED BY <1>1, <1>4, <1>7, <2>1, <2>2
         DEF CheckSession, FlowSteps, SignedInSteps, GrantlessSteps
<1>8. CASE CheckGrant(f)
  <2>1. CASE GrantSession(flow[f].old) = flow[f].session
    <3>1. flow[f].session # NoSession
      BY <1>8 DEF CheckGrant, SignOnInv, FlowsNameRows, SignedInSteps
    <3>2. flow[f].old # NoGrant /\ grant[flow[f].old].session = flow[f].session
      BY <2>1, <3>1 DEF GrantSession, Stored
    <3>3. Created(flow[f].old) /\ flow[f].session = grant[flow[f].old].by
      BY <3>1, <3>2 DEF SignOnInv, FlowsNameRows, GrantKeepsItsSession, Created
    <3> DEFINE row == [flow[f] EXCEPT !.step = "issue", !.grant = flow[f].old]
    <3>4. /\ row \in FlowRows /\ row.step = "issue" /\ row.browser = flow[f].browser
          /\ row.session = flow[f].session /\ row.grant = flow[f].old /\ row.old = flow[f].old
      <4>1. flow[f] \in FlowRows /\ "issue" \in FlowSteps
        BY <1>1 DEF FlowSteps
      <4>2. flow[f].old \in OneOfGrants
        BY <4>1 DEF FlowRows
      <4> QED BY <4>1, <4>2 DEF FlowRows
    <3>5. flow' = [flow EXCEPT ![f] = row]
          /\ UNCHANGED <<vars, grant, token, provider, use, revocations, consent>>
      BY <1>8, <2>1 DEF CheckGrant
    <3>6. flow[f].browser \in Browsers /\ HasRow(flow[f].session)
      BY <1>8, <3>1 DEF CheckGrant, SignOnInv, FlowsNameRows
    <3> HIDE DEF row
    <3> QED BY <1>1, <1>3, <3>1, <3>2, <3>3, <3>4, <3>5, <3>6 DEF GrantlessSteps
  <2>2. CASE GrantSession(flow[f].old) # flow[f].session
    <3>1. ContinueAt(f, "interact")
      BY <1>8, <2>2 DEF CheckGrant, ContinueAt
    <3>2. flow[f].grant = NoGrant
      BY <1>8 DEF CheckGrant, SignOnInv, FlowsNameRows, GrantlessSteps
    <3> QED BY <1>1, <1>4, <1>8, <3>1, <3>2
           DEF CheckGrant, FlowSteps, SignedInSteps, GrantlessSteps
  <2> QED BY <2>1, <2>2
<1>9. CASE LoadInteraction(f)
  <2> DEFINE s == cookie[flow[f].browser]
             row == [flow[f] EXCEPT !.session = s,
                                    !.step = IF flow[f].old = NoGrant THEN "save" ELSE "lookup"]
  <2>1. /\ flow[f].browser \in Browsers /\ flow[f].grant = NoGrant
        /\ flow[f].old # NoGrant => Created(flow[f].old)
    BY <1>9 DEF LoadInteraction, SignOnInv, FlowsNameRows, GrantlessSteps
  <2>2. s # NoSession /\ HasRow(s)
    BY <1>9, <2>1 DEF LoadInteraction, Resolves, TypeInv, References, CookiesNameRows
  <2>3. /\ row \in FlowRows /\ row.step \in {"save", "lookup"} /\ row.browser = flow[f].browser
        /\ row.session = s /\ row.grant = flow[f].grant /\ row.old = flow[f].old
    BY <1>1, <2>2 DEF FlowRows, FlowSteps, OneOfSessions, HasRow
  <2>4. flow' = [flow EXCEPT ![f] = row]
        /\ UNCHANGED <<vars, grant, token, provider, use, revocations, consent>>
    BY <1>9 DEF LoadInteraction
  <2> HIDE DEF row, s
  <2>5. /\ row.step # "idle" /\ row.step \notin {"link", "consent", "resume", "issue"}
        /\ row.browser \in Browsers /\ row.session # NoSession /\ HasRow(row.session)
        /\ row.grant = NoGrant
        /\ row.old # NoGrant => Created(row.old)
    BY <2>1, <2>2, <2>3
  <2> QED BY <1>1, <1>3, <2>3, <2>4, <2>5
<1>10. CASE AbortInteraction(f)
  BY <1>1, <1>5, <1>10 DEF AbortInteraction
<1>11. CASE FinishLookup(f)
  <2> DEFINE g == flow[f].old
             row == [flow[f] EXCEPT !.step = "save", !.grant = g]
  <2>1. /\ flow[f].browser \in Browsers /\ flow[f].grant = NoGrant
        /\ flow[f].session # NoSession /\ HasRow(flow[f].session)
        /\ g # NoGrant => Created(g)
    BY <1>11 DEF FinishLookup, SignOnInv, FlowsNameRows, GrantlessSteps, SignedInSteps
  <2>2. CASE GrantSession(g) = flow[f].session /\ ~ContinueAt(f, "discard")
    <3>1. flow' = [flow EXCEPT ![f] = row]
          /\ UNCHANGED <<vars, grant, token, provider, use, revocations, consent>>
      BY <1>11, <2>2 DEF FinishLookup, ContinueAt
    <3>2. g # NoGrant /\ grant[g].session = flow[f].session
      BY <2>1, <2>2 DEF GrantSession, Stored
    <3>3. flow[f].session = grant[g].by
      BY <2>1, <3>2 DEF SignOnInv, GrantKeepsItsSession, Created
    <3>4. /\ row \in FlowRows /\ row.step = "save" /\ row.browser = flow[f].browser
          /\ row.session = flow[f].session /\ row.grant = g /\ row.old = g
      <4>1. flow[f] \in FlowRows /\ "save" \in FlowSteps
        BY <1>1 DEF FlowSteps
      <4>2. g \in OneOfGrants
        BY <4>1 DEF FlowRows
      <4> QED BY <4>1, <4>2 DEF FlowRows
    <3> HIDE DEF row, g
    <3> QED BY <1>1, <1>3, <2>1, <3>1, <3>2, <3>3, <3>4 DEF GrantlessSteps
  <2>3. CASE ContinueAt(f, "discard")
    BY <1>1, <1>4, <1>11, <2>1, <2>3 DEF FinishLookup, FlowSteps
  <2> QED BY <1>11, <2>2, <2>3 DEF FinishLookup, ContinueAt
<1>12. CASE DiscardOldGrant(f)
  BY <1>1, <1>12, RowsDeleted DEF DiscardOldGrant
<1>14. CASE RecordConsent(f)
  <2>1. flow[f].grant # NoGrant /\ flow[f].session # NoSession
    BY <1>2, <1>14
       DEF RecordConsent, SignOnInv, FlowsNameRows, SignedInSteps, SingleSignOnAssumption
  <2>2. consent' \in [Users -> BOOLEAN]
    BY <1>1, <1>14 DEF RecordConsent
  <2> QED BY <1>4, <1>5, <1>14, <2>1, <2>2 DEF RecordConsent, FlowSteps, GrantlessSteps
<1>15. CASE ResumeAuthorization(f)
  <2>1. flow[f].grant # NoGrant /\ flow[f].session # NoSession
    BY <1>2, <1>15
       DEF ResumeAuthorization, SignOnInv, FlowsNameRows, SignedInSteps, SingleSignOnAssumption
  <2> QED BY <1>1, <1>4, <1>5, <1>15, <2>1 DEF ResumeAuthorization, FlowSteps, GrantlessSteps
<1>13. CASE SaveGrant(f)
  <2>1. /\ flow[f].session \in SessionIds /\ HasRow(flow[f].session)
        /\ flow[f].browser \in Browsers /\ flow[f].session # NoSession
        /\ flow[f].grant # NoGrant =>
             Created(flow[f].grant) /\ flow[f].session = grant[flow[f].grant].by
        /\ flow[f].old # NoGrant => Created(flow[f].old)
    BY <1>13 DEF SaveGrant, SignOnInv, FlowsNameRows, SignedInSteps, GrantKeepsItsSession, HasRow
  \* Either way the sign-in now holds a stored grant of its own session.
  <2>2. ASSUME NEW g \in GrantIds, NEW gr \in Grants, NEW row \in FlowRows,
               grant' = [grant EXCEPT ![g] = gr], flow' = [flow EXCEPT ![f] = row],
               gr.state # "free", gr.user \in Users,
               gr.session \in {NoSession, gr.by}, gr.by = flow[f].session,
               grant[g].state = "free" \/ gr.by = grant[g].by,
               row.step = "link", row.grant = g, row.session = flow[f].session,
               row.browser = flow[f].browser, row.old = flow[f].old,
               UNCHANGED <<vars, token, provider, use, revocations, consent>>
        PROVE  SignOnInv'
    <3>1. /\ \A h \in GrantIds : grant'[h] = IF h = g THEN gr ELSE grant[h]
          /\ \A e \in Flows : flow'[e] = IF e = f THEN row ELSE flow[e]
      BY <1>1, <2>2
    <3>2. \A h : Created(h) => Created(h)'
      BY <2>2, <3>1 DEF Created
    <3>3. \A h : Created(h) => grant'[h].by = grant[h].by
      BY <2>2, <3>1 DEF Created
    <3>4. Created(g)'
      BY <2>2, <3>1 DEF Created
    <3>5. SingleSignOnTypeOK'
      <4>1. grant' \in [GrantIds -> Grants] /\ flow' \in [Flows -> FlowRows]
        BY <1>1, <2>2
      <4>2. \A h \in GrantIds : grant'[h].state # "free" => grant'[h].user \in Users
        BY <2>2, <3>1 DEF SignOnInv, SingleSignOnTypeOK
      <4>3. \A e \in Flows : (flow[e].step \in {"link", "consent", "resume", "issue"} =>
              Created(flow[e].grant))'
        BY <2>2, <3>1, <3>2, <3>4 DEF SignOnInv, SingleSignOnTypeOK
      <4>4. \A t \in TokenIds : (token[t].state # "free" => Created(token[t].grant))'
        BY <2>2, <3>2 DEF SignOnInv, SingleSignOnTypeOK
      <4> QED BY <1>1, <2>2, <4>1, <4>2, <4>3, <4>4 DEF SignOnInv, SingleSignOnTypeOK
    <3>6. GrantKeepsItsSession'
      <4>1. \A h \in GrantIds : grant'[h].session \in {NoSession, grant'[h].by}
        BY <2>2, <3>1 DEF SignOnInv, GrantKeepsItsSession
      <4>2. \A e \in Flows : flow'[e].grant # NoGrant => flow'[e].session = grant'[flow'[e].grant].by
        BY <2>2, <3>1, <3>3 DEF SignOnInv, GrantKeepsItsSession, FlowsNameRows
      <4>3. \A t \in TokenIds : token'[t].state # "free" => token'[t].by = grant'[token'[t].grant].by
        BY <2>2, <3>3 DEF SignOnInv, GrantKeepsItsSession, SingleSignOnTypeOK
      <4> QED BY <4>1, <4>2, <4>3 DEF GrantKeepsItsSession
    <3>7. FlowsNameRows'
      <4>1. \A s : HasRow(s)' <=> HasRow(s)
        BY <2>2 DEF HasRow, vars
      <4>2. \A e \in Flows : e # f => flow'[e] = flow[e]
        BY <3>1
      <4>3. row.step \notin GrantlessSteps /\ row.step # "idle"
        BY <2>2 DEF GrantlessSteps
      <4>4. flow'[f] = row
        BY <3>1
      <4> QED BY <2>1, <2>2, <3>2, <3>4, <4>1, <4>2, <4>3, <4>4 DEF SignOnInv, FlowsNameRows
    <3>8. ProvidersNameGrants'
      BY <2>2, <3>2 DEF SignOnInv, ProvidersNameGrants
    <3> QED BY <2>2, <3>5, <3>6, <3>7, <3>8
           DEF SignOnInv, TokensNameSessions, CallsRemember, Ended, vars
  <2>3. CASE flow[f].grant = NoGrant
    <3>1. PICK g \in GrantIds :
            /\ grant[g].state = "free"
            /\ grant' = [grant EXCEPT ![g] =
                 [state |-> "stored", user |-> session[flow[f].session].user,
                  session |-> NoSession, by |-> flow[f].session]]
            /\ flow' = [flow EXCEPT ![f].step = "link", ![f].grant = g]
      BY <1>13, <2>3 DEF SaveGrant
    <3> DEFINE gr == [state |-> "stored", user |-> session[flow[f].session].user,
                      session |-> NoSession, by |-> flow[f].session]
               row == [flow[f] EXCEPT !.step = "link", !.grant = g]
    <3>2. gr \in Grants /\ gr.user \in Users
      BY <1>2, <2>1 DEF Grants, PayloadStates, OneOfSessions
    <3>3. /\ row \in FlowRows /\ row.step = "link" /\ row.browser = flow[f].browser
          /\ row.session = flow[f].session /\ row.grant = g /\ row.old = flow[f].old
      <4>1. flow[f] \in FlowRows /\ g \in OneOfGrants /\ "link" \in FlowSteps
        BY <1>1 DEF FlowSteps, OneOfGrants
      <4> QED BY <4>1 DEF FlowRows
    <3>4. /\ gr.state # "free" /\ gr.session \in {NoSession, gr.by} /\ gr.by = flow[f].session
          /\ flow' = [flow EXCEPT ![f] = row] /\ grant' = [grant EXCEPT ![g] = gr]
      BY <3>1
    <3> HIDE DEF gr, row
    <3> QED BY <1>13, <2>2, <3>1, <3>2, <3>3, <3>4 DEF SaveGrant
  <2>4. CASE flow[f].grant # NoGrant
    <3> DEFINE g == flow[f].grant
               gr == IF Stored(g) THEN grant[g]
                     ELSE [grant[g] EXCEPT !.state = "stored", !.session = NoSession]
               row == [flow[f] EXCEPT !.step = "link"]
    <3>1. g \in GrantIds /\ grant[g].state # "free" /\ grant[g].user \in Users
          /\ grant[g].session \in {NoSession, grant[g].by}
      BY <2>1, <2>4 DEF Created, SignOnInv, SingleSignOnTypeOK, GrantKeepsItsSession
    <3>2. /\ gr \in Grants /\ gr.user = grant[g].user /\ gr.by = grant[g].by
          /\ gr.state # "free" /\ gr.session \in {NoSession, gr.by}
      <4>1. grant[g] \in Grants
        BY <1>1, <3>1
      <4>2. CASE Stored(g)
        BY <3>1, <4>1, <4>2
      <4>3. CASE ~Stored(g)
        BY <3>1, <4>1, <4>3 DEF Grants, PayloadStates, OneOfSessions
      <4> QED BY <4>2, <4>3
    <3>3. /\ row \in FlowRows /\ row.step = "link" /\ row.browser = flow[f].browser
          /\ row.session = flow[f].session /\ row.grant = g /\ row.old = flow[f].old
      <4>1. flow[f] \in FlowRows /\ "link" \in FlowSteps
        BY <1>1 DEF FlowSteps
      <4> QED BY <4>1 DEF FlowRows
    <3>4. flow' = [flow EXCEPT ![f] = row] /\ grant' = [grant EXCEPT ![g] = gr]
      BY <1>1, <1>13, <2>4, <3>1 DEF SaveGrant, ContinueAt
    <3>5. gr.by = flow[f].session
      BY <2>1, <2>4, <3>2
    <3> HIDE DEF gr, row, g
    <3> QED BY <1>13, <2>2, <3>1, <3>2, <3>3, <3>4, <3>5 DEF SaveGrant
  <2> QED BY <2>3, <2>4
<1>16. CASE LinkToSession(f)
  <2>1. flow[f].grant \in GrantIds /\ flow[f].session \in SessionIds
        /\ flow[f].session = grant[flow[f].grant].by /\ flow[f].grant # NoGrant
    BY <1>2, <1>16
       DEF LinkToSession, SignOnInv, FlowsNameRows, SignedInSteps, GrantKeepsItsSession
  <2>2. CASE ~Stored(flow[f].grant)
    BY <1>1, <1>5, <1>16, <2>2 DEF LinkToSession
  <2>3. CASE Stored(flow[f].grant)
    <3>1. grant' = [grant EXCEPT ![flow[f].grant].session = flow[f].session]
          /\ ContinueAt(f, "consent")
          /\ UNCHANGED <<vars, token, provider, use, revocations, consent>>
      BY <1>16, <2>3 DEF LinkToSession
    <3>2. /\ grant' \in [GrantIds -> Grants]
          /\ \A h \in GrantIds : /\ grant'[h].state = grant[h].state
                                 /\ grant'[h].user = grant[h].user
                                 /\ grant'[h].by = grant[h].by
                                 /\ grant'[h].session \in {NoSession, grant[h].by}
      BY <1>1, <2>1, <3>1 DEF Grants, OneOfSessions, SignOnInv, GrantKeepsItsSession
    <3>3. \A h : Created(h)' <=> Created(h)
      BY <3>2 DEF Created
    <3>4. /\ flow' \in [Flows -> FlowRows]
          /\ \A e \in Flows : /\ flow'[e].step = IF e = f THEN "consent" ELSE flow[e].step
                              /\ flow'[e].browser = flow[e].browser
                              /\ flow'[e].session = flow[e].session
                              /\ flow'[e].grant = flow[e].grant
                              /\ flow'[e].old = flow[e].old
      BY <1>1, <3>1 DEF ContinueAt, FlowRows, FlowSteps
    <3>5. SingleSignOnTypeOK'
      BY <1>1, <2>1, <2>3, <3>1, <3>2, <3>3, <3>4
         DEF SignOnInv, SingleSignOnTypeOK, Stored, FlowsNameRows
    <3>6. GrantKeepsItsSession'
      BY <3>1, <3>2, <3>4
         DEF SignOnInv, GrantKeepsItsSession, FlowsNameRows, Created, SingleSignOnTypeOK
    <3>7. FlowsNameRows' /\ ProvidersNameGrants'
      BY <2>1, <3>1, <3>3, <3>4
         DEF SignOnInv, FlowsNameRows, ProvidersNameGrants, HasRow, SignedInSteps,
             GrantlessSteps, vars, SingleSignOnAssumption
    <3> QED BY <3>1, <3>5, <3>6, <3>7
           DEF SignOnInv, TokensNameSessions, CallsRemember, Ended, vars
  <2> QED BY <2>2, <2>3
<1>17. CASE IssueCode(f)
  <2>1. PICK t \in TokenIds :
          /\ token[t].state = "free"
          /\ token' = [token EXCEPT ![t] =
               [state |-> "stored", kind |-> "exchange",
                grant |-> flow[f].grant, by |-> flow[f].session]]
    BY <1>17 DEF IssueCode
  <2>2. /\ flow[f].step = "issue" /\ EndFlow(f)
        /\ provider' = [provider EXCEPT ![flow[f].browser] =
             [user |-> grant[flow[f].grant].user, grant |-> flow[f].grant]]
        /\ UNCHANGED <<vars, grant, use, revocations, consent>>
    BY <1>17 DEF IssueCode
  <2>3. /\ flow[f].grant \in GrantIds /\ grant[flow[f].grant].state # "free"
        /\ flow[f].session \in SessionIds /\ flow[f].session # NoSession
        /\ flow[f].session = grant[flow[f].grant].by /\ Created(flow[f].grant)
        /\ grant[flow[f].grant].user \in Users
    BY <1>2, <2>2
       DEF SignOnInv, FlowsNameRows, SignedInSteps, GrantKeepsItsSession, Created,
           SingleSignOnTypeOK
  <2>4. /\ flow' \in [Flows -> FlowRows]
        /\ \A e \in Flows : flow'[e] = IF e = f THEN NoFlow ELSE flow[e]
    BY <1>1, <2>2 DEF EndFlow, NoFlow, FlowRows, FlowSteps, OneOfSessions, OneOfGrants
  <2>5. /\ token' \in [TokenIds -> Tokens]
        /\ \A d \in TokenIds : d # t => token'[d] = token[d]
        /\ token'[t].state = "stored" /\ token'[t].grant = flow[f].grant
        /\ token'[t].by = flow[f].session
    BY <1>1, <2>1, <2>3 DEF Tokens, PayloadStates, OneOfSessions, OneOfGrants
  <2>6. /\ provider' \in [Browsers -> ProviderSessions]
        /\ \A b \in Browsers : provider'[b].grant \in {provider[b].grant, flow[f].grant}
    BY <1>1, <2>2, <2>3 DEF ProviderSessions, OneOfGrants
  <2>7. \A c \in Uses : use[c].step # "idle" => use[c].token # t
    BY <2>1 DEF SignOnInv, SingleSignOnTypeOK
  <2>8. SingleSignOnTypeOK'
    BY <1>1, <2>2, <2>3, <2>4, <2>5, <2>6
       DEF SignOnInv, SingleSignOnTypeOK, Created, NoFlow
  <2>9. GrantKeepsItsSession'
    BY <2>2, <2>3, <2>4, <2>5 DEF SignOnInv, GrantKeepsItsSession, NoFlow
  <2>10. FlowsNameRows'
    BY <2>2, <2>4
       DEF SignOnInv, FlowsNameRows, HasRow, Created, NoFlow, SignedInSteps, GrantlessSteps, vars
  <2>11. ProvidersNameGrants'
    BY <2>2, <2>3, <2>6 DEF SignOnInv, ProvidersNameGrants, Created
  <2>12. TokensNameSessions'
    BY <2>3, <2>5 DEF SignOnInv, TokensNameSessions
  <2>13. CallsRemember'
    BY <2>2, <2>5, <2>7 DEF SignOnInv, CallsRemember, SingleSignOnTypeOK, Ended, vars
  <2> QED BY <2>8, <2>9, <2>10, <2>11, <2>12, <2>13 DEF SignOnInv
<1> QED
  BY <1>6, <1>7, <1>8, <1>9, <1>10, <1>11, <1>12, <1>13, <1>14, <1>15, <1>16, <1>17
     DEF FlowStep

LEMMA SignOnInvUseStep ==
  ASSUME TypeInv, SignOnInv, NEW c \in Uses, UseStep(c)
  PROVE  SignOnInv'
<1> USE SessionsAssumption, SingleSignOnAssumption
<1>1. /\ use \in [Uses -> UseRows] /\ grant \in [GrantIds -> Grants]
      /\ token \in [TokenIds -> Tokens]
  BY DEF SignOnInv, SingleSignOnTypeOK
\* The steps that write the row of the call only.
<1>2. ASSUME NEW row \in UseRows, use' = [use EXCEPT ![c] = row],
             UNCHANGED <<vars, grant, token, provider, flow, revocations, consent>>,
             row.step # "idle" =>
               /\ row.token \in TokenIds /\ token[row.token].state # "free"
               /\ row.step = "session" => row.session = token[row.token].by
               /\ row.late => Ended(token[row.token].by)
               /\ row.step = "accepted" => ~row.late
      PROVE  SignOnInv'
  <2>1. \A d \in Uses : use'[d] = IF d = c THEN row ELSE use[d]
    BY <1>1, <1>2
  <2>2. SingleSignOnTypeOK'
    BY <1>1, <1>2, <2>1 DEF SignOnInv, SingleSignOnTypeOK, Created
  <2>3. CallsRemember'
    BY <1>2, <2>1 DEF SignOnInv, CallsRemember, Ended, vars
  <2> QED BY <1>2, <2>2, <2>3
         DEF SignOnInv, GrantKeepsItsSession, FlowsNameRows, ProvidersNameGrants,
             TokensNameSessions, HasRow, Created, vars
<1>3. ASSUME NEW step \in UseSteps, use' = [use EXCEPT ![c].step = step],
             use[c].step # "idle", step # "session",
             UNCHANGED <<vars, grant, token, provider, flow, revocations, consent>>,
             step = "accepted" => ~use[c].late
      PROVE  SignOnInv'
  <2> DEFINE row == [use[c] EXCEPT !.step = step]
  <2>1. /\ row \in UseRows /\ row.step = step /\ row.token = use[c].token
        /\ row.late = use[c].late
    BY <1>1 DEF UseRows
  <2>2. use' = [use EXCEPT ![c] = row]
    BY <1>3
  <2>3. /\ row.token \in TokenIds /\ token[row.token].state # "free"
        /\ row.late => Ended(token[row.token].by)
    BY <1>3, <2>1 DEF SignOnInv, SingleSignOnTypeOK, CallsRemember
  <2> HIDE DEF row
  <2> QED BY <1>2, <1>3, <2>1, <2>2, <2>3
<1>4. ASSUME NEW t \in TokenIds, PresentToken(c, t) PROVE SignOnInv'
  <2> DEFINE row == [step |-> "account", token |-> t, session |-> NoSession,
                     late |-> session[token[t].by].state \notin {"free", "held"}]
  <2>1. /\ row \in UseRows /\ row.step = "account" /\ row.token = t
        /\ row.late => Ended(token[t].by)
    BY DEF UseRows, UseSteps, OneOfSessions, Ended
  <2>2. /\ use' = [use EXCEPT ![c] = row] /\ token[t].state = "stored"
        /\ UNCHANGED <<vars, grant, token, provider, flow, revocations, consent>>
    BY <1>4 DEF PresentToken
  <2> HIDE DEF row
  <2> QED BY <1>2, <2>1, <2>2
<1>5. CASE FindAccount(c)
  BY <1>3, <1>5 DEF FindAccount, UseSteps
<1>6. CASE FindGrant(c)
  <2> DEFINE g == token[use[c].token].grant
  <2>1. CASE Stored(g) /\ grant[g].session # NoSession
    <3> DEFINE row == [use[c] EXCEPT !.step = "session", !.session = grant[g].session]
    <3>1. /\ use[c].token \in TokenIds /\ token[use[c].token].state # "free"
          /\ g \in GrantIds /\ token[use[c].token].by = grant[g].by
          /\ grant[g].session = grant[g].by
          /\ use[c].late => Ended(token[use[c].token].by)
      BY <1>6, <2>1
         DEF FindGrant, SignOnInv, SingleSignOnTypeOK, GrantKeepsItsSession, CallsRemember,
             Created
    <3>2. grant[g].session \in OneOfSessions /\ use[c] \in UseRows
      BY <1>1, <3>1 DEF Grants
    <3>3. /\ row \in UseRows /\ row.step = "session" /\ row.token = use[c].token
          /\ row.session = grant[g].session /\ row.late = use[c].late
      BY <3>2 DEF UseRows, UseSteps
    <3>4. /\ use' = [use EXCEPT ![c] = row]
          /\ UNCHANGED <<vars, grant, token, provider, flow, revocations, consent>>
      BY <1>6, <2>1 DEF FindGrant
    <3> HIDE DEF row, g
    <3> QED BY <1>2, <3>1, <3>3, <3>4
  <2>2. CASE ~(Stored(g) /\ grant[g].session # NoSession)
    BY <1>3, <1>6, <2>2 DEF FindGrant, UseSteps
  <2> QED BY <2>1, <2>2
<1>7. CASE FindSession(c)
  <2>1. Resolves(use[c].session) => ~use[c].late
    BY <1>7 DEF FindSession, Resolves, SignOnInv, CallsRemember, Ended
  <2> QED BY <1>3, <1>7, <2>1 DEF FindSession, UseSteps
<1>8. CASE StoreToken(c)
  <2> DEFINE d == use[c].token
  <2>1. PICK t \in TokenIds, kind \in {"exchange", "access"} :
          /\ token[t].state = "free"
          /\ token' = [token EXCEPT ![t] =
               [state |-> "stored", kind |-> kind, grant |-> token[d].grant,
                by |-> token[d].by]]
    BY <1>8 DEF StoreToken
  <2>2. UNCHANGED <<vars, grant, provider, flow, use, revocations, consent>>
    BY <1>8 DEF StoreToken
  <2>3. /\ d \in TokenIds /\ token[d].state # "free" /\ Created(token[d].grant)
        /\ token[d].by # NoSession /\ token[d].by = grant[token[d].grant].by
        /\ token[d] \in Tokens
    BY <1>1, <1>8
       DEF StoreToken, SignOnInv, SingleSignOnTypeOK, TokensNameSessions, GrantKeepsItsSession
  <2>4. /\ token' \in [TokenIds -> Tokens]
        /\ \A e \in TokenIds : e # t => token'[e] = token[e]
        /\ token'[t].state = "stored" /\ token'[t].grant = token[d].grant
        /\ token'[t].by = token[d].by
    BY <1>1, <2>1, <2>3 DEF Tokens, PayloadStates
  <2>5. \A e \in Uses : use[e].step # "idle" => use[e].token # t
    BY <2>1 DEF SignOnInv, SingleSignOnTypeOK
  <2> HIDE DEF d
  <2>6. SingleSignOnTypeOK'
    BY <2>2, <2>3, <2>4 DEF SignOnInv, SingleSignOnTypeOK, Created
  <2>7. GrantKeepsItsSession'
    BY <2>2, <2>3, <2>4 DEF SignOnInv, GrantKeepsItsSession
  <2>8. FlowsNameRows' /\ ProvidersNameGrants'
    BY <2>2 DEF SignOnInv, FlowsNameRows, ProvidersNameGrants, HasRow, Created, vars
  <2>9. TokensNameSessions'
    BY <2>3, <2>4 DEF SignOnInv, TokensNameSessions
  <2>10. CallsRemember'
    BY <2>2, <2>4, <2>5 DEF SignOnInv, CallsRemember, SingleSignOnTypeOK, Ended, vars
  <2> QED BY <2>6, <2>7, <2>8, <2>9, <2>10 DEF SignOnInv
<1>9. CASE Reply(c)
  <2>1. NoUse \in UseRows
    BY DEF NoUse, UseRows, UseSteps, OneOfSessions
  <2> QED BY <1>2, <1>9, <2>1 DEF Reply, NoUse
<1> QED BY <1>4, <1>5, <1>6, <1>7, <1>8, <1>9 DEF UseStep

LEMMA RevocationTypes ==
  ASSUME TypeInv, SignOnInv
  PROVE  /\ \A s \in SessionIds : RevokeForSession(s) \in Revocations
         /\ \A u \in Users, except \in OneOfSessions : RevokeForUser(u, except) \in Revocations
         /\ \A r \in Requests : Published(r) \subseteq Revocations
<1>1. \A s \in SessionIds : RevokeForSession(s) \in Revocations
  BY DEF RevokeForSession, Revocations, OneOfSessions
<1>2. \A u \in Users, except \in OneOfSessions : RevokeForUser(u, except) \in Revocations
  BY DEF RevokeForUser, Revocations
<1>3. ASSUME NEW r \in Requests PROVE Published(r) \subseteq Revocations
  <2>1. req[r].step = "endSession" => req[r].target \in SessionIds
    BY DEF TypeInv, References, HandlersNameRows, TargetSteps, HasRow
  <2>2. req[r].step = "cutOff" => req[r].user \in Users
    BY DEF TypeInv, References, HandlersNameRows, UserSteps
  <2>3. req[r].old \in OneOfSessions
    BY DEF TypeInv, TypeOK, Handlers, OneOfSessions
  <2> QED BY <1>1, <1>2, <2>1, <2>2, <2>3 DEF Published
<1> QED BY <1>1, <1>2, <1>3

LEMMA SignOnInvRevocationStep ==
  ASSUME TypeInv, SignOnInv,
         RemoveExpired \/ \E j \in revocations : RevocationStep(j)
  PROVE  SignOnInv'
<1> USE SessionsAssumption, SingleSignOnAssumption
<1>1. revocations \subseteq Revocations /\ grant \in [GrantIds -> Grants]
      /\ consent \in [Users -> BOOLEAN] /\ provider \in [Browsers -> ProviderSessions]
  BY DEF SignOnInv, SingleSignOnTypeOK
<1>2. \A s \in SessionIds : vars' = vars => (HasRow(s) => HasRow(s)') /\ (Ended(s) => Ended(s)')
  BY DEF vars, HasRow, Ended
<1>3. CASE RemoveExpired
  <2>1. revocations' \subseteq Revocations
    <3>1. PICK linked : /\ linked = {grant[g].session : g \in {h \in GrantIds : Stored(h)}} \ {NoSession}
                        /\ revocations' = revocations \union
                            {[RevokeForUser(NoUser, NoSession) EXCEPT !.step = "live",
                                !.hourly = TRUE, !.signOut = FALSE, !.sessions = linked]}
      BY <1>3 DEF RemoveExpired
    <3>2. linked \subseteq SessionIds
      BY <1>1, <3>1 DEF Grants, OneOfSessions
    <3>3. [RevokeForUser(NoUser, NoSession) EXCEPT !.step = "live", !.hourly = TRUE,
             !.signOut = FALSE, !.sessions = linked] \in Revocations
      BY <3>2 DEF RevokeForUser, Revocations, OneOfSessions
    <3> QED BY <1>1, <3>1, <3>3
  <2> QED BY <1>1, <1>2, <1>3, <2>1, RowsUnchanged DEF RemoveExpired
<1>4. ASSUME NEW j \in revocations, FindEndedSessions(j) PROVE SignOnInv'
  <2>1. revocations' \subseteq Revocations
    <3>1. j \in Revocations
      BY <1>1
    <3>2. \A ended \in SUBSET j.sessions :
            [j EXCEPT !.step = "find", !.sessions = ended] \in Revocations
      BY <3>1 DEF Revocations
    <3>3. PICK ended \in SUBSET j.sessions :
            Replace(j, {}) \/ Replace(j, {[j EXCEPT !.step = "find", !.sessions = ended]})
      BY <1>4 DEF FindEndedSessions
    <3> QED BY <1>1, <3>2, <3>3 DEF Replace
  <2> QED BY <1>1, <1>2, <1>4, <2>1, RowsUnchanged DEF FindEndedSessions
<1>5. ASSUME NEW j \in revocations, FindGrants(j) PROVE SignOnInv'
  <2>1. revocations' \subseteq Revocations
    <3>1. j \in Revocations
      BY <1>1
    <3>2. /\ \A found \in SUBSET GrantIds :
                [j EXCEPT !.step = "delete", !.found = found] \in Revocations
          /\ [j EXCEPT !.step = "signOut"] \in Revocations
      BY <3>1 DEF Revocations
    <3>3. PICK found \in SUBSET GrantIds :
            \/ Replace(j, {[j EXCEPT !.step = "delete", !.found = found]})
            \/ Replace(j, {[j EXCEPT !.step = "signOut"]})
            \/ Replace(j, {})
      BY <1>5 DEF FindGrants
    <3> QED BY <1>1, <3>2, <3>3 DEF Replace
  <2> QED BY <1>1, <1>2, <1>5, <2>1, RowsUnchanged DEF FindGrants
<1>6. ASSUME NEW j \in revocations, DeleteGrants(j) PROVE SignOnInv'
  <2>1. revocations' \subseteq Revocations
    BY <1>1, <1>6 DEF DeleteGrants, Replace, Revocations
  <2> QED BY <1>6, <2>1, RowsDeleted DEF DeleteGrants
<1>7. ASSUME NEW j \in revocations, DeleteProviderSessions(j) PROVE SignOnInv'
  <2>1. revocations' \subseteq Revocations
    BY <1>1, <1>7 DEF DeleteProviderSessions, Replace
  <2>2. \A b \in Browsers : provider'[b] \in {provider[b], SignedOut}
    BY <1>7 DEF DeleteProviderSessions
  <2>3. provider' \in [Browsers -> ProviderSessions]
    BY <1>1, <1>7 DEF DeleteProviderSessions, ProviderSessions, SignedOut, OneOfGrants
  <2> QED BY <1>1, <1>2, <1>7, <2>1, <2>2, <2>3, RowsUnchanged DEF DeleteProviderSessions
<1> QED BY <1>3, <1>4, <1>5, <1>6, <1>7 DEF RevocationStep

LEMMA SignOnInvStep == TypeInv /\ SignOnInv /\ [SingleSignOnNext]_allVars => SignOnInv'
<1> SUFFICES ASSUME TypeInv, SignOnInv, [SingleSignOnNext]_allVars PROVE SignOnInv'
  OBVIOUS
<1> USE SessionsAssumption, SingleSignOnAssumption
<1>1. \A s \in SessionIds : (HasRow(s) => HasRow(s)') /\ (Ended(s) => Ended(s)')
  BY StepOfSessions, EndedStaysEnded
<1>2. /\ grant \in [GrantIds -> Grants] /\ token \in [TokenIds -> Tokens]
      /\ provider \in [Browsers -> ProviderSessions]
      /\ flow \in [Flows -> FlowRows] /\ use \in [Uses -> UseRows]
      /\ revocations \subseteq Revocations /\ consent \in [Users -> BOOLEAN]
  BY DEF SignOnInv, SingleSignOnTypeOK
<1>3. CASE SessionsStep
  <2>1. UNCHANGED <<grant, token, provider, flow, use, consent>>
    BY <1>3 DEF SessionsStep, ssoVars
  <2>2. revocations' \subseteq Revocations
    BY <1>2, <1>3, RevocationTypes DEF SessionsStep, ssoVars
  <2> QED BY <1>1, <1>2, <2>1, <2>2, RowsUnchanged
<1>4. ASSUME NEW r \in Requests, NEW b \in Browsers, EndProviderSession(r, b)
      PROVE  SignOnInv'
  <2>1. provider' \in [Browsers -> ProviderSessions]
    BY <1>2, <1>4 DEF EndProviderSession, ProviderSessions, SignedOut, OneOfGrants
  <2>2. \A a \in Browsers : provider'[a] \in {provider[a], SignedOut}
    BY <1>2, <1>4 DEF EndProviderSession
  <2> QED BY <1>1, <1>2, <1>4, <2>1, <2>2, RowsUnchanged DEF EndProviderSession
<1>5. ASSUME NEW u \in Users, DisconnectApp(u) PROVE SignOnInv'
  <2>1. [RevokeForUser(u, NoSession) EXCEPT !.signOut = FALSE] \in Revocations
    <3>1. RevokeForUser(u, NoSession) \in Revocations
      BY RevocationTypes DEF OneOfSessions
    <3> QED BY <3>1 DEF Revocations
  <2> QED BY <1>1, <1>2, <1>5, <2>1, RowsUnchanged DEF DisconnectApp
<1>6. ASSUME NEW t \in TokenIds, PresentConsumedToken(t) PROVE SignOnInv'
  BY <1>2, <1>6, RowsDeleted DEF PresentConsumedToken
<1>7. ASSUME NEW t \in TokenIds, ExpireToken(t) PROVE SignOnInv'
  <2>1. /\ token' \in [TokenIds -> Tokens]
        /\ \A d \in TokenIds : /\ token'[d].grant = token[d].grant
                               /\ token'[d].by = token[d].by
                               /\ token'[d].state = "free" <=> token[d].state = "free"
        /\ UNCHANGED <<vars, grant, provider, flow, use, revocations, consent>>
    BY <1>2, <1>7 DEF ExpireToken, Tokens, PayloadStates
  <2> QED BY <1>2, <2>1
         DEF SignOnInv, SingleSignOnTypeOK, GrantKeepsItsSession, FlowsNameRows,
             ProvidersNameGrants, TokensNameSessions, CallsRemember, Created, HasRow, Ended, vars
<1>8. ASSUME NEW g \in GrantIds, ExpireGrant(g) PROVE SignOnInv'
  <2>1. /\ grant' \in [GrantIds -> Grants]
        /\ \A h \in GrantIds : /\ grant'[h].user = grant[h].user
                               /\ grant'[h].session = grant[h].session
                               /\ grant'[h].by = grant[h].by
                               /\ grant'[h].state = "free" <=> grant[h].state = "free"
        /\ UNCHANGED <<vars, token, provider, flow, use, revocations, consent>>
    BY <1>2, <1>8 DEF ExpireGrant, Grants, PayloadStates
  <2>2. \A h : Created(h)' <=> Created(h)
    BY <2>1 DEF Created
  <2>3. SingleSignOnTypeOK'
    BY <1>2, <2>1, <2>2 DEF SignOnInv, SingleSignOnTypeOK
  <2>4. GrantKeepsItsSession'
    BY <2>1 DEF SignOnInv, SingleSignOnTypeOK, GrantKeepsItsSession, FlowsNameRows, Created
  <2> QED BY <2>1, <2>2, <2>3, <2>4
         DEF SignOnInv, FlowsNameRows, ProvidersNameGrants, TokensNameSessions, CallsRemember,
             HasRow, Ended, vars
<1>9. CASE CrashAll
  <2>1. /\ flow' \in [Flows -> FlowRows]
        /\ \A f \in Flows : flow'[f] \in {flow[f], NoFlow}
    BY <1>2, <1>9 DEF CrashAll, NoFlow, FlowRows, FlowSteps, OneOfSessions, OneOfGrants
  <2>2. /\ use' \in [Uses -> UseRows]
        /\ \A c \in Uses : use'[c] = NoUse
    BY <1>9 DEF CrashAll, NoUse, UseRows, UseSteps, OneOfSessions
  <2>3. UNCHANGED <<grant, token, provider, consent>> /\ revocations' = {}
    BY <1>9 DEF CrashAll
  <2>4. SingleSignOnTypeOK'
    BY <1>2, <2>1, <2>2, <2>3 DEF SignOnInv, SingleSignOnTypeOK, Created, NoFlow, NoUse
  <2>5. GrantKeepsItsSession' /\ ProvidersNameGrants' /\ TokensNameSessions'
    BY <2>1, <2>3
       DEF SignOnInv, GrantKeepsItsSession, ProvidersNameGrants, TokensNameSessions, Created,
           NoFlow
  <2>6. FlowsNameRows'
    <3>1. \A s : HasRow(s) => HasRow(s)'
      BY <1>1 DEF HasRow
    <3>2. \A g : Created(g)' <=> Created(g)
      BY <2>3 DEF Created
    <3>3. ASSUME NEW f \in Flows PROVE flow'[f] = flow[f] \/ flow'[f] = NoFlow
      BY <2>1
    <3> QED BY <3>1, <3>2, <3>3
           DEF SignOnInv, FlowsNameRows, NoFlow, SignedInSteps, GrantlessSteps
  <2>7. CallsRemember'
    BY <2>2 DEF CallsRemember, NoUse
  <2> QED BY <2>4, <2>5, <2>6, <2>7 DEF SignOnInv
<1>10. CASE UNCHANGED allVars
  BY <1>1, <1>2, <1>10, RowsUnchanged DEF allVars, ssoVars
<1> QED
  BY <1>3, <1>4, <1>5, <1>6, <1>7, <1>8, <1>9, <1>10, SignOnInvFlowStep, SignOnInvUseStep,
     SignOnInvRevocationStep
     DEF SingleSignOnNext

LEMMA SignOnInvariant == SingleSignOnSpec => [](TypeInv /\ SignOnInv)
<1>1. Spec => []TypeInv
  BY TypeInvariant
<1> QED BY <1>1, SessionsUnderSingleSignOn, SignOnInvInit, SignOnInvStep, PTL DEF SingleSignOnSpec

\* The state is well typed, and every step of a sign-in or a call finds the rows
\* it relies on (SingleSignOnTypeOK).
THEOREM SingleSignOnTypeCorrect == SingleSignOnSpec => []SingleSignOnTypeOK
<1>1. SignOnInv => SingleSignOnTypeOK
  BY DEF SignOnInv
<1> QED BY <1>1, SignOnInvariant, PTL

\* A grant never changes hands (GrantKeepsItsSession): with any number of
\* sign-ins, logins and revocations in flight, the session behind a grant, its
\* sign-ins and its tokens is the one that created it.
THEOREM GrantsKeepTheirSession == SingleSignOnSpec => []GrantKeepsItsSession
<1>1. SignOnInv => GrantKeepsItsSession
  BY DEF SignOnInv
<1> QED BY <1>1, SignOnInvariant, PTL

-----------------------------------------------------------------------------
(* Refinement of SessionBoundAccess.                                         *)

\* What the steps of the provider other than the calls do to the abstract state.
LEMMA AbstractFrame ==
  ASSUME UNCHANGED <<use>>,
         \A t \in TokenIds : token'[t].by = token[t].by,
         EndedSessions \subseteq EndedSessions'
  PROVE  Access!EndSessions
<1>1. Issuers' = Issuers /\ CallStates' = CallStates /\ EndedSessions' \in SUBSET SessionIds
  BY DEF Issuers, CallStates, EndedSessions
<1> QED BY <1>1 DEF Access!EndSessions

LEMMA AccessInit == SingleSignOnInit => Access!Init
BY DEF SingleSignOnInit, Init, NoRow, FreeToken, NoUse, Access!Init, Access!NoCall,
       EndedSessions, Issuers, CallStates

LEMMA AccessUseStep ==
  ASSUME TypeInv, SignOnInv, NEW c \in Uses, UseStep(c)
  PROVE  [Access!Next]_(Access!vars)
<1> USE SessionsAssumption, SingleSignOnAssumption
<1>1. use \in [Uses -> UseRows] /\ token \in [TokenIds -> Tokens]
  BY DEF SignOnInv, SingleSignOnTypeOK
<1>2. EndedSessions' = EndedSessions
  BY DEF UseStep, PresentToken, FindAccount, FindGrant, FindSession, StoreToken, Reply, vars,
         EndedSessions
\* Every other call is left alone.
<1>3. ASSUME NEW row, use' = [use EXCEPT ![c] = row]
      PROVE  CallStates' = [CallStates EXCEPT ![c] =
               [state |-> IF row.step \in {"account", "grant", "session"} THEN "asked"
                          ELSE row.step,
                late |-> row.late]]
  BY <1>1, <1>3 DEF CallStates
<1>4. ASSUME NEW t \in TokenIds, PresentToken(c, t) PROVE Access!Ask(c, t)
  <2> DEFINE row == [step |-> "account", token |-> t, session |-> NoSession,
                     late |-> session[token[t].by].state \notin {"free", "held"}]
  <2>1. token[t].by # NoSession /\ token[t].by \in SessionIds
    BY <1>1, <1>4
       DEF PresentToken, SignOnInv, TokensNameSessions, Tokens, OneOfSessions
  <2>2. row.step = "account" /\ row.late = (token[t].by \in EndedSessions)
    BY <2>1 DEF EndedSessions
  <2>3. use' = [use EXCEPT ![c] = row]
    BY <1>4 DEF PresentToken
  <2> HIDE DEF row
  <2>4. CallStates' = [CallStates EXCEPT ![c] =
          [state |-> "asked", late |-> token[t].by \in EndedSessions]]
    BY <1>3, <2>2, <2>3
  <2>5. use[c].step = "idle" /\ use[c].late = FALSE
    BY <1>4 DEF PresentToken, NoUse
  <2>6. CallStates[c] = [state |-> "idle", late |-> FALSE]
    BY <2>5 DEF CallStates
  <2>7. Issuers' = Issuers /\ Issuers[t] = token[t].by
    BY <1>4 DEF PresentToken, Issuers
  <2> QED BY <1>2, <2>1, <2>4, <2>6, <2>7 DEF Access!Ask, Access!NoCall
\* The steps that only move the call on.
<1>5. ASSUME NEW step, use' = [use EXCEPT ![c].step = step], token' = token,
             use[c].step \in {"account", "grant", "session"},
             step \in {"account", "grant", "session", "accepted", "refused"},
             step = "accepted" => ~use[c].late
      PROVE  [Access!Next]_(Access!vars)
  <2>1. Issuers' = Issuers /\ CallStates[c].state = "asked" /\ CallStates[c].late = use[c].late
    BY <1>5 DEF Issuers, CallStates
  <2>2. CASE step \in {"account", "grant", "session"}
    <3>1. CallStates' = CallStates
      BY <1>1, <1>5, <2>2 DEF CallStates
    <3> QED BY <1>2, <2>1, <3>1 DEF Access!vars
  <2>3. CASE step \in {"accepted", "refused"}
    <3>1. CallStates' = [CallStates EXCEPT ![c].state = step]
      <4>1. \A d \in Uses : /\ use'[d].late = use[d].late
                            /\ use'[d].step = IF d = c THEN step ELSE use[d].step
        BY <1>1, <1>5 DEF UseRows
      <4> QED BY <2>3, <4>1 DEF CallStates
    <3> QED BY <1>2, <1>5, <2>1, <2>3, <3>1 DEF Access!Next, Access!Accept, Access!Refuse
  <2> QED BY <1>5, <2>2, <2>3
<1>6. CASE FindAccount(c)
  <2>1. PICK step \in {"grant", "refused"} : use' = [use EXCEPT ![c].step = step]
    BY <1>6 DEF FindAccount
  <2> QED BY <1>5, <1>6, <2>1 DEF FindAccount
<1>7. CASE FindGrant(c)
  <2>1. CASE use' = [use EXCEPT ![c].step = "refused"]
    <3>1. use[c].step = "grant" /\ token' = token
      BY <1>7 DEF FindGrant
    <3>2. PICK step \in {"refused"} : use' = [use EXCEPT ![c].step = step]
      BY <2>1
    <3> QED BY <1>5, <3>1, <3>2
  <2>2. ASSUME NEW s, use' = [use EXCEPT ![c].step = "session", ![c].session = s]
        PROVE  [Access!Next]_(Access!vars)
    <3>1. CallStates' = CallStates
      <4>1. \A d \in Uses : /\ use'[d].late = use[d].late
                            /\ use'[d].step = IF d = c THEN "session" ELSE use[d].step
        BY <1>1, <2>2 DEF UseRows
      <4>2. use[c].step = "grant"
        BY <1>7 DEF FindGrant
      <4> QED BY <4>1, <4>2 DEF CallStates
    <3>2. Issuers' = Issuers
      BY <1>7 DEF FindGrant, Issuers
    <3> QED BY <1>2, <3>1, <3>2 DEF Access!vars
  <2> QED BY <1>7, <2>1, <2>2 DEF FindGrant
<1>8. CASE FindSession(c)
  \* The session it resolves is held, so it had not ended when the call began.
  <2>1. Resolves(use[c].session) => ~use[c].late
    BY <1>8 DEF FindSession, Resolves, SignOnInv, CallsRemember, Ended
  <2> QED BY <1>5, <1>8, <2>1 DEF FindSession
<1>9. CASE StoreToken(c)
  <2>1. PICK t \in TokenIds, kind \in {"exchange", "access"} :
          /\ token[t].state = "free"
          /\ token' = [token EXCEPT ![t] =
               [state |-> "stored", kind |-> kind, grant |-> token[use[c].token].grant,
                by |-> token[use[c].token].by]]
    BY <1>9 DEF StoreToken
  <2>2. /\ token[use[c].token].by \in SessionIds
        /\ token[t].by = NoSession
    BY <1>1, <1>9, <2>1
       DEF StoreToken, SignOnInv, SingleSignOnTypeOK, TokensNameSessions, Tokens, OneOfSessions
  <2>3. Issuers[t] = NoSession /\ Issuers' = [Issuers EXCEPT ![t] = token[use[c].token].by]
    BY <1>1, <2>1, <2>2 DEF Issuers
  <2>4. CallStates' = CallStates
    BY <1>9 DEF StoreToken, CallStates
  <2> QED BY <1>2, <2>2, <2>3, <2>4 DEF Access!Next, Access!Issue
<1>10. CASE Reply(c)
  <2>1. CallStates[c].state \in {"accepted", "refused"} /\ Issuers' = Issuers
    BY <1>10 DEF Reply, CallStates, Issuers
  <2>2. CallStates' = [CallStates EXCEPT ![c] = [state |-> "idle", late |-> FALSE]]
    <3>1. use' = [use EXCEPT ![c] = NoUse]
      BY <1>10 DEF Reply
    <3>2. NoUse.step = "idle" /\ NoUse.late = FALSE
      BY DEF NoUse
    <3> QED BY <1>3, <3>1, <3>2
  <2> QED BY <1>2, <2>1, <2>2 DEF Access!Next, Access!Answer, Access!NoCall
<1> QED BY <1>4, <1>6, <1>7, <1>8, <1>9, <1>10 DEF UseStep, Access!Next

LEMMA AccessFlowStep ==
  ASSUME TypeInv, SignOnInv, NEW f \in Flows, FlowStep(f)
  PROVE  Access!Next
<1> USE SessionsAssumption, SingleSignOnAssumption
<1>1. EndedSessions' = EndedSessions /\ CallStates' = CallStates
  BY DEF FlowStep, Authorize, CheckSession, CheckGrant, LoadInteraction, AbortInteraction,
         FinishLookup, DiscardOldGrant, SaveGrant, LinkToSession, RecordConsent,
         ResumeAuthorization, IssueCode, vars, EndedSessions, CallStates
<1>2. token \in [TokenIds -> Tokens]
  BY DEF SignOnInv, SingleSignOnTypeOK
<1>3. CASE IssueCode(f)
  <2>1. PICK t \in TokenIds :
          /\ token[t].state = "free"
          /\ token' = [token EXCEPT ![t] =
               [state |-> "stored", kind |-> "exchange",
                grant |-> flow[f].grant, by |-> flow[f].session]]
    BY <1>3 DEF IssueCode
  <2>2. flow[f].session \in SessionIds /\ token[t].by = NoSession
    BY <1>3, <2>1
       DEF IssueCode, SignOnInv, FlowsNameRows, SignedInSteps, HasRow, TokensNameSessions
  <2>3. Issuers[t] = NoSession /\ Issuers' = [Issuers EXCEPT ![t] = flow[f].session]
    BY <1>2, <2>1, <2>2 DEF Issuers
  <2> QED BY <1>1, <2>2, <2>3 DEF Access!Next, Access!Issue
<1>4. CASE ~IssueCode(f)
  <2>1. \A t \in TokenIds : token'[t].by = token[t].by
    BY <1>2, <1>4
       DEF FlowStep, Authorize, CheckSession, CheckGrant, LoadInteraction, AbortInteraction,
           FinishLookup, DiscardOldGrant, SaveGrant, LinkToSession, RecordConsent,
           ResumeAuthorization, DeleteByGrantId, Tokens
  <2>2. Issuers' = Issuers
    BY <2>1 DEF Issuers
  <2> QED BY <1>1, <2>2 DEF Access!Next, Access!EndSessions, EndedSessions
<1> QED BY <1>3, <1>4

LEMMA AccessStep ==
  TypeInv /\ SignOnInv /\ [SingleSignOnNext]_allVars => [Access!Next]_(Access!vars)
<1> SUFFICES ASSUME TypeInv, SignOnInv, [SingleSignOnNext]_allVars
             PROVE  [Access!Next]_(Access!vars)
  OBVIOUS
<1>1. EndedSessions \subseteq EndedSessions'
  BY StepOfSessions, EndedStaysEnded DEF EndedSessions, Ended
<1>2. token \in [TokenIds -> Tokens]
  BY DEF SignOnInv, SingleSignOnTypeOK
<1>3. ASSUME use' = use, \A t \in TokenIds : token'[t].by = token[t].by
      PROVE  Access!Next
  BY <1>1, <1>3, AbstractFrame DEF Access!Next
<1>4. CASE SessionsStep
  BY <1>3, <1>4 DEF SessionsStep, ssoVars
<1>5. ASSUME NEW r \in Requests, NEW b \in Browsers, EndProviderSession(r, b)
      PROVE  Access!Next
  BY <1>3, <1>5 DEF EndProviderSession
<1>6. ASSUME NEW j \in revocations, RevocationStep(j) PROVE Access!Next
  <2>1. use' = use /\ \A t \in TokenIds : token'[t].by = token[t].by
    <3>1. CASE DeleteGrants(j)
      BY <1>2, <3>1 DEF DeleteGrants, DeleteByGrantId, Tokens
    <3>2. CASE ~DeleteGrants(j)
      BY <1>6, <3>2 DEF RevocationStep, FindEndedSessions, FindGrants, DeleteProviderSessions
    <3> QED BY <3>1, <3>2
  <2> QED BY <1>3, <2>1
<1>7. CASE RemoveExpired \/ \E u \in Users : DisconnectApp(u)
  BY <1>3, <1>7 DEF RemoveExpired, DisconnectApp
<1>8. ASSUME NEW t \in TokenIds, PresentConsumedToken(t) \/ ExpireToken(t) PROVE Access!Next
  <2>1. use' = use /\ \A d \in TokenIds : token'[d].by = token[d].by
    BY <1>2, <1>8 DEF PresentConsumedToken, ExpireToken, DeleteByGrantId, Tokens
  <2> QED BY <1>3, <2>1
<1>9. ASSUME NEW g \in GrantIds, ExpireGrant(g) PROVE Access!Next
  BY <1>3, <1>9 DEF ExpireGrant
<1>10. CASE CrashAll
  <2>1. /\ CallStates' = [c \in Uses |-> [state |-> "idle", late |-> FALSE]]
        /\ Issuers' = Issuers /\ EndedSessions' = EndedSessions
    BY <1>10 DEF CrashAll, Crash, NoUse, CallStates, Issuers, EndedSessions
  <2> QED BY <2>1 DEF Access!Next, Access!BreakOff, Access!NoCall
<1>11. CASE UNCHANGED allVars
  BY <1>3, <1>11 DEF allVars, ssoVars
<1> QED
  BY <1>4, <1>5, <1>6, <1>7, <1>8, <1>9, <1>10, <1>11, AccessUseStep, AccessFlowStep
     DEF SingleSignOnNext

\* ImplementsAccess: an application that presents a code or a token after the
\* session it was issued from has ended is refused, with any number of sessions,
\* sign-ins, calls, revocations and crashes.
THEOREM SingleSignOnImplementsAccess == SingleSignOnSpec => ImplementsAccess
<1>1. SingleSignOnInit => Access!Init
  BY AccessInit
<1>2. TypeInv /\ SignOnInv /\ [SingleSignOnNext]_allVars => [Access!Next]_(Access!vars)
  BY AccessStep
<1> QED BY <1>1, <1>2, SignOnInvariant, PTL
       DEF SingleSignOnSpec, ImplementsAccess, Access!Spec
=============================================================================
