---------------------------- MODULE SingleSignOn ----------------------------
(***************************************************************************)
(* The OpenID Connect provider of the platform, on top of Sessions: one    *)
(* client application, the grants that tie its tokens to a browser session *)
(* (OidcGrantsService), the interaction that creates them                  *)
(* (OidcInteractionsService), the checks the provider is given             *)
(* (OidcProviderService) and the revocations that the events of Sessions,  *)
(* the list of connected apps and the hourly job start.                    *)
(*                                                                         *)
(* All models of the provider library are rows of one table, OidcPayload:  *)
(* here the grants, the codes and tokens, and the library's own browser    *)
(* sessions.  The library's steps are modelled as far as the configuration *)
(* and the adapter of the repository determine them.                       *)
(***************************************************************************)
EXTENDS Sessions

CONSTANTS
  GrantIds, TokenIds,  \* identifiers of the rows, each used once
  Flows,               \* authorization requests running concurrently
  Uses,                \* requests of the application that present a token
  NoGrant, NoToken

ASSUME SingleSignOnAssumption ==
  /\ NoGrant \notin GrantIds
  /\ NoToken \notin TokenIds

VARIABLES
  grant,       \* Grant rows
  token,       \* AuthorizationCode, RefreshToken and AccessToken rows
  provider,    \* the provider's browser sessions: account and grant
  flow,        \* authorization requests and their interactions in flight
  use,         \* token and userinfo requests in flight
  revocations, \* runs of revoke() in flight
  consent      \* OidcConsent rows

ssoVars == <<grant, token, provider, flow, use, revocations, consent>>
allVars == <<vars, ssoVars>>

-----------------------------------------------------------------------------
OneOfSessions == SessionIds \union {NoSession}
OneOfGrants == GrantIds \union {NoGrant}
PayloadStates == {"free", "stored", "gone"}

\* `session` is the column aspSessionId, null until linkToSession; `by` is
\* history: the session that created the grant.
Grants == [state : PayloadStates, user : Users \union {NoUser},
           session : OneOfSessions, by : OneOfSessions]
FreeGrant == [state |-> "free", user |-> NoUser, session |-> NoSession, by |-> NoSession]

\* An exchange token is a code or a refresh token; `by` is history: the session
\* that was signed in when the code was issued.
Tokens == [state : PayloadStates, kind : {"exchange", "access"},
           grant : OneOfGrants, by : OneOfSessions]
FreeToken == [state |-> "free", kind |-> "exchange", grant |-> NoGrant, by |-> NoSession]

ProviderSessions == [user : Users \union {NoUser}, grant : OneOfGrants]
SignedOut == [user |-> NoUser, grant |-> NoGrant]

FlowSteps == {"idle", "checkSession", "checkGrant", "interact", "lookup", "discard",
              "save", "link", "consent", "resume", "issue"}
FlowRows == [step : FlowSteps, browser : Browsers \union {NoBrowser},
             session : OneOfSessions,  \* the session the request came with
             old : OneOfGrants,        \* grant of the provider session, details.grantId
             grant : OneOfGrants]      \* grant the code will be issued from
NoFlow == [step |-> "idle", browser |-> NoBrowser, session |-> NoSession,
           old |-> NoGrant, grant |-> NoGrant]

UseSteps == {"idle", "account", "grant", "session", "accepted", "refused"}
UseRows == [step : UseSteps, token : TokenIds \union {NoToken},
            session : OneOfSessions,  \* aspSessionId, once it is read
            late : BOOLEAN]           \* history: the token's session had ended at the start
NoUse == [step |-> "idle", token |-> NoToken, session |-> NoSession, late |-> FALSE]

\* One run of revoke(): the grants of some sessions, or of a user except those
\* of one session.  The hourly job starts at "live", its query of the sessions.
Revocations == [step : {"live", "find", "delete", "signOut"}, hourly : BOOLEAN,
                sessions : SUBSET SessionIds, user : Users \union {NoUser},
                except : OneOfSessions, signOut : BOOLEAN, found : SUBSET GrantIds]

Created(g) == g \in GrantIds /\ grant[g].state # "free"

\* Types, and what a step relies on: a sign-in past save() has its grant, a
\* token was issued from one, and a call presents a token.
SingleSignOnTypeOK ==
  /\ grant \in [GrantIds -> Grants]
  /\ token \in [TokenIds -> Tokens]
  /\ provider \in [Browsers -> ProviderSessions]
  /\ flow \in [Flows -> FlowRows]
  /\ use \in [Uses -> UseRows]
  /\ revocations \subseteq Revocations
  /\ consent \in [Users -> BOOLEAN]
  /\ \A g \in GrantIds : grant[g].state # "free" => grant[g].user \in Users
  /\ \A t \in TokenIds : token[t].state # "free" => Created(token[t].grant)
  /\ \A f \in Flows : flow[f].step \in {"link", "consent", "resume", "issue"} =>
       Created(flow[f].grant)
  /\ \A c \in Uses : use[c].step # "idle" =>
       use[c].token \in TokenIds /\ token[use[c].token].state # "free"

SingleSignOnInit ==
  /\ Init
  /\ grant = [g \in GrantIds |-> FreeGrant]
  /\ token = [t \in TokenIds |-> FreeToken]
  /\ provider = [b \in Browsers |-> SignedOut]
  /\ flow = [f \in Flows |-> NoFlow]
  /\ use = [c \in Uses |-> NoUse]
  /\ revocations = {}
  /\ consent = [u \in Users |-> FALSE]

-----------------------------------------------------------------------------
(* Reads and writes of the payload table. *)

Stored(g) == g # NoGrant /\ grant[g].state = "stored"

\* resolveGrantSession: the live session a grant was authorized with.
GrantSession(g) ==
  IF Stored(g) /\ Resolves(grant[g].session) THEN grant[g].session ELSE NoSession

\* deleteMany where grantId in gs: the grants with all that was issued from them.
DeleteByGrantId(gs) ==
  /\ grant' = [g \in GrantIds |->
       IF g \in gs /\ grant[g].state = "stored" THEN [grant[g] EXCEPT !.state = "gone"]
                                                ELSE grant[g]]
  /\ token' = [t \in TokenIds |->
       IF token[t].grant \in gs /\ token[t].state = "stored"
       THEN [token[t] EXCEPT !.state = "gone"] ELSE token[t]]

ContinueAt(f, step) == flow' = [flow EXCEPT ![f].step = step]
EndFlow(f) == flow' = [flow EXCEPT ![f] = NoFlow]

-----------------------------------------------------------------------------
(* The authorization endpoint: the login prompt with vtgSessionCheck. *)

\* A request with the cookies of b arrives.
Authorize(f, b) ==
  /\ flow[f] = NoFlow
  /\ flow' = [flow EXCEPT ![f] =
       [step |-> IF provider[b].user = NoUser THEN "interact" ELSE "checkSession",
        browser |-> b, session |-> cookie[b], old |-> provider[b].grant, grant |-> NoGrant]]
  /\ UNCHANGED <<vars, grant, token, provider, use, revocations, consent>>

\* vtgSessionCheck: the session behind the cookie lives and is of the account
\* the provider remembers.  Without a grant the library asks for consent.
CheckSession(f) ==
  /\ flow[f].step = "checkSession"
  /\ IF /\ Resolves(flow[f].session)
        /\ session[flow[f].session].user = provider[flow[f].browser].user
        /\ flow[f].old # NoGrant
     THEN ContinueAt(f, "checkGrant") ELSE ContinueAt(f, "interact")
  /\ UNCHANGED <<vars, grant, token, provider, use, revocations, consent>>

\* Mutant of CheckGrant: any live session behind the grant will do.
CheckGrantLives(f) ==
  /\ flow[f].step = "checkGrant"
  /\ flow' = IF GrantSession(flow[f].old) # NoSession
             THEN [flow EXCEPT ![f].step = "issue", ![f].grant = flow[f].old]
             ELSE [flow EXCEPT ![f].step = "interact"]
  /\ UNCHANGED <<vars, grant, token, provider, use, revocations, consent>>

\* vtgSessionCheck: and the client's grant was authorized by that session.
CheckGrant(f) ==
  /\ flow[f].step = "checkGrant"
  /\ flow' = IF GrantSession(flow[f].old) = flow[f].session
             THEN [flow EXCEPT ![f].step = "issue", ![f].grant = flow[f].old]
             ELSE [flow EXCEPT ![f].step = "interact"]
  /\ UNCHANGED <<vars, grant, token, provider, use, revocations, consent>>

-----------------------------------------------------------------------------
(* The interaction: load, confirm and finish. *)

\* load, for a signed-in browser: the cookie is the one of this request.
LoadInteraction(f) ==
  /\ flow[f].step = "interact"
  /\ LET s == cookie[flow[f].browser] IN
     /\ Resolves(s)
     /\ flow' = [flow EXCEPT ![f].session = s,
                             ![f].step = IF flow[f].old = NoGrant THEN "save" ELSE "lookup"]
  /\ UNCHANGED <<vars, grant, token, provider, use, revocations, consent>>

\* abort, or the interaction's time runs out.
AbortInteraction(f) ==
  /\ flow[f].step = "interact"
  /\ EndFlow(f)
  /\ UNCHANGED <<vars, grant, token, provider, use, revocations, consent>>

\* Mutant of FinishLookup: the account's grant is reused whoever authorized it.
ReuseOwnGrant(f) ==
  /\ flow[f].step = "lookup"
  /\ LET g == flow[f].old IN
     flow' = IF Stored(g) /\ grant[g].user = session[flow[f].session].user
             THEN [flow EXCEPT ![f].step = "save", ![f].grant = g]
             ELSE [flow EXCEPT ![f].step = "discard"]
  /\ UNCHANGED <<vars, grant, token, provider, use, revocations, consent>>

\* finish: "a grant authorized by another VTG session must not be reused".
FinishLookup(f) ==
  /\ flow[f].step = "lookup"
  /\ LET g == flow[f].old IN
     flow' = IF /\ Stored(g)
                /\ grant[g].user = session[flow[f].session].user
                /\ GrantSession(g) = flow[f].session
             THEN [flow EXCEPT ![f].step = "save", ![f].grant = g]
             ELSE [flow EXCEPT ![f].step = "discard"]
  /\ UNCHANGED <<vars, grant, token, provider, use, revocations, consent>>

DiscardOldGrant(f) ==
  /\ flow[f].step = "discard"
  /\ DeleteByGrantId({flow[f].old})
  /\ ContinueAt(f, "save")
  /\ UNCHANGED <<vars, provider, use, revocations, consent>>

\* Mutant of SaveGrant: the identifier that save() returns is dropped.
SaveGrantOnly(f) ==
  /\ flow[f].step = "save"
  /\ IF flow[f].grant = NoGrant
     THEN \E g \in GrantIds :
            /\ grant[g].state = "free"
            /\ grant' = [grant EXCEPT ![g] =
                 [state |-> "stored", user |-> session[flow[f].session].user,
                  session |-> NoSession, by |-> flow[f].session]]
     ELSE UNCHANGED grant
  /\ ContinueAt(f, "link")
  /\ UNCHANGED <<vars, token, provider, use, revocations, consent>>

\* grant.save(), an upsert that does not touch aspSessionId: a grant that was
\* revoked since the lookup comes back without a session.
SaveGrant(f) ==
  /\ flow[f].step = "save"
  /\ IF flow[f].grant = NoGrant
     THEN \E g \in GrantIds :
            /\ grant[g].state = "free"
            /\ grant' = [grant EXCEPT ![g] =
                 [state |-> "stored", user |-> session[flow[f].session].user,
                  session |-> NoSession, by |-> flow[f].session]]
            /\ flow' = [flow EXCEPT ![f].step = "link", ![f].grant = g]
     ELSE /\ grant' = IF Stored(flow[f].grant) THEN grant
                      ELSE [grant EXCEPT ![flow[f].grant].state = "stored",
                                         ![flow[f].grant].session = NoSession]
          /\ ContinueAt(f, "link")
  /\ UNCHANGED <<vars, token, provider, use, revocations, consent>>

\* linkToSession, an update that throws when the grant is gone.
LinkToSession(f) ==
  /\ flow[f].step = "link"
  /\ IF Stored(flow[f].grant)
     THEN /\ grant' = [grant EXCEPT ![flow[f].grant].session = flow[f].session]
          /\ ContinueAt(f, "consent")
     ELSE UNCHANGED grant /\ EndFlow(f)
  /\ UNCHANGED <<vars, token, provider, use, revocations, consent>>

\* recordConsent; the row of a deleted account cannot be created.
RecordConsent(f) ==
  /\ flow[f].step = "consent"
  /\ LET u == session[flow[f].session].user IN
     IF account[u].status = "deleted"
     THEN UNCHANGED consent /\ EndFlow(f)
     ELSE consent' = [consent EXCEPT ![u] = TRUE] /\ ContinueAt(f, "resume")
  /\ UNCHANGED <<vars, grant, token, provider, use, revocations>>

\* The library resumes the authorization with the result of the interaction:
\* it loads the account (findAccount without a token) and the grant.
ResumeAuthorization(f) ==
  /\ flow[f].step = "resume"
  /\ IF /\ Stored(flow[f].grant)
        /\ account[grant[flow[f].grant].user].status \in {"active", "tempBanned"}
     THEN ContinueAt(f, "issue") ELSE EndFlow(f)
  /\ UNCHANGED <<vars, grant, token, provider, use, revocations, consent>>

\* The code is stored, whatever has become of its grant by now, and the
\* provider's browser session remembers account and grant.
IssueCode(f) ==
  /\ flow[f].step = "issue"
  /\ \E t \in TokenIds :
       /\ token[t].state = "free"
       /\ token' = [token EXCEPT ![t] =
            [state |-> "stored", kind |-> "exchange",
             grant |-> flow[f].grant, by |-> flow[f].session]]
  /\ provider' = [provider EXCEPT ![flow[f].browser] =
       [user |-> grant[flow[f].grant].user, grant |-> flow[f].grant]]
  /\ EndFlow(f)
  /\ UNCHANGED <<vars, grant, use, revocations, consent>>

-----------------------------------------------------------------------------
(* The application presents a token: userinfo, or an exchange for more. *)

PresentToken(c, t) ==
  /\ use[c] = NoUse
  /\ token[t].state = "stored"
  /\ use' = [use EXCEPT ![c] = [step |-> "account", token |-> t, session |-> NoSession,
                                late |-> session[token[t].by].state \notin {"free", "held"}]]
  /\ UNCHANGED <<vars, grant, token, provider, flow, revocations, consent>>

\* A code or refresh token that was consumed before: the library revokes all
\* that was issued from its grant.  Which tokens are consumed is left open.
PresentConsumedToken(t) ==
  /\ token[t].state = "stored" /\ token[t].kind = "exchange"
  /\ Stored(token[t].grant)
  /\ DeleteByGrantId({token[t].grant})
  /\ UNCHANGED <<vars, provider, flow, use, revocations, consent>>

\* findAccount: the account exists and is not banned for good.
FindAccount(c) ==
  /\ use[c].step = "account"
  /\ use' = [use EXCEPT ![c].step =
       IF account[grant[token[use[c].token].grant].user].status \in {"active", "tempBanned"}
       THEN "grant" ELSE "refused"]
  /\ UNCHANGED <<vars, grant, token, provider, flow, revocations, consent>>

\* resolveGrantSession, its first read.
FindGrant(c) ==
  /\ use[c].step = "grant"
  /\ LET g == token[use[c].token].grant IN
     use' = IF Stored(g) /\ grant[g].session # NoSession
            THEN [use EXCEPT ![c].step = "session", ![c].session = grant[g].session]
            ELSE [use EXCEPT ![c].step = "refused"]
  /\ UNCHANGED <<vars, grant, token, provider, flow, revocations, consent>>

\* resolveUserFromSession without touching it, and the same user.
FindSession(c) ==
  /\ use[c].step = "session"
  /\ use' = [use EXCEPT ![c].step =
       IF /\ Resolves(use[c].session)
          /\ session[use[c].session].user = grant[token[use[c].token].grant].user
       THEN "accepted" ELSE "refused"]
  /\ UNCHANGED <<vars, grant, token, provider, flow, revocations, consent>>

\* A successful exchange stores access and refresh tokens, one at a time.
StoreToken(c) ==
  /\ use[c].step = "accepted"
  /\ token[use[c].token].kind = "exchange"
  /\ \E t \in TokenIds, kind \in {"exchange", "access"} :
       /\ token[t].state = "free"
       /\ token' = [token EXCEPT ![t] =
            [state |-> "stored", kind |-> kind,
             grant |-> token[use[c].token].grant, by |-> token[use[c].token].by]]
  /\ UNCHANGED <<vars, grant, provider, flow, use, revocations, consent>>

Reply(c) ==
  /\ use[c].step \in {"accepted", "refused"}
  /\ use' = [use EXCEPT ![c] = NoUse]
  /\ UNCHANGED <<vars, grant, token, provider, flow, revocations, consent>>

-----------------------------------------------------------------------------
(* Revocations. *)

RevokeForSession(s) ==
  [step |-> "find", hourly |-> FALSE, sessions |-> {s}, user |-> NoUser,
   except |-> NoSession, signOut |-> FALSE, found |-> {}]
RevokeForUser(u, except) ==
  [step |-> "find", hourly |-> FALSE, sessions |-> {}, user |-> u,
   except |-> except, signOut |-> except = NoSession, found |-> {}]

\* The event a handler of Sessions publishes with its next step, if any: the
\* subscription of OidcGrantsService starts a revocation.
Published(r) ==
  CASE req[r].step = "endSession" -> {RevokeForSession(req[r].target)}
    [] req[r].step = "cutOff" -> {RevokeForUser(req[r].user, req[r].old)}
    [] OTHER -> {}

Replace(j, js) == revocations' = (revocations \ {j}) \union js

\* revokeForEndedSessions, once an hour: which sessions are grants linked to?
RemoveExpired ==
  /\ \A j \in revocations : ~j.hourly
  /\ LET linked == {grant[g].session : g \in {h \in GrantIds : Stored(h)}} \ {NoSession} IN
     /\ linked # {}
     /\ revocations' = revocations \union
          {[RevokeForUser(NoUser, NoSession) EXCEPT !.step = "live", !.hourly = TRUE,
              !.signOut = FALSE, !.sessions = linked]}
  /\ UNCHANGED <<vars, grant, token, provider, flow, use, consent>>

\* Mutant of FindEndedSessions: it looks at the expiry only.
FindExpiredSessions(j) ==
  /\ j.step = "live"
  /\ LET ended == {s \in j.sessions : session[s].expires <= clock} IN
     IF ended = {} THEN Replace(j, {})
                   ELSE Replace(j, {[j EXCEPT !.step = "find", !.sessions = ended]})
  /\ UNCHANGED <<vars, grant, token, provider, flow, use, consent>>

\* Which of them are live?  Here a ban does not count, and a session is over in
\* the instant of its expiry.
FindEndedSessions(j) ==
  /\ j.step = "live"
  /\ LET ended == {s \in j.sessions : session[s].state # "held" \/ session[s].expires <= clock} IN
     IF ended = {} THEN Replace(j, {})
                   ELSE Replace(j, {[j EXCEPT !.step = "find", !.sessions = ended]})
  /\ UNCHANGED <<vars, grant, token, provider, flow, use, consent>>

\* revoke, its query.
FindGrants(j) ==
  /\ j.step = "find"
  /\ LET found == {g \in GrantIds :
           /\ Stored(g)
           /\ \/ grant[g].session \in j.sessions
              \/ /\ grant[g].user = j.user
                 /\ j.except = NoSession \/ grant[g].session # j.except} IN
     Replace(j, CASE found # {} -> {[j EXCEPT !.step = "delete", !.found = found]}
                  [] found = {} /\ j.signOut -> {[j EXCEPT !.step = "signOut"]}
                  [] OTHER -> {})
  /\ UNCHANGED <<vars, grant, token, provider, flow, use, consent>>

\* revoke, its deleteMany.
DeleteGrants(j) ==
  /\ j.step = "delete"
  /\ DeleteByGrantId(j.found)
  /\ Replace(j, IF j.signOut THEN {[j EXCEPT !.step = "signOut", !.found = {}]} ELSE {})
  /\ UNCHANGED <<vars, provider, flow, use, consent>>

\* revokeForUser: the provider's browser sessions of the user go, too.
DeleteProviderSessions(j) ==
  /\ j.step = "signOut"
  /\ provider' = [b \in Browsers |-> IF provider[b].user = j.user THEN SignedOut ELSE provider[b]]
  /\ Replace(j, {})
  /\ UNCHANGED <<vars, grant, token, flow, use, consent>>

\* The user disconnects the app (OidcConnectedAppsService.revoke).
DisconnectApp(u) ==
  /\ consent[u] /\ account[u].status \in {"active", "tempBanned"}
  /\ consent' = [consent EXCEPT ![u] = FALSE]
  /\ revocations' = revocations \union
       {[RevokeForUser(u, NoSession) EXCEPT !.signOut = FALSE]}
  /\ UNCHANGED <<vars, grant, token, provider, flow, use>>

\* Rows past their expiry are not found any more, and the hourly job deletes
\* them.  Their lifetimes are not related to the clock of Sessions.
ExpireToken(t) ==
  /\ token[t].state = "stored"
  /\ token' = [token EXCEPT ![t].state = "gone"]
  /\ UNCHANGED <<vars, grant, provider, flow, use, revocations, consent>>

ExpireGrant(g) ==
  /\ grant[g].state = "stored"
  /\ grant' = [grant EXCEPT ![g].state = "gone"]
  /\ UNCHANGED <<vars, token, provider, flow, use, revocations, consent>>

-----------------------------------------------------------------------------
(* Composition with Sessions. *)

\* A full logout at the provider ends the VTG session of the same user, too.
EndProviderSession(r, b) ==
  /\ provider[b].user # NoUser
  /\ provider' = [provider EXCEPT ![b] = SignedOut]
  /\ IF Resolves(cookie[b]) /\ session[cookie[b]].user = provider[b].user
     THEN SessionLogout(r, b) ELSE UNCHANGED vars
  /\ UNCHANGED <<grant, token, flow, use, revocations, consent>>

SessionsStep ==
  \/ \E r \in Requests :
       /\ HandlerStep(r)
       /\ revocations' = revocations \union Published(r)
       /\ UNCHANGED <<grant, token, provider, flow, use, consent>>
  \/ /\ \/ \E r \in Requests : HandlerStart(r)
        \/ \E k \in Sockets : SocketStep(k)
        \/ \E u \in Users : UnbanUser(u)
        \/ \E b \in Browsers : ExpireCookie(b)
        \/ Tick
     /\ UNCHANGED ssoVars

\* What is in the table and in the browsers survives.
CrashAll ==
  /\ Crash
  /\ flow' = [f \in Flows |-> IF flow[f].step \in {"interact", "resume"} THEN flow[f] ELSE NoFlow]
  /\ use' = [c \in Uses |-> NoUse]
  /\ revocations' = {}
  /\ UNCHANGED <<grant, token, provider, consent>>

FlowStep(f) ==
  \/ \E b \in Browsers : Authorize(f, b)
  \/ CheckSession(f)
  \/ CheckGrant(f)
  \/ LoadInteraction(f)
  \/ AbortInteraction(f)
  \/ FinishLookup(f)
  \/ DiscardOldGrant(f)
  \/ SaveGrant(f)
  \/ LinkToSession(f)
  \/ RecordConsent(f)
  \/ ResumeAuthorization(f)
  \/ IssueCode(f)

UseStep(c) ==
  \/ \E t \in TokenIds : PresentToken(c, t)
  \/ FindAccount(c)
  \/ FindGrant(c)
  \/ FindSession(c)
  \/ StoreToken(c)
  \/ Reply(c)

RevocationStep(j) ==
  \/ FindEndedSessions(j)
  \/ FindGrants(j)
  \/ DeleteGrants(j)
  \/ DeleteProviderSessions(j)

SingleSignOnNext ==
  \/ SessionsStep
  \/ \E r \in Requests, b \in Browsers : EndProviderSession(r, b)
  \/ \E f \in Flows : FlowStep(f)
  \/ \E c \in Uses : UseStep(c)
  \/ \E j \in revocations : RevocationStep(j)
  \/ RemoveExpired
  \/ \E u \in Users : DisconnectApp(u)
  \/ \E t \in TokenIds : PresentConsumedToken(t) \/ ExpireToken(t)
  \/ \E g \in GrantIds : ExpireGrant(g)
  \/ CrashAll

SingleSignOnSpec == SingleSignOnInit /\ [][SingleSignOnNext]_allVars

\* The scheduler starts the job every hour and its queries return, as long as
\* the process does not crash for ever.
HourlyJob == RemoveExpired \/ \E j \in revocations : j.hourly /\ RevocationStep(j)
FairSingleSignOnSpec ==
  /\ SingleSignOnSpec
  /\ WF_allVars(HourlyJob)
  /\ <>[][~Crash]_allVars

-----------------------------------------------------------------------------
(* Properties. *)

\* What SessionBoundAccess sees of the state.
EndedSessions == {s \in SessionIds : session[s].state \notin {"free", "held"}}
Issuers == [t \in TokenIds |-> token[t].by]
CallStates ==
  [c \in Uses |->
    [state |-> IF use[c].step \in {"account", "grant", "session"} THEN "asked" ELSE use[c].step,
     late |-> use[c].late]]
Access == INSTANCE SessionBoundAccess WITH
  Sessions <- SessionIds, Tokens <- TokenIds, Calls <- Uses,
  ended <- EndedSessions, issuer <- Issuers, call <- CallStates

\* The promise of SessionBoundAccess: an application that presents a code or a
\* token after the browser session it was issued from was revoked, or went with
\* its account, is refused (findAccount), whatever flows, revocations and
\* crashes overlap with it.
ImplementsAccess == Access!Spec

\* A grant never changes hands: the session it is linked to, the session of a
\* sign-in that uses it and the session behind every token issued from it are
\* the one that created it (finish, vtgSessionCheck).
GrantKeepsItsSession ==
  /\ \A g \in GrantIds : grant[g].session \in {NoSession, grant[g].by}
  /\ \A f \in Flows : flow[f].grant # NoGrant => flow[f].session = grant[flow[f].grant].by
  /\ \A t \in TokenIds : token[t].state # "free" => token[t].by = grant[token[t].grant].by

\* No grant stays linked to a session that has ended: by the event, or by the
\* hourly job when the event was lost in a crash or came too early.
Orphaned(g) ==
  /\ Stored(g) /\ grant[g].session # NoSession
  /\ session[grant[g].session].state # "held" \/ session[grant[g].session].expires < clock
OrphansAreRemoved == \A g \in GrantIds : Orphaned(g) ~> ~Orphaned(g)
=============================================================================
