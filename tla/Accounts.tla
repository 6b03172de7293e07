------------------------------ MODULE Accounts ------------------------------
(***************************************************************************)
(* Accounts, users.service.ts: registration, the mails that confirm an     *)
(* address or reset a password, nicknames and the link to Steam, together  *)
(* with the second factor that a confirmed account may have (TwoFactor).   *)
(*                                                                         *)
(* A user stands for an email address.  Passwords are left out, and what a *)
(* reset revokes is the subject of modules Sessions and JwtRevocation.     *)
(***************************************************************************)
EXTENDS TwoFactor

CONSTANTS
  Nicknames, SteamIds,
  Tokens,  \* activationToken and resetPasswordToken values
  Tasks    \* requests for accounts running concurrently

ASSUME AccountsAssumption == None \notin Nicknames \union SteamIds \union Tokens

VARIABLES
  account,  \* User rows
  expired,  \* tokens of rows whose time is over
  mailed,   \* tokens of rows that have reached their user
  linking,  \* users with a link to Steam under way: createSteamLinkToken
  task,     \* handlers between two awaits
  used      \* history: reset tokens that have set a password

accountVars == <<account, expired, mailed, linking, task, used>>

-----------------------------------------------------------------------------
Maybe(S) == S \union {None}

Accounts == [registered : BOOLEAN, verified : BOOLEAN, activation : Maybe(Tokens),
             reset : Maybe(Tokens), nickname : Maybe(Nicknames), steam : Maybe(SteamIds)]
NoAccount == [registered |-> FALSE, verified |-> FALSE, activation |-> None, reset |-> None,
              nickname |-> None, steam |-> None]

\* History: `crossed` says that another request of the user, for the same, was
\* between its read and its write with this one.
TaskRows == [op : {"idle", "signUp", "activate", "confirm", "mail", "forgot", "reset",
                   "nickname", "steam", "unlink"},
             user : Maybe(Users), token : Maybe(Tokens), nickname : Maybe(Nicknames),
             steam : Maybe(SteamIds), crossed : BOOLEAN]
NoTask == [op |-> "idle", user |-> None, token |-> None, nickname |-> None, steam |-> None,
           crossed |-> FALSE]

InForce(u) == {account[u].activation, account[u].reset} \ {None}

\* Types, and the columns that are unique.
AccountsTypeOK ==
  /\ TwoFactorTypeOK
  /\ account \in [Users -> Accounts]
  /\ task \in [Tasks -> TaskRows]
  /\ linking \subseteq Users
  /\ expired \union mailed \subseteq UNION {InForce(u) : u \in Users}
  /\ used \subseteq Tokens
  /\ \A u, v \in Users : u # v =>
       /\ account[u].nickname = account[v].nickname => account[u].nickname = None
       /\ account[u].steam = account[v].steam => account[u].steam = None
  /\ \A u \in Users : account[u].registered <=> account[u].nickname # None
  /\ \A u, v \in Users : u # v => InForce(u) \intersect InForce(v) = {}

AccountsInit ==
  /\ Init
  /\ account = [u \in Users |-> NoAccount]
  /\ expired = {} /\ mailed = {} /\ linking = {}
  /\ task = [k \in Tasks |-> NoTask]
  /\ used = {}

-----------------------------------------------------------------------------
\* The requests of u for the same as `ops`, which overlap the one that starts.
StartTask(k, ops, x) ==
  LET others == {j \in Tasks : task[j].op \in ops /\ task[j].user = x.user}
  IN /\ task[k] = NoTask
     /\ task' = [j \in Tasks |->
          IF j = k THEN [x EXCEPT !.crossed = others # {}]
          ELSE IF j \in others THEN [task[j] EXCEPT !.crossed = TRUE] ELSE task[j]]
Goes(k, x) == task' = [task EXCEPT ![k] = x]
Ends(k) == Goes(k, NoTask)

\* generateActivationToken: a value that nothing refers to stands for a new one.
New(t) ==
  /\ \A u \in Users : t \notin InForce(u)
  /\ \A k \in Tasks : task[k].token # t

\* The row of u is written; what is said of tokens that it no longer has goes.
WriteAccount(u, row) ==
  LET gone == InForce(u) \ {row.activation, row.reset}
  IN /\ account' = [account EXCEPT ![u] = row]
     /\ expired' = expired \ gone
     /\ mailed' = mailed \ gone

rest == <<vars, linking>>

SignUpCheck(k, u, n) ==
  /\ ~account[u].registered
  /\ \A v \in Users : account[v].nickname # n
  /\ StartTask(k, {}, [NoTask EXCEPT !.op = "signUp", !.user = u, !.nickname = n])
  /\ UNCHANGED <<rest, account, expired, mailed, used>>

\* Once the password is hashed; the unique columns stop a second row.
SignUp(k, t) ==
  LET u == task[k].user
      n == task[k].nickname
  IN /\ task[k].op = "signUp" /\ New(t)
     /\ IF account[u].registered \/ \E v \in Users : account[v].nickname = n
        THEN Ends(k) /\ UNCHANGED <<account, expired, mailed, used>>
        ELSE /\ WriteAccount(u, [NoAccount EXCEPT !.registered = TRUE, !.nickname = n,
                                                  !.activation = t])
             /\ used' = used \ {t}
             /\ Goes(k, [NoTask EXCEPT !.op = "mail", !.user = u, !.token = t])
     /\ UNCHANGED rest

\* sendActivationToken and the mail of forgotPassword, which may fail.
SendMail(k) ==
  /\ task[k].op = "mail"
  /\ \/ mailed' = mailed \union ({task[k].token} \intersect InForce(task[k].user))
     \/ UNCHANGED mailed
  /\ Ends(k)
  /\ UNCHANGED <<rest, account, expired, used>>

\* The ten minutes of a token are over.
Expires(t) ==
  /\ \E u \in Users : t \in InForce(u)
  /\ t \notin expired
  /\ expired' = expired \union {t}
  /\ UNCHANGED <<rest, account, mailed, task, used>>

\* confirmSignUp: the account is found by its token.
ConfirmCheck(k, u) ==
  LET t == account[u].activation
  IN /\ t \in mailed
     /\ t \in expired \/ ~account[u].verified
     /\ StartTask(k, {}, [NoTask EXCEPT !.user = u,
                                        !.op = IF t \in expired THEN "activate" ELSE "confirm"])
     /\ UNCHANGED <<rest, account, expired, mailed, used>>

\* authenticateLoginUser, when the address has not been confirmed in time.
LoginUnverified(k, u) ==
  /\ account[u].registered /\ ~account[u].verified
  /\ account[u].activation = None \/ account[u].activation \in expired
  /\ StartTask(k, {}, [NoTask EXCEPT !.op = "activate", !.user = u])
  /\ UNCHANGED <<rest, account, expired, mailed, used>>

\* A new token, whatever the row says by now.
Reactivate(k, t) ==
  LET u == task[k].user
  IN /\ task[k].op = "activate" /\ New(t)
     /\ WriteAccount(u, [account[u] EXCEPT !.activation = t])
     /\ used' = used \ {t}
     /\ Goes(k, [NoTask EXCEPT !.op = "mail", !.user = u, !.token = t])
     /\ UNCHANGED rest

Confirm(k) ==
  LET u == task[k].user
  IN /\ task[k].op = "confirm"
     /\ WriteAccount(u, [account[u] EXCEPT !.verified = TRUE, !.activation = None])
     /\ Ends(k)
     /\ UNCHANGED <<rest, used>>

-----------------------------------------------------------------------------
(* Resetting the password. *)

\* Mutant of ForgotCheck: a new mail at any time.
ForgotAlways(k, u) ==
  /\ account[u].registered
  /\ StartTask(k, {"forgot", "reset"}, [NoTask EXCEPT !.op = "forgot", !.user = u])
  /\ UNCHANGED <<rest, account, expired, mailed, used>>

\* forgotPassword: no second token while there is one that has not expired.
ForgotCheck(k, u) ==
  /\ account[u].registered
  /\ account[u].reset = None \/ account[u].reset \in expired
  /\ StartTask(k, {"forgot", "reset"}, [NoTask EXCEPT !.op = "forgot", !.user = u])
  /\ UNCHANGED <<rest, account, expired, mailed, used>>

Forgot(k, t) ==
  LET u == task[k].user
  IN /\ task[k].op = "forgot" /\ New(t)
     /\ WriteAccount(u, [account[u] EXCEPT !.reset = t])
     /\ used' = used \ {t}
     /\ Goes(k, [NoTask EXCEPT !.op = "mail", !.user = u, !.token = t])
     /\ UNCHANGED rest

\* resetPassword, until the new password is hashed.
ResetCheck(k, u) ==
  LET t == account[u].reset
  IN /\ t \in mailed \ expired
     /\ StartTask(k, {"forgot", "reset"},
                  [NoTask EXCEPT !.op = "reset", !.user = u, !.token = t])
     /\ UNCHANGED <<rest, account, expired, mailed, used>>

\* Mutant of ResetPassword: the token stays.
ResetKeepingToken(k) ==
  /\ task[k].op = "reset"
  /\ used' = used \union {task[k].token}
  /\ Ends(k)
  /\ UNCHANGED <<rest, account, expired, mailed>>

\* The password and no token, whichever the row has by now.
ResetPassword(k) ==
  LET u == task[k].user
  IN /\ task[k].op = "reset"
     /\ WriteAccount(u, [account[u] EXCEPT !.reset = None])
     /\ used' = used \union {task[k].token}
     /\ Ends(k)
     /\ UNCHANGED rest

-----------------------------------------------------------------------------
(* Nicknames and Steam. *)

ChangeNicknameCheck(k, u, n) ==
  /\ account[u].registered
  /\ \A v \in Users : account[v].nickname # n
  /\ StartTask(k, {}, [NoTask EXCEPT !.op = "nickname", !.user = u, !.nickname = n])
  /\ UNCHANGED <<rest, account, expired, mailed, used>>

\* Mutant of ChangeNickname: nothing stops a nickname that was taken meanwhile.
ChangeNicknameUnchecked(k) ==
  LET u == task[k].user
  IN /\ task[k].op = "nickname"
     /\ WriteAccount(u, [account[u] EXCEPT !.nickname = task[k].nickname])
     /\ Ends(k)
     /\ UNCHANGED <<rest, used>>

\* The transaction, which throws when the nickname has been taken.
ChangeNickname(k) ==
  LET u == task[k].user
      n == task[k].nickname
  IN /\ task[k].op = "nickname"
     /\ IF \E v \in Users \ {u} : account[v].nickname = n
        THEN UNCHANGED <<account, expired, mailed>>
        ELSE WriteAccount(u, [account[u] EXCEPT !.nickname = n])
     /\ Ends(k)
     /\ UNCHANGED <<rest, used>>

\* A confirmed account is sent to Steam with a token of fifteen minutes, which
\* any number of callbacks may bring back.
CreateSteamLinkToken(u) ==
  /\ account[u].verified
  /\ linking' = linking \union {u}
  /\ UNCHANGED <<vars, account, expired, mailed, task, used>>

LinkTokenExpires(u) ==
  /\ u \in linking
  /\ linking' = linking \ {u}
  /\ UNCHANGED <<vars, account, expired, mailed, task, used>>

\* Mutant of LinkSteamCheck: whether the user has a Steam id is not looked at.
RelinkSteamCheck(k, u, s) ==
  /\ u \in linking
  /\ \A v \in Users \ {u} : account[v].steam # s
  /\ StartTask(k, {"steam"}, [NoTask EXCEPT !.op = "steam", !.user = u, !.steam = s])
  /\ UNCHANGED <<rest, account, expired, mailed, used>>

\* linkSteamFromCallback, once Steam has verified the login.
LinkSteamCheck(k, u, s) ==
  /\ u \in linking
  /\ account[u].steam = None
  /\ \A v \in Users \ {u} : account[v].steam # s
  /\ StartTask(k, {"steam"}, [NoTask EXCEPT !.op = "steam", !.user = u, !.steam = s])
  /\ UNCHANGED <<rest, account, expired, mailed, used>>

\* The update, which throws when the Steam id has been linked meanwhile.
LinkSteam(k) ==
  LET u == task[k].user
      s == task[k].steam
  IN /\ task[k].op = "steam"
     /\ IF \E v \in Users \ {u} : account[v].steam = s
        THEN UNCHANGED <<account, expired, mailed>>
        ELSE WriteAccount(u, [account[u] EXCEPT !.steam = s])
     /\ Ends(k)
     /\ UNCHANGED <<rest, used>>

DisconnectSteamCheck(k, u) ==
  /\ account[u].verified /\ account[u].steam # None
  /\ StartTask(k, {}, [NoTask EXCEPT !.op = "unlink", !.user = u])
  /\ UNCHANGED <<rest, account, expired, mailed, used>>

DisconnectSteam(k) ==
  LET u == task[k].user
  IN /\ task[k].op = "unlink"
     /\ WriteAccount(u, [account[u] EXCEPT !.steam = None])
     /\ Ends(k)
     /\ UNCHANGED <<rest, used>>

-----------------------------------------------------------------------------
TaskStep(k) ==
  \/ \E u \in Users :
       \/ \E n \in Nicknames : SignUpCheck(k, u, n) \/ ChangeNicknameCheck(k, u, n)
       \/ ConfirmCheck(k, u) \/ LoginUnverified(k, u) \/ ForgotCheck(k, u) \/ ResetCheck(k, u)
       \/ \E s \in SteamIds : LinkSteamCheck(k, u, s)
       \/ DisconnectSteamCheck(k, u)
  \/ \E t \in Tokens : SignUp(k, t) \/ Reactivate(k, t) \/ Forgot(k, t)
  \/ SendMail(k) \/ Confirm(k) \/ ResetPassword(k)
  \/ ChangeNickname(k) \/ LinkSteam(k) \/ DisconnectSteam(k)

\* authenticateLoginUser lets nobody in whose address is not confirmed.
SecondFactorStep ==
  /\ Next
  /\ \A u \in token' \union {req'[r].user : r \in Requests} : u # None => account[u].verified
  /\ UNCHANGED accountVars

AccountsNext ==
  \/ \E k \in Tasks : TaskStep(k)
  \/ \E t \in Tokens : Expires(t)
  \/ \E u \in Users : CreateSteamLinkToken(u) \/ LinkTokenExpires(u)
  \/ SecondFactorStep

AccountsSpec == AccountsInit /\ [][AccountsNext]_<<vars, accountVars>>

-----------------------------------------------------------------------------
(* What accounts promise.                                                  *)

\* A mail sets one password: a token that has set one is not in the row any more,
\* and a handler that still holds it overlapped the one that used it.
ResetTokenSetsOnePassword ==
  /\ \A u \in Users : account[u].reset \notin used
  /\ \A k \in Tasks : task[k].op = "reset" /\ task[k].token \in used => task[k].crossed

Ending(k) == task[k] # NoTask /\ task'[k] # task[k]

\* A reset token that has not expired, and perhaps is on its way by mail, is
\* taken from the row only by the handler that found it, or by one that another
\* overlapped: "Reset password token is still valid".
ResetTokenStands ==
  [][\A u \in Users :
       LET t == account[u].reset IN
       t # None /\ t \notin expired /\ account'[u].reset # t
       => \E k \in Tasks : Ending(k) /\ task[k].user = u /\ (task[k].token = t \/ task[k].crossed)
    ]_<<vars, accountVars>>

\* A Steam id stays until its user disconnects it, unless two callbacks of theirs
\* had both found none.
SteamLinkStands ==
  [][\A u \in Users :
       account[u].steam # None /\ account'[u].steam # account[u].steam
       => \E k \in Tasks :
            Ending(k) /\ task[k].user = u /\ (task[k].op = "unlink" \/ task[k].crossed)
    ]_<<vars, accountVars>>
=============================================================================
