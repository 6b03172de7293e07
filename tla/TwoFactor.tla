----------------------------- MODULE TwoFactor -----------------------------
(***************************************************************************)
(* The second factor (two-factor.service.ts): its setup, the second step   *)
(* of a login (users.service.ts) and how it is given up, with the counter  *)
(* of attempts and the recovery codes.                                     *)
(*                                                                         *)
(* A secret stands for the codes of an authenticator that has it, so that  *)
(* whether a code is right is a choice.  Passwords and what a login issues *)
(* are the subject of modules Sessions and JwtRevocation.                  *)
(***************************************************************************)
EXTENDS Integers, FiniteSets

CONSTANTS
  Users,
  Secrets,
  Codes,        \* ids of UserTwoFactorRecoveryCode rows
  Requests,
  CodeCount,    \* TWO_FACTOR_RECOVERY_CODE_COUNT
  MaxAttempts,  \* TWO_FACTOR_MAX_VERIFY_ATTEMPTS
  None

ASSUME TwoFactorAssumption ==
  /\ CodeCount \in Nat /\ MaxAttempts \in Nat \ {0}
  /\ None \notin Users \union Secrets \union Codes

VARIABLES
  secret,     \* twoFactorSecret: None while the second factor is off
  pending,    \* twoFactorPendingSecret, and whether its time is over
  code,       \* the recovery codes: whose, and whether used
  attempts,   \* verifyAttempts: the counter of the window
  token,      \* users with a login token that has not expired
  req,        \* handlers between two awaits
  begun,      \* history: attempts begun in the window, or since a success in it
  opened,     \* history: how often a code was accepted
  shared,     \* history: codes that two attempts had found unused at a time
  confirmed   \* history: secrets of which a user has entered a code

vars == <<secret, pending, code, attempts, token, req, begun, opened, shared, confirmed>>

-----------------------------------------------------------------------------
Pendings == [secret : Secrets \union {None}, expired : BOOLEAN]
NotPending == [secret |-> None, expired |-> FALSE]

CodeRows == [user : Users \union {None}, used : BOOLEAN]
NoCode == [user |-> None, used |-> FALSE]

\* `aim` is what an attempt is for; `secret` and `codes` are what it has read.
Ops == {"idle", "setup", "clear", "enable", "attempt", "totp", "recovery", "used", "disable"}
Calls == [op : Ops, user : Users \union {None}, aim : {"none", "login", "disable"},
          by : {"none", "totp", "recovery"}, secret : Secrets \union {None},
          codes : SUBSET Codes]
Idle == [op |-> "idle", user |-> None, aim |-> "none", by |-> "none", secret |-> None,
         codes |-> {}]

Enabled(u) == secret[u] # None
CodesOf(u) == {k \in Codes : code[k].user = u}

\* Types; recovery codes come and go with the second factor, and its secret is one
\* that the user's authenticator has: setups and confirmations that overlap never put
\* another in force.
TwoFactorTypeOK ==
  /\ secret \in [Users -> Secrets \union {None}]
  /\ pending \in [Users -> Pendings]
  /\ code \in [Codes -> CodeRows]
  /\ attempts \in [Users -> 0..MaxAttempts]
  /\ token \subseteq Users
  /\ req \in [Requests -> Calls]
  /\ begun \in [Users -> Nat] /\ opened \in [Codes -> Nat]
  /\ shared \subseteq Codes /\ confirmed \in [Users -> SUBSET Secrets]
  /\ \A u \in Users : Cardinality(CodesOf(u)) = IF Enabled(u) THEN CodeCount ELSE 0
  /\ \A u \in Users : Enabled(u) => secret[u] \in confirmed[u]

Init ==
  /\ secret = [u \in Users |-> None]
  /\ pending = [u \in Users |-> NotPending]
  /\ code = [k \in Codes |-> NoCode]
  /\ attempts = [u \in Users |-> 0]
  /\ token = {}
  /\ req = [r \in Requests |-> Idle]
  /\ begun = [u \in Users |-> 0]
  /\ opened = [k \in Codes |-> 0]
  /\ shared = {}
  /\ confirmed = [u \in Users |-> {}]

-----------------------------------------------------------------------------
Step(r, call) == req' = [req EXCEPT ![r] = call]
Begin(r, call) == req[r] = Idle /\ Step(r, call)

rows == <<secret, pending, code>>
history == <<begun, opened, shared, confirmed>>

\* A value that nothing refers to stands for a new one.
Unknown(s) ==
  /\ \A u \in Users : secret[u] # s /\ pending[u].secret # s
  /\ \A r \in Requests : req[r].secret # s

\* setup: a new secret, shown once it is written, whatever happened meanwhile.
SetupCheck(r, u, s) ==
  /\ ~Enabled(u) /\ Unknown(s)
  /\ Begin(r, [Idle EXCEPT !.op = "setup", !.user = u, !.secret = s])
  /\ confirmed' = [v \in Users |-> confirmed[v] \ {s}]
  /\ UNCHANGED <<rows, attempts, token, begun, opened, shared>>

Setup(r) ==
  /\ req[r].op = "setup"
  /\ pending' = [pending EXCEPT ![req[r].user] = [secret |-> req[r].secret, expired |-> FALSE]]
  /\ Step(r, Idle)
  /\ UNCHANGED <<secret, code, attempts, token, history>>

\* TWO_FACTOR_PENDING_TTL_MS
PendingExpires(u) ==
  /\ pending[u].secret # None /\ ~pending[u].expired
  /\ pending' = [pending EXCEPT ![u].expired = TRUE]
  /\ UNCHANGED <<secret, code, attempts, token, req, history>>

\* enable reads the pending secret.
EnableCheck(r, u) ==
  /\ ~Enabled(u) /\ pending[u].secret # None
  /\ Begin(r, [Idle EXCEPT !.op = IF pending[u].expired THEN "clear" ELSE "enable",
                           !.user = u, !.secret = pending[u].secret])
  /\ UNCHANGED <<rows, attempts, token, history>>

\* clearPendingSecret
ClearPending(r) ==
  /\ req[r].op = "clear"
  /\ pending' = [pending EXCEPT ![req[r].user] = NotPending]
  /\ Step(r, Idle)
  /\ UNCHANGED <<secret, code, attempts, token, history>>

\* The rows of u are replaced by new ones.
NewCodes(u, ks) ==
  /\ ks \subseteq {k \in Codes : code[k].user \in {None, u} /\ \A r \in Requests : k \notin req[r].codes}
  /\ Cardinality(ks) = CodeCount
  /\ code' = [k \in Codes |->
       IF k \in ks THEN [user |-> u, used |-> FALSE]
       ELSE IF code[k].user = u THEN NoCode ELSE code[k]]
  /\ opened' = [k \in Codes |-> IF k \in ks THEN 0 ELSE opened[k]]
  /\ shared' = shared \ ks

\* Mutant of Enable: what is pending by now comes into force.
EnablePending(r, ks) ==
  LET u == req[r].user
  IN /\ req[r].op = "enable"
     /\ secret' = [secret EXCEPT ![u] = pending[u].secret]
     /\ pending' = [pending EXCEPT ![u] = NotPending]
     /\ confirmed' = [confirmed EXCEPT ![u] = @ \union {req[r].secret}]
     /\ NewCodes(u, ks)
     /\ Step(r, Idle)
     /\ UNCHANGED <<attempts, token, begun>>

\* The code is one of the secret that was read: that secret comes into force, though
\* another may be pending or in force by now.
Enable(r, ks) ==
  LET u == req[r].user
  IN /\ req[r].op = "enable"
     /\ secret' = [secret EXCEPT ![u] = req[r].secret]
     /\ pending' = [pending EXCEPT ![u] = NotPending]
     /\ confirmed' = [confirmed EXCEPT ![u] = @ \union {req[r].secret}]
     /\ NewCodes(u, ks)
     /\ Step(r, Idle)
     /\ UNCHANGED <<attempts, token, begun>>

-----------------------------------------------------------------------------
\* login and createLoginToken, the password being right.
Login(u) ==
  /\ Enabled(u)
  /\ token' = token \union {u}
  /\ UNCHANGED <<rows, attempts, req, history>>

\* TWO_FACTOR_LOGIN_TOKEN_EXPIRES_IN
TokenExpires(u) ==
  /\ u \in token
  /\ token' = token \ {u}
  /\ UNCHANGED <<rows, attempts, req, history>>

\* verifyTwoFactorLogin has checked the token, disable the password and that there is
\* something to disable.
May(u, aim) == IF aim = "login" THEN u \in token ELSE Enabled(u)

\* Mutant of Attempt: not counted before the first await.
AttemptUncounted(r, u, aim, by) ==
  /\ May(u, aim) /\ aim # "none" /\ by # "none"
  /\ attempts[u] < MaxAttempts
  /\ Begin(r, [Idle EXCEPT !.op = "attempt", !.user = u, !.aim = aim, !.by = by])
  /\ begun' = [begun EXCEPT ![u] = @ + 1]
  /\ UNCHANGED <<rows, attempts, token, opened, shared, confirmed>>

\* verifyUserCodeOrRecovery, up to its first await: the attempt is counted.
Attempt(r, u, aim, by) ==
  /\ May(u, aim) /\ aim # "none" /\ by # "none"
  /\ attempts[u] < MaxAttempts
  /\ Begin(r, [Idle EXCEPT !.op = "attempt", !.user = u, !.aim = aim, !.by = by])
  /\ attempts' = [attempts EXCEPT ![u] = @ + 1]
  /\ begun' = [begun EXCEPT ![u] = @ + 1]
  /\ UNCHANGED <<rows, token, opened, shared, confirmed>>

\* TWO_FACTOR_VERIFY_WINDOW_MS, or a restart.
WindowEnds(u) ==
  /\ attempts[u] > 0
  /\ attempts' = [attempts EXCEPT ![u] = 0]
  /\ begun' = [begun EXCEPT ![u] = 0]
  /\ UNCHANGED <<rows, token, req, opened, shared, confirmed>>

\* getUserSecret
ReadSecret(r) ==
  LET u == req[r].user
  IN /\ req[r].op = "attempt" /\ req[r].by = "totp"
     /\ Step(r, IF Enabled(u) THEN [req[r] EXCEPT !.op = "totp", !.secret = secret[u]] ELSE Idle)
     /\ UNCHANGED <<rows, attempts, token, history>>

\* Mutant of Unused: used or not.
AnyCode(u) == CodesOf(u)

Unused(u) == {k \in CodesOf(u) : ~code[k].used}

\* The unused codes, which are then compared one by one.
ReadCodes(r) ==
  LET ks == Unused(req[r].user)
  IN /\ req[r].op = "attempt" /\ req[r].by = "recovery"
     /\ Step(r, [req[r] EXCEPT !.op = "recovery", !.codes = ks])
     /\ shared' = shared \union {k \in ks : \E q \in Requests \ {r} : k \in req[q].codes}
     /\ UNCHANGED <<rows, attempts, token, begun, opened, confirmed>>

\* A wrong code: the handler ends.
Refused(r) ==
  /\ req[r].op \in {"totp", "recovery", "enable"}
  /\ Step(r, Idle)
  /\ UNCHANGED <<rows, attempts, token, history>>

\* clearVerifyAttempts, and what the attempt was for.
Succeed(r) ==
  LET u == req[r].user
  IN /\ req[r].op \in {"totp", "used"}
     /\ attempts' = [attempts EXCEPT ![u] = 0]
     /\ begun' = [begun EXCEPT ![u] = 0]
     /\ Step(r, IF req[r].aim = "disable" THEN [Idle EXCEPT !.op = "disable", !.user = u] ELSE Idle)
     /\ UNCHANGED <<rows, token, opened, shared, confirmed>>

\* The code that matches is marked by its id; if its row is gone the call throws.
UseCode(r, k) ==
  /\ req[r].op = "recovery" /\ k \in req[r].codes
  /\ IF code[k].user = None
     THEN Step(r, Idle) /\ UNCHANGED <<code, opened>>
     ELSE /\ code' = [code EXCEPT ![k].used = TRUE]
          /\ opened' = [opened EXCEPT ![k] = @ + 1]
          /\ Step(r, [req[r] EXCEPT !.op = "used", !.codes = {}])
  /\ UNCHANGED <<secret, pending, attempts, token, begun, shared, confirmed>>

\* disable, once verified
Disable(r) ==
  LET u == req[r].user
  IN /\ req[r].op = "disable"
     /\ secret' = [secret EXCEPT ![u] = None]
     /\ pending' = [pending EXCEPT ![u] = NotPending]
     /\ code' = [k \in Codes |-> IF code[k].user = u THEN NoCode ELSE code[k]]
     /\ Step(r, Idle)
     /\ UNCHANGED <<attempts, token, history>>

-----------------------------------------------------------------------------
Handler(r) ==
  \/ \E u \in Users :
       \/ \E s \in Secrets : SetupCheck(r, u, s)
       \/ EnableCheck(r, u)
       \/ \E aim \in {"login", "disable"}, by \in {"totp", "recovery"} : Attempt(r, u, aim, by)
  \/ Setup(r)
  \/ ClearPending(r)
  \/ \E ks \in SUBSET Codes : Enable(r, ks)
  \/ ReadSecret(r)
  \/ ReadCodes(r)
  \/ \E k \in Codes : UseCode(r, k)
  \/ Refused(r)
  \/ Succeed(r)
  \/ Disable(r)

Next ==
  \/ \E r \in Requests : Handler(r)
  \/ \E u \in Users : Login(u) \/ TokenExpires(u) \/ PendingExpires(u) \/ WindowEnds(u)

Spec == Init /\ [][Next]_vars

-----------------------------------------------------------------------------
(* What the second factor promises.                                        *)

\* However many requests run in parallel, no more codes are tried in a window than
\* allowed, until one of them is right ("Counts the attempt before any await, so
\* parallel requests cannot all pass the check").
AttemptsAreLimited == \A u \in Users : begun[u] <= MaxAttempts

\* A recovery code opens once, and of two attempts that had found it unused at a
\* time each at most once.
RecoveryCodeOpensOnce == \A k \in Codes : opened[k] > 1 => k \in shared
=============================================================================
