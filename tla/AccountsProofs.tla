--------------------------- MODULE AccountsProofs ---------------------------
(***************************************************************************)
(* Proofs about TwoFactor (types and recovery codes as rows, the limit of  *)
(* attempts, recovery codes that open once) and about Accounts (types and  *)
(* unique columns, reset tokens, the link to Steam).                       *)
(***************************************************************************)
EXTENDS Accounts, FiniteSetTheorems, TLAPS

\* A request knows its user, and to confirm a setup the secret that was pending.
CallFits(c) ==
  /\ c.op # "idle" => c.user \in Users
  /\ c.op = "enable" => c.secret # None
CallsOK == req \in [Requests -> Calls] /\ \A r \in Requests : CallFits(req[r])

SecretsOK ==
  /\ secret \in [Users -> Secrets \union {None}] /\ pending \in [Users -> Pendings]
  /\ confirmed \in [Users -> SUBSET Secrets] /\ token \subseteq Users
  /\ \A u \in Users : Enabled(u) => secret[u] \in confirmed[u]

CodeRowsOK ==
  /\ code \in [Codes -> CodeRows] /\ opened \in [Codes -> Nat] /\ shared \subseteq Codes
  /\ \A u \in Users : Cardinality(CodesOf(u)) = IF Enabled(u) THEN CodeCount ELSE 0

\* The counter has every attempt.
CountOK ==
  /\ attempts \in [Users -> 0..MaxAttempts]
  /\ begun = attempts

\* A code that somebody is about to use, or could find unused, has opened nothing,
\* unless two have found it; so what opened twice was found by two.
CodesOK ==
  /\ \A k \in Codes : code[k].user # None /\ ~code[k].used => opened[k] = 0
  /\ \A r \in Requests, k \in Codes : k \in req[r].codes /\ k \notin shared => opened[k] = 0
  /\ \A r, q \in Requests, k \in Codes :
       r # q /\ k \in req[r].codes /\ k \in req[q].codes => k \in shared
  /\ \A k \in Codes : opened[k] > 1 => k \in shared

TwoFactorInv == CallsOK /\ SecretsOK /\ CodeRowsOK /\ CountOK /\ CodesOK

-----------------------------------------------------------------------------
LEMMA InvInit == ASSUME Init PROVE TwoFactorInv
<1> USE TwoFactorAssumption DEF Init
<1>1. CallsOK
  BY DEF CallsOK, CallFits, Calls, Ops, Idle
<1>2. SecretsOK
  BY DEF SecretsOK, Pendings, NotPending, Enabled
<1>3. CodeRowsOK
  <2>1. \A u \in Users : CodesOf(u) = {} /\ ~Enabled(u)
    BY DEF CodesOf, NoCode, Enabled
  <2> QED BY <2>1, FS_EmptySet DEF CodeRowsOK, CodeRows, NoCode
<1>4. CountOK
  BY DEF CountOK
<1>5. CodesOK
  BY DEF CodesOK, Idle
<1> QED BY <1>1, <1>2, <1>3, <1>4, <1>5 DEF TwoFactorInv

LEMMA InvTypes == ASSUME TwoFactorInv PROVE TwoFactorTypeOK
<1>1. begun \in [Users -> Nat]
  BY TwoFactorAssumption DEF TwoFactorInv, CountOK
<1> QED BY <1>1 DEF TwoFactorInv, CallsOK, SecretsOK, CodeRowsOK, CountOK, TwoFactorTypeOK

-----------------------------------------------------------------------------
\* What a step on one request does to all.
LEMMA StepCalls ==
  ASSUME CallsOK, NEW r \in Requests, NEW c \in Calls, CallFits(c), Step(r, c)
  PROVE  /\ CallsOK' /\ req'[r] = c
         /\ \A q \in Requests : q # r => req'[q] = req[q]
<1>1. req \in [Requests -> Calls] /\ req' = [req EXCEPT ![r] = c]
  BY DEF CallsOK, Step
<1>2. /\ req' \in [Requests -> Calls] /\ req'[r] = c
      /\ \A q \in Requests : q # r => req'[q] = req[q]
  BY <1>1
<1>3. ASSUME NEW q \in Requests PROVE CallFits(req[q])'
  <2>1. CallFits(req'[q])
    BY <1>2 DEF CallsOK
  <2> QED BY <2>1 DEF CallFits
<1> QED BY <1>2, <1>3 DEF CallsOK

\* Codes stay as they are, and no request knows of more.
LEMMA CodesUntouched ==
  ASSUME CodeRowsOK, CodesOK, UNCHANGED <<code, opened, shared>>,
         \A q \in Requests : req'[q].codes \subseteq req[q].codes
  PROVE  CodesOK'
  BY DEF CodeRowsOK, CodesOK

LEMMA CodeRowsUntouched ==
  ASSUME CodeRowsOK, UNCHANGED <<code, opened, shared, secret>> PROVE CodeRowsOK'
<1>1. \A u \in Users : CodesOf(u)' = CodesOf(u) /\ (Enabled(u)' <=> Enabled(u))
  BY DEF CodesOf, Enabled
<1> QED BY <1>1 DEF CodeRowsOK

\* A request that goes on to c, which knows of no code, and writes no secret and no
\* code.
LEMMA PlainStep ==
  ASSUME TwoFactorInv, NEW r \in Requests, NEW c \in Calls, CallFits(c), Step(r, c),
         c.codes = {}, UNCHANGED <<secret, code, opened, shared>>
  PROVE  CallsOK' /\ CodeRowsOK' /\ CodesOK'
<1>1. CallsOK' /\ \A q \in Requests : req'[q].codes \subseteq req[q].codes
  BY StepCalls DEF TwoFactorInv
<1> QED BY <1>1, CodesUntouched, CodeRowsUntouched DEF TwoFactorInv

LEMMA IdleCall == Idle \in Calls /\ CallFits(Idle) /\ Idle.codes = {}
  BY DEF Idle, Calls, Ops, CallFits

LEMMA CountUntouched == ASSUME CountOK, UNCHANGED <<attempts, begun>> PROVE CountOK'
  BY DEF CountOK

LEMMA CountCleared ==
  ASSUME CountOK, NEW u, attempts' = [attempts EXCEPT ![u] = 0], begun' = [begun EXCEPT ![u] = 0]
  PROVE  CountOK'
<1>1. 0 \in 0..MaxAttempts
  BY TwoFactorAssumption
<1> QED BY <1>1 DEF CountOK

LEMMA SecretsUntouched ==
  ASSUME SecretsOK, UNCHANGED <<secret, confirmed>>,
         pending' \in [Users -> Pendings], token' \subseteq Users
  PROVE  SecretsOK'
  BY DEF SecretsOK, Enabled

-----------------------------------------------------------------------------
LEMMA SetupCheckKeeps ==
  ASSUME TwoFactorInv, NEW r \in Requests, NEW u \in Users, NEW s \in Secrets, SetupCheck(r, u, s)
  PROVE  TwoFactorInv'
<1> DEFINE c == [Idle EXCEPT !.op = "setup", !.user = u, !.secret = s]
<1>1. c \in Calls /\ CallFits(c) /\ c.codes = {}
  BY DEF Calls, Ops, Idle, CallFits
<1>2. /\ Step(r, c) /\ UNCHANGED <<secret, pending, code, attempts, token, begun, opened, shared>>
      /\ confirmed' = [v \in Users |-> confirmed[v] \ {s}]
      /\ \A v \in Users : secret[v] # s
  BY DEF SetupCheck, Begin, rows, Unknown
<1> HIDE DEF c
<1>3. CallsOK' /\ CodeRowsOK' /\ CodesOK'
  BY <1>1, <1>2, PlainStep
<1>4. SecretsOK'
  BY <1>2 DEF TwoFactorInv, SecretsOK, Enabled
<1> QED BY <1>2, <1>3, <1>4, CountUntouched DEF TwoFactorInv

LEMMA SetupKeeps ==
  ASSUME TwoFactorInv, NEW r \in Requests, Setup(r) PROVE TwoFactorInv'
<1>1. Step(r, Idle) /\ UNCHANGED <<secret, code, attempts, token, begun, opened, shared, confirmed>>
  BY DEF Setup, history
<1>2. CallsOK' /\ CodeRowsOK' /\ CodesOK'
  BY <1>1, IdleCall, PlainStep
<1>3. pending' \in [Users -> Pendings]
  BY DEF Setup, TwoFactorInv, CallsOK, Calls, SecretsOK, Pendings
<1>4. SecretsOK'
  BY <1>1, <1>3, SecretsUntouched DEF TwoFactorInv, SecretsOK
<1> QED BY <1>1, <1>2, <1>4, CountUntouched DEF TwoFactorInv

LEMMA EnableCheckKeeps ==
  ASSUME TwoFactorInv, NEW r \in Requests, NEW u \in Users, EnableCheck(r, u) PROVE TwoFactorInv'
<1> DEFINE c == [Idle EXCEPT !.op = IF pending[u].expired THEN "clear" ELSE "enable",
                             !.user = u, !.secret = pending[u].secret]
<1>1. pending[u].secret \in Secrets
  BY DEF EnableCheck, TwoFactorInv, SecretsOK, Pendings
<1>2. c \in Calls /\ CallFits(c) /\ c.codes = {}
  BY <1>1, TwoFactorAssumption DEF Calls, Ops, Idle, CallFits
<1>3. Step(r, c) /\ UNCHANGED <<secret, pending, code, attempts, token, begun, opened, shared, confirmed>>
  BY DEF EnableCheck, Begin, rows, history
<1> HIDE DEF c
<1>4. CallsOK' /\ CodeRowsOK' /\ CodesOK'
  BY <1>2, <1>3, PlainStep
<1>5. SecretsOK'
  BY <1>3, SecretsUntouched DEF TwoFactorInv, SecretsOK
<1> QED BY <1>3, <1>4, <1>5, CountUntouched DEF TwoFactorInv

LEMMA ClearPendingKeeps ==
  ASSUME TwoFactorInv, NEW r \in Requests, ClearPending(r) PROVE TwoFactorInv'
<1>1. Step(r, Idle) /\ UNCHANGED <<secret, code, attempts, token, begun, opened, shared, confirmed>>
  BY DEF ClearPending, history
<1>2. CallsOK' /\ CodeRowsOK' /\ CodesOK'
  BY <1>1, IdleCall, PlainStep
<1>3. pending' \in [Users -> Pendings]
  BY DEF ClearPending, TwoFactorInv, SecretsOK, Pendings, NotPending
<1>4. SecretsOK'
  BY <1>1, <1>3, SecretsUntouched DEF TwoFactorInv, SecretsOK
<1> QED BY <1>1, <1>2, <1>4, CountUntouched DEF TwoFactorInv

\* The attempt is counted where it begins.
LEMMA AttemptKeeps ==
  ASSUME TwoFactorInv, NEW r \in Requests, NEW u \in Users, NEW aim \in {"login", "disable"},
         NEW by \in {"totp", "recovery"}, Attempt(r, u, aim, by)
  PROVE  TwoFactorInv'
<1> DEFINE c == [Idle EXCEPT !.op = "attempt", !.user = u, !.aim = aim, !.by = by]
<1>1. c \in Calls /\ CallFits(c) /\ c.codes = {}
  BY DEF Calls, Ops, Idle, CallFits
<1>2. Step(r, c) /\ UNCHANGED <<secret, pending, code, token, opened, shared, confirmed>>
  BY DEF Attempt, Begin, rows
<1> HIDE DEF c
<1>3. CallsOK' /\ CodeRowsOK' /\ CodesOK'
  BY <1>1, <1>2, PlainStep
<1>4. SecretsOK'
  BY <1>2, SecretsUntouched DEF TwoFactorInv, SecretsOK
<1>5. CountOK'
  BY TwoFactorAssumption DEF Attempt, TwoFactorInv, CountOK
<1> QED BY <1>3, <1>4, <1>5 DEF TwoFactorInv

LEMMA ReadSecretKeeps ==
  ASSUME TwoFactorInv, NEW r \in Requests, ReadSecret(r) PROVE TwoFactorInv'
<1> DEFINE u == req[r].user
           c == IF Enabled(u) THEN [req[r] EXCEPT !.op = "totp", !.secret = secret[u]] ELSE Idle
<1>1. u \in Users /\ secret[u] \in Secrets \union {None} /\ req[r] \in Calls /\ req[r].op = "attempt"
  BY DEF ReadSecret, TwoFactorInv, CallsOK, CallFits, SecretsOK
<1>2. c \in Calls /\ CallFits(c) /\ c.codes \subseteq req[r].codes
  BY <1>1 DEF Calls, Ops, Idle, CallFits
<1>3. Step(r, c) /\ UNCHANGED <<secret, pending, code, attempts, token, begun, opened, shared, confirmed>>
  BY DEF ReadSecret, rows, history
<1> HIDE DEF c
<1>4. CallsOK' /\ \A q \in Requests : req'[q].codes \subseteq req[q].codes
  BY <1>2, <1>3, StepCalls DEF TwoFactorInv
<1>5. CodeRowsOK' /\ CodesOK' /\ CountOK'
  BY <1>3, <1>4, CodesUntouched, CodeRowsUntouched, CountUntouched DEF TwoFactorInv
<1>6. SecretsOK'
  BY <1>3, SecretsUntouched DEF TwoFactorInv, SecretsOK
<1> QED BY <1>4, <1>5, <1>6 DEF TwoFactorInv

LEMMA RefusedKeeps ==
  ASSUME TwoFactorInv, NEW r \in Requests, Refused(r) PROVE TwoFactorInv'
<1>1. Step(r, Idle) /\ UNCHANGED <<secret, pending, code, attempts, token, begun, opened, shared, confirmed>>
  BY DEF Refused, rows, history
<1>2. CallsOK' /\ CodeRowsOK' /\ CodesOK'
  BY <1>1, IdleCall, PlainStep
<1>3. SecretsOK'
  BY <1>1, SecretsUntouched DEF TwoFactorInv, SecretsOK
<1> QED BY <1>1, <1>2, <1>3, CountUntouched DEF TwoFactorInv

LEMMA SucceedKeeps ==
  ASSUME TwoFactorInv, NEW r \in Requests, Succeed(r) PROVE TwoFactorInv'
<1> DEFINE u == req[r].user
           c == IF req[r].aim = "disable" THEN [Idle EXCEPT !.op = "disable", !.user = u] ELSE Idle
<1>1. u \in Users
  BY DEF Succeed, TwoFactorInv, CallsOK, CallFits
<1>2. c \in Calls /\ CallFits(c) /\ c.codes = {}
  BY <1>1 DEF Calls, Ops, Idle, CallFits
<1>3. Step(r, c) /\ UNCHANGED <<secret, pending, code, token, opened, shared, confirmed>>
  BY DEF Succeed, rows
<1> HIDE DEF c
<1>4. CallsOK' /\ CodeRowsOK' /\ CodesOK'
  BY <1>2, <1>3, PlainStep
<1>5. SecretsOK'
  BY <1>3, SecretsUntouched DEF TwoFactorInv, SecretsOK
<1>6. CountOK'
  BY CountCleared DEF Succeed, TwoFactorInv
<1> QED BY <1>4, <1>5, <1>6 DEF TwoFactorInv

-----------------------------------------------------------------------------
\* The unused codes are found: a code that another request has found is shared.
LEMMA ReadCodesKeeps ==
  ASSUME TwoFactorInv, NEW r \in Requests, ReadCodes(r) PROVE TwoFactorInv'
<1> DEFINE ks == Unused(req[r].user)
           c == [req[r] EXCEPT !.op = "recovery", !.codes = ks]
<1>1. req[r] \in Calls /\ CallFits(req[r]) /\ req[r].op = "attempt"
  BY DEF ReadCodes, TwoFactorInv, CallsOK
<1>2. ks \subseteq Codes /\ \A k \in ks : code[k].user \in Users /\ ~code[k].used
  BY <1>1 DEF Unused, CodesOf, CallFits
<1>3. c \in Calls /\ CallFits(c) /\ c.codes = ks
  BY <1>1, <1>2 DEF Calls, Ops, CallFits
<1>4. /\ Step(r, c) /\ UNCHANGED <<secret, pending, code, attempts, token, begun, opened, confirmed>>
      /\ shared' = shared \union {k \in ks : \E q \in Requests \ {r} : k \in req[q].codes}
  BY DEF ReadCodes, rows
<1> HIDE DEF c, ks
<1>5. CallsOK' /\ req'[r] = c /\ \A q \in Requests : q # r => req'[q] = req[q]
  BY <1>3, <1>4, StepCalls DEF TwoFactorInv
<1>6. SecretsOK' /\ CountOK'
  BY <1>4, SecretsUntouched, CountUntouched DEF TwoFactorInv, SecretsOK
<1>7. CodeRowsOK'
  <2>1. \A v \in Users : CodesOf(v)' = CodesOf(v) /\ (Enabled(v)' <=> Enabled(v))
    BY <1>4 DEF CodesOf, Enabled
  <2> QED BY <1>2, <1>4, <2>1 DEF TwoFactorInv, CodeRowsOK
<1>8. ASSUME NEW q \in Requests, NEW k \in Codes, k \in req'[q].codes, k \notin shared'
      PROVE  opened'[k] = 0
  <2>1. CASE q = r
    BY <2>1, <1>2, <1>3, <1>4, <1>5, <1>8, TwoFactorAssumption DEF TwoFactorInv, CodesOK
  <2>2. CASE q # r
    BY <2>2, <1>4, <1>5, <1>8 DEF TwoFactorInv, CodesOK
  <2> QED BY <2>1, <2>2
<1>9. ASSUME NEW p \in Requests, NEW q \in Requests, NEW k \in Codes,
             p # q, k \in req'[p].codes, k \in req'[q].codes
      PROVE  k \in shared'
  <2>1. CASE p = r \/ q = r
    BY <2>1, <1>3, <1>4, <1>5, <1>9
  <2>2. CASE p # r /\ q # r
    BY <2>2, <1>4, <1>5, <1>9 DEF TwoFactorInv, CodesOK
  <2> QED BY <2>1, <2>2
<1>10. CodesOK'
  BY <1>4, <1>8, <1>9 DEF TwoFactorInv, CodesOK
<1> QED BY <1>5, <1>6, <1>7, <1>10 DEF TwoFactorInv

\* A code is used: whoever else has found it shares it.
LEMMA UseCodeKeeps ==
  ASSUME TwoFactorInv, NEW r \in Requests, NEW k \in Codes, UseCode(r, k) PROVE TwoFactorInv'
<1> DEFINE c == [req[r] EXCEPT !.op = "used", !.codes = {}]
<1>1. /\ req[r] \in Calls /\ CallFits(req[r]) /\ req[r].op = "recovery" /\ k \in req[r].codes
      /\ UNCHANGED <<secret, pending, attempts, token, begun, shared, confirmed>>
  BY DEF UseCode, TwoFactorInv, CallsOK
<1>2. SecretsOK' /\ CountOK'
  BY <1>1, SecretsUntouched, CountUntouched DEF TwoFactorInv, SecretsOK
<1>3. CASE code[k].user = None
  <2>1. Step(r, Idle) /\ UNCHANGED <<code, opened>>
    BY <1>3 DEF UseCode
  <2>2. CallsOK' /\ CodeRowsOK' /\ CodesOK'
    BY <1>1, <2>1, IdleCall, PlainStep
  <2> QED BY <1>2, <2>2 DEF TwoFactorInv
<1>4. CASE code[k].user # None
  <2>1. /\ Step(r, c)
        /\ code' = [code EXCEPT ![k].used = TRUE] /\ opened' = [opened EXCEPT ![k] = @ + 1]
    BY <1>4 DEF UseCode
  <2>2. c \in Calls /\ CallFits(c) /\ c.codes = {}
    BY <1>1 DEF Calls, Ops, CallFits
  <2> HIDE DEF c
  <2>3. CallsOK' /\ req'[r] = c /\ \A q \in Requests : q # r => req'[q] = req[q]
    BY <2>1, <2>2, StepCalls DEF TwoFactorInv
  <2>4. code \in [Codes -> CodeRows] /\ opened \in [Codes -> Nat]
    BY DEF TwoFactorInv, CodeRowsOK
  <2>5. /\ code' \in [Codes -> CodeRows] /\ opened' \in [Codes -> Nat]
        /\ \A x \in Codes : code'[x].user = code[x].user /\ (x # k => code'[x] = code[x] /\ opened'[x] = opened[x])
        /\ code'[k].used /\ opened'[k] = opened[k] + 1
    <3>1. [code[k] EXCEPT !.used = TRUE] \in CodeRows
      BY <2>4 DEF CodeRows
    <3>2. code'[k] = [code[k] EXCEPT !.used = TRUE] /\ \A x \in Codes : x # k => code'[x] = code[x]
      BY <2>1, <2>4
    <3>3. code' \in [Codes -> CodeRows]
      BY <2>1, <2>4, <3>1
    <3>4. code'[k].user = code[k].user /\ code'[k].used = TRUE
      BY <2>4, <3>2 DEF CodeRows
    <3>5. opened' \in [Codes -> Nat] /\ opened'[k] = opened[k] + 1
          /\ \A x \in Codes : x # k => opened'[x] = opened[x]
      BY <2>1, <2>4
    <3> QED BY <3>2, <3>3, <3>4, <3>5
  <2>6. CodeRowsOK'
    <3>1. \A v \in Users : CodesOf(v)' = CodesOf(v) /\ (Enabled(v)' <=> Enabled(v))
      BY <1>1, <2>5 DEF CodesOf, Enabled
    <3> QED BY <1>1, <2>5, <3>1 DEF TwoFactorInv, CodeRowsOK
  <2>7. k \in shared \/ opened[k] = 0
    BY <1>1 DEF TwoFactorInv, CodesOK
  <2>8. \A q \in Requests : k \in req'[q].codes => k \in shared
    BY <1>1, <2>2, <2>3 DEF TwoFactorInv, CodesOK
  <2>9. \A q \in Requests : req'[q].codes \subseteq req[q].codes
    BY <2>2, <2>3
  <2>10. CodesOK'
    <3>1. \A x \in Codes : code'[x].user # None /\ ~code'[x].used => opened'[x] = 0
      BY <2>5 DEF TwoFactorInv, CodesOK
    <3>2. \A q \in Requests, x \in Codes : x \in req'[q].codes /\ x \notin shared => opened'[x] = 0
      BY <2>5, <2>8, <2>9 DEF TwoFactorInv, CodesOK
    <3>3. \A p, q \in Requests, x \in Codes :
            p # q /\ x \in req'[p].codes /\ x \in req'[q].codes => x \in shared
      BY <2>9 DEF TwoFactorInv, CodesOK
    <3>4. \A x \in Codes : opened'[x] > 1 => x \in shared
      BY <2>4, <2>5, <2>7 DEF TwoFactorInv, CodesOK
    <3> QED BY <1>1, <3>1, <3>2, <3>3, <3>4 DEF CodesOK
  <2> QED BY <1>2, <2>3, <2>6, <2>10 DEF TwoFactorInv
<1> QED BY <1>3, <1>4

\* The second factor is given up, with its codes.
LEMMA DisableKeeps ==
  ASSUME TwoFactorInv, NEW r \in Requests, Disable(r) PROVE TwoFactorInv'
<1>1. PICK u \in Users : u = req[r].user
  BY DEF Disable, TwoFactorInv, CallsOK, CallFits
<1>2. /\ secret' = [secret EXCEPT ![u] = None] /\ pending' = [pending EXCEPT ![u] = NotPending]
      /\ code' = [k \in Codes |-> IF code[k].user = u THEN NoCode ELSE code[k]]
      /\ Step(r, Idle) /\ UNCHANGED <<attempts, token, begun, opened, shared, confirmed>>
  BY <1>1 DEF Disable, history
<1>3. CallsOK' /\ CountOK' /\ \A q \in Requests : req'[q].codes \subseteq req[q].codes
  BY <1>2, IdleCall, StepCalls, CountUntouched DEF TwoFactorInv
<1>4. SecretsOK'
  BY <1>2 DEF TwoFactorInv, SecretsOK, Enabled, Pendings, NotPending
<1>5. /\ code' \in [Codes -> CodeRows]
      /\ \A k \in Codes : code'[k] = IF code[k].user = u THEN NoCode ELSE code[k]
  BY <1>2 DEF TwoFactorInv, CodeRowsOK, CodeRows, NoCode
<1>6. CodeRowsOK'
  <2>1. CodesOf(u)' = {} /\ ~Enabled(u)'
    BY <1>1, <1>2, <1>5, TwoFactorAssumption DEF CodesOf, Enabled, NoCode, TwoFactorInv, SecretsOK
  <2>2. ASSUME NEW v \in Users, v # u PROVE CodesOf(v)' = CodesOf(v) /\ (Enabled(v)' <=> Enabled(v))
    BY <2>2, <1>2, <1>5, TwoFactorAssumption DEF CodesOf, Enabled, NoCode, TwoFactorInv, SecretsOK
  <2>3. ASSUME NEW v \in Users PROVE Cardinality(CodesOf(v))' = IF Enabled(v)' THEN CodeCount ELSE 0
    <3>1. CASE v = u
      BY <3>1, <2>1, FS_EmptySet
    <3>2. CASE v # u
      BY <3>2, <2>2 DEF TwoFactorInv, CodeRowsOK
    <3> QED BY <3>1, <3>2
  <2> QED BY <1>2, <1>5, <2>3 DEF TwoFactorInv, CodeRowsOK
<1>7. CodesOK'
  BY <1>2, <1>3, <1>5 DEF TwoFactorInv, CodesOK, NoCode
<1> QED BY <1>3, <1>4, <1>6, <1>7 DEF TwoFactorInv

\* The second factor comes into force, with new codes that no request knows of.
LEMMA EnableKeeps ==
  ASSUME TwoFactorInv, NEW r \in Requests, NEW ks \in SUBSET Codes, Enable(r, ks)
  PROVE  TwoFactorInv'
<1>1. PICK u \in Users : u = req[r].user
  BY DEF Enable, TwoFactorInv, CallsOK, CallFits
<1>2. PICK s \in Secrets : s = req[r].secret
  BY DEF Enable, TwoFactorInv, CallsOK, CallFits, Calls
<1>3. /\ secret' = [secret EXCEPT ![u] = s] /\ pending' = [pending EXCEPT ![u] = NotPending]
      /\ confirmed' = [confirmed EXCEPT ![u] = @ \union {s}]
      /\ NewCodes(u, ks) /\ Step(r, Idle) /\ UNCHANGED <<attempts, token, begun>>
  BY <1>1, <1>2 DEF Enable
<1>4. CallsOK' /\ CountOK' /\ \A q \in Requests : req'[q].codes \subseteq req[q].codes
  BY <1>3, IdleCall, StepCalls, CountUntouched DEF TwoFactorInv
<1>5. SecretsOK'
  BY <1>3 DEF TwoFactorInv, SecretsOK, Enabled, Pendings, NotPending
<1>6. /\ \A k \in ks : code[k].user \in {None, u} /\ \A q \in Requests : k \notin req[q].codes
      /\ Cardinality(ks) = CodeCount
      /\ code' = [k \in Codes |-> IF k \in ks THEN [user |-> u, used |-> FALSE]
                                  ELSE IF code[k].user = u THEN NoCode ELSE code[k]]
      /\ opened' = [k \in Codes |-> IF k \in ks THEN 0 ELSE opened[k]]
      /\ shared' = shared \ ks
  BY <1>3 DEF NewCodes
<1>7. /\ code' \in [Codes -> CodeRows] /\ opened' \in [Codes -> Nat] /\ shared' \subseteq Codes
      /\ \A k \in ks : code'[k].user = u /\ opened'[k] = 0
      /\ \A k \in Codes \ ks : opened'[k] = opened[k]
           /\ code'[k] = IF code[k].user = u THEN NoCode ELSE code[k]
  BY <1>6 DEF TwoFactorInv, CodeRowsOK, CodeRows, NoCode
<1>8. CodeRowsOK'
  <2>1. CodesOf(u)' = ks
    BY <1>7, TwoFactorAssumption DEF CodesOf, NoCode
  <2>2. Enabled(u)'
    BY <1>3, TwoFactorAssumption DEF Enabled, TwoFactorInv, SecretsOK
  <2>3. ASSUME NEW v \in Users, v # u PROVE CodesOf(v)' = CodesOf(v) /\ (Enabled(v)' <=> Enabled(v))
    <3>1. CodesOf(v)' = CodesOf(v)
      BY <2>3, <1>6, <1>7, TwoFactorAssumption DEF CodesOf, NoCode
    <3>2. secret'[v] = secret[v]
      BY <2>3, <1>3 DEF TwoFactorInv, SecretsOK
    <3> QED BY <3>1, <3>2 DEF Enabled
  <2>4. ASSUME NEW v \in Users PROVE Cardinality(CodesOf(v))' = IF Enabled(v)' THEN CodeCount ELSE 0
    <3>1. CASE v = u
      BY <3>1, <2>1, <2>2, <1>6
    <3>2. CASE v # u
      BY <3>2, <2>3 DEF TwoFactorInv, CodeRowsOK
    <3> QED BY <3>1, <3>2
  <2> QED BY <1>7, <2>4 DEF CodeRowsOK
<1>9. CodesOK'
  <2>1. \A k \in Codes : code'[k].user # None /\ ~code'[k].used => opened'[k] = 0
    BY <1>7 DEF TwoFactorInv, CodesOK, NoCode
  <2>2. \A q \in Requests, k \in Codes : k \in req'[q].codes => k \in req[q].codes /\ k \notin ks
    BY <1>4, <1>6
  <2>3. \A k \in Codes : opened'[k] > 1 => k \in shared'
    BY <1>6, <1>7 DEF TwoFactorInv, CodesOK
  <2> QED BY <1>6, <1>7, <2>1, <2>2, <2>3 DEF TwoFactorInv, CodesOK
<1> QED BY <1>4, <1>5, <1>8, <1>9 DEF TwoFactorInv

\* Steps of no request.
LEMMA OthersKeep ==
  ASSUME TwoFactorInv, NEW u \in Users,
         Login(u) \/ TokenExpires(u) \/ PendingExpires(u) \/ WindowEnds(u)
  PROVE  TwoFactorInv'
<1>1. UNCHANGED <<secret, code, req, opened, shared, confirmed>>
  BY DEF Login, TokenExpires, PendingExpires, WindowEnds, rows, history
<1>2. CallsOK' /\ CodeRowsOK' /\ CodesOK'
  BY <1>1, CodesUntouched, CodeRowsUntouched DEF TwoFactorInv, CallsOK, CallFits
<1>3. pending' \in [Users -> Pendings] /\ token' \subseteq Users
  <2>1. pending \in [Users -> Pendings] /\ token \subseteq Users
    BY DEF TwoFactorInv, SecretsOK
  <2>2. CASE PendingExpires(u)
    <3>1. [pending[u] EXCEPT !.expired = TRUE] \in Pendings
      BY <2>1 DEF Pendings
    <3> QED BY <2>1, <2>2, <3>1 DEF PendingExpires
  <2>3. CASE Login(u) \/ TokenExpires(u) \/ WindowEnds(u)
    BY <2>1, <2>3 DEF Login, TokenExpires, WindowEnds, rows
  <2> QED BY <2>2, <2>3
<1>4. CountOK'
  <2>1. CASE WindowEnds(u)
    BY <2>1, CountCleared DEF WindowEnds, TwoFactorInv
  <2>2. CASE Login(u) \/ TokenExpires(u) \/ PendingExpires(u)
    BY <2>2, CountUntouched DEF Login, TokenExpires, PendingExpires, history, TwoFactorInv
  <2> QED BY <2>1, <2>2
<1>5. SecretsOK'
  BY <1>1, <1>3, SecretsUntouched DEF TwoFactorInv
<1> QED BY <1>2, <1>4, <1>5 DEF TwoFactorInv

LEMMA StutterKeeps == ASSUME TwoFactorInv, UNCHANGED vars PROVE TwoFactorInv'
<1>1. CallsOK' /\ CodeRowsOK' /\ CodesOK'
  BY CodesUntouched, CodeRowsUntouched DEF TwoFactorInv, CallsOK, CallFits, vars
<1>2. SecretsOK' /\ CountOK'
  BY SecretsUntouched, CountUntouched DEF TwoFactorInv, SecretsOK, vars
<1> QED BY <1>1, <1>2 DEF TwoFactorInv

LEMMA HandlerKeeps ==
  ASSUME TwoFactorInv, NEW r \in Requests, Handler(r) PROVE TwoFactorInv'
<1>1. CASE \E u \in Users :
             \/ \E s \in Secrets : SetupCheck(r, u, s)
             \/ EnableCheck(r, u)
             \/ \E aim \in {"login", "disable"}, by \in {"totp", "recovery"} : Attempt(r, u, aim, by)
  BY <1>1, SetupCheckKeeps, EnableCheckKeeps, AttemptKeeps
<1>2. CASE Setup(r) \/ ClearPending(r) \/ ReadSecret(r) \/ ReadCodes(r)
           \/ Refused(r) \/ Succeed(r) \/ Disable(r)
  BY <1>2, SetupKeeps, ClearPendingKeeps, ReadSecretKeeps, ReadCodesKeeps,
     RefusedKeeps, SucceedKeeps, DisableKeeps
<1>3. CASE \E ks \in SUBSET Codes : Enable(r, ks)
  BY <1>3, EnableKeeps
<1>4. CASE \E k \in Codes : UseCode(r, k)
  BY <1>4, UseCodeKeeps
<1> QED BY <1>1, <1>2, <1>3, <1>4 DEF Handler

LEMMA InvNext == ASSUME TwoFactorInv, [Next]_vars PROVE TwoFactorInv'
  BY HandlerKeeps, OthersKeep, StutterKeeps DEF Next

LEMMA Invariance == Spec => []TwoFactorInv
  BY InvInit, InvNext, PTL DEF Spec

\* Rows keep their types; a user has as many recovery codes as were handed out, and
\* none without a second factor; the secret in force is one that was confirmed.
THEOREM TypeCorrectness == Spec => []TwoFactorTypeOK
  BY Invariance, InvTypes, PTL

\* In a window no more attempts begin than are allowed, however many run at a time.
THEOREM LimitedAttempts == Spec => []AttemptsAreLimited
<1>1. TwoFactorInv => AttemptsAreLimited
  BY TwoFactorAssumption DEF TwoFactorInv, CountOK, AttemptsAreLimited
<1> QED BY <1>1, Invariance, PTL

\* A recovery code that only one request at a time has found opens once.
THEOREM CodesOpenOnce == Spec => []RecoveryCodeOpensOnce
<1>1. TwoFactorInv => RecoveryCodeOpensOnce
  BY DEF TwoFactorInv, CodesOK, RecoveryCodeOpensOnce
<1> QED BY <1>1, Invariance, PTL

-----------------------------------------------------------------------------
(* Accounts.                                                               *)

\* No token of two users; what is said of tokens is said of those in rows.
TokensOK ==
  /\ expired \union mailed \subseteq UNION {InForce(u) : u \in Users}
  /\ \A u, v \in Users : u # v => InForce(u) \intersect InForce(v) = {}

\* Unique columns; and an account that nobody has signed up for is empty.
RowsOK ==
  /\ account \in [Users -> Accounts]
  /\ \A u, v \in Users : u # v =>
       /\ account[u].nickname = account[v].nickname => account[u].nickname = None
       /\ account[u].steam = account[v].steam => account[u].steam = None
  /\ \A u \in Users : account[u].registered <=> account[u].nickname # None
  /\ \A u \in Users : ~account[u].registered => account[u] = NoAccount

\* What a handler carries, and that only a sign-up is for an account yet to come.
TaskFits(x) ==
  /\ x.op = "idle" => x = NoTask
  /\ x.op # "idle" => x.user \in Users
  /\ x.op \in {"signUp", "nickname"} => x.nickname \in Nicknames
  /\ x.op = "steam" => x.steam \in SteamIds
  /\ x.op = "reset" => x.token \in Tokens
  /\ x.op \notin {"idle", "signUp"} => account[x.user].registered
TasksOK ==
  /\ task \in [Tasks -> TaskRows]
  /\ \A k \in Tasks : TaskFits(task[k])
  /\ linking \subseteq {u \in Users : account[u].registered}

\* The token of a reset is nobody else's; one that has set a password is in no row.
UsedOK ==
  /\ used \subseteq Tokens
  /\ \A u \in Users : account[u].reset \notin used
  /\ \A k \in Tasks : task[k].op = "reset" =>
       /\ \A v \in Users \ {task[k].user} : task[k].token \notin InForce(v)
       /\ task[k].token \in used => task[k].crossed
  /\ \A j, k \in Tasks : task[j].op = "reset" /\ task[k].op = "reset" /\ task[j].token = task[k].token
       => task[j].user = task[k].user

\* Requests of a user for the same thing that are under way together know it, ...
Together(ops) ==
  \A j, k \in Tasks :
    j # k /\ task[j].op \in ops /\ task[k].op \in ops /\ task[j].user = task[k].user
    => task[j].crossed
CrossedOK == Together({"forgot", "reset"}) /\ Together({"steam"})

\* ... and one that was alone still finds what it has found.
Alone(k, op) == task[k].op = op /\ ~task[k].crossed
FoundOK ==
  \A k \in Tasks : LET row == account[task[k].user] IN
    /\ Alone(k, "forgot") => row.reset = None \/ row.reset \in expired
    /\ Alone(k, "reset") => row.reset = task[k].token
    /\ Alone(k, "steam") => row.steam = None

AccountsInv == TokensOK /\ RowsOK /\ TasksOK /\ UsedOK /\ CrossedOK /\ FoundOK

LEMMA AccountsInvInit == ASSUME AccountsInit PROVE AccountsInv
<1>. USE DEF AccountsInit, NoAccount, NoTask, Maybe
<1>1. \A u \in Users : InForce(u) = {}  BY DEF InForce
<1>2. TokensOK  BY <1>1 DEF TokensOK
<1>3. RowsOK  BY DEF RowsOK, Accounts
<1>4. TasksOK  BY DEF TasksOK, TaskFits, TaskRows
<1>5. UsedOK  BY DEF UsedOK
<1>6. CrossedOK /\ FoundOK  BY DEF CrossedOK, Together, FoundOK, Alone
<1>. QED  BY <1>2, <1>3, <1>4, <1>5, <1>6 DEF AccountsInv

LEMMA AccountsInvTypes ==
  ASSUME AccountsInv
  PROVE  (TwoFactorTypeOK => AccountsTypeOK) /\ ResetTokenSetsOnePassword
<1>1. TwoFactorTypeOK => AccountsTypeOK
  BY DEF AccountsInv, TokensOK, RowsOK, TasksOK, UsedOK, AccountsTypeOK
<1>2. ResetTokenSetsOnePassword
  BY DEF AccountsInv, UsedOK, ResetTokenSetsOnePassword
<1>. QED  BY <1>1, <1>2

\* What starting a task does to the tasks.
LEMMA Started ==
  ASSUME TasksOK, NEW k \in Tasks, NEW ops, NEW x \in TaskRows, StartTask(k, ops, x),
         NEW j \in Tasks
  PROVE  /\ task'[j] \in TaskRows
         /\ j # k => /\ task[j].op \notin ops => task'[j] = task[j]
                     /\ task'[j] = task[j] \/ task'[j] = [task[j] EXCEPT !.crossed = TRUE]
                     /\ task[j].op \in ops /\ task[j].user = x.user =>
                          task'[j].crossed /\ task'[k].crossed
         /\ task'[k] = [x EXCEPT !.crossed = task'[k].crossed]
         /\ task[k] = NoTask
<1>. USE DEF StartTask
<1>1. CASE j = k  BY <1>1 DEF TasksOK, TaskRows
<1>2. CASE j # k  BY <1>2 DEF TasksOK, TaskRows, NoTask
<1>. QED  BY <1>1, <1>2

LEMMA StartKeeps ==
  ASSUME AccountsInv, NEW k \in Tasks, NEW ops, "idle" \notin ops, NEW x \in TaskRows,
         StartTask(k, ops, x),
         UNCHANGED <<account, expired, mailed, linking, used>>,
         TaskFits(x), x.op \notin {"idle", "mail"},
         x.op \in {"forgot", "reset"} => ops = {"forgot", "reset"},
         x.op = "steam" => ops = {"steam"},
         x.op = "forgot" => account[x.user].reset = None \/ account[x.user].reset \in expired,
         x.op = "reset" => account[x.user].reset = x.token,
         x.op = "steam" => account[x.user].steam = None
  PROVE  AccountsInv'
<1>. USE DEF AccountsInv
<1>0. TasksOK /\ task \in [Tasks -> TaskRows]  BY DEF TasksOK
<1>s. \A j \in Tasks :
        /\ task'[j] \in TaskRows
        /\ j # k => /\ task[j].op \notin ops => task'[j] = task[j]
                    /\ task'[j] = task[j] \/ task'[j] = [task[j] EXCEPT !.crossed = TRUE]
                    /\ task[j].op \in ops /\ task[j].user = x.user =>
                         task'[j].crossed /\ task'[k].crossed
        /\ task'[k] = [x EXCEPT !.crossed = task'[k].crossed]
  BY <1>0, Started
<1>1. \A j \in Tasks : /\ task'[j] \in TaskRows
                       /\ task'[j].op = IF j = k THEN x.op ELSE task[j].op
                       /\ task'[j].user = IF j = k THEN x.user ELSE task[j].user
                       /\ task'[j].token = IF j = k THEN x.token ELSE task[j].token
                       /\ task'[j].nickname = IF j = k THEN x.nickname ELSE task[j].nickname
                       /\ task'[j].steam = IF j = k THEN x.steam ELSE task[j].steam
                       /\ j # k /\ task[j].crossed => task'[j].crossed
  <2>1. ASSUME NEW j \in Tasks, j # k
        PROVE  /\ task'[j] \in TaskRows
               /\ task'[j].op = task[j].op /\ task'[j].user = task[j].user
               /\ task'[j].token = task[j].token /\ task'[j].nickname = task[j].nickname
               /\ task'[j].steam = task[j].steam /\ (task[j].crossed => task'[j].crossed)
    <3>1. task'[j] = task[j] \/ task'[j] = [task[j] EXCEPT !.crossed = TRUE]  BY <1>s, <2>1
    <3>. QED  BY <1>0, <3>1 DEF TaskRows
  <2>2. /\ task'[k] \in TaskRows
        /\ task'[k].op = x.op /\ task'[k].user = x.user /\ task'[k].token = x.token
        /\ task'[k].nickname = x.nickname /\ task'[k].steam = x.steam
    <3>1. task'[k] = [x EXCEPT !.crossed = task'[k].crossed]  BY <1>s
    <3>2. task'[k] \in TaskRows  BY <1>s
    <3>. QED  BY <3>1, <3>2 DEF TaskRows
  <2>. QED  BY <2>1, <2>2
<1>2. \A j \in Tasks \ {k} : task[j].op \in ops /\ task[j].user = x.user =>
        task'[j].crossed /\ task'[k].crossed
  BY <1>s
<1>3. TokensOK' /\ RowsOK'
  BY DEF TokensOK, RowsOK, InForce
<1>4. TasksOK'
  <2>1. task' \in [Tasks -> TaskRows]  BY <1>1 DEF StartTask
  <2>2. ASSUME NEW j \in Tasks PROVE TaskFits(task[j])'
    <3>1. CASE j = k  BY <1>1, <3>1 DEF TaskFits
    <3>2. CASE j # k
      <4>1. TaskFits(task[j])  BY <1>0 DEF TasksOK
      <4>2. task[j] = NoTask => task'[j] = NoTask
        <5>1. task[j] = NoTask => task[j].op \notin ops  BY DEF NoTask
        <5>. QED  BY <3>2, <5>1, <1>s
      <4>. QED  BY <1>1, <3>2, <4>1, <4>2 DEF TaskFits
    <3>. QED  BY <3>1, <3>2
  <2>. QED  BY <2>1, <2>2 DEF TasksOK
<1>5. UsedOK'
  <2>1. x.op = "reset" =>
          /\ x.token \in Tokens /\ x.token = account[x.user].reset /\ x.user \in Users
          /\ \A v \in Users \ {x.user} : x.token \notin InForce(v)
    BY AccountsAssumption DEF TaskFits, TokensOK, InForce
  <2>2. ASSUME NEW j \in Tasks, task'[j].op = "reset"
        PROVE  /\ \A v \in Users \ {task'[j].user} : task'[j].token \notin InForce(v)
               /\ task'[j].token \in used => task'[j].crossed
    <3>1. CASE j = k  BY <1>1, <2>1, <2>2, <3>1 DEF UsedOK
    <3>2. CASE j # k  BY <1>1, <2>2, <3>2 DEF UsedOK
    <3>. QED  BY <3>1, <3>2
  <2>3. ASSUME NEW i \in Tasks, NEW j \in Tasks, task'[i].op = "reset", task'[j].op = "reset",
               task'[i].token = task'[j].token
        PROVE  task'[i].user = task'[j].user
    <3>1. CASE i # k /\ j # k  BY <1>1, <2>3, <3>1 DEF UsedOK
    <3>2. ASSUME NEW h \in Tasks \ {k}, task[h].op = "reset", x.op = "reset", task[h].token = x.token
          PROVE  task[h].user = x.user
      <4>1. x.token \in InForce(x.user)  BY <2>1, <3>2, AccountsAssumption DEF InForce
      <4>. QED  BY <2>1, <3>2, <4>1 DEF UsedOK
    <3>3. CASE i = k \/ j = k  BY <1>1, <2>3, <3>2, <3>3
    <3>. QED  BY <3>1, <3>3
  <2>4. used \subseteq Tokens /\ \A u \in Users : account[u].reset \notin used  BY DEF UsedOK
  <2>. QED  BY <2>2, <2>3, <2>4 DEF UsedOK, InForce
<1>6. CrossedOK'
  <2>1. ASSUME NEW i \in Tasks, NEW j \in Tasks, i # j, NEW which \in {{"forgot", "reset"}, {"steam"}},
               task'[i].op \in which, task'[j].op \in which, task'[i].user = task'[j].user
        PROVE  task'[i].crossed
    <3>1. CASE i # k /\ j # k
      <4>1. task[i].crossed
        BY <1>1, <2>1, <3>1 DEF CrossedOK, Together
      <4>. QED  BY <1>1, <3>1, <4>1
    <3>2. CASE i = k
      <4>1. ops = which  BY <1>1, <2>1, <3>2
      <4>. QED  BY <1>1, <1>2, <2>1, <3>2, <4>1
    <3>3. CASE j = k
      <4>1. ops = which  BY <1>1, <2>1, <3>3
      <4>. QED  BY <1>1, <1>2, <2>1, <3>3, <4>1
    <3>. QED  BY <3>1, <3>2, <3>3
  <2>. QED  BY <2>1 DEF CrossedOK, Together
<1>7. FoundOK'
  <2>1. ASSUME NEW j \in Tasks, ~task'[j].crossed, j # k PROVE ~task[j].crossed
    BY <1>1, <2>1
  <2>2. ASSUME NEW j \in Tasks
        PROVE  LET row == account[task'[j].user] IN
               /\ task'[j].op = "forgot" /\ ~task'[j].crossed => row.reset = None \/ row.reset \in expired
               /\ task'[j].op = "reset" /\ ~task'[j].crossed => row.reset = task'[j].token
               /\ task'[j].op = "steam" /\ ~task'[j].crossed => row.steam = None
    <3>1. CASE j = k  BY <1>1, <3>1
    <3>2. CASE j # k  BY <1>1, <2>1, <3>2 DEF FoundOK, Alone
    <3>. QED  BY <3>1, <3>2
  <2>. QED  BY <2>2 DEF FoundOK, Alone
<1>. QED  BY <1>3, <1>4, <1>5, <1>6, <1>7

\* A handler writes the row of its user, perhaps with new tokens, and ends or mails.
Writes(k, u, row, x, fresh) ==
  /\ task[k].op # "idle" /\ u \in Users /\ u = task[k].user
  /\ row \in Accounts /\ WriteAccount(u, row)
  /\ x \in TaskRows /\ Goes(k, x) /\ (x = NoTask \/ (x.op = "mail" /\ x.user = u))
  /\ linking' = linking
  /\ row.registered /\ row.nickname # None
  /\ \A v \in Users \ {u} : row.nickname # account[v].nickname
                            /\ (row.steam # None => row.steam # account[v].steam)
  /\ fresh \subseteq Tokens /\ \A t \in fresh : New(t)
  /\ {row.activation, row.reset} \ {None} \subseteq InForce(u) \union fresh
  /\ \/ row.reset = account[u].reset
     \/ task[k].op \in {"forgot", "reset"}
     \/ ~account[u].registered
  /\ \/ row.steam = account[u].steam
     \/ row.steam = None
     \/ task[k].op = "steam"
  /\ used' \subseteq Tokens /\ row.reset \notin used'
  /\ \/ used' \subseteq used
     \/ task[k].op = "reset" /\ used' = used \union {task[k].token}

LEMMA WriteKeeps ==
  ASSUME AccountsInv, NEW k \in Tasks, NEW u, NEW row, NEW x, NEW fresh,
         Writes(k, u, row, x, fresh)
  PROVE  AccountsInv'
<1>. USE DEF AccountsInv, Writes
<1>0. TasksOK /\ task \in [Tasks -> TaskRows] /\ account \in [Users -> Accounts]
  BY DEF TasksOK, RowsOK
<1>1. /\ account' \in [Users -> Accounts] /\ account'[u] = row
      /\ \A v \in Users \ {u} : account'[v] = account[v]
  BY <1>0 DEF WriteAccount
<1>2. /\ task' \in [Tasks -> TaskRows] /\ task'[k] = x
      /\ \A j \in Tasks \ {k} : task'[j] = task[j]
  BY <1>0 DEF Goes
<1>3. x.op \in {"idle", "mail"}  BY DEF NoTask
<1>4. /\ InForce(u)' = {row.activation, row.reset} \ {None}
      /\ \A v \in Users \ {u} : InForce(v)' = InForce(v)
  BY <1>1 DEF InForce
<1>5. RowsOK'
  <2>1. ASSUME NEW v \in Users, NEW w \in Users, v # w
        PROVE /\ account'[v].nickname = account'[w].nickname => account'[v].nickname = None
              /\ account'[v].steam = account'[w].steam => account'[v].steam = None
    <3>1. CASE v # u /\ w # u  BY <1>1, <2>1, <3>1 DEF RowsOK
    <3>2. CASE v = u \/ w = u  BY <1>1, <2>1, <3>2
    <3>. QED  BY <3>1, <3>2
  <2>2. ASSUME NEW v \in Users
        PROVE /\ account'[v].registered <=> account'[v].nickname # None
              /\ ~account'[v].registered => account'[v] = NoAccount
    <3>1. CASE v = u  BY <1>1, <3>1
    <3>2. CASE v # u  BY <1>1, <3>2 DEF RowsOK
    <3>. QED  BY <3>1, <3>2
  <2>. QED  BY <1>1, <2>1, <2>2 DEF RowsOK
<1>6. TokensOK'
  <2>1. ASSUME NEW t, t \in (expired \union mailed)' PROVE \E v \in Users : t \in InForce(v)'
    <3>1. /\ t \in expired \union mailed
          /\ t \notin InForce(u) \ {row.activation, row.reset}
      BY <2>1 DEF WriteAccount
    <3>2. PICK v \in Users : t \in InForce(v)  BY <3>1 DEF TokensOK
    <3>3. CASE v = u
      <4>1. t # None /\ t \in {row.activation, row.reset}  BY <3>1, <3>2, <3>3 DEF InForce
      <4>. QED  BY <1>4, <4>1
    <3>4. CASE v # u  BY <1>4, <3>2, <3>4
    <3>. QED  BY <3>3, <3>4
  <2>2. ASSUME NEW v \in Users, v # u PROVE InForce(u)' \intersect InForce(v)' = {}
    <3>1. \A t \in fresh : t \notin InForce(v)  BY DEF New
    <3>2. InForce(u) \intersect InForce(v) = {}  BY <2>2 DEF TokensOK
    <3>. QED  BY <1>4, <2>2, <3>1, <3>2
  <2>3. ASSUME NEW v \in Users, NEW w \in Users, v # w PROVE InForce(v)' \intersect InForce(w)' = {}
    <3>1. CASE v # u /\ w # u  BY <1>4, <2>3, <3>1 DEF TokensOK
    <3>2. CASE v = u \/ w = u  BY <2>2, <2>3, <3>2
    <3>. QED  BY <3>1, <3>2
  <2>. QED  BY <2>1, <2>3 DEF TokensOK
<1>7. \A v \in Users : account[v].registered => account'[v].registered
  BY <1>1
<1>8. TasksOK'
  <2>1. TaskFits(task[k])'
    BY <1>1, <1>2 DEF TaskFits, NoTask
  <2>2. ASSUME NEW j \in Tasks \ {k} PROVE TaskFits(task[j])'
    <3>1. TaskFits(task[j])  BY DEF TasksOK
    <3>. QED  BY <1>2, <1>7, <3>1 DEF TaskFits
  <2>3. linking' \subseteq {v \in Users : account'[v].registered}
    BY <1>7 DEF TasksOK
  <2>. QED  BY <1>2, <2>1, <2>2, <2>3 DEF TasksOK
<1>9. task[k].op = "reset" => task[k].token \in Tokens /\ \A v \in Users \ {u} : task[k].token \notin InForce(v)
  BY DEF UsedOK, TasksOK, TaskFits
<1>10. UsedOK'
  <2>1. ASSUME NEW v \in Users PROVE account'[v].reset \notin used'
    <3>1. CASE v = u  BY <1>1, <3>1
    <3>2. CASE v # u
      <4>1. account[v].reset \notin used  BY DEF UsedOK
      <4>2. task[k].op = "reset" => account[v].reset # task[k].token
        BY <1>0, <1>9, <3>2, AccountsAssumption DEF InForce, Accounts
      <4>. QED  BY <1>1, <3>2, <4>1, <4>2
    <3>. QED  BY <3>1, <3>2
  <2>2. ASSUME NEW j \in Tasks, task'[j].op = "reset"
        PROVE  /\ \A v \in Users \ {task'[j].user} : task'[j].token \notin InForce(v)'
               /\ task'[j].token \in used' => task'[j].crossed
    <3>1. j # k /\ task'[j] = task[j]  BY <1>2, <1>3, <2>2
    <3>2. \A v \in Users \ {task[j].user} : task[j].token \notin InForce(v)
      BY <2>2, <3>1 DEF UsedOK
    <3>3. task[j].token \notin fresh  BY DEF New
    <3>4. ASSUME NEW v \in Users \ {task[j].user} PROVE task[j].token \notin InForce(v)'
      <4>1. CASE v = u  BY <1>4, <3>2, <3>3, <4>1
      <4>2. CASE v # u  BY <1>4, <3>2, <4>2
      <4>. QED  BY <4>1, <4>2
    <3>5. ASSUME task[j].token \in used' PROVE task[j].crossed
      <4>1. CASE task[j].token \in used  BY <2>2, <3>1, <4>1 DEF UsedOK
      <4>2. CASE task[k].op = "reset" /\ task[j].token = task[k].token
        <5>1. task[j].user = task[k].user  BY <2>2, <3>1, <4>2 DEF UsedOK
        <5>. QED  BY <2>2, <3>1, <4>2, <5>1 DEF CrossedOK, Together
      <4>. QED  BY <3>5, <4>1, <4>2
    <3>. QED  BY <3>1, <3>4, <3>5
  <2>3. ASSUME NEW i \in Tasks, NEW j \in Tasks, task'[i].op = "reset", task'[j].op = "reset",
               task'[i].token = task'[j].token
        PROVE  task'[i].user = task'[j].user
    <3>1. i # k /\ j # k  BY <1>2, <1>3, <2>3
    <3>. QED  BY <1>2, <2>3, <3>1 DEF UsedOK
  <2>. QED  BY <2>1, <2>2, <2>3 DEF UsedOK
<1>11. CrossedOK'
  <2>1. ASSUME NEW i \in Tasks, NEW j \in Tasks, i # j, NEW which \in {{"forgot", "reset"}, {"steam"}},
               task'[i].op \in which, task'[j].op \in which, task'[i].user = task'[j].user
        PROVE  task'[i].crossed
    <3>1. i # k /\ j # k  BY <1>2, <1>3, <2>1
    <3>2. task'[i] = task[i] /\ task'[j] = task[j]  BY <1>2, <3>1
    <3>. QED  BY <2>1, <3>2 DEF CrossedOK, Together
  <2>. QED  BY <2>1 DEF CrossedOK, Together
<1>12. FoundOK'
  <2>1. ASSUME NEW j \in Tasks, task'[j].op \in {"forgot", "reset", "steam"}, ~task'[j].crossed
        PROVE  /\ task'[j].op = "forgot" => account'[task'[j].user].reset = None
                                            \/ account'[task'[j].user].reset \in expired'
               /\ task'[j].op = "reset" => account'[task'[j].user].reset = task'[j].token
               /\ task'[j].op = "steam" => account'[task'[j].user].steam = None
    <3>1. j # k /\ task'[j] = task[j]  BY <1>2, <1>3, <2>1
    <3>2. task[j].user \in Users /\ account[task[j].user].registered
      BY <2>1, <3>1 DEF TasksOK, TaskFits
    <3>3. /\ task[j].op = "forgot" => account[task[j].user].reset = None
                                      \/ account[task[j].user].reset \in expired
          /\ task[j].op = "reset" => account[task[j].user].reset = task[j].token
          /\ task[j].op = "steam" => account[task[j].user].steam = None
      BY <2>1, <3>1 DEF FoundOK, Alone
    <3>4. CASE task[j].user = u
      <4>1. task[j].op \in {"forgot", "reset"} => row.reset = account[u].reset
        BY <2>1, <3>1, <3>2, <3>4 DEF CrossedOK, Together
      <4>2. task[j].op = "steam" => row.steam = None
        BY <2>1, <3>1, <3>3, <3>4 DEF CrossedOK, Together
      <4>3. row.reset \in expired => row.reset \in expired'
        BY DEF WriteAccount
      <4>. QED  BY <1>1, <3>1, <3>3, <3>4, <4>1, <4>2, <4>3
    <3>5. CASE task[j].user # u
      <4>1. account[task[j].user].reset # None => account[task[j].user].reset \in InForce(task[j].user)
        BY <3>2 DEF InForce
      <4>2. InForce(task[j].user) \intersect InForce(u) = {}  BY <3>2, <3>5 DEF TokensOK
      <4>3. account[task[j].user].reset # None /\ account[task[j].user].reset \in expired
            => account[task[j].user].reset \in expired'
        BY <4>1, <4>2 DEF WriteAccount
      <4>. QED  BY <1>1, <3>1, <3>2, <3>3, <3>5, <4>3
    <3>. QED  BY <3>4, <3>5
  <2>. QED  BY <2>1 DEF FoundOK, Alone
<1>. QED  BY <1>5, <1>6, <1>8, <1>10, <1>11, <1>12

\* A handler ends without writing; and tokens expire, mails arrive.
LEMMA EndKeeps ==
  ASSUME AccountsInv, UNCHANGED <<account, used>>,
         task' = task \/ \E k \in Tasks : Ends(k),
         expired' \subseteq UNION {InForce(u) : u \in Users}, expired \subseteq expired',
         mailed' \subseteq UNION {InForce(u) : u \in Users},
         linking' \subseteq {u \in Users : account[u].registered}
  PROVE  AccountsInv'
<1>. USE DEF AccountsInv
<1>0. task \in [Tasks -> TaskRows]  BY DEF TasksOK
<1>1. /\ task' \in [Tasks -> TaskRows]
      /\ \A j \in Tasks : task'[j] = task[j] \/ task'[j] = NoTask
  <2>1. NoTask \in TaskRows  BY DEF TaskRows, NoTask, Maybe
  <2>2. CASE task' = task  BY <1>0, <2>2
  <2>3. ASSUME NEW k \in Tasks, Ends(k)
        PROVE  task' \in [Tasks -> TaskRows] /\ \A j \in Tasks : task'[j] = task[j] \/ task'[j] = NoTask
    BY <1>0, <2>1, <2>3 DEF Ends, Goes
  <2>. QED  BY <2>2, <2>3
<1>2. TokensOK'  BY DEF TokensOK, InForce
<1>3. RowsOK'  BY DEF RowsOK
<1>4. TasksOK'
  <2>1. TaskFits(NoTask)'  BY DEF TaskFits, NoTask
  <2>2. \A j \in Tasks : TaskFits(task[j])'  BY <1>1, <2>1 DEF TasksOK, TaskFits
  <2>. QED  BY <1>1, <2>2 DEF TasksOK
<1>5. \A j \in Tasks : task'[j].op # "idle" => task'[j] = task[j]
  BY <1>1 DEF NoTask
<1>6. UsedOK'  BY <1>5 DEF UsedOK, InForce
<1>7. CrossedOK'  BY <1>5 DEF CrossedOK, Together
<1>8. FoundOK'  BY <1>5 DEF FoundOK, Alone
<1>. QED  BY <1>2, <1>3, <1>4, <1>6, <1>7, <1>8

LEMMA SignUpCheckKeeps ==
  ASSUME AccountsInv, NEW k \in Tasks, NEW u \in Users, NEW n \in Nicknames,
         SignUpCheck(k, u, n) PROVE AccountsInv'
<1> DEFINE x == [NoTask EXCEPT !.op = "signUp", !.user = u, !.nickname = n]
<1>1. x \in TaskRows  BY DEF TaskRows, NoTask, Maybe
<1>2. x.op = "signUp" /\ TaskFits(x)  BY DEF TaskFits, NoTask
<1>3. StartTask(k, {}, x)  BY DEF SignUpCheck
<1>4. UNCHANGED <<account, expired, mailed, linking, used>>  BY DEF SignUpCheck, rest
<1> HIDE DEF x
<1>. QED  BY <1>1, <1>2, <1>3, <1>4, StartKeeps

LEMMA ChangeNicknameCheckKeeps ==
  ASSUME AccountsInv, NEW k \in Tasks, NEW u \in Users, NEW n \in Nicknames,
         ChangeNicknameCheck(k, u, n) PROVE AccountsInv'
<1> DEFINE x == [NoTask EXCEPT !.op = "nickname", !.user = u, !.nickname = n]
<1>1. x \in TaskRows  BY DEF TaskRows, NoTask, Maybe
<1>2. x.op = "nickname" /\ TaskFits(x)  BY DEF TaskFits, NoTask, ChangeNicknameCheck
<1>3. StartTask(k, {}, x)  BY DEF ChangeNicknameCheck
<1>4. UNCHANGED <<account, expired, mailed, linking, used>>  BY DEF ChangeNicknameCheck, rest
<1> HIDE DEF x
<1>. QED  BY <1>1, <1>2, <1>3, <1>4, StartKeeps

LEMMA ConfirmCheckKeeps ==
  ASSUME AccountsInv, NEW k \in Tasks, NEW u \in Users, ConfirmCheck(k, u) PROVE AccountsInv'
<1> DEFINE t == account[u].activation
           x == [NoTask EXCEPT !.user = u, !.op = IF t \in expired THEN "activate" ELSE "confirm"]
<1>1. x \in TaskRows  BY DEF TaskRows, NoTask, Maybe
<1>2. account[u].registered
  <2>1. PICK v \in Users : t \in InForce(v)  BY DEF ConfirmCheck, AccountsInv, TokensOK
  <2>2. t \in InForce(u)  BY <2>1 DEF InForce
  <2>. QED  BY <2>2 DEF AccountsInv, RowsOK, NoAccount, InForce
<1>3. x.op \in {"activate", "confirm"} /\ TaskFits(x)  BY <1>2 DEF TaskFits, NoTask
<1>4. StartTask(k, {}, x)  BY DEF ConfirmCheck
<1>5. UNCHANGED <<account, expired, mailed, linking, used>>  BY DEF ConfirmCheck, rest
<1> HIDE DEF x
<1>. QED  BY <1>1, <1>3, <1>4, <1>5, StartKeeps

LEMMA LoginUnverifiedKeeps ==
  ASSUME AccountsInv, NEW k \in Tasks, NEW u \in Users, LoginUnverified(k, u) PROVE AccountsInv'
<1> DEFINE x == [NoTask EXCEPT !.op = "activate", !.user = u]
<1>1. x \in TaskRows  BY DEF TaskRows, NoTask, Maybe
<1>2. x.op = "activate" /\ TaskFits(x)  BY DEF TaskFits, NoTask, LoginUnverified
<1>3. StartTask(k, {}, x)  BY DEF LoginUnverified
<1>4. UNCHANGED <<account, expired, mailed, linking, used>>  BY DEF LoginUnverified, rest
<1> HIDE DEF x
<1>. QED  BY <1>1, <1>2, <1>3, <1>4, StartKeeps

LEMMA ForgotCheckKeeps ==
  ASSUME AccountsInv, NEW k \in Tasks, NEW u \in Users, ForgotCheck(k, u) PROVE AccountsInv'
<1> DEFINE x == [NoTask EXCEPT !.op = "forgot", !.user = u]
<1>1. x \in TaskRows  BY DEF TaskRows, NoTask, Maybe
<1>2. x.op = "forgot" /\ x.user = u /\ TaskFits(x)  BY DEF TaskFits, NoTask, ForgotCheck
<1>3. StartTask(k, {"forgot", "reset"}, x)  BY DEF ForgotCheck
<1>4. UNCHANGED <<account, expired, mailed, linking, used>>  BY DEF ForgotCheck, rest
<1>5. account[u].reset = None \/ account[u].reset \in expired  BY DEF ForgotCheck
<1> HIDE DEF x
<1>. QED  BY <1>1, <1>2, <1>3, <1>4, <1>5, StartKeeps

LEMMA ResetCheckKeeps ==
  ASSUME AccountsInv, NEW k \in Tasks, NEW u \in Users, ResetCheck(k, u) PROVE AccountsInv'
<1> DEFINE t == account[u].reset
           x == [NoTask EXCEPT !.op = "reset", !.user = u, !.token = t]
<1>0. PICK v \in Users : t \in InForce(v)  BY DEF ResetCheck, AccountsInv, TokensOK
<1>1. t \in Tokens /\ account[u].registered
  <2>1. t # None /\ t \in Maybe(Tokens)
    BY <1>0 DEF InForce, AccountsInv, RowsOK, Accounts
  <2>. QED  BY <2>1 DEF Maybe, AccountsInv, RowsOK, NoAccount
<1>2. x \in TaskRows  BY <1>1 DEF TaskRows, NoTask, Maybe
<1>3. x.op = "reset" /\ x.user = u /\ x.token = t /\ TaskFits(x)  BY <1>1 DEF TaskFits, NoTask
<1>4. StartTask(k, {"forgot", "reset"}, x)  BY DEF ResetCheck
<1>5. UNCHANGED <<account, expired, mailed, linking, used>>  BY DEF ResetCheck, rest
<1> HIDE DEF x
<1>. QED  BY <1>2, <1>3, <1>4, <1>5, StartKeeps

LEMMA LinkSteamCheckKeeps ==
  ASSUME AccountsInv, NEW k \in Tasks, NEW u \in Users, NEW s \in SteamIds,
         LinkSteamCheck(k, u, s) PROVE AccountsInv'
<1> DEFINE x == [NoTask EXCEPT !.op = "steam", !.user = u, !.steam = s]
<1>1. x \in TaskRows  BY DEF TaskRows, NoTask, Maybe
<1>2. account[u].registered  BY DEF LinkSteamCheck, AccountsInv, TasksOK
<1>3. x.op = "steam" /\ x.user = u /\ TaskFits(x)  BY <1>2 DEF TaskFits, NoTask
<1>4. StartTask(k, {"steam"}, x)  BY DEF LinkSteamCheck
<1>5. UNCHANGED <<account, expired, mailed, linking, used>>  BY DEF LinkSteamCheck, rest
<1>6. account[u].steam = None  BY DEF LinkSteamCheck
<1> HIDE DEF x
<1>. QED  BY <1>1, <1>3, <1>4, <1>5, <1>6, StartKeeps

LEMMA DisconnectSteamCheckKeeps ==
  ASSUME AccountsInv, NEW k \in Tasks, NEW u \in Users, DisconnectSteamCheck(k, u)
  PROVE  AccountsInv'
<1> DEFINE x == [NoTask EXCEPT !.op = "unlink", !.user = u]
<1>1. x \in TaskRows  BY DEF TaskRows, NoTask, Maybe
<1>2. account[u].registered
  BY DEF DisconnectSteamCheck, AccountsInv, RowsOK, NoAccount
<1>3. x.op = "unlink" /\ TaskFits(x)  BY <1>2 DEF TaskFits, NoTask
<1>4. StartTask(k, {}, x)  BY DEF DisconnectSteamCheck
<1>5. UNCHANGED <<account, expired, mailed, linking, used>>  BY DEF DisconnectSteamCheck, rest
<1> HIDE DEF x
<1>. QED  BY <1>1, <1>3, <1>4, <1>5, StartKeeps

\* Row u as it is, with what is written into it.
LEMMA RowOf ==
  ASSUME AccountsInv, NEW u \in Users
  PROVE  /\ account[u] \in Accounts
         /\ {account[u].activation, account[u].reset} \ {None} = InForce(u)
         /\ account[u].registered => account[u].nickname \in Nicknames
         /\ \A v \in Users \ {u} :
              /\ account[u].registered => account[u].nickname # account[v].nickname
              /\ account[u].steam # None => account[u].steam # account[v].steam
         /\ account[u].reset \notin used
BY AccountsAssumption DEF AccountsInv, RowsOK, Accounts, InForce, Maybe, UsedOK

LEMMA MailRow ==
  ASSUME NEW u \in Users, NEW t \in Tokens
  PROVE  LET x == [NoTask EXCEPT !.op = "mail", !.user = u, !.token = t]
         IN  x \in TaskRows /\ x.op = "mail" /\ x.user = u
BY DEF NoTask, TaskRows, Maybe

LEMMA NoTaskRow == NoTask \in TaskRows
BY DEF NoTask, TaskRows, Maybe

LEMMA SignUpKeeps ==
  ASSUME AccountsInv, NEW k \in Tasks, NEW t \in Tokens, SignUp(k, t) PROVE AccountsInv'
<1> DEFINE u == task[k].user
           n == task[k].nickname
           row == [NoAccount EXCEPT !.registered = TRUE, !.nickname = n, !.activation = t]
           x == [NoTask EXCEPT !.op = "mail", !.user = u, !.token = t]
<1>0. task[k].op = "signUp" /\ {t} \in SUBSET Tokens /\ \A s \in {t} : New(s)  BY DEF SignUp
<1>1. u \in Users /\ n \in Nicknames  BY <1>0 DEF AccountsInv, TasksOK, TaskFits
<1>2. CASE account[u].registered \/ \E v \in Users : account[v].nickname = n
  <2>1. Ends(k) /\ UNCHANGED <<account, expired, mailed, used, linking>>
    BY <1>2 DEF SignUp, rest
  <2>. QED  BY <2>1, EndKeeps DEF AccountsInv, TokensOK, TasksOK
<1>3. CASE ~account[u].registered /\ \A v \in Users : account[v].nickname # n
  <2>1. WriteAccount(u, row) /\ used' = used \ {t} /\ Goes(k, x) /\ UNCHANGED linking
    BY <1>3 DEF SignUp, rest
  <2>2. /\ row \in Accounts /\ row.registered /\ row.nickname = n /\ row.steam = None
        /\ row.activation = t /\ row.reset = None
    BY <1>1 DEF NoAccount, Accounts, Maybe
  <2>3. x \in TaskRows /\ x.op = "mail" /\ x.user = u  BY <1>1, MailRow
  <2>4. n # None /\ None \notin Tokens  BY <1>1, AccountsAssumption
  <2>5. used' \subseteq Tokens /\ used' \subseteq used
    BY <2>1 DEF AccountsInv, UsedOK
  <2> HIDE DEF x, row, u, n
  <2>6. \A v \in Users \ {u} : row.nickname # account[v].nickname
                               /\ (row.steam # None => row.steam # account[v].steam)
    BY <1>3, <2>2
  <2>7. {row.activation, row.reset} \ {None} \subseteq InForce(u) \union {t}  BY <2>2
  <2>8. row.reset \notin used'  BY <2>2, <2>4, <2>5
  <2>9. task[k].op # "idle" /\ u = task[k].user  BY <1>0 DEF u
  <2>10. Writes(k, u, row, x, {t})
    BY <1>0, <1>1, <1>3, <2>1, <2>2, <2>3, <2>4, <2>5, <2>6, <2>7, <2>8, <2>9 DEF Writes
<2>. QED  BY <2>10, WriteKeeps
<1>. QED  BY <1>2, <1>3

LEMMA ReactivateKeeps ==
  ASSUME AccountsInv, NEW k \in Tasks, NEW t \in Tokens, Reactivate(k, t) PROVE AccountsInv'
<1> DEFINE u == task[k].user
           row == [account[u] EXCEPT !.activation = t]
           x == [NoTask EXCEPT !.op = "mail", !.user = u, !.token = t]
<1>0. task[k].op = "activate" /\ {t} \in SUBSET Tokens /\ \A s \in {t} : New(s)  BY DEF Reactivate
<1>1. u \in Users /\ account[u].registered  BY <1>0 DEF AccountsInv, TasksOK, TaskFits
<1>2. WriteAccount(u, row) /\ used' = used \ {t} /\ Goes(k, x) /\ UNCHANGED linking
  BY DEF Reactivate, rest
<1>3. /\ row \in Accounts /\ row.registered /\ row.nickname = account[u].nickname
      /\ row.steam = account[u].steam /\ row.activation = t /\ row.reset = account[u].reset
  BY <1>1, RowOf DEF Accounts, Maybe
<1>4. x \in TaskRows /\ x.op = "mail" /\ x.user = u  BY <1>1, MailRow
<1>5. used' \subseteq Tokens /\ used' \subseteq used  BY <1>2 DEF AccountsInv, UsedOK
<1>6. task[k].op # "idle" /\ u = task[k].user  BY <1>0
<1> HIDE DEF x, row, u
<1>7. /\ row.nickname # None
      /\ \A v \in Users \ {u} : row.nickname # account[v].nickname
                               /\ (row.steam # None => row.steam # account[v].steam)
  BY <1>1, <1>3, RowOf, AccountsAssumption
<1>8. {row.activation, row.reset} \ {None} \subseteq InForce(u) \union {t}  BY <1>1, <1>3, RowOf
<1>9. row.reset \notin used'  BY <1>1, <1>3, <1>5, RowOf
<1>10. Writes(k, u, row, x, {t})
  BY <1>0, <1>1, <1>2, <1>3, <1>4, <1>5, <1>6, <1>7, <1>8, <1>9 DEF Writes
<1>. QED  BY <1>10, WriteKeeps

LEMMA ForgotKeeps ==
  ASSUME AccountsInv, NEW k \in Tasks, NEW t \in Tokens, Forgot(k, t) PROVE AccountsInv'
<1> DEFINE u == task[k].user
           row == [account[u] EXCEPT !.reset = t]
           x == [NoTask EXCEPT !.op = "mail", !.user = u, !.token = t]
<1>0. task[k].op = "forgot" /\ {t} \in SUBSET Tokens /\ \A s \in {t} : New(s)  BY DEF Forgot
<1>1. u \in Users /\ account[u].registered  BY <1>0 DEF AccountsInv, TasksOK, TaskFits
<1>2. WriteAccount(u, row) /\ used' = used \ {t} /\ Goes(k, x) /\ UNCHANGED linking
  BY DEF Forgot, rest
<1>3. /\ row \in Accounts /\ row.registered /\ row.nickname = account[u].nickname
      /\ row.steam = account[u].steam /\ row.activation = account[u].activation /\ row.reset = t
  BY <1>1, RowOf DEF Accounts, Maybe
<1>4. x \in TaskRows /\ x.op = "mail" /\ x.user = u  BY <1>1, MailRow
<1>5. used' \subseteq Tokens /\ used' \subseteq used  BY <1>2 DEF AccountsInv, UsedOK
<1>6. task[k].op # "idle" /\ u = task[k].user  BY <1>0
<1>7. row.reset \notin used'  BY <1>2, <1>3
<1> HIDE DEF x, row, u
<1>8. /\ row.nickname # None
      /\ \A v \in Users \ {u} : row.nickname # account[v].nickname
                               /\ (row.steam # None => row.steam # account[v].steam)
  BY <1>1, <1>3, RowOf, AccountsAssumption
<1>9. {row.activation, row.reset} \ {None} \subseteq InForce(u) \union {t}  BY <1>1, <1>3, RowOf
<1>10. Writes(k, u, row, x, {t})
  BY <1>0, <1>1, <1>2, <1>3, <1>4, <1>5, <1>6, <1>7, <1>8, <1>9 DEF Writes
<1>. QED  BY <1>10, WriteKeeps

LEMMA ConfirmKeeps ==
  ASSUME AccountsInv, NEW k \in Tasks, Confirm(k) PROVE AccountsInv'
<1> DEFINE u == task[k].user
           row == [account[u] EXCEPT !.verified = TRUE, !.activation = None]
<1>0. task[k].op = "confirm"  BY DEF Confirm
<1>1. u \in Users /\ account[u].registered  BY <1>0 DEF AccountsInv, TasksOK, TaskFits
<1>2. WriteAccount(u, row) /\ used' = used /\ Goes(k, NoTask) /\ linking' = linking
  BY DEF Confirm, rest, Ends
<1>3. /\ row \in Accounts /\ row.registered /\ row.nickname = account[u].nickname
      /\ row.steam = account[u].steam /\ row.activation = None /\ row.reset = account[u].reset
  BY <1>1, RowOf DEF Accounts, Maybe
<1>4. used \subseteq Tokens  BY DEF AccountsInv, UsedOK
<1>5. task[k].op # "idle" /\ u = task[k].user  BY <1>0
<1> HIDE DEF row, u
<1>6. Writes(k, u, row, NoTask, {})
  BY <1>0, <1>1, <1>2, <1>3, <1>4, <1>5, RowOf, NoTaskRow, AccountsAssumption DEF Writes
<1>. QED  BY <1>6, WriteKeeps

LEMMA ResetPasswordKeeps ==
  ASSUME AccountsInv, NEW k \in Tasks, ResetPassword(k) PROVE AccountsInv'
<1> DEFINE u == task[k].user
           row == [account[u] EXCEPT !.reset = None]
<1>0. task[k].op = "reset"  BY DEF ResetPassword
<1>1. u \in Users /\ account[u].registered /\ task[k].token \in Tokens
  BY <1>0 DEF AccountsInv, TasksOK, TaskFits
<1>2. WriteAccount(u, row) /\ used' = used \union {task[k].token} /\ Goes(k, NoTask)
      /\ linking' = linking
  BY DEF ResetPassword, rest, Ends
<1>3. /\ row \in Accounts /\ row.registered /\ row.nickname = account[u].nickname
      /\ row.steam = account[u].steam /\ row.activation = account[u].activation /\ row.reset = None
  BY <1>1, RowOf DEF Accounts, Maybe
<1>4. used' \subseteq Tokens /\ None \notin used'
  BY <1>1, <1>2, AccountsAssumption DEF AccountsInv, UsedOK
<1>5. task[k].op # "idle" /\ u = task[k].user  BY <1>0
<1> HIDE DEF row, u
<1>6. Writes(k, u, row, NoTask, {})
  BY <1>0, <1>1, <1>2, <1>3, <1>4, <1>5, RowOf, NoTaskRow, AccountsAssumption DEF Writes
<1>. QED  BY <1>6, WriteKeeps

LEMMA ChangeNicknameKeeps ==
  ASSUME AccountsInv, NEW k \in Tasks, ChangeNickname(k) PROVE AccountsInv'
<1> DEFINE u == task[k].user
           n == task[k].nickname
           row == [account[u] EXCEPT !.nickname = n]
<1>0. task[k].op = "nickname"  BY DEF ChangeNickname
<1>1. u \in Users /\ n \in Nicknames /\ account[u].registered
  BY <1>0 DEF AccountsInv, TasksOK, TaskFits
<1>2. CASE \E v \in Users \ {u} : account[v].nickname = n
  <2>1. Ends(k) /\ UNCHANGED <<account, expired, mailed, used, linking>>
    BY <1>2 DEF ChangeNickname, rest
  <2>. QED  BY <2>1, EndKeeps DEF AccountsInv, TokensOK, TasksOK
<1>3. CASE \A v \in Users \ {u} : account[v].nickname # n
  <2>1. WriteAccount(u, row) /\ used' = used /\ Goes(k, NoTask) /\ linking' = linking
    BY <1>3 DEF ChangeNickname, rest, Ends
  <2>2. /\ row \in Accounts /\ row.registered /\ row.nickname = n
        /\ row.steam = account[u].steam /\ row.activation = account[u].activation
        /\ row.reset = account[u].reset
    BY <1>1, RowOf DEF Accounts, Maybe
  <2>3. used \subseteq Tokens  BY DEF AccountsInv, UsedOK
  <2>4. task[k].op # "idle" /\ u = task[k].user  BY <1>0
  <2> HIDE DEF row, u, n
  <2>5. Writes(k, u, row, NoTask, {})
    BY <1>0, <1>1, <1>3, <2>1, <2>2, <2>3, <2>4, RowOf, NoTaskRow, AccountsAssumption DEF Writes
  <2>. QED  BY <2>5, WriteKeeps
<1>. QED  BY <1>2, <1>3

LEMMA LinkSteamKeeps ==
  ASSUME AccountsInv, NEW k \in Tasks, LinkSteam(k) PROVE AccountsInv'
<1> DEFINE u == task[k].user
           s == task[k].steam
           row == [account[u] EXCEPT !.steam = s]
<1>0. task[k].op = "steam"  BY DEF LinkSteam
<1>1. u \in Users /\ s \in SteamIds /\ account[u].registered
  BY <1>0 DEF AccountsInv, TasksOK, TaskFits
<1>2. CASE \E v \in Users \ {u} : account[v].steam = s
  <2>1. Ends(k) /\ UNCHANGED <<account, expired, mailed, used, linking>>
    BY <1>2 DEF LinkSteam, rest
  <2>. QED  BY <2>1, EndKeeps DEF AccountsInv, TokensOK, TasksOK
<1>3. CASE \A v \in Users \ {u} : account[v].steam # s
  <2>1. WriteAccount(u, row) /\ used' = used /\ Goes(k, NoTask) /\ linking' = linking
    BY <1>3 DEF LinkSteam, rest, Ends
  <2>2. /\ row \in Accounts /\ row.registered /\ row.nickname = account[u].nickname
        /\ row.steam = s /\ row.activation = account[u].activation
        /\ row.reset = account[u].reset
    BY <1>1, RowOf DEF Accounts, Maybe
  <2>3. used \subseteq Tokens  BY DEF AccountsInv, UsedOK
  <2>4. task[k].op # "idle" /\ u = task[k].user  BY <1>0
  <2> HIDE DEF row, u, s
  <2>5. Writes(k, u, row, NoTask, {})
    BY <1>0, <1>1, <1>3, <2>1, <2>2, <2>3, <2>4, RowOf, NoTaskRow, AccountsAssumption DEF Writes
  <2>. QED  BY <2>5, WriteKeeps
<1>. QED  BY <1>2, <1>3

LEMMA DisconnectSteamKeeps ==
  ASSUME AccountsInv, NEW k \in Tasks, DisconnectSteam(k) PROVE AccountsInv'
<1> DEFINE u == task[k].user
           row == [account[u] EXCEPT !.steam = None]
<1>0. task[k].op = "unlink"  BY DEF DisconnectSteam
<1>1. u \in Users /\ account[u].registered  BY <1>0 DEF AccountsInv, TasksOK, TaskFits
<1>2. WriteAccount(u, row) /\ used' = used /\ Goes(k, NoTask) /\ linking' = linking
  BY DEF DisconnectSteam, rest, Ends
<1>3. /\ row \in Accounts /\ row.registered /\ row.nickname = account[u].nickname
      /\ row.steam = None /\ row.activation = account[u].activation /\ row.reset = account[u].reset
  BY <1>1, RowOf DEF Accounts, Maybe
<1>4. used \subseteq Tokens  BY DEF AccountsInv, UsedOK
<1>5. task[k].op # "idle" /\ u = task[k].user  BY <1>0
<1> HIDE DEF row, u
<1>6. Writes(k, u, row, NoTask, {})
  BY <1>0, <1>1, <1>2, <1>3, <1>4, <1>5, RowOf, NoTaskRow, AccountsAssumption DEF Writes
<1>. QED  BY <1>6, WriteKeeps

LEMMA TokenStepsKeep ==
  ASSUME AccountsInv,
         \/ \E k \in Tasks : SendMail(k)
         \/ \E t \in Tokens : Expires(t)
         \/ \E u \in Users : CreateSteamLinkToken(u) \/ LinkTokenExpires(u)
         \/ UNCHANGED accountVars
  PROVE  AccountsInv'
<1>1. /\ expired \subseteq UNION {InForce(u) : u \in Users}
      /\ mailed \subseteq UNION {InForce(u) : u \in Users}
      /\ linking \subseteq {u \in Users : account[u].registered}
      /\ \A u \in Users : account[u].verified => account[u].registered
  BY DEF AccountsInv, TokensOK, TasksOK, RowsOK, NoAccount
<1>2. ASSUME NEW k \in Tasks, SendMail(k) PROVE AccountsInv'
  <2>1. Ends(k) /\ UNCHANGED <<account, used, expired, linking>>  BY <1>2 DEF SendMail, rest
  <2>2. task[k].user \in Users  BY <1>2 DEF SendMail, AccountsInv, TasksOK, TaskFits
  <2>3. mailed' \subseteq UNION {InForce(u) : u \in Users}  BY <1>1, <1>2, <2>2 DEF SendMail
  <2>. QED  BY <1>1, <2>1, <2>3, EndKeeps
<1>3. ASSUME NEW t \in Tokens, Expires(t) PROVE AccountsInv'
  <2>1. UNCHANGED <<account, used, mailed, linking, task>>  BY <1>3 DEF Expires, rest
  <2>2. expired' \subseteq UNION {InForce(u) : u \in Users} /\ expired \subseteq expired'
    BY <1>1, <1>3 DEF Expires
  <2>. QED  BY <1>1, <2>1, <2>2, EndKeeps
<1>4. ASSUME NEW u \in Users, CreateSteamLinkToken(u) \/ LinkTokenExpires(u) PROVE AccountsInv'
  <2>1. UNCHANGED <<account, used, mailed, expired, task>>
    BY <1>4 DEF CreateSteamLinkToken, LinkTokenExpires
  <2>2. linking' \subseteq {v \in Users : account[v].registered}
    BY <1>1, <1>4 DEF CreateSteamLinkToken, LinkTokenExpires
  <2>. QED  BY <1>1, <2>1, <2>2, EndKeeps
<1>5. CASE UNCHANGED accountVars
  BY <1>1, <1>5, EndKeeps DEF accountVars
<1>. QED  BY <1>2, <1>3, <1>4, <1>5

LEMMA AccountsInvNext ==
  ASSUME AccountsInv, [AccountsNext]_<<vars, accountVars>> PROVE AccountsInv'
<1>1. ASSUME NEW k \in Tasks, TaskStep(k) PROVE AccountsInv'
  <2>1. CASE \E u \in Users :
          \/ \E n \in Nicknames : SignUpCheck(k, u, n) \/ ChangeNicknameCheck(k, u, n)
          \/ ConfirmCheck(k, u) \/ LoginUnverified(k, u) \/ ForgotCheck(k, u) \/ ResetCheck(k, u)
          \/ \E s \in SteamIds : LinkSteamCheck(k, u, s)
          \/ DisconnectSteamCheck(k, u)
    BY <2>1, SignUpCheckKeeps, ChangeNicknameCheckKeeps, ConfirmCheckKeeps, LoginUnverifiedKeeps,
       ForgotCheckKeeps, ResetCheckKeeps, LinkSteamCheckKeeps, DisconnectSteamCheckKeeps
  <2>2. CASE \E t \in Tokens : SignUp(k, t) \/ Reactivate(k, t) \/ Forgot(k, t)
    BY <2>2, SignUpKeeps, ReactivateKeeps, ForgotKeeps
  <2>3. CASE SendMail(k) \/ Confirm(k) \/ ResetPassword(k)
    BY <2>3, TokenStepsKeep, ConfirmKeeps, ResetPasswordKeeps
  <2>4. CASE ChangeNickname(k) \/ LinkSteam(k) \/ DisconnectSteam(k)
    BY <2>4, ChangeNicknameKeeps, LinkSteamKeeps, DisconnectSteamKeeps
  <2>. QED  BY <1>1, <2>1, <2>2, <2>3, <2>4 DEF TaskStep
<1>2. CASE SecondFactorStep \/ UNCHANGED <<vars, accountVars>>
  BY <1>2, TokenStepsKeep DEF SecondFactorStep
<1>3. CASE \/ \E t \in Tokens : Expires(t)
           \/ \E u \in Users : CreateSteamLinkToken(u) \/ LinkTokenExpires(u)
  BY <1>3, TokenStepsKeep
<1>. QED  BY <1>1, <1>2, <1>3 DEF AccountsNext

LEMMA AccountsInvariance == AccountsSpec => []AccountsInv
  BY AccountsInvInit, AccountsInvNext, PTL DEF AccountsSpec

\* A step of the accounts that takes a reset token or a Steam id out of a row.
ResetChanges(u) == account'[u].reset # account[u].reset
SteamChanges(u) == account'[u].steam # account[u].steam

\* The write of one row leaves the others.
LEMMA OneRow ==
  ASSUME AccountsInv, NEW u \in Users, NEW w \in Users, NEW row, WriteAccount(w, row)
  PROVE  account'[u] = IF u = w THEN row ELSE account[u]
BY DEF WriteAccount, AccountsInv, RowsOK

\* Which steps change a reset token or a Steam id, and for whom.
LEMMA RowChanges ==
  ASSUME AccountsInv, [AccountsNext]_<<vars, accountVars>>, NEW u \in Users,
         ResetChanges(u) \/ SteamChanges(u), account[u].registered
  PROVE  \E k \in Tasks : task[k].user = u /\
           \/ Forgot(k, task'[k].token) /\ account'[u].steam = account[u].steam
           \/ ResetPassword(k) /\ account'[u].steam = account[u].steam
           \/ LinkSteam(k) /\ account'[u].reset = account[u].reset
           \/ DisconnectSteam(k) /\ account'[u].reset = account[u].reset
<1>. USE DEF ResetChanges, SteamChanges
<1>0. /\ account \in [Users -> Accounts] /\ task \in [Tasks -> TaskRows]
      /\ \A k \in Tasks : task[k].op # "idle" => task[k].user \in Users
  BY DEF AccountsInv, RowsOK, TasksOK, TaskFits
<1>1. account' # account  OBVIOUS
<1>2. PICK k \in Tasks : TaskStep(k)
  BY <1>1 DEF AccountsNext, Expires, CreateSteamLinkToken, LinkTokenExpires, SecondFactorStep,
              accountVars
<1>3. \/ \E t \in Tokens : SignUp(k, t) \/ Reactivate(k, t) \/ Forgot(k, t)
      \/ Confirm(k) \/ ResetPassword(k) \/ ChangeNickname(k) \/ LinkSteam(k) \/ DisconnectSteam(k)
  BY <1>1, <1>2 DEF TaskStep, SignUpCheck, ChangeNicknameCheck, ConfirmCheck, LoginUnverified,
       ForgotCheck, ResetCheck, LinkSteamCheck, DisconnectSteamCheck, SendMail
<1>4. task[k].op # "idle" /\ task[k].user \in Users
  BY <1>0, <1>3 DEF SignUp, Reactivate, Forgot, Confirm, ResetPassword, ChangeNickname, LinkSteam,
       DisconnectSteam
<1> DEFINE w == task[k].user
<1>5. ASSUME NEW t \in Tokens, SignUp(k, t) PROVE FALSE
  <2>1. ~account[w].registered  BY <1>1, <1>5 DEF SignUp
  <2>2. u # w  BY <2>1
  <2>3. account'[u] = account[u]  BY <1>4, <1>5, <2>1, <2>2, OneRow DEF SignUp
  <2>. QED  BY <2>3
<1>6. ASSUME NEW t \in Tokens, Reactivate(k, t) PROVE FALSE
  <2>1. account'[u] = IF u = w THEN [account[w] EXCEPT !.activation = t] ELSE account[u]
    BY <1>4, <1>6, OneRow DEF Reactivate
  <2>. QED  BY <1>0, <2>1 DEF Accounts
<1>7. ASSUME Confirm(k) PROVE FALSE
  <2>1. account'[u] = IF u = w THEN [account[w] EXCEPT !.verified = TRUE, !.activation = None]
                      ELSE account[u]
    BY <1>4, <1>7, OneRow DEF Confirm
  <2>. QED  BY <1>0, <2>1 DEF Accounts
<1>8. ASSUME ChangeNickname(k) PROVE FALSE
  <2>1. account'[u] = IF u = w THEN [account[w] EXCEPT !.nickname = task[k].nickname]
                      ELSE account[u]
    BY <1>1, <1>4, <1>8, OneRow DEF ChangeNickname
  <2>. QED  BY <1>0, <2>1 DEF Accounts
<1>9. ASSUME NEW t \in Tokens, Forgot(k, t)
      PROVE  Forgot(k, task'[k].token) /\ u = w /\ account'[u].steam = account[u].steam
  <2>1. account'[u] = IF u = w THEN [account[w] EXCEPT !.reset = t] ELSE account[u]
    BY <1>4, <1>9, OneRow DEF Forgot
  <2>2. task'[k] = [NoTask EXCEPT !.op = "mail", !.user = w, !.token = t]
    BY <1>0, <1>9 DEF Forgot, Goes
  <2>3. task'[k].token = t  BY <2>2 DEF NoTask
  <2>4. u = w /\ account'[u].steam = account[u].steam  BY <1>0, <2>1 DEF Accounts
  <2>. QED  BY <1>9, <2>3, <2>4
<1>10. ASSUME ResetPassword(k) PROVE u = w /\ account'[u].steam = account[u].steam
  <2>1. account'[u] = IF u = w THEN [account[w] EXCEPT !.reset = None] ELSE account[u]
    BY <1>4, <1>10, OneRow DEF ResetPassword
  <2>. QED  BY <1>0, <2>1 DEF Accounts
<1>11. ASSUME LinkSteam(k) PROVE u = w /\ account'[u].reset = account[u].reset
  <2>1. account'[u] = IF u = w THEN [account[w] EXCEPT !.steam = task[k].steam] ELSE account[u]
    BY <1>1, <1>4, <1>11, OneRow DEF LinkSteam
  <2>. QED  BY <1>0, <2>1 DEF Accounts
<1>12. ASSUME DisconnectSteam(k) PROVE u = w /\ account'[u].reset = account[u].reset
  <2>1. account'[u] = IF u = w THEN [account[w] EXCEPT !.steam = None] ELSE account[u]
    BY <1>4, <1>12, OneRow DEF DisconnectSteam
  <2>. QED  BY <1>0, <2>1 DEF Accounts
<1> HIDE DEF w
<1>13. w = task[k].user  BY DEF w
<1>. QED  BY <1>3, <1>5, <1>6, <1>7, <1>8, <1>9, <1>10, <1>11, <1>12, <1>13

\* A handler that writes is at an end, or goes on to mail.
LEMMA WriterEnds ==
  ASSUME AccountsInv, NEW k \in Tasks, NEW x, Goes(k, x), task[k].op # x.op, task[k].op # "idle"
  PROVE  Ending(k)
BY DEF Ending, Goes, NoTask, AccountsInv, TasksOK

\* The token of a mail sets one password, unless it was in use twice at a time.
THEOREM MailSetsOnePassword == AccountsSpec => []ResetTokenSetsOnePassword
  BY AccountsInvariance, AccountsInvTypes, PTL

LEMMA ResetStep ==
  ASSUME AccountsInv, [AccountsNext]_<<vars, accountVars>>, NEW u \in Users,
         account[u].reset # None, account[u].reset \notin expired,
         account'[u].reset # account[u].reset
  PROVE  \E k \in Tasks :
           Ending(k) /\ task[k].user = u /\ (task[k].token = account[u].reset \/ task[k].crossed)
<1>1. account[u].registered  BY DEF AccountsInv, RowsOK, NoAccount
<1>2. PICK k \in Tasks : task[k].user = u /\ (Forgot(k, task'[k].token) \/ ResetPassword(k))
  BY <1>1, RowChanges DEF ResetChanges
<1>3. CASE ResetPassword(k)
  <2>1. task[k].op = "reset" /\ Goes(k, NoTask)  BY <1>3 DEF ResetPassword, Ends
  <2>2. Ending(k)  BY <2>1, WriterEnds DEF NoTask
  <2>3. task[k].token = account[u].reset \/ task[k].crossed
    BY <1>2, <2>1 DEF AccountsInv, FoundOK, Alone
  <2>. QED  BY <1>2, <2>2, <2>3
<1>4. CASE Forgot(k, task'[k].token)
  <2> DEFINE x == [NoTask EXCEPT !.op = "mail", !.user = task[k].user, !.token = task'[k].token]
  <2>1. task[k].op = "forgot" /\ Goes(k, x)  BY <1>4 DEF Forgot
  <2>2. x.op = "mail"  BY DEF NoTask
  <2> HIDE DEF x
  <2>3. Ending(k)  BY <2>1, <2>2, WriterEnds
  <2>4. task[k].crossed  BY <1>2, <2>1 DEF AccountsInv, FoundOK, Alone
  <2>. QED  BY <1>2, <2>3, <2>4
<1>. QED  BY <1>2, <1>3, <1>4

\* A reset token stands until it expires or is used, but for overlapping requests.
THEOREM ResetTokensStand == AccountsSpec => ResetTokenStands
<1>1. AccountsInv /\ [AccountsNext]_<<vars, accountVars>> =>
        [\A u \in Users :
           LET t == account[u].reset IN
           t # None /\ t \notin expired /\ account'[u].reset # t
           => \E k \in Tasks : Ending(k) /\ task[k].user = u /\ (task[k].token = t \/ task[k].crossed)
        ]_<<vars, accountVars>>
  BY ResetStep
<1>. QED  BY <1>1, AccountsInvariance, PTL DEF AccountsSpec, ResetTokenStands

LEMMA SteamStep ==
  ASSUME AccountsInv, [AccountsNext]_<<vars, accountVars>>, NEW u \in Users,
         account[u].steam # None, account'[u].steam # account[u].steam
  PROVE  \E k \in Tasks :
           Ending(k) /\ task[k].user = u /\ (task[k].op = "unlink" \/ task[k].crossed)
<1>1. account[u].registered  BY DEF AccountsInv, RowsOK, NoAccount
<1>2. PICK k \in Tasks : task[k].user = u /\ (LinkSteam(k) \/ DisconnectSteam(k))
  BY <1>1, RowChanges DEF SteamChanges
<1>3. Goes(k, NoTask) /\ task[k].op \in {"steam", "unlink"} /\ (LinkSteam(k) => task[k].op = "steam")
      /\ (DisconnectSteam(k) => task[k].op = "unlink")
  BY <1>2 DEF LinkSteam, DisconnectSteam, Ends
<1>4. Ending(k)  BY <1>3, WriterEnds DEF NoTask
<1>5. task[k].op = "steam" => task[k].crossed
  BY <1>2 DEF AccountsInv, FoundOK, Alone
<1>. QED  BY <1>2, <1>3, <1>4, <1>5

\* A Steam id stays with its user until they disconnect it, but for overlapping callbacks.
THEOREM SteamLinksStand == AccountsSpec => SteamLinkStands
<1>1. AccountsInv /\ [AccountsNext]_<<vars, accountVars>> =>
        [\A u \in Users :
           account[u].steam # None /\ account'[u].steam # account[u].steam
           => \E k \in Tasks :
                Ending(k) /\ task[k].user = u /\ (task[k].op = "unlink" \/ task[k].crossed)
        ]_<<vars, accountVars>>
  BY SteamStep
<1>. QED  BY <1>1, AccountsInvariance, PTL DEF AccountsSpec, SteamLinkStands

\* The accounts around it leave the second factor as it is: what is proved of Spec holds of
\* the composition.
THEOREM AccountsKeepSecondFactor == AccountsSpec => Spec
<1>1. AccountsInit => Init  BY DEF AccountsInit
<1>2. [AccountsNext]_<<vars, accountVars>> => [Next]_vars
  <2>1. ASSUME NEW k \in Tasks, TaskStep(k) PROVE UNCHANGED vars
    BY <2>1 DEF TaskStep, rest, SignUpCheck, ChangeNicknameCheck, ConfirmCheck, LoginUnverified,
       ForgotCheck, ResetCheck, LinkSteamCheck, DisconnectSteamCheck, SignUp, Reactivate, Forgot,
       SendMail, Confirm, ResetPassword, ChangeNickname, LinkSteam, DisconnectSteam
  <2>2. ASSUME NEW t \in Tokens, Expires(t) PROVE UNCHANGED vars  BY <2>2 DEF Expires, rest
  <2>3. ASSUME NEW u \in Users, CreateSteamLinkToken(u) \/ LinkTokenExpires(u) PROVE UNCHANGED vars
    BY <2>3 DEF CreateSteamLinkToken, LinkTokenExpires
  <2>. QED  BY <2>1, <2>2, <2>3 DEF AccountsNext, SecondFactorStep
<1>. QED  BY <1>1, <1>2, PTL DEF AccountsSpec, Spec

\* Unique nicknames and Steam ids, and tokens of no two users, whatever sign-ups, changes
\* of nickname and callbacks overlap; and the types of the second factor.
THEOREM AccountTypes == AccountsSpec => []AccountsTypeOK
  BY AccountsInvariance, AccountsInvTypes, AccountsKeepSecondFactor, TypeCorrectness, PTL
=============================================================================
