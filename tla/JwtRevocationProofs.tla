------------------------- MODULE JwtRevocationProofs -------------------------
(***************************************************************************)
(* Proofs about JwtRevocation, for every number of users and handlers and  *)
(* every length of a second.  JwtInv is the inductive invariant.           *)
(***************************************************************************)
EXTENDS JwtRevocation, TLAPS

\* Cutoffs in flight are not older than the last one written alone, and one
\* that is alone is the only one of its user.
CutoffsInOrder ==
  /\ \A u \in Users : cutAt[u] <= account[u].validAfter /\ cutAt[u] <= clock
  /\ \A r \in Requests : req[r].step = "write" => cutAt[req[r].user] <= req[r].at
  /\ \A r, q \in Requests :
       req[r].step = "write" /\ req[r].alone /\ req[q].step = "write"
       /\ req[q].user = req[r].user => q = r

\* A revocation of u was computed after `from` and before `to`.
CutBetween(u, from, to) ==
  \/ from < cutAt[u] /\ cutAt[u] < to
  \/ \E r \in Requests :
       req[r].step = "write" /\ req[r].user = u /\ from < req[r].at /\ req[r].at < to

Signing == {"signLogin", "signAccess", "signRefresh"}

\* Nothing that is clean spans a revocation.
CleanChains ==
  /\ \A t \in tokens : t.clean => ~CutBetween(t.user, t.root, t.at)
  /\ \A r \in Requests : req[r].step \in Signing /\ req[r].clean =>
       ~CutBetween(req[r].user, req[r].root, req[r].at)

\* tokensValidAfter is the cutoff of some tick that has passed.
CutoffsArePast ==
  \A u \in Users : \E c \in Nat : c <= clock /\ account[u].validAfter = NextTokensValidAfter(c)

JwtInv == JwtTypeOK /\ CutoffsInOrder /\ CleanChains /\ CutoffsArePast

-----------------------------------------------------------------------------
(* Seconds. *)

\* A tick lies in the second it is divided into.
LEMMA SecondOfTick ==
  ASSUME NEW x \in Nat
  PROVE  /\ x \div TicksPerSecond \in Nat
         /\ (x \div TicksPerSecond) * TicksPerSecond \in Nat
         /\ (x \div TicksPerSecond) * TicksPerSecond <= x
         /\ x < (x \div TicksPerSecond) * TicksPerSecond + TicksPerSecond
  BY JwtAssumption

LEMMA ProductMonotone ==
  ASSUME NEW m \in Nat, NEW n \in Nat, m <= n
  PROVE  m * TicksPerSecond <= n * TicksPerSecond
  BY JwtAssumption

\* A later tick is not in an earlier second.
LEMMA SecondsInOrder ==
  ASSUME NEW x \in Nat, NEW y \in Nat, x <= y
  PROVE  (x \div TicksPerSecond) * TicksPerSecond <= (y \div TicksPerSecond) * TicksPerSecond
<1> DEFINE m == x \div TicksPerSecond
           n == y \div TicksPerSecond
<1>1. m \in Nat /\ n \in Nat /\ m * TicksPerSecond <= x /\ y < n * TicksPerSecond + TicksPerSecond
      /\ m * TicksPerSecond \in Nat /\ n * TicksPerSecond \in Nat
  BY SecondOfTick
<1> HIDE DEF m, n
<1>2. ASSUME n < m PROVE FALSE
  <2>1. (n + 1) * TicksPerSecond <= m * TicksPerSecond
    BY <1>1, <1>2, ProductMonotone
  <2>2. (n + 1) * TicksPerSecond = n * TicksPerSecond + TicksPerSecond
    BY <1>1, JwtAssumption
  <2> QED BY <1>1, <2>1, <2>2, JwtAssumption
<1>3. m <= n
  BY <1>1, <1>2
<1>4. m * TicksPerSecond <= n * TicksPerSecond
  BY <1>1, <1>3, ProductMonotone
<1> QED BY <1>4 DEF m, n

\* The cutoff lies within the second that begins with the revocation.
LEMMA CutoffBounds ==
  ASSUME NEW x \in Nat
  PROVE  /\ NextTokensValidAfter(x) \in Nat
         /\ x <= NextTokensValidAfter(x)
         /\ NextTokensValidAfter(x) < x + TicksPerSecond
<1>1. x + TicksPerSecond - 1 \in Nat
  BY JwtAssumption
<1> QED BY <1>1, SecondOfTick, JwtAssumption DEF NextTokensValidAfter

-----------------------------------------------------------------------------
(* The inductive invariant. *)

LEMMA JwtInvInit == Init => JwtInv
<1> SUFFICES ASSUME Init PROVE JwtInv
  OBVIOUS
<1>1. JwtTypeOK
  BY JwtAssumption DEF Init, JwtTypeOK, Accounts, Handlers, Idle, Steps
<1>2. CutoffsInOrder /\ CleanChains
  BY DEF Init, CutoffsInOrder, CleanChains, Idle, Signing
<1>3. NextTokensValidAfter(0) = 0
  <2>1. NextTokensValidAfter(0) \in Nat /\ NextTokensValidAfter(0) < TicksPerSecond
    BY CutoffBounds, JwtAssumption
  <2> DEFINE n == (0 + TicksPerSecond - 1) \div TicksPerSecond
  <2>2. n \in Nat /\ NextTokensValidAfter(0) = n * TicksPerSecond
    BY SecondOfTick, JwtAssumption DEF NextTokensValidAfter
  <2> HIDE DEF n
  <2>3. n >= 1 => n * TicksPerSecond >= 1 * TicksPerSecond
    BY <2>2, ProductMonotone
  <2>4. n = 0
    BY <2>1, <2>2, <2>3, JwtAssumption
  <2> QED BY <2>2, <2>4, JwtAssumption
<1>4. CutoffsArePast
  <2>1. 0 \in Nat /\ 0 <= clock /\ \A u \in Users : account[u].validAfter = 0
    BY DEF Init
  <2> QED BY <1>3, <2>1, Zenon DEF CutoffsArePast
<1> QED BY <1>1, <1>2, <1>4 DEF JwtInv

\* A handler begins without a cutoff in flight.
LEMMA HandlerBegins ==
  ASSUME JwtInv, NEW r \in Requests, NEW h \in Handlers,
         req[r].step # "write", h.step # "write",
         h.step # "idle" => h.user \in Users, h.at <= clock, h.root <= h.at,
         h.step \in Signing /\ h.clean => ~CutBetween(h.user, h.root, h.at),
         req' = [req EXCEPT ![r] = h],
         UNCHANGED <<clock, account, tokens, cutAt>>
  PROVE  JwtInv'
<1>1. \A q \in Requests : req'[q] = IF q = r THEN h ELSE req[q]
  BY DEF JwtInv, JwtTypeOK
<1>2. JwtTypeOK'
  BY <1>1 DEF JwtInv, JwtTypeOK
<1>3. CutoffsInOrder'
  BY <1>1 DEF JwtInv, CutoffsInOrder
<1>4. \A u, from, to : CutBetween(u, from, to)' => CutBetween(u, from, to)
  BY <1>1 DEF CutBetween
<1>5. CleanChains'
  BY <1>1, <1>4 DEF JwtInv, CleanChains
<1> QED BY <1>2, <1>3, <1>5 DEF JwtInv, CutoffsArePast

\* A token is signed by a handler that ends or goes on to sign another.
LEMMA TokenSigned ==
  ASSUME JwtInv, NEW r \in Requests, NEW kind \in {"login", "access", "refresh"},
         req[r].step \in Signing, Sign(r, kind),
         \/ Finish(r)
         \/ req' = [req EXCEPT ![r].step = "signRefresh"],
         UNCHANGED <<clock, account, cutAt>>
  PROVE  JwtInv'
<1> USE JwtAssumption
<1> DEFINE u == req[r].user
           t == [kind |-> kind, user |-> u, iat |-> IssuedAt(clock), at |-> clock,
                 root |-> req[r].root, clean |-> req[r].clean /\ ~CutSince(u, req[r].at)]
<1>1. tokens' = tokens \union {t}
  BY DEF Sign, Signed
<1>2. /\ clock \in Nat /\ u \in Users /\ req[r] \in Handlers
      /\ req[r].root <= req[r].at /\ req[r].at <= clock
  BY DEF JwtInv, JwtTypeOK, Signing
<1>3. /\ t \in Tokens /\ t.root <= t.at /\ t.at <= clock /\ t.iat * TicksPerSecond <= t.at
  BY <1>2, SecondOfTick DEF IssuedAt, Tokens, Handlers
<1>4. t.clean => ~CutBetween(t.user, t.root, t.at)
  <2>1. ASSUME req[r].clean, CutBetween(u, req[r].root, clock) PROVE CutSince(u, req[r].at)
    <3>1. ~CutBetween(u, req[r].root, req[r].at)
      BY <2>1 DEF JwtInv, CleanChains
    <3>2. cutAt[u] \in Nat /\ \A q \in Requests : req[q].at \in Nat
      BY <1>2 DEF JwtInv, JwtTypeOK, Handlers
    <3> QED BY <1>2, <2>1, <3>1, <3>2 DEF CutBetween, CutSince, Handlers
  <2> QED BY <2>1
<1>5. \A q \in Requests : /\ req'[q].step = "write" <=> req[q].step = "write"
                          /\ req[q].step = "write" => req'[q] = req[q]
                          /\ req'[q].step \in Signing =>
                               /\ req[q].step \in Signing /\ req'[q].user = req[q].user
                               /\ req'[q].at = req[q].at /\ req'[q].root = req[q].root
                               /\ req'[q].clean = req[q].clean
  BY DEF Finish, Signing, Idle, JwtInv, JwtTypeOK, Handlers
<1>6. \A v, from, to : CutBetween(v, from, to)' <=> CutBetween(v, from, to)
  BY <1>5 DEF CutBetween
<1> HIDE DEF t, u
<1>7. JwtTypeOK'
  <2>1. /\ req' \in [Requests -> Handlers]
        /\ \A q \in Requests : req'[q].step # "idle" => req'[q].user \in Users
        /\ \A q \in Requests : req'[q].at <= clock /\ req'[q].root <= req'[q].at
    <3>1. CASE Finish(r)
      BY <1>2, <3>1 DEF JwtInv, JwtTypeOK, Finish, Idle, Handlers, Steps
    <3>2. CASE req' = [req EXCEPT ![r].step = "signRefresh"]
      BY <1>2, <3>2 DEF JwtInv, JwtTypeOK, Handlers, Steps, u
    <3> QED BY <3>1, <3>2
  <2> QED BY <1>1, <1>3, <2>1 DEF JwtInv, JwtTypeOK
<1>8. CutoffsInOrder'
  BY <1>5 DEF JwtInv, CutoffsInOrder
<1>9. CleanChains'
  BY <1>1, <1>4, <1>5, <1>6 DEF JwtInv, CleanChains
<1> QED BY <1>7, <1>8, <1>9 DEF JwtInv, CutoffsArePast

\* revokeUserAccess computes a cutoff.
LEMMA CutoffComputed ==
  ASSUME JwtInv, NEW r \in Requests, ComputeCutoff(r)
  PROVE  JwtInv'
<1> DEFINE u == req[r].user
           h == [Begin("write", u) EXCEPT
                   !.alone = ({q \in Requests : req[q].step = "write" /\ req[q].user = u} = {})]
<1>1. u \in Users /\ clock \in Nat /\ req \in [Requests -> Handlers]
  BY DEF ComputeCutoff, JwtInv, JwtTypeOK
<1>2. /\ h \in Handlers /\ h.step = "write" /\ h.user = u /\ h.at = clock /\ h.root = clock
      /\ h.alone => \A q \in Requests : ~(req[q].step = "write" /\ req[q].user = u)
  BY <1>1 DEF Begin, Idle, Handlers, Steps
<1>3. \A q \in Requests : req'[q] =
        CASE q = r -> h
          [] q # r /\ req[q].step = "write" /\ req[q].user = u -> [req[q] EXCEPT !.alone = FALSE]
          [] q # r /\ ~(req[q].step = "write" /\ req[q].user = u) -> req[q]
  BY DEF ComputeCutoff
<1>4. UNCHANGED <<clock, account, tokens, cutAt>>
  BY DEF ComputeCutoff
<1> HIDE DEF h
<1>5. \A q \in Requests \ {r} :
        /\ req'[q] \in Handlers
        /\ req'[q].step = req[q].step /\ req'[q].user = req[q].user /\ req'[q].at = req[q].at
        /\ req'[q].root = req[q].root /\ req'[q].clean = req[q].clean
        /\ req'[q].alone => req[q].alone
        /\ req[q].step = "write" /\ req[q].user = u => ~req'[q].alone
  <2> TAKE q \in Requests \ {r}
  <2>1. CASE req[q].step = "write" /\ req[q].user = u
    <3>1. req'[q] = [req[q] EXCEPT !.alone = FALSE] /\ req[q] \in Handlers
      BY <1>1, <1>3, <2>1
    <3> QED BY <2>1, <3>1 DEF Handlers
  <2>2. CASE ~(req[q].step = "write" /\ req[q].user = u)
    BY <1>1, <1>3, <2>2
  <2> QED BY <2>1, <2>2
<1>6. req'[r] = h
  BY <1>3
<1>7. JwtTypeOK'
  <2>1. req' \in [Requests -> Handlers]
    <3>1. req' = [q \in Requests |-> req'[q]]
      BY DEF ComputeCutoff
    <3>2. \A q \in Requests : req'[q] \in Handlers
      BY <1>2, <1>5, <1>6
    <3> QED BY <3>1, <3>2
  <2> QED BY <1>1, <1>2, <1>4, <1>5, <1>6, <2>1 DEF JwtInv, JwtTypeOK
<1>8. CutoffsInOrder'
  BY <1>1, <1>2, <1>4, <1>5, <1>6 DEF JwtInv, JwtTypeOK, CutoffsInOrder
<1>9. \A v \in Users, from, to \in Nat :
        to <= clock /\ CutBetween(v, from, to)' => CutBetween(v, from, to)
  BY <1>1, <1>2, <1>4, <1>5, <1>6 DEF CutBetween
<1>10. CleanChains'
  <2>1. \A t \in tokens : /\ t.user \in Users /\ t.root \in Nat /\ t.at \in Nat /\ t.at <= clock
    BY DEF JwtInv, JwtTypeOK, Tokens
  <2>2. \A t \in tokens' : t.clean => ~CutBetween(t.user, t.root, t.at)'
    <3>1. \A t \in tokens : t.clean => ~CutBetween(t.user, t.root, t.at)
      BY DEF JwtInv, CleanChains
    <3> QED BY <1>4, <1>9, <2>1, <3>1
  <2>3. ASSUME NEW q \in Requests, (req[q].step \in Signing /\ req[q].clean)'
        PROVE  ~CutBetween(req[q].user, req[q].root, req[q].at)'
    <3>1. q # r
      BY <1>2, <1>6, <2>3 DEF Signing
    <3>2. /\ req[q].step \in Signing /\ req[q].clean /\ req'[q].user = req[q].user
          /\ req'[q].at = req[q].at /\ req'[q].root = req[q].root
      BY <1>5, <2>3, <3>1
    <3>3. /\ req[q].user \in Users /\ req[q].root \in Nat /\ req[q].at \in Nat
          /\ req[q].at <= clock
      BY <3>2 DEF JwtInv, JwtTypeOK, Handlers, Signing
    <3>4. ~CutBetween(req[q].user, req[q].root, req[q].at)
      BY <3>2 DEF JwtInv, CleanChains
    <3> QED BY <1>9, <3>2, <3>3, <3>4 DEF CutBetween
  <2> QED BY <2>2, <2>3 DEF CleanChains
<1> QED BY <1>4, <1>7, <1>8, <1>10 DEF JwtInv, CutoffsArePast

\* The transaction of revokeUserAccess commits.
LEMMA CutoffWritten ==
  ASSUME JwtInv, NEW r \in Requests, WriteCutoff(r)
  PROVE  JwtInv'
<1> DEFINE u == req[r].user
           x == req[r].at
<1>1. /\ u \in Users /\ x \in Nat /\ x <= clock /\ clock \in Nat /\ cutAt[u] <= x
      /\ req[r].step = "write" /\ UNCHANGED <<clock, tokens>>
  BY DEF WriteCutoff, JwtInv, JwtTypeOK, CutoffsInOrder, Handlers
<1>2. /\ req' \in [Requests -> Handlers]
      /\ \A q \in Requests : req'[q] = IF q = r THEN Idle ELSE req[q]
  BY DEF WriteCutoff, Finish, JwtInv, JwtTypeOK, Idle, Handlers, Steps
<1>3. /\ account' \in [Users -> Accounts] /\ cutAt' \in [Users -> Nat]
      /\ \A v \in Users : v # u => account'[v] = account[v] /\ cutAt'[v] = cutAt[v]
      /\ \/ account'[u] = account[u] /\ cutAt'[u] = cutAt[u]
         \/ /\ account'[u].validAfter = NextTokensValidAfter(x)
            /\ cutAt'[u] = IF req[r].alone THEN x ELSE cutAt[u]
  <2>1. account \in [Users -> Accounts] /\ cutAt \in [Users -> Nat]
    BY DEF JwtInv, JwtTypeOK
  <2>2. NextTokensValidAfter(x) \in Nat
    BY <1>1, CutoffBounds
  <2>3. CASE UNCHANGED <<account, cutAt>>
    BY <2>1, <2>3
  <2>4. CASE /\ account' = [account EXCEPT ![u].validAfter = NextTokensValidAfter(x)]
             /\ cutAt' = IF req[r].alone THEN [cutAt EXCEPT ![u] = x] ELSE cutAt
    <3>1. account' \in [Users -> Accounts]
      BY <1>1, <2>1, <2>2, <2>4 DEF Accounts
    <3>2. cutAt' \in [Users -> Nat] /\ cutAt'[u] = IF req[r].alone THEN x ELSE cutAt[u]
      BY <1>1, <2>1, <2>4
    <3>3. \A v \in Users : v # u => account'[v] = account[v] /\ cutAt'[v] = cutAt[v]
      BY <1>1, <2>1, <2>4
    <3>4. account'[u].validAfter = NextTokensValidAfter(x)
      BY <1>1, <2>1, <2>4 DEF Accounts
    <3> QED BY <3>1, <3>2, <3>3, <3>4
  <2> QED BY <2>3, <2>4 DEF WriteCutoff
<1> HIDE DEF u, x
<1>4. JwtTypeOK'
  BY <1>1, <1>2, <1>3 DEF JwtInv, JwtTypeOK, Idle
<1>5. CutoffsInOrder'
  <2>1. x <= NextTokensValidAfter(x) /\ NextTokensValidAfter(x) \in Nat
    BY <1>1, CutoffBounds
  <2>2. \A v \in Users : cutAt[v] \in Nat /\ account[v].validAfter \in Nat
    BY DEF JwtInv, JwtTypeOK, Accounts
  <2>3. \A v \in Users : cutAt'[v] <= account'[v].validAfter /\ cutAt'[v] <= clock'
    BY <1>1, <1>3, <2>1, <2>2 DEF JwtInv, CutoffsInOrder
  <2>4. \A q \in Requests : req'[q].step = "write" => cutAt'[req'[q].user] <= req'[q].at
    <3> SUFFICES ASSUME NEW q \in Requests, req'[q].step = "write"
                 PROVE  cutAt'[req'[q].user] <= req'[q].at
      OBVIOUS
    <3>1. q # r /\ req'[q] = req[q] /\ req[q].user \in Users
      BY <1>2 DEF Idle, JwtInv, JwtTypeOK
    <3>2. cutAt[req[q].user] <= req[q].at
      BY <3>1 DEF JwtInv, CutoffsInOrder
    <3>3. req[q].user = u => ~req[r].alone
      BY <1>1, <3>1 DEF JwtInv, CutoffsInOrder, u
    <3> QED BY <1>3, <3>1, <3>2, <3>3
  <2> QED BY <1>2, <2>3, <2>4 DEF JwtInv, CutoffsInOrder, Idle
<1>6. \A v \in Users, from, to \in Nat : CutBetween(v, from, to)' => CutBetween(v, from, to)
  BY <1>1, <1>2, <1>3 DEF CutBetween, Idle, u, x
<1>7. CleanChains'
  <2>1. \A t \in tokens : /\ t.user \in Users /\ t.root \in Nat /\ t.at \in Nat
    BY DEF JwtInv, JwtTypeOK, Tokens
  <2>2. \A t \in tokens' : t.clean => ~CutBetween(t.user, t.root, t.at)'
    <3>1. \A t \in tokens : t.clean => ~CutBetween(t.user, t.root, t.at)
      BY DEF JwtInv, CleanChains
    <3>2. tokens' = tokens
      BY <1>1
    <3> QED BY <1>6, <2>1, <3>1, <3>2
  <2>3. ASSUME NEW q \in Requests, (req[q].step \in Signing /\ req[q].clean)'
        PROVE  ~CutBetween(req[q].user, req[q].root, req[q].at)'
    <3>1. req'[q] = req[q] /\ req[q].step # "idle"
      BY <1>2, <2>3 DEF Idle, Signing
    <3>2. req[q].user \in Users /\ req[q].root \in Nat /\ req[q].at \in Nat
      BY <3>1 DEF JwtInv, JwtTypeOK, Handlers
    <3>3. ~CutBetween(req[q].user, req[q].root, req[q].at)
      BY <2>3, <3>1 DEF JwtInv, CleanChains
    <3> QED BY <1>6, <3>1, <3>2, <3>3 DEF CutBetween
  <2> QED BY <2>2, <2>3 DEF CleanChains
<1>8. CutoffsArePast'
  BY <1>1, <1>3 DEF JwtInv, CutoffsArePast
<1> QED BY <1>4, <1>5, <1>7, <1>8 DEF JwtInv

\* A refresh goes on with the chain of its token.
LEMMA RefreshContinues ==
  ASSUME JwtInv, NEW r \in Requests, NEW t \in tokens, RefreshCheck(r, t)
  PROVE  JwtInv'
<1> DEFINE h == Continue(t)
<1>1. /\ t \in Tokens /\ t.root <= t.at /\ t.at <= clock /\ clock \in Nat
      /\ cutAt[t.user] \in Nat /\ \A q \in Requests : req[q].at \in Nat
  BY DEF JwtInv, JwtTypeOK, Tokens, Handlers
<1>2. /\ h \in Handlers /\ h.step = "signAccess" /\ h.user = t.user /\ h.at = clock
      /\ h.root = t.root /\ h.clean = (t.clean /\ (CutSince(t.user, t.at) => cutAt[t.user] > t.at))
  BY <1>1 DEF Continue, Begin, Idle, Handlers, Steps, Tokens
<1>3. ~(cutAt[t.user] > t.at)
  <2>1. /\ ~(t.iat * TicksPerSecond < account[t.user].validAfter)
        /\ t.iat * TicksPerSecond <= t.at /\ cutAt[t.user] <= account[t.user].validAfter
        /\ account[t.user].validAfter \in Nat /\ t.iat \in Nat /\ t.at \in Nat
    BY <1>1 DEF RefreshCheck, Accepted, IsJwtRevoked, JwtInv, JwtTypeOK, CutoffsInOrder,
                Accounts, Tokens
  <2>2. t.iat * TicksPerSecond \in Nat
    BY <2>1, JwtAssumption
  <2> QED BY <1>1, <2>1, <2>2
<1>4. h.clean => ~CutBetween(t.user, t.root, clock)
  <2>1. h.clean => ~CutBetween(t.user, t.root, t.at) /\ ~CutSince(t.user, t.at)
    BY <1>2, <1>3 DEF JwtInv, CleanChains
  <2> QED BY <1>1, <2>1 DEF CutBetween, CutSince, Tokens
<1> HIDE DEF h
<1>5. req' = [req EXCEPT ![r] = h] /\ UNCHANGED <<clock, account, tokens, cutAt>>
      /\ req[r].step # "write"
  BY DEF RefreshCheck, h, Idle
<1>6. /\ h \in Handlers /\ h.step # "write" /\ h.user \in Users /\ h.at <= clock /\ h.root <= h.at
      /\ h.clean => ~CutBetween(h.user, h.root, h.at)
  BY <1>1, <1>2, <1>4 DEF Tokens
<1> QED BY <1>5, <1>6, HandlerBegins

\* So does the second step of a login.
LEMMA SecondStepContinues ==
  ASSUME JwtInv, NEW r \in Requests, NEW t \in tokens, VerifyTwoFactorLogin(r, t)
  PROVE  JwtInv'
<1> DEFINE h == [Begin("signAccess", t.user) EXCEPT
                   !.root = t.root, !.clean = t.clean /\ ~CutSince(t.user, t.at)]
<1>1. /\ t \in Tokens /\ t.root <= t.at /\ t.at <= clock /\ clock \in Nat
      /\ cutAt[t.user] \in Nat /\ \A q \in Requests : req[q].at \in Nat
  BY DEF JwtInv, JwtTypeOK, Tokens, Handlers
<1>2. /\ h \in Handlers /\ h.step = "signAccess" /\ h.user = t.user /\ h.at = clock
      /\ h.root = t.root /\ h.clean = (t.clean /\ ~CutSince(t.user, t.at))
  BY <1>1 DEF Begin, Idle, Handlers, Steps, Tokens
<1>3. h.clean => ~CutBetween(t.user, t.root, clock)
  <2>1. h.clean => ~CutBetween(t.user, t.root, t.at) /\ ~CutSince(t.user, t.at)
    BY <1>2 DEF JwtInv, CleanChains
  <2> QED BY <1>1, <2>1 DEF CutBetween, CutSince, Tokens
<1> HIDE DEF h
<1>4. req' = [req EXCEPT ![r] = h] /\ UNCHANGED <<clock, account, tokens, cutAt>>
      /\ req[r].step # "write"
  BY DEF VerifyTwoFactorLogin, h, Idle
<1>5. /\ h \in Handlers /\ h.step # "write" /\ h.user \in Users /\ h.at <= clock /\ h.root <= h.at
      /\ h.clean => ~CutBetween(h.user, h.root, h.at)
  BY <1>1, <1>2, <1>3 DEF Tokens
<1> QED BY <1>4, <1>5, HandlerBegins

\* A change of the status leaves tokens and cutoffs alone.
LEMMA StatusChanges ==
  ASSUME JwtInv, NEW u \in Users, NEW status \in {"active", "permBanned", "deleted"},
         account' = [account EXCEPT ![u].status = status],
         UNCHANGED <<clock, tokens, req, cutAt>>
  PROVE  JwtInv'
<1>1. /\ account' \in [Users -> Accounts]
      /\ \A v \in Users : account'[v].validAfter = account[v].validAfter
  BY DEF JwtInv, JwtTypeOK, Accounts
<1>2. JwtTypeOK' /\ CutoffsInOrder'
  BY <1>1 DEF JwtInv, JwtTypeOK, CutoffsInOrder
<1>3. CleanChains'
  BY DEF JwtInv, CleanChains, CutBetween
<1> QED BY <1>1, <1>2, <1>3 DEF JwtInv, CutoffsArePast

\* A handler is given up.
LEMMA HandlersEnd ==
  ASSUME JwtInv, req' \in [Requests -> Handlers],
         \A r \in Requests : req'[r] = req[r] \/ req'[r] = Idle,
         UNCHANGED <<clock, account, tokens, cutAt>>
  PROVE  JwtInv'
<1>1. \A r \in Requests : req'[r].step \in Signing \union {"write"} => req'[r] = req[r]
  BY DEF Idle, Signing
<1>2. JwtTypeOK' /\ CutoffsInOrder'
  <2>1. Idle.step = "idle" /\ Idle.at = 0 /\ Idle.root = 0
    BY DEF Idle
  <2> QED BY <1>1, <2>1 DEF JwtInv, JwtTypeOK, CutoffsInOrder
<1>3. \A u, from, to : CutBetween(u, from, to)' => CutBetween(u, from, to)
  BY <1>1 DEF CutBetween
<1>4. CleanChains'
  BY <1>1, <1>3 DEF JwtInv, CleanChains
<1> QED BY <1>2, <1>4 DEF JwtInv, CutoffsArePast

LEMMA JwtInvStep == JwtInv /\ [Next]_vars => JwtInv'
<1> SUFFICES ASSUME JwtInv, [Next]_vars PROVE JwtInv'
  OBVIOUS
<1>1. req \in [Requests -> Handlers] /\ clock \in Nat /\ Idle \in Handlers
      /\ \A q \in Requests : req[q].step # "idle" => req[q].user \in Users
  BY DEF JwtInv, JwtTypeOK, Idle, Handlers, Steps
<1>2. ASSUME NEW r \in Requests, req[r] = Idle, NEW h \in Handlers,
             h.step # "write", h.user \in Users, h.at <= clock, h.root = h.at,
             req' = [req EXCEPT ![r] = h], UNCHANGED <<clock, account, tokens, cutAt>>
      PROVE  JwtInv'
  <2>1. h.at \in Nat /\ cutAt \in [Users -> Nat] /\ \A q \in Requests : req[q].at \in Nat
    BY <1>1 DEF JwtInv, JwtTypeOK, Handlers
  <2>2. ~CutBetween(h.user, h.root, h.at)
    BY <1>2, <2>1 DEF CutBetween
  <2>3. req[r].step # "write" /\ h.root <= h.at
    BY <1>2, <2>1 DEF Idle
  <2> QED BY <1>2, <2>2, <2>3, HandlerBegins
<1>3. ASSUME NEW r \in Requests, HandlerStart(r) PROVE JwtInv'
  <2>1. ASSUME NEW u \in Users, LoginCheck(r, u) PROVE JwtInv'
    <3>1. PICK step \in {"signLogin", "signAccess"} : req' = [req EXCEPT ![r] = Begin(step, u)]
      BY <2>1 DEF LoginCheck
    <3> DEFINE h == Begin(step, u)
    <3>2. h \in Handlers /\ h.step = step /\ h.user = u /\ h.at = clock /\ h.root = h.at
      BY <1>1 DEF Begin, Idle, Handlers, Steps
    <3>3. req' = [req EXCEPT ![r] = h] /\ req[r] = Idle /\ UNCHANGED <<clock, account, tokens, cutAt>>
      BY <2>1, <3>1 DEF LoginCheck
    <3> HIDE DEF h
    <3>4. h.step # "write" /\ h.user \in Users /\ h.at <= clock
      BY <1>1, <3>2
    <3> QED BY <1>2, <3>2, <3>3, <3>4
  <2>2. ASSUME NEW u \in Users, NEW step \in {"setPassword", "ban"}, req[r] = Idle,
               req' = [req EXCEPT ![r] = [Idle EXCEPT !.step = step, !.user = u]],
               UNCHANGED <<clock, account, tokens, cutAt>>
        PROVE  JwtInv'
    <3> DEFINE h == [Idle EXCEPT !.step = step, !.user = u]
    <3>1. h \in Handlers /\ h.step = step /\ h.user = u /\ h.at = 0 /\ h.root = h.at
      BY <1>1 DEF Idle, Handlers, Steps
    <3>2. req' = [req EXCEPT ![r] = h]
      BY <2>2
    <3> HIDE DEF h
    <3>3. h.step # "write" /\ h.user \in Users /\ h.at <= clock
      BY <1>1, <3>1
    <3> QED BY <1>2, <2>2, <3>1, <3>2, <3>3
  <2> QED BY <1>3, <2>1, <2>2, RefreshContinues, SecondStepContinues
         DEF HandlerStart, PasswordCheck, BanCheck
<1>4. ASSUME NEW r \in Requests, HandlerStep(r) PROVE JwtInv'
  <2>1. CASE SignLogin(r) \/ SignAccess(r) \/ SignRefresh(r)
    BY <2>1, TokenSigned DEF SignLogin, SignAccess, SignRefresh, Signing
  <2>2. ASSUME req[r].step \in {"setPassword", "ban"}, req' = [req EXCEPT ![r].step = "cutoff"],
               UNCHANGED <<clock, account, tokens, cutAt>>
        PROVE  JwtInv'
    <3> DEFINE h == [req[r] EXCEPT !.step = "cutoff"]
    <3>1. h \in Handlers /\ h.step = "cutoff" /\ h.user = req[r].user /\ h.at = req[r].at
          /\ h.root = req[r].root /\ req[r].user \in Users
      BY <1>1, <2>2 DEF Handlers, Steps
    <3>2. req[r].at <= clock /\ req[r].root <= req[r].at
      BY DEF JwtInv, JwtTypeOK
    <3>3. req' = [req EXCEPT ![r] = h]
      BY <2>2
    <3> HIDE DEF h
    <3> QED BY <2>2, <3>1, <3>2, <3>3, HandlerBegins DEF Signing
  <2>3. ASSUME Finish(r), UNCHANGED <<clock, account, tokens, cutAt>> PROVE JwtInv'
    BY <1>1, <2>3, HandlersEnd DEF Finish
  <2>4. CASE SetPassword(r)
    BY <2>2, <2>3, <2>4 DEF SetPassword
  <2>5. CASE PermanentlyBanUser(r)
    \* The status is written before the handler goes on to the cutoff.
    <3> DEFINE u == req[r].user
               h == [req[r] EXCEPT !.step = "cutoff"]
    <3>1. CASE account[u].status = "deleted"
      BY <2>3, <2>5, <3>1 DEF PermanentlyBanUser
    <3>2. CASE account[u].status # "deleted"
      <4>1. /\ req[r].step = "ban" /\ u \in Users
            /\ account' = [account EXCEPT ![u].status = "permBanned"]
            /\ req' = [req EXCEPT ![r].step = "cutoff"] /\ UNCHANGED <<clock, tokens, cutAt>>
        BY <1>1, <2>5, <3>2 DEF PermanentlyBanUser
      <4>2. /\ account' \in [Users -> Accounts]
            /\ \A v \in Users : account'[v].validAfter = account[v].validAfter
        BY <4>1 DEF JwtInv, JwtTypeOK, Accounts
      <4>3. /\ req' \in [Requests -> Handlers]
            /\ \A q \in Requests :
                 /\ req'[q].step \in Signing \union {"write"} => req'[q] = req[q]
                 /\ req'[q].step # "idle" => req'[q].user \in Users
                 /\ req'[q].at = req[q].at /\ req'[q].root = req[q].root
        BY <1>1, <4>1 DEF Handlers, Steps, Signing
      <4>4. JwtTypeOK' /\ CutoffsInOrder'
        BY <4>1, <4>2, <4>3 DEF JwtInv, JwtTypeOK, CutoffsInOrder
      <4>5. \A v, from, to : CutBetween(v, from, to)' => CutBetween(v, from, to)
        BY <4>1, <4>3 DEF CutBetween
      <4>6. CleanChains'
        BY <4>1, <4>3, <4>5 DEF JwtInv, CleanChains
      <4> QED BY <4>1, <4>2, <4>4, <4>6 DEF JwtInv, CutoffsArePast
    <3> QED BY <3>1, <3>2
  <2> QED BY <1>4, <2>1, <2>4, <2>5, CutoffComputed, CutoffWritten DEF HandlerStep
<1>5. CASE \E u \in Users : UnbanUser(u) \/ DeleteUser(u)
  BY <1>5, StatusChanges DEF UnbanUser, DeleteUser
<1>6. CASE \E t \in tokens : ExpireToken(t)
  BY <1>6 DEF ExpireToken, JwtInv, JwtTypeOK, CutoffsInOrder, CleanChains, CutoffsArePast,
              CutBetween
<1>7. CASE Tick
  <2>1. clock' = clock + 1 /\ UNCHANGED <<account, tokens, req, cutAt>>
    BY <1>7 DEF Tick
  <2>2. JwtTypeOK'
    <3>1. \A r \in Requests : req[r].at \in Nat
      BY <1>1 DEF Handlers
    <3>2. \A t \in tokens : t.at \in Nat
      BY DEF JwtInv, JwtTypeOK, Tokens
    <3> QED BY <1>1, <2>1, <3>1, <3>2 DEF JwtInv, JwtTypeOK
  <2>3. CutoffsInOrder' /\ CutoffsArePast'
    BY <1>1, <2>1 DEF JwtInv, JwtTypeOK, CutoffsInOrder, CutoffsArePast
  <2>4. CleanChains'
    BY <2>1 DEF JwtInv, CleanChains, CutBetween
  <2> QED BY <2>2, <2>3, <2>4 DEF JwtInv
<1>8. CASE Crash
  BY <1>1, <1>8, HandlersEnd DEF Crash
<1>9. CASE UNCHANGED vars
  BY <1>9 DEF vars, JwtInv, JwtTypeOK, CutoffsInOrder, CleanChains, CutoffsArePast, CutBetween
<1> QED BY <1>3, <1>4, <1>5, <1>6, <1>7, <1>8, <1>9 DEF Next

-----------------------------------------------------------------------------
(* The theorems. *)

THEOREM JwtInvariant == Spec => []JwtInv
  BY JwtInvInit, JwtInvStep, PTL DEF Spec

\* Types, and no handler, token or cutoff from the future.
THEOREM JwtTypeCorrect == Spec => []JwtTypeOK
<1>1. JwtInv => JwtTypeOK
  BY DEF JwtInv
<1> QED BY <1>1, JwtInvariant, PTL

\* With iat rounded down and the cutoff rounded up, a token signed before a
\* revocation is refused, however long a second is.
THEOREM RevokedTokensRefused == Spec => []RevokedTokensAreRefused
<1>1. JwtInv => RevokedTokensAreRefused
  <2> SUFFICES ASSUME JwtInv, NEW t \in tokens, Accepted(t) PROVE t.at >= cutAt[t.user]
    BY DEF RevokedTokensAreRefused
  <2>1. /\ t.iat \in Nat /\ t.at \in Nat /\ t.user \in Users /\ t.iat * TicksPerSecond <= t.at
        /\ cutAt[t.user] \in Nat /\ account[t.user].validAfter \in Nat
        /\ cutAt[t.user] <= account[t.user].validAfter
    BY DEF JwtInv, JwtTypeOK, CutoffsInOrder, Tokens, Accounts
  <2>2. ~(t.iat * TicksPerSecond < account[t.user].validAfter) /\ t.iat * TicksPerSecond \in Nat
    BY <2>1, JwtAssumption DEF Accepted, IsJwtRevoked
  <2> QED BY <2>1, <2>2
<1> QED BY <1>1, JwtInvariant, PTL

\* And no chain of refreshes leads around it.
THEOREM NewLoginsOnly == Spec => []OnlyNewLoginsSurvive
<1>1. JwtInv /\ RevokedTokensAreRefused => OnlyNewLoginsSurvive
  <2> SUFFICES ASSUME JwtInv, RevokedTokensAreRefused, NEW t \in tokens, t.kind # "login",
                      t.clean, Accepted(t)
               PROVE  t.root >= cutAt[t.user] \/ t.at = cutAt[t.user]
    BY DEF OnlyNewLoginsSurvive
  <2>1. t.root \in Nat /\ t.at \in Nat /\ cutAt[t.user] \in Nat
    BY DEF JwtInv, JwtTypeOK, Tokens
  <2>2. t.at >= cutAt[t.user]
    BY DEF RevokedTokensAreRefused
  <2>3. ~(t.root < cutAt[t.user] /\ cutAt[t.user] < t.at)
    BY DEF JwtInv, CleanChains, CutBetween
  <2> QED BY <2>1, <2>2, <2>3
<1> QED BY <1>1, JwtInvariant, RevokedTokensRefused, PTL

\* Nobody is refused for longer than a second after a revocation.
THEOREM ShortLockout == Spec => []LockoutIsShort
<1>1. JwtInv => LockoutIsShort
  <2> SUFFICES ASSUME JwtInv, NEW u \in Users
               PROVE  ~(IssuedAt(clock + TicksPerSecond) * TicksPerSecond < account[u].validAfter)
    BY DEF LockoutIsShort, IsJwtRevoked
  <2>1. PICK c \in Nat : c <= clock /\ account[u].validAfter = NextTokensValidAfter(c)
    BY DEF JwtInv, CutoffsArePast
  <2> DEFINE x == c + TicksPerSecond - 1
             y == clock + TicksPerSecond
  <2>2. x \in Nat /\ y \in Nat /\ x <= y
    BY <2>1, JwtAssumption DEF JwtInv, JwtTypeOK
  <2> HIDE DEF x, y
  <2>3. (x \div TicksPerSecond) * TicksPerSecond <= (y \div TicksPerSecond) * TicksPerSecond
    BY <2>2, SecondsInOrder
  <2>4. (x \div TicksPerSecond) * TicksPerSecond \in Nat
        /\ (y \div TicksPerSecond) * TicksPerSecond \in Nat
    BY <2>2, SecondOfTick
  <2>5. account[u].validAfter = (x \div TicksPerSecond) * TicksPerSecond
    BY <2>1 DEF NextTokensValidAfter, x
  <2>6. IssuedAt(clock + TicksPerSecond) = y \div TicksPerSecond
    BY DEF IssuedAt, y
  <2> QED BY <2>3, <2>4, <2>5, <2>6
<1> QED BY <1>1, JwtInvariant, PTL
=============================================================================
