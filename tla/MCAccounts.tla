---------------------------- MODULE MCAccounts ----------------------------
EXTENDS Accounts, TLC

CONSTANTS u1, u2, n1

\* Codes are also the tokens, and Requests the tasks: they do not move together.
Alike == Permutations(Requests) \union Permutations(Secrets) \union Permutations(Codes)

\* The second factor starts from an account with nothing under way, and accounts
\* move before it is set up: neither reads what the other writes later.
Quiet ==
  /\ account[u1] = [NoAccount EXCEPT !.registered = TRUE, !.verified = TRUE, !.nickname = n1]
  /\ account[u2] = NoAccount
  /\ \A k \in Tasks : task[k] = NoTask
  /\ expired = {} /\ mailed = {} /\ linking = {} /\ used = {}
Apart == Quiet \/ Init

\* Two tokens at a time in rows and on their way, of three: one is always free.
FewTokens ==
  Cardinality(UNION {InForce(u) : u \in Users} \union ({task[k].token : k \in Tasks} \ {None})) <= 2

\* Steam is linked while no token is in force or held: neither reads the other.
NoSteam ==
  /\ linking = {} /\ \A u \in Users : account[u].steam = None
  /\ \A k \in Tasks : task[k].op # "steam"
NoToken == used = {} /\ \A u \in Users, k \in Tasks : InForce(u) = {} /\ task[k].token = None
SteamApart == NoSteam \/ NoToken
=============================================================================
