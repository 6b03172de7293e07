---------------------------- MODULE MCModeration ----------------------------
EXTENDS Moderation

CONSTANTS player, o1, o2, r2

\* Two owners, and a user without a role.
MCInitialRoles == [x \in Users |-> IF x = player THEN {"USER"} ELSE {"OWNER"}]
MCNewRoles == {{"USER"}, {"OWNER"}}

\* The owner o1 moderates the player and may delete the account; before anything else has
\* happened the two owners change each other's roles.  What overlaps with the
\* first request is a permanent ban, a warning or a change of roles.
Punishing == {"ban", "permanentBan", "unban", "warn", "unwarn", "delete"}
AsIntended ==
  /\ \A r \in Requests :
       /\ req'[r].op \in Punishing => req'[r].actor = o1 /\ req'[r].user = player
       /\ req'[r].op = "role" =>
            req'[r].user # player /\ now' = 0 /\ record' = [x \in Users |-> NoRecord]
  /\ req'[r2].op \in {"idle", "permanentBan", "warn", "warned", "role"}
MCNext == Next /\ AsIntended
MCSpec == Init /\ [][MCNext]_vars /\ Fairness
=============================================================================
