------------------------------ MODULE MCFiles ------------------------------
EXTENDS Files, TLC

CONSTANT p1

Alike == Permutations(Requests)

\* The first post may be of any kind; the other one is a comment on it or on a plan, if
\* it is a mission.  An avatar is changed while there are no posts.
Focus ==
  /\ \A p \in Posts \ {p1} :
       /\ post'[p].kind \in {"none", "gone", "missionComment", "planComment"}
       /\ \A r \in Requests : req'[r].of = p =>
            \/ req'[r].row.on = p1
            \/ req'[r].row.kind = "planComment" /\ post'[p1].kind = "mission"
  /\ \A r \in Requests : req'[r].op = "avatar" =>
       \A p \in Posts : post'[p] = NoPost /\ \A q \in Requests : req'[q].of # p
  /\ (\E u \in Users : avatar'[u] # None) =>
       \A r \in Requests : req'[r].op \in {"idle", "avatar"}

MCNext == FilesNext /\ Focus
MCSpec == FilesInit /\ [][MCNext]_filesVars
=============================================================================
