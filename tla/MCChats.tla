------------------------------ MODULE MCChats ------------------------------
(***************************************************************************)
(* A user who opens chats, and one with two devices: only the latter's     *)
(* sockets are in play.  A run has one group, or direct chats.  It ends    *)
(* with a socket in a room by a stale read, of which no property speaks,   *)
(* or with a second direct chat.                                           *)
(***************************************************************************)
EXTENDS Chats, TLC

CONSTANTS Owner, Group

Focus ==
  /\ \A s \in Sockets : socket'[s].user # Owner
  /\ \A c \in ChatIds : chat'[c].type = "GROUP" => c = Group /\ chat'[c].creator = Owner
  /\ \A r \in Requests : req'[r].op = "create" =>
       /\ req'[r].type = "GROUP" => req'[r].user = Owner
       /\ \A c \in ChatIds : chat[c].type \in {"none", req'[r].type} \ {"GROUP"}
  /\ stray = {}
  /\ \E c \in ChatIds : chat[c] = NoChat

MCNext == Next /\ Focus
MCSpec == Init /\ [][MCNext]_vars

Alike == Permutations(Requests) \union Permutations(Sockets)
=============================================================================
