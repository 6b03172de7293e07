-------------------------------- MODULE Chats --------------------------------
(***************************************************************************)
(* Chats, their members, and the sockets that hear them (chats.service.ts, *)
(* chats.controller.ts, chats.gateway.ts).  What is said in a chat goes to *)
(* its room: to whoever the gateway has let in and not yet put out.        *)
(*                                                                         *)
(* A handler reads and checks, writes, and touches the rooms in steps of   *)
(* their own, because it awaits each call of the database.  Messages and   *)
(* their files are the subject of module Files, names are left out.        *)
(***************************************************************************)
EXTENDS Integers, FiniteSets

CONSTANTS
  Users,
  ChatIds,
  Sockets,
  Requests,
  None

ASSUME ChatsAssumption == None \notin Users \union ChatIds \union Sockets /\ IsFiniteSet(Users)

VARIABLES
  chat,    \* the Chat rows
  member,  \* the ChatUser rows: of one member at most one
  socket,  \* connections: the user, the rooms, and what a new one has found
  req,     \* handlers between two awaits
  stray,   \* history: rooms that a socket is in by an overtaken read
  twin     \* history: pairs of users with two creations at a time

vars == <<chat, member, socket, req, stray, twin>>

-----------------------------------------------------------------------------
ChatRows == [type : {"DIRECT", "GROUP"}, creator : Users]
NoChat == [type |-> "none", creator |-> None]
GoneChat == [type |-> "gone", creator |-> None]

Memberships == {"none", "active", "left"}

\* `found` is what handleConnection has read; `stale` is what changed since.
SocketRows == [user : Users \union {None}, rooms : SUBSET ChatIds,
               connecting : BOOLEAN, asked : BOOLEAN,
               found : SUBSET ChatIds, stale : SUBSET ChatIds]
Off == [user |-> None, rooms |-> {}, connecting |-> FALSE, asked |-> FALSE,
        found |-> {}, stale |-> {}]

\* `who` are the users that a handler writes to or reads, `todo` those that
\* addMembers has not reached, `stale` those whose membership changed since.
Ops == {"idle", "create", "reactivate", "readChat", "enter", "add", "leave", "left",
        "delete", "deleted", "join"}
Calls == [op : Ops, chat : ChatIds \union {None}, user : Users \union {None},
          type : {"DIRECT", "GROUP", "none"}, who : SUBSET Users, todo : SUBSET Users,
          known : SUBSET Users, stale : SUBSET Users,
          socket : Sockets \union {None}]
Idle == [op |-> "idle", chat |-> None, user |-> None, type |-> "none", who |-> {},
         todo |-> {}, known |-> {}, stale |-> {}, socket |-> None]

Live(c) == chat[c].type \in {"DIRECT", "GROUP"}
Members(c) == {u \in Users : member[c][u] # "none"}
Active(c) == {u \in Users : member[c][u] = "active"}

\* Types; memberships go with their chat.
ChatsTypeOK ==
  /\ chat \in [ChatIds -> ChatRows \union {NoChat, GoneChat}]
  /\ member \in [ChatIds -> [Users -> Memberships]]
  /\ socket \in [Sockets -> SocketRows]
  /\ req \in [Requests -> Calls]
  /\ stray \subseteq Sockets \X ChatIds
  /\ twin \subseteq SUBSET Users
  /\ \A c \in ChatIds : IF Live(c) THEN Members(c) # {} ELSE Members(c) = {}

Init ==
  /\ chat = [c \in ChatIds |-> NoChat]
  /\ member = [c \in ChatIds |-> [u \in Users |-> "none"]]
  /\ socket = [s \in Sockets |-> Off]
  /\ req = [r \in Requests |-> Idle]
  /\ stray = {}
  /\ twin = {}

-----------------------------------------------------------------------------
Begin(r, call) ==
  /\ req[r] = Idle
  /\ req' = [req EXCEPT ![r] = call]
  /\ UNCHANGED <<chat, member, socket, stray>>

\* The memberships of users us in c change: whoever has read them holds a stale
\* view of them.  Request r goes on as `call`.
Change(r, call, c, us) ==
  /\ req' = [q \in Requests |->
       IF q = r THEN call
       ELSE IF req[q].chat = c THEN [req[q] EXCEPT !.stale = @ \union us] ELSE req[q]]
  /\ socket' = [s \in Sockets |->
       IF socket[s].user \in us /\ socket[s].asked
       THEN [socket[s] EXCEPT !.stale = @ \union {c}] ELSE socket[s]]

\* Only the request moves on.
Proceed(r, call) ==
  /\ req' = [req EXCEPT ![r] = call]
  /\ UNCHANGED <<chat, member, socket, stray, twin>>

\* findDirectChatBetweenUsers: whether they have left it or not.
DirectChats(us) == {c \in ChatIds : chat[c].type = "DIRECT" /\ us \subseteq Members(c)}

\* Mutant of Reuses: only a chat that nobody has left.
ReusesActive(us) == {c \in DirectChats(us) : us \subseteq Active(c)}

Reuses(us) == DirectChats(us)

\* create, up to its write.
CreateCheck(r, u, us, type, c) ==
  /\ u \in us
  /\ twin' = IF \E q \in Requests : req[q].op = "create" /\ req[q].who = us
             THEN twin \union {us} ELSE twin
  /\ LET call == [Idle EXCEPT !.user = u, !.type = type, !.who = us, !.chat = c]
     IN \/ /\ type = "DIRECT" /\ Cardinality(us) = 2 /\ c \in Reuses(us)
           /\ Begin(r, [call EXCEPT !.op = "reactivate"])
        \/ /\ type = "DIRECT" => Cardinality(us) = 2 /\ Reuses(us) = {}
           /\ chat[c] = NoChat /\ \A q \in Requests : req[q].chat # c
           /\ Begin(r, [call EXCEPT !.op = "create"])

\* chat.create with its members
Create(r) ==
  LET c == req[r].chat
  IN /\ req[r].op = "create"
     /\ chat' = [chat EXCEPT ![c] = [type |-> req[r].type, creator |-> req[r].user]]
     /\ member' = [member EXCEPT ![c] = [u \in Users |->
                    IF u \in req[r].who THEN "active" ELSE "none"]]
     /\ Change(r, [req[r] EXCEPT !.op = "enter", !.stale = {}], c, req[r].who)
     /\ UNCHANGED <<stray, twin>>

\* reactivateChatUsers
Reactivate(r) ==
  LET c == req[r].chat
  IN /\ req[r].op = "reactivate"
     /\ member' = [member EXCEPT ![c] = [u \in Users |->
                    IF u \in req[r].who /\ @[u] = "left" THEN "active" ELSE @[u]]]
     /\ Change(r, [req[r] EXCEPT !.op = "readChat"], c, req[r].who)
     /\ UNCHANGED <<chat, stray, twin>>

\* findById: create lets in those that it lists, addMembers those that it has added.
\* A chat that is gone, or that the caller has left, ends the handler.
ReadChat(r) ==
  LET c == req[r].chat
  IN /\ req[r].op = "readChat"
     /\ IF req[r].user \in Active(c)
        THEN Proceed(r, IF req[r].type = "DIRECT"
               THEN [req[r] EXCEPT !.op = "enter", !.who = Active(c), !.stale = {}]
               ELSE [req[r] EXCEPT !.op = "enter"])
        ELSE Proceed(r, Idle)

\* joinOnlineUsersToChat: every socket of these users that is registered.
LetIn(s, c) == [socket EXCEPT ![s].rooms = @ \union {c}]
Enter(r) ==
  LET c == req[r].chat
      of == {s \in Sockets : socket[s].user \in req[r].who}
  IN /\ req[r].op = "enter"
     /\ socket' = [s \in Sockets |->
                    IF s \in of THEN [socket[s] EXCEPT !.rooms = @ \union {c}] ELSE socket[s]]
     /\ stray' = stray \union {<<s, c>> : s \in {t \in of : socket[t].user \in req[r].stale}}
     /\ req' = [req EXCEPT ![r] = Idle]
     /\ UNCHANGED <<chat, member, twin>>

-----------------------------------------------------------------------------
\* addMembers: the creator of a group adds users; which of them have a row already
\* is read here.
AddCheck(r, u, c, us) ==
  /\ chat[c].type = "GROUP" /\ chat[c].creator = u /\ u \in Active(c) /\ us # {}
  /\ Begin(r, [Idle EXCEPT !.op = "add", !.chat = c, !.user = u, !.type = "GROUP",
                           !.todo = us \ Active(c), !.known = Members(c)])
  /\ UNCHANGED twin

\* One user: a new row, or the old one again.
AddMember(r, v) ==
  LET c == req[r].chat
      known == v \in req[r].known
  IN /\ req[r].op = "add" /\ v \in req[r].todo
     /\ Live(c) /\ (known <=> member[c][v] # "none")
     /\ member' = [member EXCEPT ![c][v] = "active"]
     /\ Change(r, [req[r] EXCEPT !.todo = @ \ {v}, !.who = @ \union {v}], c, {v})
     /\ UNCHANGED <<chat, stray, twin>>

AddEnd(r) ==
  /\ req[r].op = "add" /\ req[r].todo = {}
  /\ Proceed(r, [req[r] EXCEPT !.op = "readChat"])

\* The chat is gone, or somebody else has added the user: the call throws, and
\* those added before are not let into the room.
AddFail(r) ==
  /\ req[r].op = "add"
  /\ \E v \in req[r].todo : ~Live(req[r].chat) \/ (v \in Members(req[r].chat) \ req[r].known)
  /\ Proceed(r, Idle)

\* leaveChat, in the controller and the service: not the creator.
LeaveCheck(r, u, c) ==
  /\ Live(c) /\ u \in Active(c) /\ chat[c].creator # u
  /\ Begin(r, [Idle EXCEPT !.op = "leave", !.chat = c, !.user = u, !.who = {u}])
  /\ UNCHANGED twin

Leave(r) ==
  LET c == req[r].chat
      u == req[r].user
  IN /\ req[r].op = "leave" /\ Live(c)
     /\ member' = [member EXCEPT ![c][u] = "left"]
     /\ Change(r, [req[r] EXCEPT !.op = "left"], c, {u})
     /\ UNCHANGED <<chat, stray, twin>>

\* removeUsersFromChatRoom
PutOut(us, c) ==
  /\ socket' = [s \in Sockets |-> IF socket[s].user \in us
                 THEN [socket[s] EXCEPT !.rooms = @ \ {c}] ELSE socket[s]]
  /\ stray' = {p \in stray : ~(socket[p[1]].user \in us /\ p[2] = c)}

\* Mutant of NotifyLeft: one socket of the user is put out.
NotifyLeftSocket(r) ==
  /\ req[r].op = "left"
  /\ \E s \in Sockets : socket' = [socket EXCEPT ![s].rooms = @ \ {req[r].chat}]
  /\ req' = [req EXCEPT ![r] = Idle]
  /\ UNCHANGED <<chat, member, stray, twin>>

\* notifyChatLeft
NotifyLeft(r) ==
  /\ req[r].op = "left"
  /\ PutOut({req[r].user}, req[r].chat)
  /\ req' = [req EXCEPT ![r] = Idle]
  /\ UNCHANGED <<chat, member, twin>>

\* deleteChat: who is in it is read before.
DeleteCheck(r, u, c) ==
  /\ Live(c) /\ chat[c].creator = u
  /\ Begin(r, [Idle EXCEPT !.op = "delete", !.chat = c, !.user = u, !.who = Active(c)])
  /\ UNCHANGED twin

\* Mutant of Delete: the memberships stay.
DeleteChatOnly(r) ==
  LET c == req[r].chat
  IN /\ req[r].op = "delete" /\ Live(c)
     /\ chat' = [chat EXCEPT ![c] = GoneChat]
     /\ Change(r, [req[r] EXCEPT !.op = "deleted"], c, Members(c))
     /\ UNCHANGED <<member, stray, twin>>

Delete(r) ==
  LET c == req[r].chat
      unseen == {s \in Sockets : c \in socket[s].rooms /\ socket[s].user \in req[r].stale}
  IN /\ req[r].op = "delete" /\ Live(c)
     /\ chat' = [chat EXCEPT ![c] = GoneChat]
     /\ member' = [member EXCEPT ![c] = [u \in Users |-> "none"]]
     /\ Change(r, [req[r] EXCEPT !.op = "deleted"], c, Members(c))
     /\ stray' = stray \union (unseen \X {c})
     /\ UNCHANGED twin

\* notifyChatDeleted
NotifyDeleted(r) ==
  /\ req[r].op = "deleted"
  /\ PutOut(req[r].who, req[r].chat)
  /\ req' = [req EXCEPT ![r] = Idle]
  /\ UNCHANGED <<chat, member, twin>>

\* The row to update is gone.
Fail(r) ==
  /\ req[r].op \in {"leave", "delete"} /\ ~Live(req[r].chat)
  /\ Proceed(r, Idle)

-----------------------------------------------------------------------------
\* handleConnection, once resolveHandshakeUser has answered: registered under the
\* user before it asks for the chats.
Connect(s, u) ==
  /\ socket[s] = Off
  /\ socket' = [socket EXCEPT ![s] = [Off EXCEPT !.user = u, !.connecting = TRUE]]
  /\ UNCHANGED <<chat, member, req, stray, twin>>

FindChats(s) ==
  /\ socket[s].connecting /\ ~socket[s].asked
  /\ socket' = [socket EXCEPT ![s].asked = TRUE,
                              ![s].found = {c \in ChatIds : socket[s].user \in Active(c)}]
  /\ UNCHANGED <<chat, member, req, stray, twin>>

JoinFound(s) ==
  /\ socket[s].asked
  /\ socket' = [socket EXCEPT ![s] = [Off EXCEPT !.user = socket[s].user,
                                                 !.rooms = socket[s].rooms \union socket[s].found]]
  /\ stray' = stray \union ({s} \X (socket[s].found \intersect socket[s].stale))
  /\ UNCHANGED <<chat, member, req, twin>>

\* join_chat: findById, and the room.
JoinCheck(r, s, c) ==
  /\ socket[s].user \in Active(c)
  /\ Begin(r, [Idle EXCEPT !.op = "join", !.chat = c, !.user = socket[s].user,
                           !.who = {socket[s].user}, !.socket = s])
  /\ UNCHANGED twin

Join(r) ==
  LET c == req[r].chat
      s == req[r].socket
  IN /\ req[r].op = "join"
     /\ socket' = LetIn(s, c)
     /\ stray' = IF req[r].user \in req[r].stale THEN stray \union {<<s, c>>} ELSE stray
     /\ req' = [req EXCEPT ![r] = Idle]
     /\ UNCHANGED <<chat, member, twin>>

\* leave_chat
LeaveRoom(s, c) ==
  /\ c \in socket[s].rooms
  /\ socket' = [socket EXCEPT ![s].rooms = @ \ {c}]
  /\ stray' = stray \ {<<s, c>>}
  /\ UNCHANGED <<chat, member, req, twin>>

\* The connection ends, and what it was about to join with it.
Disconnect(s) ==
  /\ socket[s].user # None
  /\ socket' = [socket EXCEPT ![s] = Off]
  /\ stray' = {p \in stray : p[1] # s}
  /\ req' = [r \in Requests |-> IF req[r].socket = s THEN Idle ELSE req[r]]
  /\ UNCHANGED <<chat, member, twin>>

-----------------------------------------------------------------------------
Handler(r) ==
  \/ \E u \in Users, c \in ChatIds :
       \/ \E us \in SUBSET Users, type \in {"DIRECT", "GROUP"} : CreateCheck(r, u, us, type, c)
       \/ \E us \in SUBSET Users : AddCheck(r, u, c, us)
       \/ LeaveCheck(r, u, c)
       \/ DeleteCheck(r, u, c)
  \/ \E s \in Sockets, c \in ChatIds : JoinCheck(r, s, c)
  \/ \E v \in Users : AddMember(r, v)
  \/ Create(r)
  \/ Reactivate(r)
  \/ ReadChat(r)
  \/ Enter(r)
  \/ AddEnd(r)
  \/ AddFail(r)
  \/ Leave(r)
  \/ NotifyLeft(r)
  \/ Delete(r)
  \/ NotifyDeleted(r)
  \/ Fail(r)
  \/ Join(r)

Connection(s) ==
  \/ \E u \in Users : Connect(s, u)
  \/ FindChats(s)
  \/ JoinFound(s)
  \/ \E c \in ChatIds : LeaveRoom(s, c)
  \/ Disconnect(s)

Next == (\E r \in Requests : Handler(r)) \/ (\E s \in Sockets : Connection(s))

Spec == Init /\ [][Next]_vars

-----------------------------------------------------------------------------
(* Who hears a chat.                                                       *)

\* A socket hears only the chats of which its user is a member: whoever left or
\* was in a chat that was deleted is out of its room, on every device, as soon as
\* the handler has answered; unless a handler let the socket in, or left it out of
\* the list, by a read that a change of that membership had overtaken.
RoomsAreOfMembers == \A s \in Sockets : \A c \in socket[s].rooms :
  \/ socket[s].user \in Active(c)
  \/ \E r \in Requests :
       /\ req[r].op \in {"left", "deleted"} /\ req[r].chat = c
       /\ socket[s].user \in req[r].who
  \/ <<s, c>> \in stray

\* Two users share one direct chat, however often they leave and write again,
\* unless they both opened it at the same time.
DirectChatIsOne == \A c, d \in ChatIds :
  chat[c].type = "DIRECT" /\ chat[d].type = "DIRECT" /\ c # d
    /\ Members(c) = Members(d) => Members(c) \in twin
=============================================================================
