---------------------------- MODULE ChatsProofs ----------------------------
(***************************************************************************)
(* Proofs about Chats: types, rooms that only members are in, and one      *)
(* direct chat of a pair of users.                                         *)
(***************************************************************************)
EXTENDS Chats, FiniteSetTheorems, TLAPS

RowsOK ==
  /\ chat \in [ChatIds -> ChatRows \union {NoChat, GoneChat}]
  /\ member \in [ChatIds -> [Users -> Memberships]]
  /\ \A c \in ChatIds : IF Live(c) THEN Members(c) # {} ELSE Members(c) = {}
SocketsOK == socket \in [Sockets -> SocketRows] /\ stray \subseteq Sockets \X ChatIds

\* What a request is about.
CallFits(x) ==
  /\ x.op # "idle" => x.chat \in ChatIds /\ x.user \in Users
  /\ x.op = "join" => x.socket \in Sockets
  /\ x.socket # None => x.op = "join"
  /\ x.op \in {"leave", "left"} => x.who = {x.user}
  /\ x.op = "reactivate" => x.type = "DIRECT"
CallsOK == req \in [Requests -> Calls] /\ \A r \in Requests : CallFits(req[r])

\* What a request has read of the members of its chat: true, except of the users of
\* whom it holds a stale view.
Knows(x) ==
  /\ x.op \in {"enter", "add"} \/ (x.op = "readChat" /\ x.type # "DIRECT") =>
       x.who \subseteq Active(x.chat) \union x.stale
  /\ x.op = "join" => x.user \in Active(x.chat) \union x.stale
  /\ x.op = "delete" => Active(x.chat) \subseteq x.who \union x.stale
CallsKnow == \A r \in Requests : Knows(req[r])

\* The same of a socket that is connecting; a handler of a socket has its user.
SocketsKnow ==
  /\ \A s \in Sockets : socket[s].asked =>
       \A c \in socket[s].found : socket[s].user \in Active(c) \/ c \in socket[s].stale
  /\ \A r \in Requests : req[r].op = "join" => socket[req[r].socket].user = req[r].user

\* A chat that is being created has no row yet, and a direct one no elder twin, if it
\* was not opened twice; members are added to groups only; who leaves has a row.
Creates(x) ==
  /\ x.op = "create" =>
       /\ chat[x.chat] = NoChat /\ x.user \in x.who /\ x.type \in {"DIRECT", "GROUP"}
       /\ x.type = "DIRECT" => Cardinality(x.who) = 2 /\ (x.who \in twin \/ DirectChats(x.who) = {})
  /\ x.op = "add" => chat[x.chat].type # "DIRECT"
  /\ x.op = "leave" => chat[x.chat] = GoneChat \/ x.user \in Members(x.chat)
Apart(x, y) ==
  x.op = "create" =>
    /\ y.chat # x.chat
    /\ y.op = "create" /\ y.who = x.who => x.who \in twin
CreationsOK ==
  /\ twin \subseteq SUBSET Users
  /\ \A r \in Requests : Creates(req[r])
  /\ \A r, q \in Requests : r # q => Apart(req[r], req[q])

ChatsInv ==
  /\ RowsOK /\ SocketsOK /\ CallsOK /\ CallsKnow /\ SocketsKnow /\ CreationsOK
  /\ RoomsAreOfMembers /\ DirectChatIsOne

-----------------------------------------------------------------------------
LEMMA InvInit == ASSUME Init PROVE ChatsInv
<1> USE ChatsAssumption DEF Init
<1>1. RowsOK
  BY DEF RowsOK, Memberships, NoChat, Live, Members
<1>2. SocketsOK
  BY DEF SocketsOK, SocketRows, Off
<1>3. CallsOK
  BY DEF CallsOK, CallFits, Calls, Ops, Idle
<1>4. CallsKnow /\ SocketsKnow
  BY DEF CallsKnow, Knows, SocketsKnow, Idle, Off
<1>5. CreationsOK
  BY DEF CreationsOK, Creates, Apart, Idle
<1>6. RoomsAreOfMembers /\ DirectChatIsOne
  BY DEF RoomsAreOfMembers, DirectChatIsOne, Off, NoChat
<1> QED BY <1>1, <1>2, <1>3, <1>4, <1>5, <1>6 DEF ChatsInv

LEMMA InvTypes == ASSUME ChatsInv PROVE ChatsTypeOK
  BY DEF ChatsInv, RowsOK, SocketsOK, CallsOK, CreationsOK, ChatsTypeOK

LEMMA IdleCall == Idle \in Calls /\ CallFits(Idle) /\ Knows(Idle) /\ Creates(Idle)
  BY DEF Idle, Calls, Ops, CallFits, Knows, Creates

-----------------------------------------------------------------------------
\* A request that only moves on, to x: what x says is true, and x is apart from the
\* others.
LEMMA MoveKeeps ==
  ASSUME ChatsInv, NEW r \in Requests, NEW x \in Calls, req' = [req EXCEPT ![r] = x],
         UNCHANGED <<chat, member, socket, stray>>,
         twin \subseteq twin', twin' \subseteq SUBSET Users,
         req[r].op \notin {"left", "deleted"},
         CallFits(x), Knows(x), Creates(x),
         x.op = "join" => socket[x.socket].user = x.user,
         \A q \in Requests : q # r =>
           /\ x.op = "create" => req[q].chat # x.chat
           /\ req[q].op = "create" => x.chat # req[q].chat
           /\ x.op = "create" /\ req[q].op = "create" /\ req[q].who = x.who => x.who \in twin'
  PROVE  ChatsInv'
<1>1. req \in [Requests -> Calls]
  BY DEF ChatsInv, CallsOK
<1>2. req' \in [Requests -> Calls] /\ req'[r] = x /\ \A q \in Requests : q # r => req'[q] = req[q]
  BY <1>1
<1>3. RowsOK' /\ SocketsOK' /\ DirectChatIsOne'
  BY DEF ChatsInv, RowsOK, SocketsOK, DirectChatIsOne, Live, Members
<1>4. CallsOK'
  BY <1>2 DEF ChatsInv, CallsOK, CallFits
<1>5. CallsKnow'
  <2>1. ASSUME NEW q \in Requests PROVE Knows(req[q])'
    BY <1>2 DEF ChatsInv, CallsKnow, Knows, Active
  <2> QED BY <2>1 DEF CallsKnow
<1>6. SocketsKnow'
  BY <1>2 DEF ChatsInv, SocketsKnow, Active
<1>7. CreationsOK'
  <2>1. ASSUME NEW q \in Requests PROVE Creates(req[q])'
    BY <1>2 DEF ChatsInv, CreationsOK, Creates, DirectChats, Members
  <2>2. ASSUME NEW p \in Requests, NEW q \in Requests, p # q PROVE Apart(req[p], req[q])'
    <3>1. Apart(req[p], req[q])
      BY <2>2 DEF ChatsInv, CreationsOK
    <3>2. CASE p = r
      BY <3>2, <2>2, <1>2 DEF Apart
    <3>3. CASE q = r
      BY <3>3, <2>2, <1>2 DEF Apart
    <3>4. CASE p # r /\ q # r
      BY <3>1, <3>4, <1>2 DEF Apart
    <3> QED BY <3>2, <3>3, <3>4
  <2> QED BY <2>1, <2>2 DEF CreationsOK
<1>8. RoomsAreOfMembers'
  <2>1. ASSUME NEW s \in Sockets, NEW c \in socket[s].rooms, NEW q \in Requests,
               req[q].op \in {"left", "deleted"}, req[q].chat = c, socket[s].user \in req[q].who
        PROVE  req'[q] = req[q]
    BY <2>1, <1>2
  <2>2. ASSUME NEW s \in Sockets, NEW c \in socket[s].rooms
        PROVE  \/ socket[s].user \in Active(c)
               \/ \E q \in Requests : /\ req'[q].op \in {"left", "deleted"}
                                     /\ req'[q].chat = c /\ socket[s].user \in req'[q].who
               \/ <<s, c>> \in stray
    <3>1. \/ socket[s].user \in Active(c)
          \/ \E q \in Requests : /\ req[q].op \in {"left", "deleted"}
                                /\ req[q].chat = c /\ socket[s].user \in req[q].who
          \/ <<s, c>> \in stray
      BY <2>2 DEF ChatsInv, RoomsAreOfMembers
    <3> QED BY <2>1, <2>2, <3>1
  <2> QED BY <2>2 DEF RoomsAreOfMembers, Active
<1> QED BY <1>3, <1>4, <1>5, <1>6, <1>7, <1>8 DEF ChatsInv

\* A request that ends, or goes on in its chat.
LEMMA ProceedKeeps ==
  ASSUME ChatsInv, NEW r \in Requests, NEW x \in Calls, Proceed(r, x),
         req[r].op \notin {"left", "deleted"}, x = Idle \/ x.chat = req[r].chat,
         x.op \notin {"create", "join"}, CallFits(x), Knows(x), Creates(x)
  PROVE  ChatsInv'
<1>1. /\ req' = [req EXCEPT ![r] = x] /\ UNCHANGED <<chat, member, socket, stray, twin>>
  BY DEF Proceed
<1>2. twin' \subseteq SUBSET Users
  BY <1>1 DEF ChatsInv, CreationsOK
<1>3. ASSUME NEW q \in Requests, q # r, req[q].op = "create" PROVE x.chat # req[q].chat
  <2>1. req[q].chat \in ChatIds /\ req[q].chat # req[r].chat
    BY <1>3 DEF ChatsInv, CallsOK, CallFits, CreationsOK, Apart
  <2>2. Idle.chat \notin ChatIds
    BY ChatsAssumption DEF Idle
  <2> QED BY <2>1, <2>2
<1> QED BY <1>1, <1>2, <1>3, MoveKeeps

LEMMA CreateCheckKeeps ==
  ASSUME ChatsInv, NEW r \in Requests, NEW u \in Users, NEW us \in SUBSET Users,
         NEW type \in {"DIRECT", "GROUP"}, NEW c \in ChatIds, CreateCheck(r, u, us, type, c)
  PROVE  ChatsInv'
<1> DEFINE call == [Idle EXCEPT !.user = u, !.type = type, !.who = us, !.chat = c]
           old == [call EXCEPT !.op = "reactivate"]
           new == [call EXCEPT !.op = "create"]
<1>1. twin' = IF \E q \in Requests : req[q].op = "create" /\ req[q].who = us
              THEN twin \union {us} ELSE twin
  BY DEF CreateCheck
<1>2. twin \subseteq twin' /\ twin' \subseteq SUBSET Users
  BY <1>1 DEF ChatsInv, CreationsOK
<1>3. CASE type = "DIRECT" /\ c \in Reuses(us) /\ Begin(r, old)
  <2>1. old \in Calls /\ CallFits(old) /\ Knows(old) /\ Creates(old) /\ old.op = "reactivate" /\ old.chat = c
    BY <1>3, ChatsAssumption DEF Calls, Ops, Idle, CallFits, Knows, Creates
  <2>2. /\ req' = [req EXCEPT ![r] = old] /\ UNCHANGED <<chat, member, socket, stray>>
        /\ req[r] = Idle
    BY <1>3 DEF Begin
  <2>3. ASSUME NEW q \in Requests, req[q].op = "create" PROVE c # req[q].chat
    BY <1>3, <2>3 DEF Reuses, DirectChats, ChatsInv, CreationsOK, Creates, NoChat
  <2>4. req[r].op \notin {"left", "deleted"}
    BY <2>2 DEF Idle
  <2> HIDE DEF old
  <2>5. \A q \in Requests : q # r =>
          /\ old.op = "create" => req[q].chat # old.chat
          /\ req[q].op = "create" => old.chat # req[q].chat
          /\ old.op = "create" /\ req[q].op = "create" /\ req[q].who = old.who => old.who \in twin'
    BY <2>1, <2>3
  <2>6. old.op = "join" => socket[old.socket].user = old.user
    BY <2>1
  <2> QED BY <1>2, <2>1, <2>2, <2>4, <2>5, <2>6, MoveKeeps
<1>4. CASE /\ type = "DIRECT" => Cardinality(us) = 2 /\ Reuses(us) = {}
           /\ chat[c] = NoChat /\ \A q \in Requests : req[q].chat # c
           /\ Begin(r, new)
  <2>1. new \in Calls /\ CallFits(new) /\ Knows(new) /\ Creates(new)
    BY <1>4, ChatsAssumption DEF Calls, Ops, Idle, CallFits, Knows, Creates, Reuses, CreateCheck
  <2>2. /\ req' = [req EXCEPT ![r] = new] /\ UNCHANGED <<chat, member, socket, stray>>
        /\ req[r] = Idle
    BY <1>4 DEF Begin
  <2>3. new.op = "create" /\ new.chat = c /\ new.who = us
    BY DEF Idle
  <2> HIDE DEF new
  <2>4. ASSUME NEW q \in Requests, req[q].op = "create", req[q].who = us PROVE us \in twin'
    BY <1>1, <2>4
  <2>5. req[r].op \notin {"left", "deleted"}
    BY <2>2 DEF Idle
  <2>6. \A q \in Requests : q # r =>
          /\ new.op = "create" => req[q].chat # new.chat
          /\ req[q].op = "create" => new.chat # req[q].chat
          /\ new.op = "create" /\ req[q].op = "create" /\ req[q].who = new.who => new.who \in twin'
    BY <1>4, <2>3, <2>4
  <2>7. new.op = "join" => socket[new.socket].user = new.user
    BY <2>3
  <2> QED BY <1>2, <2>1, <2>2, <2>5, <2>6, <2>7, MoveKeeps
<1> QED BY <1>3, <1>4 DEF CreateCheck

\* A request about a chat that exists begins.
LEMMA BeginKeeps ==
  ASSUME ChatsInv, NEW r \in Requests, NEW x \in Calls, Begin(r, x), UNCHANGED twin,
         x.chat \in ChatIds, chat[x.chat] # NoChat, x.op # "create",
         x.op = "join" => socket[x.socket].user = x.user,
         CallFits(x), Knows(x), Creates(x)
  PROVE  ChatsInv'
<1>1. /\ req' = [req EXCEPT ![r] = x] /\ UNCHANGED <<chat, member, socket, stray, twin>>
      /\ req[r] = Idle
  BY DEF Begin
<1>2. twin' \subseteq SUBSET Users
  BY <1>1 DEF ChatsInv, CreationsOK
<1>3. ASSUME NEW q \in Requests, req[q].op = "create" PROVE x.chat # req[q].chat
  BY <1>3 DEF ChatsInv, CreationsOK, Creates
<1>4. req[r].op \notin {"left", "deleted"}
  BY <1>1 DEF Idle
<1>5. \A q \in Requests : q # r =>
        /\ x.op = "create" => req[q].chat # x.chat
        /\ req[q].op = "create" => x.chat # req[q].chat
        /\ x.op = "create" /\ req[q].op = "create" /\ req[q].who = x.who => x.who \in twin'
  BY <1>3
<1>6. twin \subseteq twin'
  BY <1>1
<1> QED BY <1>1, <1>2, <1>4, <1>5, <1>6, MoveKeeps

LEMMA AddCheckKeeps ==
  ASSUME ChatsInv, NEW r \in Requests, NEW u \in Users, NEW c \in ChatIds,
         NEW us \in SUBSET Users, AddCheck(r, u, c, us)
  PROVE  ChatsInv'
<1> DEFINE x == [Idle EXCEPT !.op = "add", !.chat = c, !.user = u, !.type = "GROUP",
                             !.todo = us \ Active(c), !.known = Members(c)]
<1>1. x \in Calls /\ CallFits(x) /\ Knows(x) /\ x.chat = c /\ x.op = "add"
  BY ChatsAssumption DEF Calls, Ops, Idle, CallFits, Knows, Members
<1>2. Creates(x) /\ chat[c] # NoChat
  BY DEF Creates, AddCheck, Idle, NoChat
<1> QED BY <1>1, <1>2, BeginKeeps DEF AddCheck

LEMMA LeaveCheckKeeps ==
  ASSUME ChatsInv, NEW r \in Requests, NEW u \in Users, NEW c \in ChatIds, LeaveCheck(r, u, c)
  PROVE  ChatsInv'
<1> DEFINE x == [Idle EXCEPT !.op = "leave", !.chat = c, !.user = u, !.who = {u}]
<1>1. x \in Calls /\ CallFits(x) /\ Knows(x) /\ x.chat = c /\ x.op = "leave" /\ x.user = u
  BY ChatsAssumption DEF Calls, Ops, Idle, CallFits, Knows
<1>2. chat[c] # NoChat /\ u \in Members(c)
  BY DEF LeaveCheck, Live, NoChat, Active, Members
<1>3. Creates(x)
  BY <1>1, <1>2 DEF Creates
<1> QED BY <1>1, <1>2, <1>3, BeginKeeps DEF LeaveCheck

LEMMA DeleteCheckKeeps ==
  ASSUME ChatsInv, NEW r \in Requests, NEW u \in Users, NEW c \in ChatIds, DeleteCheck(r, u, c)
  PROVE  ChatsInv'
<1> DEFINE x == [Idle EXCEPT !.op = "delete", !.chat = c, !.user = u, !.who = Active(c)]
<1>1. x \in Calls /\ CallFits(x) /\ Knows(x) /\ Creates(x) /\ x.chat = c /\ x.op = "delete"
  BY ChatsAssumption DEF Calls, Ops, Idle, CallFits, Knows, Creates, Active
<1>2. chat[c] # NoChat
  BY DEF DeleteCheck, Live, NoChat
<1> QED BY <1>1, <1>2, BeginKeeps DEF DeleteCheck

LEMMA JoinCheckKeeps ==
  ASSUME ChatsInv, NEW r \in Requests, NEW s \in Sockets, NEW c \in ChatIds, JoinCheck(r, s, c)
  PROVE  ChatsInv'
<1> DEFINE u == socket[s].user
           x == [Idle EXCEPT !.op = "join", !.chat = c, !.user = u, !.who = {u}, !.socket = s]
<1>1. u \in Active(c) /\ u \in Users
  BY DEF JoinCheck, Active
<1>2. x \in Calls /\ CallFits(x) /\ Creates(x) /\ x.chat = c /\ x.op = "join" /\ x.socket = s /\ x.user = u
  BY <1>1, ChatsAssumption DEF Calls, Ops, Idle, CallFits, Creates
<1>3. Knows(x)
  BY <1>1 DEF Knows, Idle
<1>4. chat[c] # NoChat
  <2>1. Members(c) # {}
    BY <1>1 DEF Members, Active
  <2> QED BY <2>1 DEF ChatsInv, RowsOK, Live, NoChat
<1>5. Begin(r, x) /\ UNCHANGED twin
  BY DEF JoinCheck
<1> HIDE DEF x, u
<1> QED BY <1>2, <1>3, <1>4, <1>5, BeginKeeps DEF u

LEMMA ReadChatKeeps ==
  ASSUME ChatsInv, NEW r \in Requests, ReadChat(r) PROVE ChatsInv'
<1> DEFINE c == req[r].chat
           a == [req[r] EXCEPT !.op = "enter", !.who = Active(c), !.stale = {}]
           b == [req[r] EXCEPT !.op = "enter"]
<1>1. /\ req[r] \in Calls /\ CallFits(req[r]) /\ Knows(req[r]) /\ req[r].op = "readChat"
      /\ req[r].socket = None
  BY DEF ReadChat, ChatsInv, CallsOK, CallsKnow, CallFits
<1>2. CASE c \in ChatIds /\ req[r].user \in Active(c) /\ req[r].type = "DIRECT"
  <2>1. Proceed(r, a)
    BY <1>2 DEF ReadChat
  <2>2. a \in Calls /\ CallFits(a) /\ Knows(a) /\ Creates(a) /\ a.chat = c /\ a.op = "enter"
    BY <1>1 DEF Calls, Ops, CallFits, Knows, Creates, Active
  <2> HIDE DEF a
  <2> QED BY <1>1, <2>1, <2>2, ProceedKeeps
<1>3. CASE c \in ChatIds /\ req[r].user \in Active(c) /\ req[r].type # "DIRECT"
  <2>1. Proceed(r, b)
    BY <1>3 DEF ReadChat
  <2>2. b \in Calls /\ CallFits(b) /\ Creates(b) /\ b.chat = c /\ b.op = "enter"
    BY <1>1 DEF Calls, Ops, CallFits, Creates
  <2>3. Knows(b)
    BY <1>1, <1>3 DEF Knows, Calls
  <2> HIDE DEF b
  <2> QED BY <1>1, <2>1, <2>2, <2>3, ProceedKeeps
<1>4. CASE req[r].user \notin Active(c)
  BY <1>1, <1>4, IdleCall, ProceedKeeps DEF ReadChat, Idle
<1> QED BY <1>1, <1>2, <1>3, <1>4 DEF CallFits

LEMMA AddEndKeeps ==
  ASSUME ChatsInv, NEW r \in Requests, AddEnd(r) PROVE ChatsInv'
<1> DEFINE x == [req[r] EXCEPT !.op = "readChat"]
<1>1. /\ req[r] \in Calls /\ CallFits(req[r]) /\ Knows(req[r]) /\ req[r].op = "add" /\ Proceed(r, x)
  BY DEF AddEnd, ChatsInv, CallsOK, CallsKnow
<1>2. x \in Calls /\ CallFits(x) /\ Creates(x) /\ x.chat = req[r].chat /\ x.op = "readChat"
  BY <1>1 DEF Calls, Ops, CallFits, Creates
<1>3. Knows(x)
  BY <1>1 DEF Knows, Calls
<1> HIDE DEF x
<1> QED BY <1>1, <1>2, <1>3, ProceedKeeps

LEMMA GiveUpKeeps ==
  ASSUME ChatsInv, NEW r \in Requests, AddFail(r) \/ Fail(r) PROVE ChatsInv'
<1>1. Proceed(r, Idle) /\ req[r].op \notin {"left", "deleted"}
  BY DEF AddFail, Fail
<1> QED BY <1>1, IdleCall, ProceedKeeps DEF Idle

-----------------------------------------------------------------------------
\* A write of the memberships of users us in chat c.
OnlyFor(c, us) ==
  /\ member' \in [ChatIds -> [Users -> Memberships]]
  /\ \A d \in ChatIds, v \in Users : d # c \/ v \notin us => member'[d][v] = member[d][v]

SameCall(x, y) ==
  /\ x.op = y.op /\ x.chat = y.chat /\ x.user = y.user /\ x.type = y.type
  /\ x.who = y.who /\ x.socket = y.socket /\ x.stale \subseteq y.stale
SameSocket(x, y) ==
  x.user = y.user /\ x.rooms = y.rooms /\ x.asked = y.asked /\ x.found = y.found /\ x.stale \subseteq y.stale

\* Who has read them holds a stale view of these users.
LEMMA ChangeFacts ==
  ASSUME ChatsInv, NEW r \in Requests, NEW c \in ChatIds, NEW us \in SUBSET Users,
         NEW x \in Calls, Change(r, x, c, us)
  PROVE  /\ req' \in [Requests -> Calls] /\ req'[r] = x
         /\ \A q \in Requests : q # r =>
              SameCall(req[q], req'[q]) /\ (req[q].chat = c => us \subseteq req'[q].stale)
         /\ socket' \in [Sockets -> SocketRows]
         /\ \A s \in Sockets :
              /\ SameSocket(socket[s], socket'[s])
              /\ socket[s].asked /\ socket[s].user \in us => c \in socket'[s].stale
<1>1. req \in [Requests -> Calls] /\ socket \in [Sockets -> SocketRows]
  BY DEF ChatsInv, CallsOK, SocketsOK
<1>2. ASSUME NEW q \in Requests
      PROVE  [req[q] EXCEPT !.stale = @ \union us] \in Calls
  BY <1>1 DEF Calls
<1>3. req' \in [Requests -> Calls] /\ req'[r] = x
  BY <1>1, <1>2 DEF Change
<1>4. ASSUME NEW q \in Requests, q # r
      PROVE  SameCall(req[q], req'[q]) /\ (req[q].chat = c => us \subseteq req'[q].stale)
  <2>1. req[q] \in Calls
    BY <1>1
  <2>2. CASE req[q].chat = c
    <3>1. req'[q] = [req[q] EXCEPT !.stale = @ \union us]
      BY <1>4, <2>2 DEF Change
    <3> QED BY <2>1, <3>1 DEF Calls, SameCall
  <2>3. CASE req[q].chat # c
    <3>1. req'[q] = req[q]
      BY <1>4, <2>3 DEF Change
    <3> QED BY <2>3, <3>1 DEF SameCall
  <2> QED BY <2>2, <2>3
<1>5. ASSUME NEW s \in Sockets
      PROVE  [socket[s] EXCEPT !.stale = @ \union {c}] \in SocketRows
  BY <1>1 DEF SocketRows
<1>6. socket' \in [Sockets -> SocketRows]
  BY <1>1, <1>5 DEF Change
<1>7. ASSUME NEW s \in Sockets
      PROVE  /\ SameSocket(socket[s], socket'[s])
             /\ socket[s].asked /\ socket[s].user \in us => c \in socket'[s].stale
  <2>1. socket[s] \in SocketRows
    BY <1>1
  <2>2. CASE socket[s].user \in us /\ socket[s].asked
    <3>1. socket'[s] = [socket[s] EXCEPT !.stale = @ \union {c}]
      BY <2>2 DEF Change
    <3> QED BY <2>1, <3>1 DEF SocketRows, SameSocket
  <2>3. CASE ~(socket[s].user \in us /\ socket[s].asked)
    <3>1. socket'[s] = socket[s]
      BY <2>3 DEF Change
    <3> QED BY <2>3, <3>1 DEF SameSocket
  <2> QED BY <2>2, <2>3
<1> QED BY <1>3, <1>4, <1>6, <1>7

LEMMA ChangeKnows ==
  ASSUME ChatsInv, NEW r \in Requests, NEW c \in ChatIds, NEW us \in SUBSET Users,
         NEW x \in Calls, Change(r, x, c, us), OnlyFor(c, us),
         CallFits(x), Knows(x)', x.op # "join"
  PROVE  CallsOK' /\ CallsKnow' /\ SocketsKnow'
<1>1. /\ req' \in [Requests -> Calls] /\ req'[r] = x
      /\ \A q \in Requests : q # r =>
           SameCall(req[q], req'[q]) /\ (req[q].chat = c => us \subseteq req'[q].stale)
      /\ \A s \in Sockets :
           /\ SameSocket(socket[s], socket'[s])
           /\ socket[s].asked /\ socket[s].user \in us => c \in socket'[s].stale
  BY ChangeFacts
<1>2. CallsOK'
  <2>1. ASSUME NEW q \in Requests PROVE CallFits(req[q])'
    <3>1. CASE q = r
      BY <3>1, <1>1 DEF CallFits
    <3>2. CASE q # r
      BY <3>2, <1>1 DEF ChatsInv, CallsOK, CallFits, SameCall
    <3> QED BY <3>1, <3>2
  <2> QED BY <1>1, <2>1 DEF CallsOK
<1>3. CallsKnow'
  <2>1. ASSUME NEW q \in Requests PROVE Knows(req[q])'
    <3>1. CASE q = r
      BY <3>1, <1>1 DEF Knows, Active
    <3>2. CASE q # r
      <4>1. req[q] \in Calls /\ CallFits(req[q]) /\ Knows(req[q]) /\ SameCall(req[q], req'[q])
        BY <3>2, <1>1 DEF ChatsInv, CallsOK, CallsKnow
      <4>2. ASSUME NEW v \in Users, req[q].chat \in ChatIds, v \notin req'[q].stale
            PROVE  member'[req[q].chat][v] = member[req[q].chat][v]
        BY <3>2, <1>1, <4>2 DEF OnlyFor
      <4>3. CASE req[q].op = "idle"
        BY <4>1, <4>3 DEF Knows, SameCall
      <4>4. CASE req[q].op # "idle"
        <5>1. /\ req[q].chat \in ChatIds /\ req[q].user \in Users /\ req[q].who \subseteq Users
              /\ req[q].stale \subseteq Users
          BY <4>1, <4>4 DEF CallFits, Calls
        <5>2. Active(req[q].chat) \subseteq Users
          BY DEF Active
        <5>3. Active(req[q].chat) \ req'[q].stale = {v \in Users : member'[req[q].chat][v] = "active"} \ req'[q].stale
          BY <4>2, <5>1 DEF Active
        <5> QED BY <4>1, <5>1, <5>3 DEF Knows, SameCall, Active
      <4> QED BY <4>3, <4>4
    <3> QED BY <3>1, <3>2
  <2> QED BY <2>1 DEF CallsKnow
<1>4. SocketsKnow'
  <2>1. ASSUME NEW s \in Sockets, socket'[s].asked, NEW d \in socket'[s].found, d \notin socket'[s].stale
        PROVE  socket'[s].user \in Active(d)'
    <3>1. /\ socket[s].asked /\ d \in socket[s].found /\ d \notin socket[s].stale
          /\ socket'[s].user = socket[s].user
      BY <2>1, <1>1 DEF SameSocket
    <3>2. socket[s].user \in Active(d) /\ d \in ChatIds
      BY <3>1 DEF ChatsInv, SocketsKnow, SocketsOK, SocketRows
    <3>3. d # c \/ socket[s].user \notin us
      BY <2>1, <3>1, <1>1
    <3> QED BY <3>1, <3>2, <3>3 DEF OnlyFor, Active
  <2>2. ASSUME NEW q \in Requests, req'[q].op = "join" PROVE socket'[req'[q].socket].user = req'[q].user
    <3>1. q # r
      BY <2>2, <1>1
    <3>2. req[q].op = "join" /\ req[q].socket \in Sockets /\ SameCall(req[q], req'[q])
      BY <2>2, <3>1, <1>1 DEF ChatsInv, CallsOK, CallFits, SameCall
    <3> QED BY <3>2, <1>1 DEF ChatsInv, SocketsKnow, SameCall, SameSocket
  <2> QED BY <2>1, <2>2 DEF SocketsKnow
<1> QED BY <1>2, <1>3, <1>4

\* A write that neither opens a chat nor forgets who is in one, except in one that goes;
\* of a direct one the members stay.
RowsStay ==
  /\ \A d \in ChatIds : chat'[d].type = "DIRECT" =>
       chat[d].type = "DIRECT" /\ Members(d)' = Members(d)
  /\ \A d \in ChatIds : chat[d] = NoChat => chat'[d] = NoChat
  /\ \A d \in ChatIds : chat[d] = GoneChat => chat'[d] = GoneChat
  /\ \A d \in ChatIds : \A v \in Members(d) : chat'[d] = GoneChat \/ v \in Members(d)'

LEMMA ChangeCreations ==
  ASSUME ChatsInv, NEW r \in Requests, NEW c \in ChatIds, NEW us \in SUBSET Users,
         NEW x \in Calls, Change(r, x, c, us), UNCHANGED twin,
         x.op # "create", x.chat = req[r].chat, Creates(x)',
         RowsStay
  PROVE  CreationsOK' /\ DirectChatIsOne'
<1>1. /\ req' \in [Requests -> Calls] /\ req'[r] = x
      /\ \A q \in Requests : q # r =>
           SameCall(req[q], req'[q]) /\ (req[q].chat = c => us \subseteq req'[q].stale)
  BY ChangeFacts
<1>2. ASSUME NEW q \in Requests PROVE Creates(req[q])'
  <2>1. CASE q = r
    BY <2>1, <1>1 DEF Creates, DirectChats, Members
  <2>2. CASE q # r
    <3>1. CallFits(req[q]) /\ Creates(req[q]) /\ SameCall(req[q], req'[q])
      BY <2>2, <1>1 DEF ChatsInv, CallsOK, CreationsOK
    <3>2. ASSUME NEW w, DirectChats(w) = {} PROVE DirectChats(w)' = {}
      BY <3>2 DEF DirectChats, RowsStay
    <3> QED BY <3>1, <3>2 DEF Creates, SameCall, CallFits, RowsStay
  <2> QED BY <2>1, <2>2
<1>3. ASSUME NEW p \in Requests, NEW q \in Requests, p # q PROVE Apart(req[p], req[q])'
  <2>1. Apart(req[p], req[q])
    BY <1>3 DEF ChatsInv, CreationsOK
  <2> QED BY <2>1, <1>1, <1>3 DEF Apart, SameCall
<1>4. DirectChatIsOne'
  BY DEF ChatsInv, DirectChatIsOne, RowsStay
<1> QED BY <1>2, <1>3, <1>4 DEF ChatsInv, CreationsOK

\* Whoever is no member any more is about to be put out, or noted.
LEMMA ChangeRooms ==
  ASSUME ChatsInv, NEW r \in Requests, NEW c \in ChatIds, NEW us \in SUBSET Users,
         NEW x \in Calls, Change(r, x, c, us),
         req[r].op \notin {"left", "deleted"}, stray \subseteq stray',
         \A s \in Sockets : \A d \in socket[s].rooms :
           socket[s].user \in Active(d) =>
             \/ socket[s].user \in Active(d)'
             \/ x.op \in {"left", "deleted"} /\ x.chat = d /\ socket[s].user \in x.who
             \/ <<s, d>> \in stray'
  PROVE  RoomsAreOfMembers'
<1>1. /\ req' \in [Requests -> Calls] /\ req'[r] = x
      /\ \A q \in Requests : q # r => SameCall(req[q], req'[q])
      /\ \A s \in Sockets : SameSocket(socket[s], socket'[s])
  BY ChangeFacts
<1>2. ASSUME NEW s \in Sockets, NEW d \in socket'[s].rooms
      PROVE  \/ socket'[s].user \in Active(d)'
             \/ \E q \in Requests : /\ req'[q].op \in {"left", "deleted"} /\ req'[q].chat = d
                                    /\ socket'[s].user \in req'[q].who
             \/ <<s, d>> \in stray'
  <2>1. d \in socket[s].rooms /\ socket'[s].user = socket[s].user
    BY <1>1 DEF SameSocket
  <2>2. CASE socket[s].user \in Active(d)
    BY <2>1, <2>2, <1>1
  <2>3. CASE \E q \in Requests : /\ req[q].op \in {"left", "deleted"} /\ req[q].chat = d
                                 /\ socket[s].user \in req[q].who
    <3>1. PICK q \in Requests : /\ req[q].op \in {"left", "deleted"} /\ req[q].chat = d
                                /\ socket[s].user \in req[q].who
      BY <2>3
    <3>2. q # r
      BY <3>1
    <3> QED BY <3>1, <3>2, <2>1, <1>1 DEF SameCall
  <2>4. CASE <<s, d>> \in stray
    BY <2>4
  <2> QED BY <2>1, <2>2, <2>3, <2>4 DEF ChatsInv, RoomsAreOfMembers
<1> QED BY <1>2 DEF RoomsAreOfMembers

\* The same for all the parts.
LEMMA ChangeKeeps ==
  ASSUME ChatsInv, NEW r \in Requests, NEW c \in ChatIds, NEW us \in SUBSET Users,
         NEW x \in Calls, Change(r, x, c, us), OnlyFor(c, us), UNCHANGED twin, RowsOK',
         CallFits(x), Knows(x)', Creates(x)', x.op \notin {"create", "join"}, x.chat = req[r].chat,
         req[r].op \notin {"left", "deleted"},
         stray \subseteq stray', stray' \subseteq Sockets \X ChatIds,
         RowsStay,
         \A s \in Sockets : \A d \in socket[s].rooms :
           socket[s].user \in Active(d) =>
             \/ socket[s].user \in Active(d)'
             \/ x.op \in {"left", "deleted"} /\ x.chat = d /\ socket[s].user \in x.who
             \/ <<s, d>> \in stray'
  PROVE  ChatsInv'
<1>1. CallsOK' /\ CallsKnow' /\ SocketsKnow'
  BY ChangeKnows
<1>2. CreationsOK' /\ DirectChatIsOne'
  BY ChangeCreations
<1>3. RoomsAreOfMembers'
  BY ChangeRooms
<1>4. SocketsOK'
  BY ChangeFacts DEF SocketsOK
<1> QED BY <1>1, <1>2, <1>3, <1>4 DEF ChatsInv

LEMMA ReactivateKeeps ==
  ASSUME ChatsInv, NEW r \in Requests, Reactivate(r) PROVE ChatsInv'
<1>1. /\ req[r] \in Calls /\ CallFits(req[r]) /\ req[r].op = "reactivate"
      /\ req[r].chat \in ChatIds /\ req[r].type = "DIRECT" /\ req[r].who \in SUBSET Users
  BY DEF Reactivate, ChatsInv, CallsOK, CallFits, Calls
<1>2. PICK c \in ChatIds : c = req[r].chat
  BY <1>1
<1>3. PICK us \in SUBSET Users : us = req[r].who
  BY <1>1
<1>4. PICK x : x = [req[r] EXCEPT !.op = "readChat"]
  OBVIOUS
<1>5. x \in Calls /\ CallFits(x) /\ x.op = "readChat" /\ x.type = "DIRECT" /\ x.chat = c
  BY <1>1, <1>2, <1>4 DEF Calls, Ops, CallFits
<1>6. Knows(x)' /\ Creates(x)'
  BY <1>5 DEF Knows, Creates
<1>7. /\ Change(r, x, c, us) /\ UNCHANGED <<chat, stray, twin>>
      /\ member' = [member EXCEPT ![c] = [u \in Users |->
                     IF u \in us /\ @[u] = "left" THEN "active" ELSE @[u]]]
  BY <1>2, <1>3, <1>4 DEF Reactivate
<1>8. member \in [ChatIds -> [Users -> Memberships]]
  BY DEF ChatsInv, RowsOK
<1>9. OnlyFor(c, us)
  BY <1>7, <1>8 DEF OnlyFor, Memberships
<1>10. \A d \in ChatIds, v \in Users : /\ member'[d][v] = "none" <=> member[d][v] = "none"
                                       /\ member[d][v] = "active" => member'[d][v] = "active"
  BY <1>7, <1>8 DEF Memberships
<1>11. \A d \in ChatIds : Members(d)' = Members(d)
  BY <1>10 DEF Members
<1>12. \A d : d \in ChatIds => Active(d) \subseteq Active(d)'
  BY <1>10 DEF Active
<1>13. RowsOK'
  BY <1>7, <1>9, <1>11 DEF ChatsInv, RowsOK, Live, OnlyFor
<1>14. \A s \in Sockets : \A d \in socket[s].rooms :
           socket[s].user \in Active(d) =>
             \/ socket[s].user \in Active(d)'
             \/ x.op \in {"left", "deleted"} /\ x.chat = d /\ socket[s].user \in x.who
             \/ <<s, d>> \in stray'
  BY <1>12 DEF ChatsInv, SocketsOK, SocketRows
<1>15. stray' \subseteq Sockets \X ChatIds
  BY <1>7 DEF ChatsInv, SocketsOK
<1>16. RowsStay
  BY <1>7, <1>11 DEF RowsStay
<1>17. x.chat = req[r].chat /\ UNCHANGED twin /\ stray \subseteq stray'
  BY <1>2, <1>5, <1>7
<1> QED BY <1>1, <1>5, <1>6, <1>7, <1>9, <1>13, <1>14, <1>15, <1>16, <1>17, ChangeKeeps

LEMMA AddMemberKeeps ==
  ASSUME ChatsInv, NEW r \in Requests, NEW v \in Users, AddMember(r, v) PROVE ChatsInv'
<1>1. /\ req[r] \in Calls /\ CallFits(req[r]) /\ Knows(req[r]) /\ Creates(req[r]) /\ req[r].op = "add"
      /\ req[r].chat \in ChatIds
  BY DEF AddMember, ChatsInv, CallsOK, CallsKnow, CreationsOK, CallFits
<1>2. PICK c \in ChatIds : c = req[r].chat
  BY <1>1
<1>4. PICK x : x = [req[r] EXCEPT !.todo = @ \ {v}, !.who = @ \union {v}]
  OBVIOUS
<1>5. /\ x \in Calls /\ CallFits(x) /\ x.op = "add" /\ x.chat = c
      /\ x.who = req[r].who \union {v} /\ x.stale = req[r].stale
  BY <1>1, <1>2, <1>4 DEF Calls, Ops, CallFits
<1>7. /\ Change(r, x, c, {v}) /\ UNCHANGED <<chat, stray, twin>>
      /\ member' = [member EXCEPT ![c][v] = "active"] /\ Live(c)
  BY <1>2, <1>4 DEF AddMember
<1>8. member \in [ChatIds -> [Users -> Memberships]]
  BY DEF ChatsInv, RowsOK
<1>9. OnlyFor(c, {v})
  BY <1>7, <1>8 DEF OnlyFor, Memberships
<1>10. /\ member'[c][v] = "active"
       /\ \A d \in ChatIds, w \in Users : d # c \/ w # v => member'[d][w] = member[d][w]
  BY <1>7, <1>8
<1>11. \A d \in ChatIds : Members(d) \subseteq Members(d)' /\ (d # c => Members(d)' = Members(d))
  BY <1>10 DEF Members
<1>12. \A d \in ChatIds : Active(d) \subseteq Active(d)'
  BY <1>10 DEF Active
<1>6. Knows(x)' /\ Creates(x)'
  <2>1. v \in Active(c)'
    BY <1>10 DEF Active
  <2> QED BY <1>1, <1>2, <1>5, <1>7, <1>12, <2>1 DEF Knows, Creates
<1>13. RowsOK'
  BY <1>7, <1>9, <1>11 DEF ChatsInv, RowsOK, Live, OnlyFor
<1>14. \A s \in Sockets : \A d \in socket[s].rooms :
           socket[s].user \in Active(d) =>
             \/ socket[s].user \in Active(d)'
             \/ x.op \in {"left", "deleted"} /\ x.chat = d /\ socket[s].user \in x.who
             \/ <<s, d>> \in stray'
  BY <1>12 DEF ChatsInv, SocketsOK, SocketRows
<1>15. stray' \subseteq Sockets \X ChatIds
  BY <1>7 DEF ChatsInv, SocketsOK
<1>16. RowsStay
  BY <1>1, <1>2, <1>7, <1>11 DEF Creates, RowsStay
<1>17. x.chat = req[r].chat /\ UNCHANGED twin /\ stray \subseteq stray' /\ {v} \in SUBSET Users
  BY <1>2, <1>5, <1>7
<1> QED BY <1>1, <1>5, <1>6, <1>7, <1>9, <1>13, <1>14, <1>15, <1>16, <1>17, ChangeKeeps

LEMMA LeaveKeeps ==
  ASSUME ChatsInv, NEW r \in Requests, Leave(r) PROVE ChatsInv'
<1>1. /\ req[r] \in Calls /\ CallFits(req[r]) /\ Creates(req[r]) /\ req[r].op = "leave"
      /\ req[r].chat \in ChatIds /\ req[r].user \in Users /\ req[r].who = {req[r].user}
  BY DEF Leave, ChatsInv, CallsOK, CreationsOK, CallFits
<1>2. PICK c \in ChatIds : c = req[r].chat
  BY <1>1
<1>3. PICK u \in Users : u = req[r].user
  BY <1>1
<1>4. PICK x : x = [req[r] EXCEPT !.op = "left"]
  OBVIOUS
<1>5. x \in Calls /\ CallFits(x) /\ x.op = "left" /\ x.chat = c /\ x.who = {u}
  BY <1>1, <1>2, <1>3, <1>4 DEF Calls, Ops, CallFits
<1>6. Knows(x)' /\ Creates(x)'
  BY <1>5 DEF Knows, Creates
<1>7. /\ Change(r, x, c, {u}) /\ UNCHANGED <<chat, stray, twin>>
      /\ member' = [member EXCEPT ![c][u] = "left"] /\ Live(c)
  BY <1>2, <1>3, <1>4 DEF Leave
<1>8. member \in [ChatIds -> [Users -> Memberships]]
  BY DEF ChatsInv, RowsOK
<1>9. OnlyFor(c, {u})
  BY <1>7, <1>8 DEF OnlyFor, Memberships
<1>10. /\ member'[c][u] = "left"
       /\ \A d \in ChatIds, w \in Users : d # c \/ w # u => member'[d][w] = member[d][w]
  BY <1>7, <1>8
<1>11. \A d \in ChatIds : Members(d)' = Members(d)
  <2>1. u \in Members(c)
    BY <1>1, <1>2, <1>3, <1>7 DEF Creates, Live, GoneChat
  <2> QED BY <2>1, <1>10 DEF Members
<1>13. RowsOK'
  BY <1>7, <1>9, <1>11 DEF ChatsInv, RowsOK, Live, OnlyFor
<1>14. \A s \in Sockets : \A d \in socket[s].rooms :
           socket[s].user \in Active(d) =>
             \/ socket[s].user \in Active(d)'
             \/ x.op \in {"left", "deleted"} /\ x.chat = d /\ socket[s].user \in x.who
             \/ <<s, d>> \in stray'
  BY <1>5, <1>10 DEF ChatsInv, SocketsOK, SocketRows, Active
<1>15. stray' \subseteq Sockets \X ChatIds
  BY <1>7 DEF ChatsInv, SocketsOK
<1>16. RowsStay
  BY <1>7, <1>11 DEF RowsStay
<1>17. x.chat = req[r].chat /\ UNCHANGED twin /\ stray \subseteq stray' /\ {u} \in SUBSET Users
  BY <1>2, <1>5, <1>7
<1> QED BY <1>1, <1>5, <1>6, <1>7, <1>9, <1>13, <1>14, <1>15, <1>16, <1>17, ChangeKeeps

LEMMA DeleteKeeps ==
  ASSUME ChatsInv, NEW r \in Requests, Delete(r) PROVE ChatsInv'
<1>1. /\ req[r] \in Calls /\ CallFits(req[r]) /\ Knows(req[r]) /\ req[r].op = "delete"
      /\ req[r].chat \in ChatIds
  BY DEF Delete, ChatsInv, CallsOK, CallsKnow, CallFits
<1>2. PICK c \in ChatIds : c = req[r].chat
  BY <1>1
<1>3. PICK us \in SUBSET Users : us = Members(c)
  BY DEF Members
<1>4. PICK x : x = [req[r] EXCEPT !.op = "deleted"]
  OBVIOUS
<1>5. x \in Calls /\ CallFits(x) /\ x.op = "deleted" /\ x.chat = c /\ x.who = req[r].who
  BY <1>1, <1>2, <1>4 DEF Calls, Ops, CallFits
<1>6. Knows(x)' /\ Creates(x)'
  BY <1>5 DEF Knows, Creates
<1>7. /\ Change(r, x, c, us) /\ twin' = twin /\ Live(c)
      /\ chat' = [chat EXCEPT ![c] = GoneChat]
      /\ member' = [member EXCEPT ![c] = [u \in Users |-> "none"]]
      /\ stray' = stray \union
           ({s \in Sockets : c \in socket[s].rooms /\ socket[s].user \in req[r].stale} \X {c})
  BY <1>2, <1>3, <1>4 DEF Delete
<1>8. /\ member \in [ChatIds -> [Users -> Memberships]]
      /\ chat \in [ChatIds -> ChatRows \union {NoChat, GoneChat}]
      /\ stray \subseteq Sockets \X ChatIds
  BY DEF ChatsInv, RowsOK, SocketsOK
<1>9. OnlyFor(c, us)
  BY <1>3, <1>7, <1>8 DEF OnlyFor, Memberships, Members
<1>10. /\ chat'[c] = GoneChat /\ \A u \in Users : member'[c][u] = "none"
       /\ \A d \in ChatIds : d # c => member'[d] = member[d] /\ chat'[d] = chat[d]
  BY <1>7, <1>8
<1>11. Members(c)' = {} /\ \A d \in ChatIds : d # c => Members(d)' = Members(d)
  BY <1>10 DEF Members
<1>12. chat' \in [ChatIds -> ChatRows \union {NoChat, GoneChat}]
  BY <1>7, <1>8
<1>13. RowsOK'
  <2>1. ASSUME NEW d \in ChatIds PROVE (IF Live(d) THEN Members(d) # {} ELSE Members(d) = {})'
    <3>1. CASE d = c
      BY <3>1, <1>10, <1>11 DEF Live, GoneChat
    <3>2. CASE d # c
      BY <3>2, <1>10, <1>11 DEF ChatsInv, RowsOK, Live
    <3> QED BY <3>1, <3>2
  <2> QED BY <2>1, <1>9, <1>12 DEF RowsOK, OnlyFor
<1>14. ASSUME NEW s \in Sockets, NEW d \in socket[s].rooms, socket[s].user \in Active(d)
       PROVE \/ socket[s].user \in Active(d)'
             \/ x.op \in {"left", "deleted"} /\ x.chat = d /\ socket[s].user \in x.who
             \/ <<s, d>> \in stray'
  <2>1. d \in ChatIds
    BY DEF ChatsInv, SocketsOK, SocketRows
  <2>2. CASE d = c
    <3>1. socket[s].user \in req[r].who \union req[r].stale
      BY <1>1, <1>2, <1>14, <2>2 DEF Knows
    <3> QED BY <3>1, <2>2, <1>5, <1>7
  <2>3. CASE d # c
    BY <2>1, <2>3, <1>10, <1>14 DEF Active
  <2> QED BY <2>2, <2>3
<1>15. stray' \subseteq Sockets \X ChatIds
  BY <1>7, <1>8
<1>16. RowsStay
  BY <1>7, <1>10, <1>11 DEF Live, GoneChat, NoChat, RowsStay
<1>17. x.chat = req[r].chat /\ UNCHANGED twin /\ stray \subseteq stray'
  BY <1>2, <1>5, <1>7
<1> QED BY <1>1, <1>5, <1>6, <1>7, <1>9, <1>13, <1>14, <1>15, <1>16, <1>17, ChangeKeeps

LEMMA CreateKeeps ==
  ASSUME ChatsInv, NEW r \in Requests, Create(r) PROVE ChatsInv'
<1>1. /\ req[r] \in Calls /\ CallFits(req[r]) /\ Creates(req[r]) /\ req[r].op = "create"
      /\ req[r].chat \in ChatIds /\ req[r].who \in SUBSET Users /\ req[r].user \in Users
  BY DEF Create, ChatsInv, CallsOK, CreationsOK, CallFits, Calls
<1>2. PICK c \in ChatIds : c = req[r].chat
  BY <1>1
<1>3. PICK us \in SUBSET Users : us = req[r].who
  BY <1>1
<1>4. PICK x : x = [req[r] EXCEPT !.op = "enter", !.stale = {}]
  OBVIOUS
<1>5. x \in Calls /\ CallFits(x) /\ x.op = "enter" /\ x.chat = c /\ x.who = us
  BY <1>1, <1>2, <1>3, <1>4 DEF Calls, Ops, CallFits
<1>6. PICK row \in ChatRows : row = [type |-> req[r].type, creator |-> req[r].user]
  BY <1>1 DEF ChatRows, Creates
<1>7. /\ Change(r, x, c, us) /\ UNCHANGED <<stray, twin>>
      /\ chat' = [chat EXCEPT ![c] = row]
      /\ member' = [member EXCEPT ![c] = [u \in Users |-> IF u \in us THEN "active" ELSE "none"]]
  BY <1>2, <1>3, <1>4, <1>6 DEF Create
<1>8. /\ member \in [ChatIds -> [Users -> Memberships]]
      /\ chat \in [ChatIds -> ChatRows \union {NoChat, GoneChat}]
  BY DEF ChatsInv, RowsOK
<1>9. chat[c] = NoChat /\ Members(c) = {} /\ row.type \in {"DIRECT", "GROUP"} /\ us # {}
  BY <1>1, <1>2, <1>3, <1>6 DEF ChatsInv, RowsOK, Live, NoChat, Creates
<1>10. /\ chat'[c] = row /\ \A u \in Users : member'[c][u] = IF u \in us THEN "active" ELSE "none"
       /\ \A d \in ChatIds : d # c => member'[d] = member[d] /\ chat'[d] = chat[d]
  BY <1>7, <1>8
<1>11. OnlyFor(c, us)
  BY <1>7, <1>8, <1>9 DEF OnlyFor, Memberships, Members
<1>12. /\ Members(c)' = us /\ Active(c)' = us
       /\ \A d \in ChatIds : d # c => Members(d)' = Members(d) /\ Active(d)' = Active(d)
  BY <1>10 DEF Members, Active
<1>13. RowsOK'
  <2>1. ASSUME NEW d \in ChatIds PROVE (IF Live(d) THEN Members(d) # {} ELSE Members(d) = {})'
    <3>1. CASE d = c
      BY <3>1, <1>9, <1>10, <1>12 DEF Live
    <3>2. CASE d # c
      BY <3>2, <1>10, <1>12 DEF ChatsInv, RowsOK, Live
    <3> QED BY <3>1, <3>2
  <2>2. chat' \in [ChatIds -> ChatRows \union {NoChat, GoneChat}]
    BY <1>7, <1>8
  <2> QED BY <2>1, <2>2, <1>11 DEF RowsOK, OnlyFor
<1>14. Knows(x)'
  BY <1>5, <1>12 DEF Knows
<1>15. CallsOK' /\ CallsKnow' /\ SocketsKnow'
  BY <1>5, <1>7, <1>11, <1>14, ChangeKnows
<1>16. /\ req' \in [Requests -> Calls] /\ req'[r] = x
       /\ \A q \in Requests : q # r =>
            SameCall(req[q], req'[q]) /\ (req[q].chat = c => us \subseteq req'[q].stale)
       /\ socket' \in [Sockets -> SocketRows]
  BY <1>5, <1>7, ChangeFacts
<1>17. SocketsOK'
  BY <1>7, <1>16 DEF ChatsInv, SocketsOK
<1>18. RoomsAreOfMembers'
  <2>1. \A s \in Sockets : \A d \in socket[s].rooms :
           socket[s].user \in Active(d) =>
             \/ socket[s].user \in Active(d)'
             \/ x.op \in {"left", "deleted"} /\ x.chat = d /\ socket[s].user \in x.who
             \/ <<s, d>> \in stray'
    <3>1. Active(c) = {}
      BY <1>9 DEF Active, Members
    <3> QED BY <3>1, <1>12 DEF ChatsInv, SocketsOK, SocketRows
  <2> QED BY <2>1, <1>1, <1>5, <1>7, ChangeRooms
<1>19. ASSUME NEW q \in Requests, q # r
       PROVE  /\ req[q].chat # c
              /\ req[q].op # "idle" => req[q].chat \in ChatIds
              /\ req[q].op = "create" /\ req[q].who = us => us \in twin
  BY <1>1, <1>2, <1>3, <1>19 DEF ChatsInv, CreationsOK, Apart, CallsOK, CallFits
<1>20. row.type = "DIRECT" => Cardinality(us) = 2 /\ (us \in twin \/ DirectChats(us) = {})
  BY <1>1, <1>3, <1>6 DEF Creates
<1>21. ASSUME NEW w \in SUBSET Users, Cardinality(w) = 2, w \subseteq us, row.type = "DIRECT"
       PROVE  w = us
  <2>1. IsFiniteSet(us)
    BY ChatsAssumption, FS_Subset
  <2> QED BY <1>20, <1>21, <2>1, FS_Subset
<1>22. CreationsOK'
  <2>1. ASSUME NEW q \in Requests PROVE Creates(req[q])'
    <3>1. CASE q = r
      BY <3>1, <1>5, <1>16 DEF Creates
    <3>2. CASE q # r
      <4>1. /\ CallFits(req[q]) /\ Creates(req[q]) /\ SameCall(req[q], req'[q])
            /\ req[q].who \in SUBSET Users
        BY <3>2, <1>16 DEF ChatsInv, CallsOK, CreationsOK, Calls
      <4>2. CASE req[q].op = "create"
        <5>1. /\ chat[req[q].chat] = NoChat /\ req[q].user \in req[q].who
              /\ req[q].type \in {"DIRECT", "GROUP"}
              /\ req[q].type = "DIRECT" => /\ Cardinality(req[q].who) = 2
                                           /\ req[q].who \in twin \/ DirectChats(req[q].who) = {}
          BY <4>1, <4>2 DEF Creates
        <5>2. chat'[req[q].chat] = NoChat
          BY <5>1, <4>2, <3>2, <1>10, <1>19
        <5>3. ASSUME req[q].type = "DIRECT"
              PROVE  \/ req[q].who \in twin
                     \/ {d \in ChatIds : chat'[d].type = "DIRECT" /\ req[q].who \subseteq Members(d)'} = {}
          <6>1. CASE row.type = "DIRECT" /\ req[q].who \subseteq us
            BY <6>1, <5>1, <5>3, <4>1, <4>2, <3>2, <1>19, <1>21
          <6>2. CASE ~(row.type = "DIRECT" /\ req[q].who \subseteq us)
            <7>1. ASSUME NEW d \in ChatIds, chat'[d].type = "DIRECT", req[q].who \subseteq Members(d)'
                  PROVE  d \in DirectChats(req[q].who)
              BY <7>1, <6>2, <1>10, <1>12 DEF DirectChats
            <7> QED BY <7>1, <5>1, <5>3
          <6> QED BY <6>1, <6>2
        <5> QED BY <5>1, <5>2, <5>3, <4>1, <4>2, <1>7 DEF Creates, SameCall, DirectChats
      <4>3. CASE req[q].op # "create"
        <5>1. ASSUME req[q].op # "idle"
              PROVE  /\ chat'[req[q].chat] = chat[req[q].chat]
                     /\ {u \in Users : member'[req[q].chat][u] # "none"} = Members(req[q].chat)
          <6>1. ASSUME req[q].op # "idle", NEW d \in ChatIds, d = req[q].chat
                PROVE  chat'[d] = chat[d] /\ member'[d] = member[d]
            BY <6>1, <3>2, <1>10, <1>19
          <6> QED BY <5>1, <6>1, <3>2, <1>19 DEF Members
        <5>2. PICK y \in Calls : y = req'[q]
          BY <1>16
        <5>3. Creates(y)'
          BY <4>1, <4>3, <5>1, <5>2 DEF Creates, SameCall, Members
        <5> QED BY <5>2, <5>3 DEF Creates
      <4> QED BY <4>2, <4>3
    <3> QED BY <3>1, <3>2
  <2>2. ASSUME NEW p \in Requests, NEW q \in Requests, p # q PROVE Apart(req[p], req[q])'
    <3>1. Apart(req[p], req[q])
      BY <2>2 DEF ChatsInv, CreationsOK
    <3> QED BY <3>1, <1>2, <1>5, <1>7, <1>16, <2>2 DEF Apart, SameCall
  <2> QED BY <2>1, <2>2, <1>7 DEF ChatsInv, CreationsOK
<1>23. DirectChatIsOne'
  <2>1. ASSUME NEW d \in ChatIds, NEW e \in ChatIds, chat'[d].type = "DIRECT",
               chat'[e].type = "DIRECT", d # e, Members(d)' = Members(e)'
        PROVE  Members(d)' \in twin
    <3>1. CASE d = c
      <4>1. e # c /\ chat[e].type = "DIRECT" /\ Members(e) = us /\ row.type = "DIRECT" /\ Members(d)' = us
        BY <3>1, <2>1, <1>10, <1>12
      <4> QED BY <4>1, <1>20 DEF DirectChats
    <3>2. CASE e = c
      <4>1. d # c /\ chat[d].type = "DIRECT" /\ Members(d) = us /\ row.type = "DIRECT" /\ Members(d)' = us
        BY <3>2, <2>1, <1>10, <1>12
      <4> QED BY <4>1, <1>20 DEF DirectChats
    <3>3. CASE d # c /\ e # c
      BY <3>3, <2>1, <1>10, <1>12 DEF ChatsInv, DirectChatIsOne
    <3> QED BY <3>1, <3>2, <3>3
  <2> QED BY <2>1, <1>7 DEF DirectChatIsOne
<1> QED BY <1>13, <1>15, <1>17, <1>18, <1>22, <1>23 DEF ChatsInv

-----------------------------------------------------------------------------
\* A step of the rooms: handlers end, and who is let in is a member.
LEMMA RoomsKeep ==
  ASSUME ChatsInv, UNCHANGED <<chat, member, twin>>, SocketsOK',
         req' \in [Requests -> Calls],
         \A q \in Requests : req'[q] = req[q] \/ req'[q] = Idle,
         \A s \in Sockets : socket'[s].asked =>
           \A d \in socket'[s].found : socket'[s].user \in Active(d) \/ d \in socket'[s].stale,
         \A q \in Requests : req'[q].op = "join" => socket'[req'[q].socket].user = req'[q].user,
         \A s \in Sockets : \A d \in socket'[s].rooms :
           \/ socket'[s].user \in Active(d) \/ <<s, d>> \in stray'
           \/ /\ d \in socket[s].rooms /\ socket'[s].user = socket[s].user /\ <<s, d>> \notin stray
              /\ \A q \in Requests : req[q].op \in {"left", "deleted"} /\ req[q].chat = d
                                     /\ socket[s].user \in req[q].who => req'[q] = req[q]
  PROVE  ChatsInv'
<1>1. RowsOK' /\ DirectChatIsOne'
  BY DEF ChatsInv, RowsOK, DirectChatIsOne, Live, Members
<1>2. CallsOK'
  BY IdleCall DEF ChatsInv, CallsOK, CallFits
<1>3. CallsKnow'
  <2>1. ASSUME NEW q \in Requests PROVE Knows(req[q])'
    BY IdleCall DEF ChatsInv, CallsKnow, Knows, Active
  <2> QED BY <2>1 DEF CallsKnow
<1>4. SocketsKnow'
  BY DEF SocketsKnow, Active
<1>5. CreationsOK'
  <2>1. ASSUME NEW q \in Requests PROVE Creates(req[q])'
    BY IdleCall DEF ChatsInv, CreationsOK, Creates, DirectChats, Members
  <2>2. ASSUME NEW p \in Requests, NEW q \in Requests, p # q PROVE Apart(req[p], req[q])'
    <3>1. Apart(req[p], req[q]) /\ CallFits(req[p])
      BY <2>2 DEF ChatsInv, CreationsOK, CallsOK
    <3>2. CASE req'[p] = Idle
      BY <3>2 DEF Apart, Idle
    <3>3. CASE req'[p] = req[p] /\ req'[q] = Idle
      BY <3>1, <3>3, ChatsAssumption DEF Apart, Idle, CallFits
    <3>4. CASE req'[p] = req[p] /\ req'[q] = req[q]
      BY <3>1, <3>4 DEF Apart
    <3> QED BY <3>2, <3>3, <3>4
  <2> QED BY <2>1, <2>2 DEF ChatsInv, CreationsOK
<1>6. RoomsAreOfMembers'
  <2>1. ASSUME NEW s \in Sockets, NEW d \in socket'[s].rooms
        PROVE  \/ socket'[s].user \in Active(d)
               \/ \E q \in Requests : /\ req'[q].op \in {"left", "deleted"} /\ req'[q].chat = d
                                      /\ socket'[s].user \in req'[q].who
               \/ <<s, d>> \in stray'
    <3>1. CASE /\ d \in socket[s].rooms /\ socket'[s].user = socket[s].user /\ <<s, d>> \notin stray
               /\ \A q \in Requests : req[q].op \in {"left", "deleted"} /\ req[q].chat = d
                                      /\ socket[s].user \in req[q].who => req'[q] = req[q]
      BY <3>1 DEF ChatsInv, RoomsAreOfMembers
    <3> QED BY <3>1
  <2> QED BY <2>1 DEF RoomsAreOfMembers, Active
<1> QED BY <1>1, <1>2, <1>3, <1>4, <1>5, <1>6 DEF ChatsInv

\* A handler that ends with a step of the rooms of these sockets.
LEMMA EndsHandler ==
  ASSUME ChatsInv, NEW r \in Requests, req' = [req EXCEPT ![r] = Idle]
  PROVE  /\ req' \in [Requests -> Calls] /\ req'[r] = Idle
         /\ \A q \in Requests : q # r => req'[q] = req[q]
  BY IdleCall DEF ChatsInv, CallsOK

LEMMA EnterKeeps ==
  ASSUME ChatsInv, NEW r \in Requests, Enter(r) PROVE ChatsInv'
<1>1. /\ req[r] \in Calls /\ req[r].op = "enter" /\ req[r].chat \in ChatIds
      /\ req[r].who \subseteq Active(req[r].chat) \union req[r].stale
  BY DEF Enter, ChatsInv, CallsOK, CallsKnow, CallFits, Knows
<1>2. PICK c \in ChatIds : c = req[r].chat
  BY <1>1
<1>3. socket \in [Sockets -> SocketRows] /\ stray \subseteq Sockets \X ChatIds
  BY DEF ChatsInv, SocketsOK
<1>4. /\ UNCHANGED <<chat, member, twin>> /\ req' = [req EXCEPT ![r] = Idle]
      /\ socket' = [s \in Sockets |-> IF s \in {t \in Sockets : socket[t].user \in req[r].who}
                     THEN [socket[s] EXCEPT !.rooms = @ \union {c}] ELSE socket[s]]
      /\ stray' = stray \union {<<s, c>> : s \in
           {t \in {w \in Sockets : socket[w].user \in req[r].who} : socket[t].user \in req[r].stale}}
  BY <1>2 DEF Enter
<1>5. ASSUME NEW s \in Sockets
      PROVE  /\ socket'[s] \in SocketRows /\ socket'[s].user = socket[s].user
             /\ socket'[s].asked = socket[s].asked /\ socket'[s].found = socket[s].found
             /\ socket'[s].stale = socket[s].stale
             /\ socket'[s].rooms = IF socket[s].user \in req[r].who
                                   THEN socket[s].rooms \union {c} ELSE socket[s].rooms
  <2>1. [socket[s] EXCEPT !.rooms = @ \union {c}] \in SocketRows /\ socket[s] \in SocketRows
    BY <1>3 DEF SocketRows
  <2>2. CASE socket[s].user \in req[r].who
    <3>1. socket'[s] = [socket[s] EXCEPT !.rooms = @ \union {c}]
      BY <1>4, <2>2
    <3> QED BY <2>1, <2>2, <3>1 DEF SocketRows
  <2>3. CASE socket[s].user \notin req[r].who
    <3>1. socket'[s] = socket[s]
      BY <1>4, <2>3
    <3> QED BY <2>1, <2>3, <3>1
  <2> QED BY <2>2, <2>3
<1>6. SocketsOK'
  <2>1. socket' \in [Sockets -> SocketRows]
    BY <1>4, <1>5
  <2>2. stray' \subseteq Sockets \X ChatIds
    BY <1>3, <1>4
  <2> QED BY <2>1, <2>2 DEF SocketsOK
<1>7. /\ req' \in [Requests -> Calls] /\ req'[r] = Idle
      /\ \A q \in Requests : q # r => req'[q] = req[q]
  BY <1>4, EndsHandler
<1>8. \A s \in Sockets : socket'[s].asked =>
        \A d \in socket'[s].found : socket'[s].user \in Active(d) \/ d \in socket'[s].stale
  BY <1>5 DEF ChatsInv, SocketsKnow
<1>9. \A q \in Requests : req'[q].op = "join" => socket'[req'[q].socket].user = req'[q].user
  <2>1. ASSUME NEW q \in Requests, req'[q].op = "join"
        PROVE  socket'[req'[q].socket].user = req'[q].user
    <3>1. req'[q] = req[q] /\ req[q].socket \in Sockets
      BY <2>1, <1>7 DEF Idle, ChatsInv, CallsOK, CallFits
    <3>2. socket[req[q].socket].user = req[q].user
      BY <2>1, <3>1 DEF ChatsInv, SocketsKnow
    <3>3. socket'[req[q].socket].user = socket[req[q].socket].user
      BY <3>1, <1>5
    <3> QED BY <3>1, <3>2, <3>3
  <2> QED BY <2>1
<1>10. ASSUME NEW s \in Sockets, NEW d \in socket'[s].rooms
       PROVE  \/ socket'[s].user \in Active(d) \/ <<s, d>> \in stray'
              \/ /\ d \in socket[s].rooms /\ socket'[s].user = socket[s].user /\ <<s, d>> \notin stray
                 /\ \A q \in Requests : req[q].op \in {"left", "deleted"} /\ req[q].chat = d
                                        /\ socket[s].user \in req[q].who => req'[q] = req[q]
  <2>1. CASE d \in socket[s].rooms
    BY <2>1, <1>1, <1>4, <1>5, <1>7
  <2>2. CASE d \notin socket[s].rooms
    <3>1. d = c /\ socket[s].user \in req[r].who /\ socket'[s].user = socket[s].user
      BY <2>2, <1>5, <1>10
    <3>2. socket[s].user \in Active(c) \/ socket[s].user \in req[r].stale
      BY <3>1, <1>1, <1>2
    <3> QED BY <3>1, <3>2, <1>4
  <2> QED BY <2>1, <2>2
<1>11. \A q \in Requests : req'[q] = req[q] \/ req'[q] = Idle
  BY <1>7
<1> QED BY <1>4, <1>6, <1>7, <1>8, <1>9, <1>10, <1>11, RoomsKeep

LEMMA JoinKeeps ==
  ASSUME ChatsInv, NEW r \in Requests, Join(r) PROVE ChatsInv'
<1>1. /\ req[r] \in Calls /\ req[r].op = "join" /\ req[r].chat \in ChatIds /\ req[r].socket \in Sockets
      /\ req[r].user \in Active(req[r].chat) \union req[r].stale
      /\ socket[req[r].socket].user = req[r].user
  BY DEF Join, ChatsInv, CallsOK, CallsKnow, SocketsKnow, CallFits, Knows
<1>2. PICK c \in ChatIds : c = req[r].chat
  BY <1>1
<1>12. PICK t \in Sockets : t = req[r].socket
  BY <1>1
<1>3. socket \in [Sockets -> SocketRows] /\ stray \subseteq Sockets \X ChatIds
  BY DEF ChatsInv, SocketsOK
<1>4. /\ UNCHANGED <<chat, member, twin>> /\ req' = [req EXCEPT ![r] = Idle]
      /\ socket' = [socket EXCEPT ![t].rooms = @ \union {c}]
      /\ stray' = IF req[r].user \in req[r].stale THEN stray \union {<<t, c>>} ELSE stray
  BY <1>2, <1>12 DEF Join, LetIn
<1>5. ASSUME NEW s \in Sockets
      PROVE  /\ socket'[s] \in SocketRows /\ socket'[s].user = socket[s].user
             /\ socket'[s].asked = socket[s].asked /\ socket'[s].found = socket[s].found
             /\ socket'[s].stale = socket[s].stale
             /\ socket'[s].rooms = IF s = t THEN socket[s].rooms \union {c} ELSE socket[s].rooms
  <2>1. [socket[s] EXCEPT !.rooms = @ \union {c}] \in SocketRows /\ socket[s] \in SocketRows
    BY <1>3 DEF SocketRows
  <2>2. CASE s = t
    <3>1. socket'[s] = [socket[s] EXCEPT !.rooms = @ \union {c}]
      BY <1>3, <1>4, <2>2
    <3> QED BY <2>1, <2>2, <3>1 DEF SocketRows
  <2>3. CASE s # t
    <3>1. socket'[s] = socket[s]
      BY <1>3, <1>4, <2>3
    <3> QED BY <2>1, <2>3, <3>1
  <2> QED BY <2>2, <2>3
<1>6. SocketsOK'
  <2>1. socket' \in [Sockets -> SocketRows]
    BY <1>3, <1>4, <1>5
  <2>2. stray' \subseteq Sockets \X ChatIds
    BY <1>3, <1>4
  <2> QED BY <2>1, <2>2 DEF SocketsOK
<1>7. /\ req' \in [Requests -> Calls] /\ req'[r] = Idle
      /\ \A q \in Requests : q # r => req'[q] = req[q]
  BY <1>4, EndsHandler
<1>8. \A s \in Sockets : socket'[s].asked =>
        \A d \in socket'[s].found : socket'[s].user \in Active(d) \/ d \in socket'[s].stale
  BY <1>5 DEF ChatsInv, SocketsKnow
<1>9. \A q \in Requests : req'[q].op = "join" => socket'[req'[q].socket].user = req'[q].user
  <2>1. ASSUME NEW q \in Requests, req'[q].op = "join"
        PROVE  socket'[req'[q].socket].user = req'[q].user
    <3>1. req'[q] = req[q] /\ req[q].socket \in Sockets
      BY <2>1, <1>7 DEF Idle, ChatsInv, CallsOK, CallFits
    <3>2. socket[req[q].socket].user = req[q].user
      BY <2>1, <3>1 DEF ChatsInv, SocketsKnow
    <3>3. socket'[req[q].socket].user = socket[req[q].socket].user
      BY <3>1, <1>5
    <3> QED BY <3>1, <3>2, <3>3
  <2> QED BY <2>1
<1>10. ASSUME NEW s \in Sockets, NEW d \in socket'[s].rooms
       PROVE  \/ socket'[s].user \in Active(d) \/ <<s, d>> \in stray'
              \/ /\ d \in socket[s].rooms /\ socket'[s].user = socket[s].user /\ <<s, d>> \notin stray
                 /\ \A q \in Requests : req[q].op \in {"left", "deleted"} /\ req[q].chat = d
                                        /\ socket[s].user \in req[q].who => req'[q] = req[q]
  <2>1. CASE d \in socket[s].rooms
    BY <2>1, <1>1, <1>4, <1>5, <1>7
  <2>2. CASE d \notin socket[s].rooms
    <3>1. d = c /\ s = t /\ socket'[s].user = req[r].user
      <4>1. socket'[s].rooms = IF s = t THEN socket[s].rooms \union {c} ELSE socket[s].rooms
        BY <1>5
      <4>2. s = t /\ d = c
        BY <4>1, <2>2, <1>10
      <4>3. socket'[s].user = socket[t].user
        BY <4>2, <1>5
      <4> QED BY <4>2, <4>3, <1>1, <1>12
    <3> QED BY <3>1, <1>1, <1>2, <1>4
  <2> QED BY <2>1, <2>2
<1>11. \A q \in Requests : req'[q] = req[q] \/ req'[q] = Idle
  BY <1>7
<1> QED BY <1>4, <1>6, <1>7, <1>8, <1>9, <1>10, <1>11, RoomsKeep

\* Both ways to put members out of a room.
LEMMA PutOutKeeps ==
  ASSUME ChatsInv, NEW r \in Requests, req[r].op \in {"left", "deleted"},
         NEW c \in ChatIds, c = req[r].chat, NEW us, req[r].who = us, PutOut(us, c),
         req' = [req EXCEPT ![r] = Idle], UNCHANGED <<chat, member, twin>>
  PROVE  ChatsInv'
<1>3. socket \in [Sockets -> SocketRows] /\ stray \subseteq Sockets \X ChatIds
  BY DEF ChatsInv, SocketsOK
<1>4. /\ socket' = [s \in Sockets |-> IF socket[s].user \in us
                     THEN [socket[s] EXCEPT !.rooms = @ \ {c}] ELSE socket[s]]
      /\ stray' = {p \in stray : ~(socket[p[1]].user \in us /\ p[2] = c)}
  BY DEF PutOut
<1>5. ASSUME NEW s \in Sockets
      PROVE  /\ socket'[s] \in SocketRows /\ socket'[s].user = socket[s].user
             /\ socket'[s].asked = socket[s].asked /\ socket'[s].found = socket[s].found
             /\ socket'[s].stale = socket[s].stale
             /\ socket'[s].rooms = IF socket[s].user \in us THEN socket[s].rooms \ {c} ELSE socket[s].rooms
  <2>1. [socket[s] EXCEPT !.rooms = @ \ {c}] \in SocketRows /\ socket[s] \in SocketRows
    BY <1>3 DEF SocketRows
  <2>2. CASE socket[s].user \in us
    <3>1. socket'[s] = [socket[s] EXCEPT !.rooms = @ \ {c}]
      BY <1>4, <2>2
    <3> QED BY <2>1, <2>2, <3>1 DEF SocketRows
  <2>3. CASE socket[s].user \notin us
    <3>1. socket'[s] = socket[s]
      BY <1>4, <2>3
    <3> QED BY <2>1, <2>3, <3>1
  <2> QED BY <2>2, <2>3
<1>6. SocketsOK'
  <2>1. socket' \in [Sockets -> SocketRows]
    BY <1>4, <1>5
  <2> QED BY <2>1, <1>3, <1>4 DEF SocketsOK
<1>7. /\ req' \in [Requests -> Calls] /\ req'[r] = Idle
      /\ \A q \in Requests : q # r => req'[q] = req[q]
  BY EndsHandler
<1>8. \A s \in Sockets : socket'[s].asked =>
        \A d \in socket'[s].found : socket'[s].user \in Active(d) \/ d \in socket'[s].stale
  BY <1>5 DEF ChatsInv, SocketsKnow
<1>9. \A q \in Requests : req'[q].op = "join" => socket'[req'[q].socket].user = req'[q].user
  <2>1. ASSUME NEW q \in Requests, req'[q].op = "join"
        PROVE  socket'[req'[q].socket].user = req'[q].user
    <3>1. req'[q] = req[q] /\ req[q].socket \in Sockets
      BY <2>1, <1>7 DEF Idle, ChatsInv, CallsOK, CallFits
    <3>2. socket[req[q].socket].user = req[q].user
      BY <2>1, <3>1 DEF ChatsInv, SocketsKnow
    <3>3. socket'[req[q].socket].user = socket[req[q].socket].user
      BY <3>1, <1>5
    <3> QED BY <3>1, <3>2, <3>3
  <2> QED BY <2>1
<1>10. ASSUME NEW s \in Sockets, NEW d \in socket'[s].rooms
       PROVE  \/ socket'[s].user \in Active(d) \/ <<s, d>> \in stray'
              \/ /\ d \in socket[s].rooms /\ socket'[s].user = socket[s].user /\ <<s, d>> \notin stray
                 /\ \A q \in Requests : req[q].op \in {"left", "deleted"} /\ req[q].chat = d
                                        /\ socket[s].user \in req[q].who => req'[q] = req[q]
  <2>1. d \in socket[s].rooms /\ socket'[s].user = socket[s].user /\ ~(socket[s].user \in us /\ d = c)
    BY <1>5, <1>10
  <2>2. <<s, d>> \in stray => <<s, d>> \in stray'
    BY <2>1, <1>4
  <2> QED BY <2>1, <2>2, <1>7
<1>11. \A q \in Requests : req'[q] = req[q] \/ req'[q] = Idle
  BY <1>7
<1> QED BY <1>6, <1>7, <1>8, <1>9, <1>10, <1>11, RoomsKeep

LEMMA NotifyKeeps ==
  ASSUME ChatsInv, NEW r \in Requests, NotifyLeft(r) \/ NotifyDeleted(r) PROVE ChatsInv'
<1>1. CallFits(req[r]) /\ req[r].op \in {"left", "deleted"}
  BY DEF NotifyLeft, NotifyDeleted, ChatsInv, CallsOK
<1>2. PICK c \in ChatIds : c = req[r].chat
  BY <1>1 DEF CallFits
<1>3. PICK us : us = req[r].who
  OBVIOUS
<1>4. PutOut(us, c) /\ req' = [req EXCEPT ![r] = Idle] /\ UNCHANGED <<chat, member, twin>>
  BY <1>1, <1>2, <1>3 DEF NotifyLeft, NotifyDeleted, CallFits
<1> QED BY <1>1, <1>2, <1>3, <1>4, PutOutKeeps

\* One socket changes to y.
LEMMA OneSocket ==
  ASSUME ChatsInv, NEW t \in Sockets, NEW y \in SocketRows, socket' = [socket EXCEPT ![t] = y],
         UNCHANGED <<chat, member, req, twin>>, stray' \subseteq Sockets \X ChatIds,
         y.user = socket[t].user \/ socket[t] = Off,
         y.asked => \A d \in y.found : y.user \in Active(d) \/ d \in y.stale,
         \A d \in y.rooms :
           \/ y.user \in Active(d) \/ <<t, d>> \in stray'
           \/ d \in socket[t].rooms /\ y.user = socket[t].user /\ <<t, d>> \notin stray,
         \A s \in Sockets, d \in ChatIds : s # t /\ <<s, d>> \in stray => <<s, d>> \in stray'
  PROVE  ChatsInv'
<1>1. socket \in [Sockets -> SocketRows] /\ req \in [Requests -> Calls]
  BY DEF ChatsInv, SocketsOK, CallsOK
<1>2. socket'[t] = y /\ \A s \in Sockets : s # t => socket'[s] = socket[s]
  BY <1>1
<1>3. SocketsOK'
  BY <1>1 DEF SocketsOK
<1>4. \A s \in Sockets : socket'[s].asked =>
        \A d \in socket'[s].found : socket'[s].user \in Active(d) \/ d \in socket'[s].stale
  BY <1>2 DEF ChatsInv, SocketsKnow
<1>5. ASSUME NEW q \in Requests, req'[q].op = "join"
      PROVE  socket'[req'[q].socket].user = req'[q].user
  <2>1. /\ req[q].op = "join" /\ req'[q] = req[q]
        /\ req[q].socket \in Sockets /\ req[q].user \in Users
        /\ socket[req[q].socket].user = req[q].user
    BY <1>5 DEF ChatsInv, SocketsKnow, CallsOK, CallFits
  <2>2. CASE req[q].socket = t
    <3>1. socket[t].user # None
      BY <2>1, <2>2, ChatsAssumption
    <3>2. y.user = socket[t].user
      BY <3>1 DEF Off
    <3> QED BY <3>2, <2>1, <2>2, <1>2
  <2>3. CASE req[q].socket # t
    BY <2>1, <2>3, <1>2
  <2> QED BY <2>2, <2>3
<1>6. ASSUME NEW s \in Sockets, NEW d \in socket'[s].rooms
       PROVE  \/ socket'[s].user \in Active(d) \/ <<s, d>> \in stray'
              \/ /\ d \in socket[s].rooms /\ socket'[s].user = socket[s].user /\ <<s, d>> \notin stray
                 /\ \A q \in Requests : req[q].op \in {"left", "deleted"} /\ req[q].chat = d
                                        /\ socket[s].user \in req[q].who => req'[q] = req[q]
  <2>1. CASE s = t
    BY <2>1, <1>2, <1>6
  <2>2. CASE s # t
    <3>1. socket'[s] = socket[s] /\ d \in ChatIds
      BY <2>2, <1>1, <1>2, <1>6 DEF SocketRows
    <3> QED BY <3>1, <2>2, <1>6
  <2> QED BY <2>1, <2>2
<1> QED BY <1>1, <1>3, <1>4, <1>5, <1>6, RoomsKeep

LEMMA ConnectKeeps ==
  ASSUME ChatsInv, NEW s \in Sockets, NEW u \in Users, Connect(s, u) PROVE ChatsInv'
<1> DEFINE y == [Off EXCEPT !.user = u, !.connecting = TRUE]
<1>1. y \in SocketRows /\ ~y.asked /\ y.rooms = {}
  BY DEF SocketRows, Off
<1>2. socket' = [socket EXCEPT ![s] = y] /\ socket[s] = Off /\ UNCHANGED <<chat, member, req, twin, stray>>
  BY DEF Connect
<1> HIDE DEF y
<1>3. stray' \subseteq Sockets \X ChatIds
  BY <1>2 DEF ChatsInv, SocketsOK
<1> QED BY <1>1, <1>2, <1>3, OneSocket

LEMMA FindChatsKeeps ==
  ASSUME ChatsInv, NEW s \in Sockets, FindChats(s) PROVE ChatsInv'
<1>1. socket[s] \in SocketRows /\ stray \subseteq Sockets \X ChatIds
  BY DEF ChatsInv, SocketsOK
<1>2. PICK y : y = [socket[s] EXCEPT !.asked = TRUE,
                      !.found = {c \in ChatIds : socket[s].user \in Active(c)}]
  OBVIOUS
<1>3. /\ y \in SocketRows /\ y.user = socket[s].user /\ y.rooms = socket[s].rooms
      /\ y.found = {c \in ChatIds : socket[s].user \in Active(c)}
  BY <1>1, <1>2 DEF SocketRows
<1>4. socket' = [socket EXCEPT ![s] = y] /\ UNCHANGED <<chat, member, req, twin, stray>>
  <2>1. socket \in [Sockets -> SocketRows]
    BY DEF ChatsInv, SocketsOK
  <2> QED BY <1>2, <2>1 DEF FindChats
<1>5. \A d \in y.found : y.user \in Active(d) \/ d \in y.stale
  BY <1>3
<1>6. \A d \in y.rooms :
        \/ y.user \in Active(d) \/ <<s, d>> \in stray'
        \/ d \in socket[s].rooms /\ y.user = socket[s].user /\ <<s, d>> \notin stray
  BY <1>3, <1>4
<1> QED BY <1>1, <1>3, <1>4, <1>5, <1>6, OneSocket

LEMMA JoinFoundKeeps ==
  ASSUME ChatsInv, NEW s \in Sockets, JoinFound(s) PROVE ChatsInv'
<1>1. socket[s] \in SocketRows /\ stray \subseteq Sockets \X ChatIds /\ socket[s].asked
  BY DEF ChatsInv, SocketsOK, JoinFound
<1>2. PICK y : y = [Off EXCEPT !.user = socket[s].user,
                              !.rooms = socket[s].rooms \union socket[s].found]
  OBVIOUS
<1>3. /\ y \in SocketRows /\ y.user = socket[s].user /\ ~y.asked
      /\ y.rooms = socket[s].rooms \union socket[s].found
  BY <1>1, <1>2 DEF SocketRows, Off
<1>4. /\ socket' = [socket EXCEPT ![s] = y] /\ UNCHANGED <<chat, member, req, twin>>
      /\ stray' = stray \union ({s} \X (socket[s].found \intersect socket[s].stale))
  BY <1>2 DEF JoinFound
<1>5. stray' \subseteq Sockets \X ChatIds /\ stray \subseteq stray'
  BY <1>1, <1>4 DEF SocketRows
<1>6. \A d \in y.rooms :
        \/ y.user \in Active(d) \/ <<s, d>> \in stray'
        \/ d \in socket[s].rooms /\ y.user = socket[s].user /\ <<s, d>> \notin stray
  <2>1. \A d \in socket[s].found : socket[s].user \in Active(d) \/ d \in socket[s].stale
    BY <1>1 DEF ChatsInv, SocketsKnow
  <2> QED BY <1>3, <1>4, <2>1
<1> QED BY <1>3, <1>4, <1>5, <1>6, OneSocket

LEMMA LeaveRoomKeeps ==
  ASSUME ChatsInv, NEW s \in Sockets, NEW c \in ChatIds, LeaveRoom(s, c) PROVE ChatsInv'
<1>1. socket[s] \in SocketRows /\ stray \subseteq Sockets \X ChatIds
  BY DEF ChatsInv, SocketsOK
<1>2. PICK y : y = [socket[s] EXCEPT !.rooms = @ \ {c}]
  OBVIOUS
<1>3. /\ y \in SocketRows /\ y.user = socket[s].user /\ y.rooms = socket[s].rooms \ {c}
      /\ y.asked = socket[s].asked /\ y.found = socket[s].found /\ y.stale = socket[s].stale
  BY <1>1, <1>2 DEF SocketRows
<1>4. /\ socket' = [socket EXCEPT ![s] = y] /\ UNCHANGED <<chat, member, req, twin>>
      /\ stray' = stray \ {<<s, c>>}
  <2>1. socket \in [Sockets -> SocketRows]
    BY DEF ChatsInv, SocketsOK
  <2> QED BY <1>2, <2>1 DEF LeaveRoom
<1>5. y.asked => \A d \in y.found : y.user \in Active(d) \/ d \in y.stale
  BY <1>3 DEF ChatsInv, SocketsKnow
<1>6. \A d \in y.rooms :
        \/ y.user \in Active(d) \/ <<s, d>> \in stray'
        \/ d \in socket[s].rooms /\ y.user = socket[s].user /\ <<s, d>> \notin stray
  BY <1>3, <1>4
<1>7. /\ stray' \subseteq Sockets \X ChatIds
      /\ \A t \in Sockets, d \in ChatIds : t # s /\ <<t, d>> \in stray => <<t, d>> \in stray'
  BY <1>1, <1>4
<1> QED BY <1>3, <1>4, <1>5, <1>6, <1>7, OneSocket

LEMMA DisconnectKeeps ==
  ASSUME ChatsInv, NEW t \in Sockets, Disconnect(t) PROVE ChatsInv'
<1>1. /\ socket \in [Sockets -> SocketRows] /\ req \in [Requests -> Calls]
      /\ stray \subseteq Sockets \X ChatIds
  BY DEF ChatsInv, SocketsOK, CallsOK
<1>2. /\ socket' = [socket EXCEPT ![t] = Off] /\ stray' = {p \in stray : p[1] # t}
      /\ req' = [r \in Requests |-> IF req[r].socket = t THEN Idle ELSE req[r]]
      /\ UNCHANGED <<chat, member, twin>>
  BY DEF Disconnect
<1>3. Off \in SocketRows /\ Off.rooms = {} /\ ~Off.asked
  BY DEF Off, SocketRows
<1>4. socket'[t] = Off /\ \A s \in Sockets : s # t => socket'[s] = socket[s]
  BY <1>1, <1>2
<1>5. SocketsOK'
  BY <1>1, <1>2, <1>3 DEF SocketsOK
<1>6. /\ req' \in [Requests -> Calls]
      /\ \A q \in Requests : req'[q] = req[q] \/ req'[q] = Idle
  BY <1>1, <1>2, IdleCall
<1>7. \A s \in Sockets : socket'[s].asked =>
        \A d \in socket'[s].found : socket'[s].user \in Active(d) \/ d \in socket'[s].stale
  BY <1>3, <1>4 DEF ChatsInv, SocketsKnow
<1>8. ASSUME NEW q \in Requests, req'[q].op = "join"
      PROVE  socket'[req'[q].socket].user = req'[q].user
  <2>1. req'[q] = req[q] /\ req[q].socket # t
    BY <1>2, <1>8 DEF Idle
  <2>2. req[q].socket \in Sockets /\ socket[req[q].socket].user = req[q].user
    BY <1>8, <2>1 DEF ChatsInv, SocketsKnow, CallsOK, CallFits
  <2> QED BY <2>1, <2>2, <1>4
<1>9. ASSUME NEW q \in Requests, req[q].op \in {"left", "deleted"} PROVE req'[q] = req[q]
  <2>1. req[q].socket = None
    BY <1>9 DEF ChatsInv, CallsOK, CallFits
  <2> QED BY <2>1, <1>2, ChatsAssumption
<1>10. ASSUME NEW s \in Sockets, NEW d \in socket'[s].rooms
       PROVE  \/ socket'[s].user \in Active(d) \/ <<s, d>> \in stray'
              \/ /\ d \in socket[s].rooms /\ socket'[s].user = socket[s].user /\ <<s, d>> \notin stray
                 /\ \A q \in Requests : req[q].op \in {"left", "deleted"} /\ req[q].chat = d
                                        /\ socket[s].user \in req[q].who => req'[q] = req[q]
  <2>1. s # t /\ socket'[s] = socket[s]
    BY <1>3, <1>4, <1>10
  <2>2. <<s, d>> \in stray => <<s, d>> \in stray'
    BY <1>2, <2>1
  <2> QED BY <2>1, <2>2, <1>9, <1>10
<1> QED BY <1>2, <1>5, <1>6, <1>7, <1>8, <1>10, RoomsKeep

-----------------------------------------------------------------------------
LEMMA StutterKeeps == ASSUME ChatsInv, UNCHANGED vars PROVE ChatsInv'
<1> USE DEF vars
<1>1. RowsOK' /\ SocketsOK' /\ CallsOK'
  BY DEF ChatsInv, RowsOK, SocketsOK, CallsOK, CallFits, Live, Members
<1>2. CallsKnow' /\ SocketsKnow'
  BY DEF ChatsInv, CallsKnow, Knows, SocketsKnow, Active
<1>3. CreationsOK' /\ DirectChatIsOne'
  BY DEF ChatsInv, CreationsOK, Creates, Apart, DirectChats, DirectChatIsOne, Members
<1>4. RoomsAreOfMembers'
  BY DEF ChatsInv, RoomsAreOfMembers, Active
<1> QED BY <1>1, <1>2, <1>3, <1>4 DEF ChatsInv

LEMMA InvNext == ASSUME ChatsInv, [Next]_vars PROVE ChatsInv'
<1>1. ASSUME NEW r \in Requests, Handler(r) PROVE ChatsInv'
  <2>1. CASE \E u \in Users, c \in ChatIds :
               \/ \E us \in SUBSET Users, type \in {"DIRECT", "GROUP"} : CreateCheck(r, u, us, type, c)
               \/ \E us \in SUBSET Users : AddCheck(r, u, c, us)
               \/ LeaveCheck(r, u, c)
               \/ DeleteCheck(r, u, c)
    BY <2>1, CreateCheckKeeps, AddCheckKeeps, LeaveCheckKeeps, DeleteCheckKeeps
  <2>2. CASE \E s \in Sockets, c \in ChatIds : JoinCheck(r, s, c)
    BY <2>2, JoinCheckKeeps
  <2>3. CASE \E v \in Users : AddMember(r, v)
    BY <2>3, AddMemberKeeps
  <2>4. CASE Create(r) \/ Reactivate(r) \/ ReadChat(r) \/ Enter(r) \/ AddEnd(r)
    BY <2>4, CreateKeeps, ReactivateKeeps, ReadChatKeeps, EnterKeeps, AddEndKeeps
  <2>5. CASE AddFail(r) \/ Fail(r)
    BY <2>5, GiveUpKeeps
  <2>6. CASE Leave(r) \/ Delete(r) \/ Join(r)
    BY <2>6, LeaveKeeps, DeleteKeeps, JoinKeeps
  <2>7. CASE NotifyLeft(r) \/ NotifyDeleted(r)
    BY <2>7, NotifyKeeps
  <2> QED BY <1>1, <2>1, <2>2, <2>3, <2>4, <2>5, <2>6, <2>7 DEF Handler
<1>2. ASSUME NEW s \in Sockets, Connection(s) PROVE ChatsInv'
  BY <1>2, ConnectKeeps, FindChatsKeeps, JoinFoundKeeps, LeaveRoomKeeps, DisconnectKeeps DEF Connection
<1> QED BY <1>1, <1>2, StutterKeeps DEF Next

LEMMA Invariance == Spec => []ChatsInv
<1> QED BY InvInit, InvNext, PTL DEF Spec

-----------------------------------------------------------------------------
\* Every variable keeps its type, and a chat has members as long as it is there: the
\* creator cannot leave it, and its memberships go with it (ChatsTypeOK).
THEOREM TypeCorrectness == Spec => []ChatsTypeOK
<1> QED BY Invariance, InvTypes, PTL

\* A socket hears only the chats of its user, whatever creations, additions, departures
\* and deletions run at the same time, except by a read that a change has overtaken
\* (joinOnlineUsersToChat, removeUsersFromChatRoom, handleConnection, join_chat).
THEOREM RoomsOfMembers == Spec => []RoomsAreOfMembers
<1>1. ChatsInv => RoomsAreOfMembers
  BY DEF ChatsInv
<1> QED BY <1>1, Invariance, PTL

\* findDirectChatBetweenUsers keeps a pair of users at one direct chat, unless they
\* open it twice at a time.
THEOREM OneDirectChat == Spec => []DirectChatIsOne
<1>1. ChatsInv => DirectChatIsOne
  BY DEF ChatsInv
<1> QED BY <1>1, Invariance, PTL
=============================================================================
