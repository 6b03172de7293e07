\* Two users, two chats, two devices, two handlers that overlap.
SPECIFICATION MCSpec
SYMMETRY Alike
CHECK_DEADLOCK FALSE
CONSTANTS
  Users = {u1, u2}
  ChatIds = {c1, c2}
  Sockets = {s1, s2}
  Requests = {r1, r2}
  Owner = u1
  Group = c1
  None = None
INVARIANTS
  ChatsTypeOK
  RoomsAreOfMembers
  DirectChatIsOne
