-------------------------------- MODULE Files --------------------------------
(***************************************************************************)
(* Uploaded files and the rows that show them: messages, comments on       *)
(* missions and plans, news, achievements, missions and avatars.           *)
(*                                                                         *)
(* A handler reads and checks in one step; then it has calls left to do,   *)
(* one after the other: removals of files, uploads, the write of its row,  *)
(* more removals.  It ends when one of them throws, and undoes nothing.    *)
(* Who may write where, and which post a reply may quote, is no state of   *)
(* this module: a call that is refused is no step.                         *)
(***************************************************************************)
EXTENDS Storage, Sequences

CONSTANTS
  Users,
  Posts,           \* ids of messages, comments, news, achievements and missions
  MaxAttachments   \* ATTACHMENT_MAX_COUNT

Kinds == {"message", "missionComment", "planComment", "news", "achievement", "mission"}

ASSUME FilesAssumption ==
  /\ MaxAttachments \in Nat
  /\ Posts \intersect Users = {}
  /\ None \notin Users \union Posts

VARIABLES
  post,     \* the rows with attachments and images
  avatar,   \* User.avatarId
  deleted,  \* the users whose rows are gone
  madeFor   \* history: the post or the user that a file was uploaded for

filesVars == <<file, stored, post, avatar, deleted, req, uploads, faults, madeFor, clashed, cut>>

-----------------------------------------------------------------------------
Subjects == Posts \union Users

PostRows == [kind : Kinds \union {"none", "gone"}, author : Users \union {None},
             on : Posts \union {None},   \* the mission of a comment
             attached : SUBSET Files, image : Files \union {None}]
NoPost == [kind |-> "none", author |-> None, on |-> None, attached |-> {}, image |-> None]
GonePost == [NoPost EXCEPT !.kind = "gone"]

\* What a handler has left to do: in this order, but for last, which is not begun
\* before the write is done.
Calls == [op : {"idle", "create", "update", "delete", "avatar"},
          of : Subjects \union {None},
          row : PostRows,                    \* the row to create
          first : SUBSET Files,              \* files to remove
          detached : Files \union {None},    \* one of them, after its attachment row
          emptied : Files \union {None},     \* a file after its object, before its row
          adds : SUBSET Uploads,
          then : SUBSET Files,               \* files to remove
          writes : BOOLEAN,
          last : SUBSET Files,               \* files to remove
          added : SUBSET Files,              \* the uploads that are done
          image : Files \union {None},
          clears : BOOLEAN]                  \* the row is to lose its image
Idle == [op |-> "idle", of |-> None, row |-> NoPost, first |-> {}, detached |-> None,
         emptied |-> None, adds |-> {}, then |-> {}, writes |-> FALSE, last |-> {},
         added |-> {}, image |-> None, clears |-> FALSE]

Live(p) == post[p].kind \in Kinds
Shown(p) == post[p].attached \union ({post[p].image} \ {None})
Owned(f) == (\E p \in Posts : f \in Shown(p)) \/ (\E u \in Users : avatar[u] = f)

\* No post shows more attachments than it may, unless two edits of it overlapped,
\* each within the limit by what it had read.
AttachmentLimit == \A p \in Posts : p \notin clashed =>
  Cardinality(post[p].attached) <= MaxAttachments

\* The rows of users who are gone show nothing, and no post is of theirs.
UserKeys ==
  /\ deleted \subseteq Users
  /\ \A u \in deleted : avatar[u] = None /\ \A p \in Posts : post[p].author # u

\* Types; foreign keys; the limit of attachments.
FilesTypeOK ==
  /\ StorageTypeOK
  /\ post \in [Posts -> PostRows]
  /\ avatar \in [Users -> Files \union {None}]
  /\ req \in [Requests -> Calls]
  /\ madeFor \in [Files -> Subjects \union {None}]
  /\ clashed \subseteq Subjects /\ cut \subseteq Subjects
  /\ \A p \in Posts : ~Live(p) => post[p] \in {NoPost, GonePost}
  /\ \A p \in Posts, f \in Files : f \in Shown(p) => Exists(f)
  /\ \A u \in Users : avatar[u] # None => Exists(avatar[u])
  /\ UserKeys
  /\ AttachmentLimit

FilesInit ==
  /\ StorageInit
  /\ post = [p \in Posts |-> NoPost]
  /\ avatar = [u \in Users |-> None]
  /\ deleted = {}
  /\ req = [r \in Requests |-> Idle]
  /\ madeFor = [f \in Files |-> None]

-----------------------------------------------------------------------------
\* The names of uploaded attachments (validateAttachmentFiles), None for a picture.
NameLists == UNION {[1..n -> Names \union {None}] : n \in 0..MaxAttachments}

\* uploadAttachmentFiles: side by side, which is any order.
Attachments(names) ==
  {Numbered(i, "message-attachments", names[i]) : i \in DOMAIN names}

\* The image, none or one, is uploaded apart from them.
Picture(names, bucket, given) ==
  {Numbered(i, bucket, None) : i \in IF given THEN {Len(names) + 1} ELSE {}}
IsPicture(t) == t.key.bucket # "message-attachments"

\* validateAttachmentUpdateCount
WithinLimit(p, removed, names) ==
  Cardinality(post[p].attached \ removed) + Len(names) <= MaxAttachments

Start(r, call, n) ==
  /\ Begin(r, call.of, call, n)
  /\ UNCHANGED <<file, stored, post, avatar, deleted, faults, madeFor, cut>>

Row(kind, u) == [NoPost EXCEPT !.kind = kind, !.author = u]

-----------------------------------------------------------------------------
\* The handlers, from their reads to their first call.
Create(r, p, row, names, bucket, image) ==
  /\ post[p] = NoPost /\ \A q \in Requests : req[q].of # p
  /\ Start(r, [Idle EXCEPT !.op = "create", !.of = p, !.row = row, !.writes = TRUE,
                           !.adds = Attachments(names) \union Picture(names, bucket, image)],
           Len(names) + IF image THEN 1 ELSE 0)

\* sendMessage
SendMessage(r, u, p, names) == Create(r, p, Row("message", u), names, None, FALSE)

\* MissionCommentsService.create
CreateMissionComment(r, u, p, m, names) ==
  /\ post[m].kind = "mission"
  /\ Create(r, p, [Row("missionComment", u) EXCEPT !.on = m], names, None, FALSE)

\* createComment
CreatePlanComment(r, u, p, names) == Create(r, p, Row("planComment", u), names, None, FALSE)

\* NewsService.create
CreateNews(r, u, p, names, image) ==
  Create(r, p, Row("news", u), names, "news-images", image)

\* AchievementsService.create: the icon is required, and the row has no author.
CreateAchievement(r, p) ==
  Create(r, p, Row("achievement", None), <<>>, "achievement-icons", TRUE)

\* createMission
CreateMission(r, u, p, image) ==
  Create(r, p, Row("mission", u), <<>>, "mission-images", image)

\* syncAttachmentUpdates and the write: each attachment to remove, its row and then
\* its file, then the uploads; then and last are for an old image.
Update(r, p, removed, names, bucket, image, then, last, clears) ==
  /\ removed \subseteq post[p].attached /\ WithinLimit(p, removed, names)
  /\ Start(r, [Idle EXCEPT !.op = "update", !.of = p, !.writes = TRUE, !.first = removed,
                           !.adds = Attachments(names) \union Picture(names, bucket, image),
                           !.then = then, !.last = last, !.clears = clears],
           Len(names) + IF image THEN 1 ELSE 0)

UpdateText(r, p, removed, names) ==
  Update(r, p, removed, names, None, FALSE, {}, {}, FALSE)

\* updateMessage
UpdateMessage(r, u, p, removed, names) ==
  /\ post[p].kind = "message" /\ post[p].author = u
  /\ UpdateText(r, p, removed, names)

\* MissionCommentsService.update
UpdateMissionComment(r, u, p, removed, names) ==
  /\ post[p].kind = "missionComment" /\ post[p].author = u
  /\ UpdateText(r, p, removed, names)

\* updateComment
UpdatePlanComment(r, u, p, removed, names) ==
  /\ post[p].kind = "planComment" /\ post[p].author = u
  /\ UpdateText(r, p, removed, names)

OldImage(p) == {post[p].image} \ {None}

\* NewsService.update: the old image goes before the row is written.
UpdateNews(r, p, removed, names, image, removeImage) ==
  /\ post[p].kind = "news"
  /\ Update(r, p, removed, names, "news-images", image,
            IF image \/ removeImage THEN OldImage(p) ELSE {}, {}, removeImage /\ ~image)

\* AchievementsService.update: the old icon goes after the row is written.
UpdateAchievement(r, p, image) ==
  /\ post[p].kind = "achievement"
  /\ Update(r, p, {}, <<>>, "achievement-icons", image,
            {}, IF image THEN OldImage(p) ELSE {}, FALSE)

\* updateMission: the old image stays in MinIO.
UpdateMission(r, p, image) ==
  /\ post[p].kind = "mission"
  /\ Update(r, p, {}, <<>>, "mission-images", image, {}, {}, FALSE)

\* The row, then the files that were read with it.
Delete(r, p, files) ==
  Start(r, [Idle EXCEPT !.op = "delete", !.of = p, !.writes = TRUE, !.last = files], 0)

\* deleteMessage
DeleteMessage(r, u, p) ==
  /\ post[p].kind = "message" /\ post[p].author = u
  /\ Delete(r, p, post[p].attached)

\* MissionCommentsService.delete
DeleteMissionComment(r, u, p) ==
  /\ post[p].kind = "missionComment" /\ post[p].author = u
  /\ Delete(r, p, post[p].attached)

\* deleteComment
DeletePlanComment(r, u, p) ==
  /\ post[p].kind = "planComment" /\ post[p].author = u
  /\ Delete(r, p, post[p].attached)

\* Mutant of DeleteNews: the image is forgotten.
DeleteNewsText(r, p) ==
  /\ post[p].kind = "news"
  /\ Delete(r, p, post[p].attached)

\* NewsService.delete
DeleteNews(r, p) ==
  /\ post[p].kind = "news"
  /\ Delete(r, p, OldImage(p) \union post[p].attached)

\* AchievementsService.delete
DeleteAchievement(r, p) ==
  /\ post[p].kind = "achievement"
  /\ Delete(r, p, OldImage(p))

\* deleteMission: the comments go with it, their files stay.
DeleteMission(r, p) ==
  /\ post[p].kind = "mission"
  /\ Delete(r, p, OldImage(p))

\* changeAvatar: the old file goes first.
ChangeAvatar(r, u) ==
  Start(r, [Idle EXCEPT !.op = "avatar", !.of = u, !.writes = TRUE,
                        !.first = {avatar[u]} \ {None},
                        !.adds = Picture(<<>>, "user-avatars", TRUE)], 1)

-----------------------------------------------------------------------------
\* What a handler does next.
Free(c) == c.detached = None /\ c.emptied = None

\* Mutant of MayEmpty: the file of an attachment goes before the row that shows it.
MayEmptyAtOnce(c, f) ==
  \/ f = c.detached
  \/ /\ Free(c)
     /\ \/ f \in c.first
        \/ f \in c.then /\ c.first = {} /\ c.adds = {}
        \/ f \in c.last /\ ~c.writes

MayEmpty(c, f) ==
  \/ f = c.detached
  \/ /\ Free(c)
     /\ \/ f \in c.first /\ c.op = "avatar"
        \/ f \in c.then /\ c.first = {} /\ c.adds = {}
        \/ f \in c.last /\ ~c.writes

\* A new row has its image uploaded before its attachments, an old one after them.
MayUpload(c, t) ==
  /\ t \in c.adds /\ Free(c) /\ c.first = {}
  /\ \A s \in c.adds \ {t} : ~IsPicture(IF c.op = "create" THEN s ELSE t)

MayWrite(c) == c.writes /\ Free(c) /\ c.first = {} /\ c.adds = {} /\ c.then = {}

\* The call is done with the removal of f.
Without(c, f) == [c EXCEPT !.first = @ \ {f}, !.then = @ \ {f}, !.last = @ \ {f},
                           !.detached = None, !.emptied = None]
Written(c) == [c EXCEPT !.writes = FALSE, !.added = {}, !.image = None]
Rest(c) == IF c.writes \/ c.last # {} \/ ~Free(c) THEN c ELSE Idle

\* prisma.messageAttachment.delete and its like
Detach(r) ==
  LET c == req[r]
  IN \E f \in c.first :
     /\ Free(c) /\ c.op = "update" /\ f \in post[c.of].attached
     /\ post' = [post EXCEPT ![c.of].attached = @ \ {f}]
     /\ req' = [req EXCEPT ![r] = [Without(c, f) EXCEPT !.detached = f]]
     /\ UNCHANGED <<file, stored, avatar, deleted, uploads, faults, madeFor, clashed, cut>>

\* statObject, removeObject; nothing to do for a row that is gone.
RemoveObject(r) ==
  LET c == req[r]
  IN \E f \in Files :
     /\ MayEmpty(c, f)
     /\ IF Exists(f)
        THEN /\ RemoveFrom(file[f])
             /\ req' = [req EXCEPT ![r] = [Without(c, f) EXCEPT !.emptied = f]]
        ELSE /\ req' = [req EXCEPT ![r] = Rest(Without(c, f))]
             /\ UNCHANGED stored
     /\ UNCHANGED <<file, post, avatar, deleted, uploads, faults, madeFor, clashed, cut>>

\* Mutant of DropRow: nothing follows the row.
DropRowOnly(r) ==
  LET f == req[r].emptied
  IN /\ f # None /\ Exists(f) /\ DeleteRow(f)
     /\ req' = [req EXCEPT ![r] = Rest(Without(@, f))]
     /\ UNCHANGED <<stored, post, avatar, deleted, uploads, faults, madeFor, clashed, cut>>

\* prisma.file.delete: attachment rows cascade, images and avatars become null.
DropRow(r) ==
  LET f == req[r].emptied
      Except(i) == IF i = f THEN None ELSE i
  IN /\ f # None /\ Exists(f) /\ DeleteRow(f)
     /\ post' = [p \in Posts |->
                  [post[p] EXCEPT !.attached = @ \ {f}, !.image = Except(@)]]
     /\ avatar' = [u \in Users |-> Except(avatar[u])]
     /\ req' = [req EXCEPT ![r] = Rest(Without(@, f))]
     /\ UNCHANGED <<stored, deleted, uploads, faults, madeFor, clashed, cut>>

UploadFile(r) ==
  LET c == req[r]
  IN \E t \in c.adds :
     /\ MayUpload(c, t) /\ PutFile(t)
     /\ madeFor' = [madeFor EXCEPT ![t.file] = c.of]
     /\ req' = [req EXCEPT ![r] = IF IsPicture(t)
                   THEN [c EXCEPT !.adds = @ \ {t}, !.image = t.file]
                   ELSE [c EXCEPT !.adds = @ \ {t}, !.added = @ \union {t.file}]]
     /\ UNCHANGED <<post, avatar, deleted, uploads, faults, clashed, cut>>

\* prisma.*.create
WriteNew(r) ==
  LET c == req[r]
  IN /\ MayWrite(c) /\ c.op = "create" /\ c.row.author \notin deleted
     /\ c.row.on # None => post[c.row.on].kind = "mission"
     /\ post' = [post EXCEPT ![c.of] = [c.row EXCEPT !.attached = c.added, !.image = c.image]]
     /\ req' = [req EXCEPT ![r] = Idle]
     /\ UNCHANGED <<file, stored, avatar, deleted, uploads, faults, madeFor, clashed, cut>>

\* prisma.*.update: adds the attachments; the image as asked.
WriteUpdate(r) ==
  LET c == req[r]
  IN /\ MayWrite(c) /\ c.op = "update" /\ Live(c.of)
     /\ post' = [post EXCEPT ![c.of].attached = @ \union c.added,
                             ![c.of].image = IF c.clears THEN None
                                             ELSE IF c.image # None THEN c.image ELSE @]
     /\ req' = [req EXCEPT ![r] = Rest(Written(c))]
     /\ UNCHANGED <<file, stored, avatar, deleted, uploads, faults, madeFor, clashed, cut>>

\* Rows that go; what they show stays in MinIO.
WithoutPosts(lost) == [p \in Posts |-> IF p \in lost THEN GonePost ELSE post[p]]

PlanComments == {p \in Posts : post[p].kind = "planComment"}

\* prisma.*.delete: with a mission its comments, and its games with the comments on
\* their plans, which may be any.
WriteDelete(r) ==
  LET c == req[r]
      comments == {p \in Posts : Live(p) /\ post[p].on = c.of}
      plans == IF post[c.of].kind = "mission" THEN PlanComments ELSE {}
  IN /\ MayWrite(c) /\ c.op = "delete" /\ Live(c.of)
     /\ \E lost \in SUBSET plans :
          /\ post' = WithoutPosts(lost \union comments \union {c.of})
          /\ cut' = cut \union lost \union comments
     /\ req' = [req EXCEPT ![r] = Rest(Written(c))]
     /\ UNCHANGED <<file, stored, avatar, deleted, uploads, faults, madeFor, clashed>>

WriteAvatar(r) ==
  /\ MayWrite(req[r]) /\ req[r].op = "avatar" /\ req[r].of \notin deleted
  /\ avatar' = [avatar EXCEPT ![req[r].of] = req[r].image]
  /\ req' = [req EXCEPT ![r] = Idle]
  /\ UNCHANGED <<file, stored, post, deleted, uploads, faults, madeFor, clashed, cut>>

\* The row of the next call is gone, or one that its row refers to: the call throws.
\* Whose chat or plan a text is for, what it answers, and who edits a piece of news, is
\* left out: it may be gone.
Misses(c) ==
  \/ Free(c) /\ c.op = "update" /\ c.first \ post[c.of].attached # {}
  \/ c.emptied # None /\ ~Exists(c.emptied)
  \/ MayWrite(c) /\ c.op \in {"update", "delete"} /\ ~Live(c.of)
  \/ MayWrite(c) /\ c.row.on # None /\ post[c.row.on].kind # "mission"
  \/ MayWrite(c) /\ {c.row.author, c.of} \intersect deleted # {}
  \/ MayWrite(c) /\ c.row.kind \in {"message", "missionComment", "planComment"}
  \/ MayWrite(c) /\ c.op = "update" /\ post[c.of].kind = "news" /\ deleted # {}

Throw(r) ==
  /\ Misses(req[r]) /\ GiveUp(r, Idle)
  /\ UNCHANGED <<file, stored, post, avatar, deleted, uploads, faults, madeFor, clashed>>

\* MinIO or the database fails a call; an upload may have left its object.
Fault(r) ==
  /\ req[r].op # "idle" /\ faults < MaxFaults
  /\ faults' = faults + 1
  /\ GiveUp(r, Idle)
  /\ \/ UNCHANGED stored
     \/ \E t \in req[r].adds :
          MayUpload(req[r], t) /\ stored' = [stored EXCEPT ![t.key] = t.file]
  /\ UNCHANGED <<file, post, avatar, deleted, uploads, madeFor, clashed>>

\* Posts go with what they belong to; their files stay.
Cascade(kind, lost) ==
  /\ lost # {} /\ \A p \in lost : post[p].kind = kind
  /\ post' = WithoutPosts(lost)
  /\ cut' = cut \union lost
  /\ UNCHANGED <<file, stored, avatar, deleted, req, uploads, faults, madeFor, clashed>>

\* deleteChat: the messages.
DeleteChat(messages) == Cascade("message", messages)

\* deleteGame, WeekendsService.delete, deleteMissionVersion: the comments on the plans.
DeleteGames(comments) == Cascade("planComment", comments)

\* UsersService.delete: refused to the author of a message or of a comment on a mission.
\* His news goes with him, and so do news that he edited last, which may be any, and his
\* comments on plans; his missions lose their author.  Their files stay, and so does the
\* one of his avatar.
DeleteUser(u) ==
  LET of == {p \in Posts : post[p].author = u}
  IN /\ u \notin deleted
     /\ \A p \in of : post[p].kind \notin {"message", "missionComment"}
     /\ \E edited \in SUBSET {p \in Posts : post[p].kind = "news"} :
          LET lost == edited \union {p \in of : post[p].kind \in {"news", "planComment"}}
          IN /\ post' = [p \in Posts |-> IF p \in lost THEN GonePost
                                        ELSE IF p \in of THEN [post[p] EXCEPT !.author = None]
                                        ELSE post[p]]
             /\ cut' = cut \union lost \union {u}
     /\ avatar' = [avatar EXCEPT ![u] = None]
     /\ deleted' = deleted \union {u}
     /\ UNCHANGED <<file, stored, req, uploads, faults, madeFor, clashed>>

-----------------------------------------------------------------------------
Creating(r) == \E u \in Users \ deleted, p \in Posts :
  \/ \E names \in NameLists :
       \/ SendMessage(r, u, p, names)
       \/ \E m \in Posts : CreateMissionComment(r, u, p, m, names)
       \/ CreatePlanComment(r, u, p, names)
       \/ \E image \in BOOLEAN : CreateNews(r, u, p, names, image)
  \/ CreateAchievement(r, p)
  \/ \E image \in BOOLEAN : CreateMission(r, u, p, image)

Updating(r) == \E p \in Posts :
  \/ \E removed \in SUBSET post[p].attached, names \in NameLists :
       \/ \E u \in Users : \/ UpdateMessage(r, u, p, removed, names)
                           \/ UpdateMissionComment(r, u, p, removed, names)
                           \/ UpdatePlanComment(r, u, p, removed, names)
       \/ \E image, removeImage \in BOOLEAN :
            UpdateNews(r, p, removed, names, image, removeImage)
  \/ \E image \in BOOLEAN : UpdateAchievement(r, p, image) \/ UpdateMission(r, p, image)

Deleting(r) == \E p \in Posts :
  \/ \E u \in Users : \/ DeleteMessage(r, u, p)
                      \/ DeleteMissionComment(r, u, p)
                      \/ DeletePlanComment(r, u, p)
  \/ DeleteNews(r, p)
  \/ DeleteAchievement(r, p)
  \/ DeleteMission(r, p)

FilesNext ==
  \/ \E r \in Requests :
       \/ Creating(r)
       \/ Updating(r)
       \/ Deleting(r)
       \/ \E u \in Users \ deleted : ChangeAvatar(r, u)
       \/ Detach(r)
       \/ RemoveObject(r)
       \/ DropRow(r)
       \/ UploadFile(r)
       \/ WriteNew(r)
       \/ WriteUpdate(r)
       \/ WriteDelete(r)
       \/ WriteAvatar(r)
       \/ Throw(r)
       \/ Fault(r)
  \/ \E lost \in SUBSET Posts : DeleteChat(lost) \/ DeleteGames(lost)
  \/ \E u \in Users : DeleteUser(u)

FilesSpec == FilesInit /\ [][FilesNext]_filesVars

-----------------------------------------------------------------------------
(* What the readers of a post rely on.                                     *)

ToRemove(c) == (c.first \union c.then \union c.last \union {c.detached, c.emptied}) \ {None}
Held(f) == \E r \in Requests : f \in req[r].added \union ToRemove(req[r]) \/ req[r].image = f

\* Whatever overlaps or fails, an attachment with a name of its own can be opened
\* as long as its post shows it; an image too, except while a handler deletes it
\* or after one that failed to.
OwnFileIsServed == \A p \in Posts : \A f \in Shown(p) :
  file[f].name = f =>
    \/ Served(f)
    \/ f = post[p].image /\ (p \in cut \/ Held(f))

\* A file that nobody shows is on its way to a post or out of MinIO, unless an
\* overlap or a failed call stranded it, a cascade took its post, or its user was
\* deleted.  A replaced mission image stays: the code never deletes it.
NoFileIsLost == \A f \in Files :
  Exists(f) /\ ~Owned(f) /\ ~Held(f) =>
    madeFor[f] \in clashed \union cut \/ file[f].bucket = "mission-images"
=============================================================================
